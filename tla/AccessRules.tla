----------------------------- MODULE AccessRules -----------------------------
(***************************************************************************)
(* Who may do what with a state: the exposure rules                        *)
(* (src/exposure/index.ts), their resolution (src/authorization/index.ts)  *)
(* and the access rules of URL embeds (src/urlEmbeds/index.ts), which are  *)
(* resolved the same way.  Operators only: Catalog and EmbedAccess use     *)
(* them.                                                                   *)
(*                                                                         *)
(* A state id is the sequence of its segments.  A rule is a record with an *)
(* owner (roleId, userId, deviceId: exactly one of them is set), a scope   *)
(* with its target, deny, the rights it gives and the terms that go with   *)
(* them (limits, confirmation policy, display name).  The ids in the JSON  *)
(* of a "group" target are its members; there are none when it is no JSON. *)
(***************************************************************************)
EXTENDS Naturals, SequencesExt

CONSTANTS
    NoOwner,       \* null in roleId, userId or deviceId
    BlockedRoots,  \* first segments of BLOCKED_PREFIXES
    Star           \* the segment "*" of a pattern

----------------------------------------------------------------------------
IsBlockedStateId(id) == Len(id) > 1 /\ Head(id) \in BlockedRoots

\* At most one "*", which takes the place of one segment or several.
MatchesGlob(pattern, id) ==
    \/ id = pattern
    \/ \E i \in DOMAIN pattern :
          /\ pattern[i] = Star
          /\ Len(id) >= Len(pattern)
          /\ IsPrefix(SubSeq(pattern, 1, i - 1), id)
          /\ IsSuffix(SubSeq(pattern, i + 1, Len(pattern)), id)

MatchesScope(rule, id) ==
    \/ rule.scope \in {"state", "alias"} /\ id = rule.target
    \/ rule.scope \in {"channel", "device", "adapter"} /\ IsPrefix(rule.target, id)
    \/ rule.scope = "group" /\ id \in rule.members
    \/ rule.scope = "pattern" /\ MatchesGlob(rule.target, id)

\* matchingRules, as the places of the rules in the list
MatchingRules(rules, id) ==
    {k \in DOMAIN rules : ~IsBlockedStateId(id) /\ MatchesScope(rules[k], id)}

\* { ...rule, ...fields }
Spread(rule, fields) ==
    [f \in DOMAIN rule \cup DOMAIN fields |-> IF f \in DOMAIN fields THEN fields[f] ELSE rule[f]]

OwnerFields == {"roleId", "userId", "deviceId"}

ValidSingleOwner(rule) ==
    \E f \in OwnerFields : rule[f] # NoOwner /\ \A g \in OwnerFields \ {f} : rule[g] = NoOwner

----------------------------------------------------------------------------
\* The three levels at which a rule can speak of a context.
ForDevice(rule, ctx) == rule.deviceId = ctx.deviceId
ForUser(rule, ctx)   == rule.userId = ctx.userId /\ rule.deviceId = NoOwner
ForRole(rule, ctx)   == /\ rule.roleId = ctx.roleId
                        /\ rule.userId = NoOwner
                        /\ rule.deviceId = NoOwner

\* The places K of `rules` whose rule applies to the context.
Applying(rules, K, ctx) ==
    {k \in K : ForDevice(rules[k], ctx) \/ ForUser(rules[k], ctx) \/ ForRole(rules[k], ctx)}

\* find: the first of the places K
Earliest(K) == CHOOSE k \in K : \A l \in K : k <= l

\* The place of the rule that decides, 0 when none does: a rule that denies
\* beats all, then deviceRule ?? userRule ?? roleRule, the first of its level.
Deciding_RoleFirst(rules, K, ctx) ==
    LET A == Applying(rules, K, ctx)
        R == {k \in A : ForRole(rules[k], ctx)} IN
    IF (\E k \in A : rules[k].deny) \/ A = {} THEN 0
    ELSE IF R # {} THEN Earliest(R) ELSE Earliest(A)

Deciding(rules, K, ctx) ==
    LET A == Applying(rules, K, ctx)
        D == {k \in A : ForDevice(rules[k], ctx)}
        U == {k \in A : ForUser(rules[k], ctx)}
        R == {k \in A : ForRole(rules[k], ctx)} IN
    IF (\E k \in A : rules[k].deny) \/ A = {} THEN 0
    ELSE IF D # {} THEN Earliest(D)
    ELSE IF U # {} THEN Earliest(U)
    ELSE Earliest(R)

----------------------------------------------------------------------------
DenyPermission == [rights |-> {}, terms |-> "none"]
ToPermission(rule) == [rights |-> rule.rights, terms |-> rule.terms]

\* AuthorizationService.resolve
Resolve(rules, id, ctx) ==
    LET k == Deciding(rules, MatchingRules(rules, id), ctx) IN
    IF k = 0 THEN DenyPermission ELSE ToPermission(rules[k])

CanRead(rules, id, ctx) == "read" \in Resolve(rules, id, ctx).rights

\* UrlEmbedsService.canAccess, over the access rules
CanAccess(access, embed, ctx) ==
    Deciding(access, {k \in DOMAIN access : access[k].urlEmbedId = embed}, ctx) # 0
=============================================================================
