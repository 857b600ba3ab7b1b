----------------------------- MODULE EmbedAccess -----------------------------
(***************************************************************************)
(* URL embeds, who may open them, and the tunnel to them: the embeds and   *)
(* their access rules (src/urlEmbeds/index.ts), tunnel tokens              *)
(* (src/tunnel/index.ts), and the routes that issue and use them           *)
(* (src/api/tunnelRouter.ts, src/tunnel/forward.ts).  Administrators       *)
(* change embeds and rules while tokens are out.  Both collections are     *)
(* CollectionStores; a message is suspended at the await of each of its    *)
(* writes, which may be rejected, and the adapter may stop between any two *)
(* of them.                                                                *)
(*                                                                         *)
(* A definition named Action_Fault is the action with one plausible fault  *)
(* in it; no specification uses it, it shows that a property notices.      *)
(***************************************************************************)
EXTENDS AccessRules, CollectionStore

CONSTANTS
    EmbedIds,     \* ids of embeds
    Origins,      \* protocol and host of a URL
    Contexts,     \* contexts access tokens are issued for: [userId, deviceId, roleId]
    Grants,       \* what an administrator puts into an access rule
    NoEmbed,      \* no embed has that id, no URL
    Editors,      \* bound: messages of administrators served at a time
    TokenTTL,     \* TOKEN_TTL_MS
    MaxMinute,    \* bound: the last instant
    MaxGrants,    \* bound: access rules ever created
    MaxTunnels,   \* bound: tunnel tokens ever issued
    MaxEmbedEdits, \* bound: embeds created, changed, deleted
    MaxMishaps    \* bound: rejected writes and stops

ASSUME EmbedAssumption ==
    /\ {TokenTTL, MaxMinute, MaxGrants, MaxTunnels, MaxEmbedEdits, MaxMishaps} \subseteq Nat
    /\ NoEmbed \notin EmbedIds \cup Origins
    /\ \A g \in Grants : /\ {"urlEmbedId", "roleId", "userId", "deviceId"} \subseteq DOMAIN g
                          /\ g.urlEmbedId \in EmbedIds

VARIABLES
    minute,    \* Date.now()
    embeds,    \* urlEmbeds: the origin of each embed's URL
    access,    \* urlEmbedAccessRules, in the order of their creation
    messages,  \* what each message under way awaits: the embed it is about,
               \* and the rules a deletion has still to delete
    tokens,    \* TunnelService.sessions: [token, embed, ctx, expiresAt]
    forwarded, \* history: the last request that was forwarded
    made,      \* history: the ids given to embeds
    cut,       \* history: embeds of which a message was cut short (CutShort)
    counted    \* what is used up of the bounds

embedStores == <<embeds, access>>
embedVars == <<minute, embedStores, messages, tokens, forwarded, made, cut, counted>>

OnEmbeds == {"creating", "updating", "embed"}   \* awaits that end in the embeds
OnRules  == {"granting", "unlinking", "rules"}  \* and in the rules
NoMessage == [at |-> "none", embed |-> NoEmbed, left |-> {}]
NotForwarded == [to |-> NoEmbed]

EmbedTypeOK ==
    /\ minute \in 0..MaxMinute
    /\ {embeds.cache, embeds.disk} \subseteq [EmbedIds -> Origins \cup {NoEmbed}]
    /\ \A rules \in {access.cache, access.disk} : \A k \in DOMAIN rules :
          ValidSingleOwner(rules[k]) /\ rules[k].urlEmbedId \in EmbedIds
    /\ messages \in [Editors -> [at : {"none"} \cup OnEmbeds \cup OnRules,
                                 embed : EmbedIds \cup {NoEmbed}, left : SUBSET (1..counted.grants)]]
    /\ \A t \in tokens : t.token \in 1..counted.tunnels /\ t.embed \in EmbedIds /\ t.ctx \in Contexts
    /\ made \subseteq EmbedIds /\ cut \subseteq EmbedIds
    /\ counted \in [grants : 0..MaxGrants, tunnels : 0..MaxTunnels, edits : 0..MaxEmbedEdits,
                    mishaps : 0..MaxMishaps]

EmbedInit ==
    /\ minute = 0
    /\ embeds = Loaded([e \in EmbedIds |-> NoEmbed])
    /\ access = Loaded(<<>>)
    /\ messages = [h \in Editors |-> NoMessage]
    /\ tokens = {}
    /\ forwarded = NotForwarded
    /\ made = {} /\ cut = {}
    /\ counted = [grants |-> 0, tunnels |-> 0, edits |-> 0, mishaps |-> 0]

Count(what, limit) == counted[what] < limit /\ counted' = [counted EXCEPT ![what] = @ + 1]

----------------------------------------------------------------------------
(* The administrators                                                      *)

AwaitsOn(h, at, e, left) == messages' = [messages EXCEPT ![h] = [at |-> at, embed |-> e, left |-> left]]
Served(h) == messages' = [messages EXCEPT ![h] = NoMessage]

PutEmbed(h, e, origin) == embeds' = Update(embeds, h, [embeds.cache EXCEPT ![e] = origin])

\* create() with a valid URL; the id is a new uuid.
CreateEmbed(h, e, origin) ==
    /\ messages[h] = NoMessage /\ e \notin made
    /\ Count("edits", MaxEmbedEdits)
    /\ PutEmbed(h, e, origin)
    /\ made' = made \cup {e}
    /\ AwaitsOn(h, "creating", e, {})
    /\ UNCHANGED <<minute, access, tokens, forwarded, cut>>

\* update() with another URL
UpdateEmbed(h, e, origin) ==
    /\ messages[h] = NoMessage
    /\ embeds.cache[e] \notin {NoEmbed, origin}
    /\ Count("edits", MaxEmbedEdits)
    /\ PutEmbed(h, e, origin)
    /\ AwaitsOn(h, "updating", e, {})
    /\ UNCHANGED <<minute, access, tokens, forwarded, made, cut>>

\* The n-th rule that is created, as g asks for it.
Rule(n, g) == [f \in {"id"} \cup DOMAIN g |-> IF f = "id" THEN n ELSE g[f]]

\* createAccessRule()
CreateAccessRule_ForAnyId(h, g) ==
    /\ messages[h] = NoMessage
    /\ ValidSingleOwner(g)
    /\ Count("grants", MaxGrants)
    /\ access' = Update(access, h, Append(access.cache, Rule(counted.grants + 1, g)))
    /\ AwaitsOn(h, "granting", g.urlEmbedId, {})
    /\ UNCHANGED <<minute, embeds, tokens, forwarded, made, cut>>

CreateAccessRule(h, g) ==
    /\ messages[h] = NoMessage
    /\ ValidSingleOwner(g)
    /\ embeds.cache[g.urlEmbedId] # NoEmbed
    /\ Count("grants", MaxGrants)
    /\ access' = Update(access, h, Append(access.cache, Rule(counted.grants + 1, g)))
    /\ AwaitsOn(h, "granting", g.urlEmbedId, {})
    /\ UNCHANGED <<minute, embeds, tokens, forwarded, made, cut>>

\* deleteAccessRule(); of a rule that is gone it writes nothing.
DeleteAccessRule(h, k) ==
    /\ messages[h] = NoMessage
    /\ access' = Update(access, h, RemoveAt(access.cache, k))
    /\ AwaitsOn(h, "unlinking", access.cache[k].urlEmbedId, {})
    /\ UNCHANGED <<minute, embeds, tokens, forwarded, made, cut, counted>>

RulesOf(e) ==
    LET rules == access.cache IN
    {rules[k].id : k \in {l \in DOMAIN rules : rules[l].urlEmbedId = e}}

\* The loop of delete(): of the rules `todo` those that are still there are
\* deleted one by one, each deletion awaited; `store` is access as it is now.
DeleteNextRule(h, e, todo, store) ==
    LET rules == store.cache
        there == {k \in DOMAIN rules : rules[k].id \in todo} IN
    IF there = {} THEN Served(h) /\ access' = store
    ELSE /\ access' = Update(store, h, RemoveAt(rules, Earliest(there)))
         /\ AwaitsOn(h, "rules", e, todo \ {rules[Earliest(there)].id})

\* delete(): the embed goes at once; its rules are looked up when that is
\* saved.  Of an embed that is gone nothing is written: the rules come at once.
DeleteEmbed(h, e) ==
    /\ messages[h] = NoMessage /\ e \in made
    /\ Count("edits", MaxEmbedEdits)
    /\ \/ /\ embeds.cache[e] # NoEmbed
          /\ PutEmbed(h, e, NoEmbed)
          /\ AwaitsOn(h, "embed", e, {})
          /\ UNCHANGED access
       \/ /\ embeds.cache[e] = NoEmbed
          /\ DeleteNextRule(h, e, RulesOf(e), access)
          /\ UNCHANGED embeds
    /\ UNCHANGED <<minute, tokens, forwarded, made, cut>>

\* The embed is saved, or one of the rules.
DeleteGoesOn(h) ==
    LET m == messages[h] IN
    /\ \/ /\ m.at = "embed" /\ Settles(embeds, h)
          /\ embeds' = Landed(embeds)
          /\ DeleteNextRule(h, m.embed, RulesOf(m.embed), access)
       \/ /\ m.at = "rules" /\ Settles(access, h)
          /\ DeleteNextRule(h, m.embed, m.left, Landed(access))
          /\ UNCHANGED embeds
    /\ UNCHANGED <<minute, tokens, forwarded, made, cut, counted>>

\* The only write of any other message.
EditSaved(h) ==
    /\ \/ /\ messages[h].at \in {"creating", "updating"} /\ Settles(embeds, h)
          /\ embeds' = Landed(embeds) /\ UNCHANGED access
       \/ /\ messages[h].at \in {"granting", "unlinking"} /\ Settles(access, h)
          /\ access' = Landed(access) /\ UNCHANGED embeds
    /\ Served(h)
    /\ UNCHANGED <<minute, tokens, forwarded, made, cut, counted>>

\* The embed of a message that leaves something half done when it ends early:
\* that made or deleted the embed, or deleted rules of it.
CutShort(h) ==
    IF messages[h].at \in {"creating", "embed", "unlinking", "rules"} THEN {messages[h].embed} ELSE {}

\* setStateAsync rejects: the message throws, and what it changed stays changed.
EditRejected(h) ==
    /\ Count("mishaps", MaxMishaps)
    /\ \/ Settles(embeds, h) /\ embeds' = Rejected(embeds) /\ UNCHANGED access
       \/ Settles(access, h) /\ access' = Rejected(access) /\ UNCHANGED embeds
    /\ cut' = cut \cup CutShort(h)
    /\ Served(h)
    /\ UNCHANGED <<minute, tokens, forwarded, made>>

\* The adapter stops, between any two awaits, and starts again.
EmbedRestarts ==
    /\ Count("mishaps", MaxMishaps)
    /\ embeds' = Reloaded(embeds) /\ access' = Reloaded(access)
    /\ cut' = cut \cup UNION {CutShort(h) : h \in Editors}
    /\ messages' = [h \in Editors |-> NoMessage]
    /\ tokens' = {}
    /\ UNCHANGED <<minute, forwarded, made>>

----------------------------------------------------------------------------
(* Tunnel tokens.                                                          *)

\* evictExpired
Live == {t \in tokens : t.expiresAt >= minute}

SameWebView(t, e, ctx) == t.embed = e /\ t.ctx.deviceId = ctx.deviceId

\* POST /tunnel-token/:embedId of an admitted device
Issue(e, ctx) ==
    /\ embeds.cache[e] # NoEmbed
    /\ CanAccess(access.cache, e, ctx)
    /\ Count("tunnels", MaxTunnels)
    /\ tokens' = {t \in Live : ~SameWebView(t, e, ctx)}
         \cup {[token |-> counted.tunnels + 1, embed |-> e, ctx |-> ctx, expiresAt |-> minute + TokenTTL]}
    /\ UNCHANGED <<minute, embedStores, messages, forwarded, made, cut>>

\* What resolve() leaves of the tokens, and whether t is among them and good:
\* the embed is there, and may still be opened.
Resolves_CheckedAtIssueOnly(t) == embeds.cache[t.embed] # NoEmbed

Resolves(t) == embeds.cache[t.embed] # NoEmbed /\ CanAccess(access.cache, t.embed, t.ctx)

\* ALL /tunnel/proxy with an unknown or an expired token, or with one that
\* is not good any more, which it loses.
ProxyRefused(token) ==
    /\ \A t \in Live : t.token = token => ~Resolves(t)
    /\ tokens' = {t \in Live : t.token # token}
    /\ UNCHANGED <<minute, embedStores, messages, forwarded, made, cut, counted>>

\* With a good one, but out of the budget of RateLimiter, or with a path that
\* leaves the origin of the embed's URL.
ProxyKept(token) ==
    /\ \E t \in Live : t.token = token /\ Resolves(t)
    /\ tokens' = Live
    /\ UNCHANGED <<minute, embedStores, messages, forwarded, made, cut, counted>>

\* The origin a path leads to: the embed's own, unless it is absolute.
InsideOrigin(origin, path) == path \in {"relative", origin}

\* forwardTunnelRequest
Forward(token, path) ==
    \E t \in Live :
        /\ t.token = token /\ Resolves(t)
        /\ InsideOrigin(embeds.cache[t.embed], path)
        /\ tokens' = Live
        /\ forwarded' = [to |-> IF path = "relative" THEN embeds.cache[t.embed] ELSE path,
                         embed |-> t.embed, ctx |-> t.ctx, since |-> t.expiresAt - TokenTTL, at |-> minute,
                         granted |-> CanAccess(access.cache, t.embed, t.ctx), url |-> embeds.cache[t.embed]]
        /\ UNCHANGED <<minute, embedStores, messages, made, cut, counted>>

\* A device is revoked or deleted.
RevokeAllForDevice(d) ==
    /\ \E t \in tokens : t.ctx.deviceId = d
    /\ tokens' = {t \in tokens : t.ctx.deviceId # d}
    /\ UNCHANGED <<minute, embedStores, messages, forwarded, made, cut, counted>>

MinutePasses ==
    /\ minute < MaxMinute
    /\ minute' = minute + 1
    /\ UNCHANGED <<embedStores, messages, tokens, forwarded, made, cut, counted>>

Edit(h) ==
    \/ \E e \in EmbedIds : \E o \in Origins : CreateEmbed(h, e, o) \/ UpdateEmbed(h, e, o)
    \/ \E g \in Grants : CreateAccessRule(h, g)
    \/ \E k \in DOMAIN access.cache : DeleteAccessRule(h, k)
    \/ \E e \in EmbedIds : DeleteEmbed(h, e)
    \/ EditSaved(h) \/ DeleteGoesOn(h) \/ EditRejected(h)

EmbedNext ==
    \/ \E h \in Editors : Edit(h)
    \/ EmbedRestarts
    \/ \E e \in EmbedIds, ctx \in Contexts : Issue(e, ctx)
    \/ \E k \in 1..MaxTunnels : ProxyRefused(k) \/ ProxyKept(k)
    \/ \E k \in 1..MaxTunnels, path \in Origins \cup {"relative"} : Forward(k, path)
    \/ \E d \in {ctx.deviceId : ctx \in Contexts} : RevokeAllForDevice(d)
    \/ MinutePasses

EmbedSpec == EmbedInit /\ [][EmbedNext]_embedVars

----------------------------------------------------------------------------
(* Properties                                                              *)

\* No access rule names an embed that is gone, once its deletion is over,
\* whatever embeds and rules are created, changed and deleted meanwhile, and
\* however often the adapter starts with what was saved by then.  The code
\* promises it of messages that end well only (src/urlEmbeds/index.ts:123-129
\* has no transaction): a rejected write or a stop within the creation or the
\* deletion of an embed, or within the deletion of a rule, can leave rules behind.
NoOrphanRule ==
    \A k \in DOMAIN access.cache :
        LET e == access.cache[k].urlEmbedId IN
        \/ embeds.cache[e] # NoEmbed \/ e \in cut
        \/ \E h \in Editors : messages[h].embed = e /\ messages[h].at \in {"embed", "rules"}

\* "At most one live token per (device, embed)" (src/tunnel/index.ts:46), even
\* when the device's role or user changes between two tokens.  And what leaves
\* through the tunnel goes to the host of the embed's URL as it is then, for
\* a context that may open the embed then, and no later than TokenTTL after
\* that context asked for the token.
TunnelsAreEntitled ==
    /\ \A t, u \in tokens : t.embed = u.embed /\ t.ctx.deviceId = u.ctx.deviceId => t = u
    /\ forwarded # NotForwarded =>
          forwarded.granted /\ forwarded.to = forwarded.url /\ forwarded.at - forwarded.since <= TokenTTL
=============================================================================
