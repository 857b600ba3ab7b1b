------------------------------- MODULE Catalog -------------------------------
(***************************************************************************)
(* The catalogue (src/catalog/index.ts): what a client may see, under      *)
(* public ids, built while administrators change the exposure rules        *)
(* (src/exposure/index.ts, src/exposure/profiles.ts) and other clients     *)
(* build theirs.  effectiveCatalog awaits the object tree, then walks it   *)
(* in one stretch up to each entry that has no public id yet, whose        *)
(* mapping it stores and awaits.  The adapter may stop at any time.        *)
(*                                                                         *)
(* The version of a catalogue is a hash of the JSON of all rules; here it  *)
(* is the list of rules itself, so that two lists never share a version.   *)
(*                                                                         *)
(* A definition named Action_Fault is the action with one plausible fault  *)
(* in it; no specification uses it, it shows that a property notices.      *)
(***************************************************************************)
EXTENDS AccessRules, CollectionStore

CONSTANTS
    Clients,      \* whoever is building or holding a catalogue
    Previews,     \* those of them that are previews in the admin tab
    CtxOf,        \* [Clients -> [userId, deviceId, roleId]]
    Leaves,       \* states of ioBroker, in the order of browseObjectTree
    FirstLeaves,  \* those that exist from the start
    AlarmLog,     \* states with recorded alarms, in the order of listSince
    Bodies,       \* what an administrator puts into a new rule
    Patches,      \* what an administrator changes in one
    Owners,       \* roleId, userId and deviceId profiles are applied to
    NoCatalog,    \* what a client holds that never got a catalogue
    MaxRules,     \* bound: rules ever created
    MaxEdits,     \* bound: rules changed or deleted
    MaxFailures   \* bound: writes ioBroker rejects, and stops of the adapter

VARIABLES
    rules,     \* exposureRules, in the order of their creation
    ruleIds,   \* rules ever created
    edits,     \* rules changed or deleted
    past,      \* history: the lists of rules that were left
    onDisk,    \* the lists the state of exposureRules may hold
    profile,   \* the templates of an exposure profile, none before it is created
    profiles,  \* what the state of exposureProfiles may hold of it
    applying,  \* applyTo: the templates left, and the owner
    tree,      \* the leaves that exist
    mappings,  \* objectMappings, a store of [id, stateId]
    ids,       \* public ids ever made
    savedIds,  \* history: those whose own write has returned
    fetch,     \* what each client's request is in
    held,      \* the catalogue each client holds
    failures   \* rejected writes, and stops

ruleVars    == <<rules, ruleIds, edits, past, onDisk>>
profileVars == <<profile, profiles, applying>>
idVars      == <<mappings, ids, savedIds>>
catalogVars == <<ruleVars, profileVars, tree, idVars, fetch, held, failures>>

Leafs == {Leaves[i] : i \in DOMAIN Leaves}

\* browseObjectTree lists each state once; whoever makes a rule says whose it
\* is, and no change of a rule changes its id.
ASSUME CatalogAssumption ==
    /\ MaxRules \in Nat \ {0} /\ {MaxEdits, MaxFailures} \subseteq Nat
    /\ \A o \in Bodies \cup Owners : OwnerFields \subseteq DOMAIN o
    /\ \A p \in Patches : "id" \notin DOMAIN p
    /\ Leaves \in Seq(Leafs) /\ \A i, j \in DOMAIN Leaves : Leaves[i] = Leaves[j] => i = j
    /\ FirstLeaves \subseteq Leafs /\ AlarmLog \in Seq(Leafs)

NoApply == [left |-> <<>>, owner |-> NoOwner]
NoJob == [at |-> "idle", for |-> "catalog", version |-> <<>>, todo |-> <<>>, got |-> {},
         permission |-> DenyPermission, browsed |-> {}, skipped |-> {}, torn |-> FALSE]

CatalogTypeOK ==
    /\ ruleIds \in 0..MaxRules /\ edits \in 0..MaxEdits /\ failures \in 0..MaxFailures
    /\ \A k \in DOMAIN rules : rules[k].id \in 1..ruleIds /\ ValidSingleOwner(rules[k])
    /\ Len(applying.left) < MaxRules
    /\ tree \subseteq Leafs
    /\ ids \in Nat
    /\ \A m \in mappings.cache : m.stateId \in Leafs /\ m.id \in 1..ids
    /\ Waiting(mappings) = {c \in Clients : fetch[c].at = "storing"}
    /\ \A c \in Clients :
          /\ fetch[c].at \in {"idle", "tree", "storing"}
          /\ fetch[c].for \in {"catalog", "alarms"}
          /\ fetch[c].todo \in Seq(Leafs)
          /\ fetch[c].skipped \subseteq fetch[c].browsed
          /\ fetch[c].torn \in BOOLEAN

CatalogInit ==
    /\ rules = <<>> /\ ruleIds = 0 /\ edits = 0 /\ past = {}
    /\ onDisk = {<<>>} /\ profiles = {<<>>}
    /\ profile = <<>> /\ applying = NoApply
    /\ tree = FirstLeaves
    /\ mappings = Loaded({}) /\ ids = 0 /\ savedIds = {}
    /\ fetch = [c \in Clients |-> NoJob]
    /\ held = [c \in Clients |-> NoCatalog]
    /\ failures = 0

----------------------------------------------------------------------------
(* The administrator.                                                      *)

\* exposureStore changes in one step; a catalogue whose mapping is being
\* stored goes on under the new rules.  Which of the writes since the start
\* have reached the state is left open.
RulesBecome(R) ==
    /\ rules' = R
    /\ past' = past \cup {rules}
    /\ onDisk' = onDisk \cup {R}
    /\ fetch' = [c \in Clients |->
          [fetch[c] EXCEPT !.torn = @ \/ fetch[c].at = "storing"]]

\* ExposureService.create
Create(body) ==
    /\ ruleIds < MaxRules
    /\ ValidSingleOwner(body)
    /\ ruleIds' = ruleIds + 1
    /\ RulesBecome(Append(rules, Spread(body, [id |-> ruleIds'])))
    /\ UNCHANGED <<edits, tree, idVars, held, failures>>

CreateRule(body) == Create(body) /\ UNCHANGED profileVars

\* { ...existing, ...patch }, in the same place of the Map
UpdateRule_OwnersUnchecked(k, patch) ==
    /\ edits < MaxEdits
    /\ edits' = edits + 1
    /\ RulesBecome(ReplaceAt(rules, k, Spread(rules[k], patch)))
    /\ UNCHANGED <<ruleIds, profileVars, tree, idVars, held, failures>>

UpdateRule(k, patch) ==
    LET updated == Spread(rules[k], patch) IN
    /\ edits < MaxEdits
    /\ ValidSingleOwner(updated)
    /\ edits' = edits + 1
    /\ RulesBecome(ReplaceAt(rules, k, updated))
    /\ UNCHANGED <<ruleIds, profileVars, tree, idVars, held, failures>>

DeleteRule(k) ==
    /\ edits < MaxEdits
    /\ edits' = edits + 1
    /\ RulesBecome(RemoveAt(rules, k))
    /\ UNCHANGED <<ruleIds, profileVars, tree, idVars, held, failures>>

\* toTemplate: a rule without its id and its owner
ToTemplate(rule) == [f \in DOMAIN rule \ ({"id"} \cup OwnerFields) |-> rule[f]]

\* The i-th of the places K.
Nth(K, i) == CHOOSE k \in K : Cardinality({l \in K : l <= k}) = i

\* createFromOwner: a copy of every rule that has this owner, in their order
CreateProfile(owner) ==
    LET owned == {k \in DOMAIN rules : \A f \in OwnerFields : owner[f] # NoOwner => rules[k][f] = owner[f]} IN
    /\ profile = <<>> /\ owned # {}
    /\ profile' = [i \in 1..Cardinality(owned) |-> ToTemplate(rules[Nth(owned, i)])]
    /\ profiles' = profiles \cup {profile'}
    /\ UNCHANGED <<ruleVars, applying, tree, idVars, fetch, held, failures>>

DeleteProfile ==
    /\ profile # <<>>
    /\ profile' = <<>>
    /\ profiles' = profiles \cup {<<>>}
    /\ UNCHANGED <<ruleVars, applying, tree, idVars, fetch, held, failures>>

\* applyTo: the first template becomes a rule at once, each later one when
\* the write of the one before has returned; a rejected write ends it.
StartApply(owner) ==
    /\ applying = NoApply /\ profile # <<>>
    /\ Create(Spread(Head(profile), owner))
    /\ applying' = [left |-> Tail(profile), owner |-> owner]
    /\ UNCHANGED <<profile, profiles>>

ApplyNext ==
    /\ applying # NoApply
    /\ IF applying.left = <<>>
       THEN /\ applying' = NoApply
            /\ UNCHANGED <<ruleVars, tree, idVars, fetch, held, failures>>
       ELSE /\ Create(Spread(Head(applying.left), applying.owner))
            /\ applying' = [applying EXCEPT !.left = Tail(@)]
    /\ UNCHANGED <<profile, profiles>>

ApplyFails ==
    /\ applying # NoApply
    /\ failures < MaxFailures
    /\ failures' = failures + 1
    /\ applying' = NoApply
    /\ UNCHANGED <<ruleVars, profile, profiles, tree, idVars, fetch, held>>

----------------------------------------------------------------------------
(* Public ids and the requests that hand them out.                         *)

\* findOne: in the cache, saved or not
Mapped_OnlyIfSaved(s) ==
    /\ \E m \in mappings.cache : m.stateId = s
    /\ ~\E c \in Clients : fetch[c].at = "storing" /\ Head(fetch[c].todo) = s

Mapped(s) == \E m \in mappings.cache : m.stateId = s

PublicId(s) == (CHOOSE m \in mappings.cache : m.stateId = s).id

Entry(s, permission) == [state |-> s, id |-> PublicId(s), permission |-> permission]

\* resolveAuthorized: whether a public id is good for `need` now
ResolveAuthorized(id, c, need) ==
    \E m \in mappings.cache : m.id = id /\ need \in Resolve(rules, m.stateId, CtxOf[c]).rights

\* The states of its answer; the loop takes them in the order of Leaves.
BrowseObjectTree == {s \in tree : ~IsBlockedStateId(s)}

\* The version of the answer: the one read after the tree had arrived.
AnswerVersion_ReadLast(job) == rules

AnswerVersion(job) == job.version

\* The answer goes out.  Only an app keeps a catalogue, to ask for it again
\* by its version; a list of alarms is not kept.
AnswerCatalog(c, job) ==
    /\ fetch' = [fetch EXCEPT ![c] = NoJob]
    /\ held' = IF job.for = "alarms" \/ c \in Previews THEN held
               ELSE [held EXCEPT ![c] = [version |-> AnswerVersion(job), objects |-> job.got,
                        browsed |-> job.browsed, skipped |-> job.skipped, torn |-> job.torn]]

\* The loop up to the next entry the client may read that has no public id:
\* its mapping enters the cache of `store` and is written.  Without one, the
\* answer.
Walk(c, job, store) ==
    LET readable == {i \in DOMAIN job.todo : job.todo[i] \in job.browsed /\ CanRead(rules, job.todo[i], CtxOf[c])}
        new      == {i \in readable : ~Mapped(job.todo[i])}
        n        == IF new = {} THEN Len(job.todo) ELSE Earliest(new) - 1
        s        == job.todo[n + 1]
        done     == {Entry(job.todo[i], Resolve(rules, job.todo[i], CtxOf[c])) : i \in readable \cap 1..n}
        walked   == [job EXCEPT !.got = @ \cup done] IN
    IF new = {}
    THEN AnswerCatalog(c, walked) /\ mappings' = store /\ UNCHANGED ids
    ELSE /\ ids' = ids + 1
         /\ mappings' = Update(store, c, store.cache \cup {[id |-> ids', stateId |-> s]})
         /\ fetch' = [fetch EXCEPT ![c] = [walked EXCEPT !.at = "storing",
                         !.todo = SubSeq(job.todo, n + 1, Len(job.todo)),
                         !.permission = Resolve(rules, s, CtxOf[c])]]
         /\ UNCHANGED held

\* GET /catalog?version= of an app that is not up to date, or previewCatalog
AskCatalog(c) ==
    /\ fetch[c].at = "idle"
    /\ held[c] # NoCatalog => held[c].version # rules
    /\ fetch' = [fetch EXCEPT ![c] = [NoJob EXCEPT !.at = "tree"]]
    /\ UNCHANGED <<ruleVars, profileVars, tree, idVars, held, failures>>

\* browseObjectTree returns
TreeArrives(c) ==
    /\ fetch[c].at = "tree"
    /\ Walk(c, [fetch[c] EXCEPT !.version = rules, !.todo = Leaves, !.browsed = BrowseObjectTree],
            mappings)
    /\ UNCHANGED <<ruleVars, profileVars, tree, savedIds, failures>>

\* GET /alarm-events
AskAlarmEvents(c) ==
    /\ fetch[c].at = "idle" /\ c \notin Previews
    /\ Walk(c, [NoJob EXCEPT !.for = "alarms", !.todo = AlarmLog, !.browsed = ToSet(AlarmLog)], mappings)
    /\ UNCHANGED <<ruleVars, profileVars, tree, savedIds, failures>>

\* The mapping is saved: the entry is listed with the permission it had
\* before, and the loop goes on.
MappingSaved(c) ==
    LET job == fetch[c] IN
    /\ job.at = "storing" /\ Settles(mappings, c)
    /\ savedIds' = savedIds \cup {PublicId(Head(job.todo))}
    /\ Walk(c, [job EXCEPT !.todo = Tail(@),
                   !.got = @ \cup {Entry(Head(job.todo), job.permission)}], Landed(mappings))
    /\ UNCHANGED <<ruleVars, profileVars, tree, failures>>

\* The write is rejected: a catalogue goes on without the entry, a list of
\* alarms is an error.  The mapping stays in the cache.
MappingRejected(c) ==
    LET job == fetch[c] IN
    /\ job.at = "storing" /\ Settles(mappings, c)
    /\ failures < MaxFailures
    /\ failures' = failures + 1
    /\ IF job.for = "alarms"
       THEN /\ mappings' = Rejected(mappings)
            /\ fetch' = [fetch EXCEPT ![c] = NoJob]
            /\ UNCHANGED <<ids, held>>
       ELSE Walk(c, [job EXCEPT !.todo = Tail(@), !.skipped = @ \cup {Head(job.todo)}],
                 Rejected(mappings))
    /\ UNCHANGED <<ruleVars, profileVars, tree, savedIds>>

\* ioBroker gets another state.
LeafAppears(s) ==
    /\ s \notin tree
    /\ tree' = tree \cup {s}
    /\ UNCHANGED <<ruleVars, profileVars, idVars, fetch, held, failures>>

\* The adapter stops and starts: every request ends, the stores read back what
\* had reached ioBroker, and the apps keep their catalogues.
CatalogRestarts ==
    /\ failures < MaxFailures
    /\ failures' = failures + 1
    /\ rules' \in onDisk /\ onDisk' = {rules'} /\ past' = past \cup {rules}
    /\ profile' \in profiles /\ profiles' = {profile'}
    /\ applying' = NoApply
    /\ mappings' = Reloaded(mappings)
    /\ fetch' = [c \in Clients |-> NoJob]
    /\ UNCHANGED <<ruleIds, edits, tree, ids, savedIds, held>>

CatalogNext ==
    \/ \E b \in Bodies : CreateRule(b)
    \/ \E k \in DOMAIN rules : (\E p \in Patches : UpdateRule(k, p)) \/ DeleteRule(k)
    \/ \E o \in Owners : CreateProfile(o) \/ StartApply(o)
    \/ DeleteProfile \/ ApplyNext \/ ApplyFails
    \/ \E c \in Clients : AskCatalog(c) \/ TreeArrives(c) \/ AskAlarmEvents(c)
                            \/ MappingSaved(c) \/ MappingRejected(c)
    \/ \E s \in Leafs : LeafAppears(s)
    \/ CatalogRestarts

CatalogSpec == CatalogInit /\ [][CatalogNext]_catalogVars

----------------------------------------------------------------------------
(* Properties                                                              *)

Means(id, s) == \E m \in mappings.cache : m.id = id /\ m.stateId = s

\* Public ids that a restart has forgotten.
Lost == (1..ids) \ {m.id : m \in mappings.cache}

\* getOrCreateMapping: at no time has a state two public ids, however many
\* requests meet it for the first time at once; an id whose own write has
\* returned is saved and stays the id of its state, whatever writes fail and
\* whenever the adapter stops; an id that an app holds is never that of
\* another state; and nothing under a blocked prefix ever gets one, whatever
\* the rules say and whichever way a request comes.
OneIdPerState ==
    /\ \A m, n \in mappings.cache : m.stateId = n.stateId \/ m.id = n.id => m = n
    /\ \A m \in mappings.cache : ~IsBlockedStateId(m.stateId)
    /\ savedIds \subseteq {m.id : m \in mappings.disk \cap mappings.cache}
    /\ \A c \in Clients : held[c] # NoCatalog =>
          \A o \in held[c].objects, m \in mappings.cache : m.id = o.id => m.stateId = o.state

\* An app whose version is the current one.  One for which the rules changed
\* while it was built does not count once they are changed back.
UpToDate(c) ==
    /\ held[c] # NoCatalog
    /\ held[c].version = rules
    /\ ~(held[c].torn /\ rules \in past)

\* The states among S whose mapping could be stored and that c may read.
MayRead(c, S) == {s \in S \ held[c].skipped : CanRead(rules, s, CtxOf[c])}

\* "unchanged": true is the truth about the tree as it was read.  An app that
\* is up to date holds exactly the objects of that tree it may read now, each
\* once, with the permission it has now, and each under an id that is good
\* for it now - or under one that a restart has forgotten because it was
\* handed out before its write had landed.
UnchangedIsExact ==
    \A c \in Clients : UpToDate(c) =>
        /\ {o.state : o \in held[c].objects} = MayRead(c, held[c].browsed)
        /\ \A o \in held[c].objects :
              /\ o.permission = Resolve(rules, o.state, CtxOf[c])
              /\ \A p \in held[c].objects : p.state = o.state => p = o
              /\ \/ Means(o.id, o.state) /\ ResolveAuthorized(o.id, c, "read")
                 \/ o.id \in Lost \ savedIds

\* currentVersion: "newly-appeared objects are invisible until a rule is
\* created for them anyway (deny by default), which DOES change the version"
\* (src/catalog/index.ts): an app that is up to date misses no state of
\* ioBroker that it may read.  TLC refutes it: a state may appear under a
\* standing rule on its channel.
NewStatesChangeVersion ==
    \A c \in Clients : UpToDate(c) =>
        MayRead(c, BrowseObjectTree) \subseteq {o.state : o \in held[c].objects}

\* How closely a rule speaks of a context.
Rank(rule, ctx) ==
    IF ForDevice(rule, ctx) THEN 3 ELSE IF ForUser(rule, ctx) THEN 2
    ELSE IF ForRole(rule, ctx) THEN 1 ELSE 0

\* A new rule that does not deny, created by hand or from a profile, gives
\* and takes nothing where a rule of the same level or a closer one speaks
\* already: the older rule goes on deciding.
GrantsOnlyFillGaps ==
    [][ruleIds' > ruleIds =>
         LET new == Last(rules') IN
         \A c \in Clients, s \in Leafs :
            (/\ ~new.deny
             /\ \E k \in MatchingRules(rules, s) :
                   Rank(rules[k], CtxOf[c]) > 0 /\ Rank(rules[k], CtxOf[c]) >= Rank(new, CtxOf[c]))
            => Resolve(rules', s, CtxOf[c]) = Resolve(rules, s, CtxOf[c])]_catalogVars
=============================================================================
