------------------------------- MODULE Storage -------------------------------
(***************************************************************************)
(* What a CollectionStore promises the services built on it: several       *)
(* handlers change one collection, each awaiting its own change, writes    *)
(* fail, and the adapter dies at any moment.                               *)
(*                                                                         *)
(* An item is the number of the change that last touched it, so that       *)
(* "newer" is "greater"; a removal is a change too, and gone holds the     *)
(* numbers of the removals.                                                *)
(*                                                                         *)
(* A definition named Action_Fault is the action with one plausible fault  *)
(* in it; no specification uses it, it shows that a property notices.      *)
(***************************************************************************)
EXTENDS CollectionStore, Naturals

CONSTANTS
    Callers,    \* handlers that use the collection
    Ids,        \* ids of its items
    MaxChanges, \* bound: changes made in all
    MaxCrashes  \* bound: restarts of the adapter

ASSUME ConstantsAssumption == MaxChanges \in Nat /\ MaxCrashes \in Nat

VARIABLES
    store,     \* the collection
    changes,   \* changes made so far
    gone,      \* the changes that took items out; 0 stands for never there
    promised,  \* history: the newest change of an item whose await returned
    found,     \* history: the removal of an item that a delete has found made,
               \* and answered without a write, since the last start
    crashes

vars == <<store, changes, gone, promised, found, crashes>>

Content == [Ids -> Nat]
Write == [by : [caller : Callers, ids : SUBSET Ids, no : Nat], json : Content]

TypeOK ==
    /\ store \in [cache : Content, disk : Content, writes : Seq(Write)]
    /\ changes \in Nat
    /\ gone \subseteq Nat
    /\ promised \in Content /\ found \in Content
    /\ crashes \in Nat

Init ==
    /\ store = Loaded([i \in Ids |-> 0])
    /\ changes = 0
    /\ gone = {0}
    /\ promised = [i \in Ids |-> 0]
    /\ found = [i \in Ids |-> 0]
    /\ crashes = 0

----------------------------------------------------------------------------
Idle(c) == \A w \in Waiting(store) : w.caller # c

\* The cache with a new value, or none, under every id of S.
Changed(S) == [i \in Ids |-> IF i \in S THEN changes + 1 ELSE store.cache[i]]

There(i) == store.cache[i] \notin gone

\* The cache changes in the caller's own step, the JSON written is the whole
\* changed cache.
Change_JsonTakenBefore(c, S) ==
    /\ Idle(c) /\ changes < MaxChanges
    /\ changes' = changes + 1
    /\ store' = [Update(store, [caller |-> c, ids |-> S, no |-> changes'], store.cache)
                    EXCEPT !.cache = Changed(S)]
    /\ UNCHANGED <<promised, found, crashes>>

Change(c, S) ==
    /\ Idle(c) /\ changes < MaxChanges
    /\ changes' = changes + 1
    /\ store' = Update(store, [caller |-> c, ids |-> S, no |-> changes'], Changed(S))
    /\ UNCHANGED <<promised, found, crashes>>

\* put, putMany
Put(c, S) == Change(c, S) /\ UNCHANGED gone

\* delete of an item in the cache, trim, retain (which writes even if everything
\* is kept)
TakeOut(c, S) ==
    /\ \A i \in S : There(i)
    /\ Change(c, S)
    /\ gone' = gone \cup {changes'}

\* delete of an item no longer in the cache returns at once, whatever has become
\* of the write that took it out.  (A trim with nothing to drop does so too,
\* and tells nobody anything.)
DeleteAbsent(i) ==
    /\ ~There(i)
    /\ found' = [found EXCEPT ![i] = store.cache[i]]
    /\ UNCHANGED <<store, changes, gone, promised, crashes>>

\* setStateAsync settles and the awaiting caller goes on: its change is safe.
Return_NewestFirst ==
    LET W == store.writes  w == W[Len(W)] IN
    /\ W # <<>>
    /\ store' = [store EXCEPT !.disk = w.json, !.writes = SubSeq(W, 1, Len(W) - 1)]
    /\ promised' = [i \in Ids |-> IF i \in w.by.ids THEN w.by.no ELSE promised[i]]
    /\ UNCHANGED <<changes, gone, found, crashes>>

Return ==
    LET w == Head(store.writes) IN
    /\ store.writes # <<>>
    /\ store' = Landed(store)
    /\ promised' = [i \in Ids |-> IF i \in w.by.ids THEN w.by.no ELSE promised[i]]
    /\ UNCHANGED <<changes, gone, found, crashes>>

\* setStateAsync rejects: the caller gets the error, the cache keeps the change.
Fail ==
    /\ store.writes # <<>>
    /\ store' = Rejected(store)
    /\ UNCHANGED <<changes, gone, promised, found, crashes>>

Restart ==
    /\ crashes < MaxCrashes
    /\ crashes' = crashes + 1
    /\ store' = Reloaded(store)
    /\ found' = [i \in Ids |-> 0]
    /\ UNCHANGED <<changes, gone, promised>>

Next ==
    \/ \E c \in Callers, S \in SUBSET Ids : Put(c, S) \/ TakeOut(c, S)
    \/ \E i \in Ids : DeleteAbsent(i)
    \/ Return
    \/ Fail
    \/ Restart

Spec == Init /\ [][Next]_vars

----------------------------------------------------------------------------
(* Properties                                                              *)

NoOlder(a, b) == \A i \in Ids : a[i] <= b[i]

\* A change whose write was awaited is on disk and in the cache for ever, or a
\* newer change of the same item is: over restarts, failed writes of other
\* callers and any overlap of the callers.  A delete that found the item gone
\* has awaited nothing: its answer holds until the next start and no longer.
AwaitedIsDurable ==
    /\ NoOlder(promised, store.disk)
    /\ NoOlder(promised, store.cache)
    /\ NoOlder(found, store.cache)

\* The collection on disk never goes back: no write under way can undo a
\* change that an earlier one has saved.
DiskNeverGoesBack == [][NoOlder(store.disk, store'.disk)]_vars

\* The strengthening: along the queue every JSON is newer than the one
\* before, the first newer than the disk, the last no newer than the cache,
\* and each carries the change of whoever awaits it.
InOrder ==
    LET W == store.writes IN
    /\ NoOlder(store.disk, store.cache)
    /\ \A i \in Ids : store.cache[i] <= changes
    /\ \A k \in DOMAIN W :
          /\ NoOlder(store.disk, W[k].json)
          /\ NoOlder(W[k].json, store.cache)
          /\ \A i \in W[k].by.ids : W[k].by.no <= W[k].json[i]
          /\ \A m \in DOMAIN W : k < m => NoOlder(W[k].json, W[m].json)
=============================================================================
