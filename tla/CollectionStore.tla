--------------------------- MODULE CollectionStore ---------------------------
(***************************************************************************)
(* CollectionStore (src/lib/store.ts) as a value: the cache every reader   *)
(* sees, the JSON in the collection's ioBroker state, and the setStateAsync*)
(* calls under way, oldest first, each with whoever awaits it.  put,       *)
(* putMany, delete, trim and retain all change the cache at once and then  *)
(* await persist(), which writes the WHOLE cache as it is at that moment.  *)
(*                                                                         *)
(* ioBroker (external) takes the writes of one state in the order of the   *)
(* calls.                                                                  *)
(***************************************************************************)
EXTENDS Sequences

\* After init(): the cache is what the state held.
Loaded(content) == [cache |-> content, disk |-> content, writes |-> <<>>]

\* A change of the cache, and its persist(), awaited by `by`.
Update(store, by, content) ==
    [cache  |-> content,
     disk   |-> store.disk,
     writes |-> Append(store.writes, [by |-> by, json |-> content])]

\* The oldest write reaches the state, or setStateAsync rejects.
Landed(store) ==
    [cache  |-> store.cache,
     disk   |-> Head(store.writes).json,
     writes |-> Tail(store.writes)]

Rejected(store) ==
    [cache  |-> store.cache,
     disk   |-> store.disk,
     writes |-> Tail(store.writes)]

Waiting(store) == {store.writes[i].by : i \in DOMAIN store.writes}

\* The oldest write is the one that `by` awaits.
Settles(store, by) == store.writes # <<>> /\ Head(store.writes).by = by

\* The process died and init() ran again.
Reloaded(store) == Loaded(store.disk)
=============================================================================
