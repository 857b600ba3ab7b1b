------------------------------ MODULE MCRegistry ------------------------------
(* The registry of subscriptions of Realtime for TLC: subscribe calls of one *)
(* connection that overlap, for one state, while their session may end; or   *)
(* one call each, for both states.                                           *)
EXTENDS MCRealtime

VARIABLE part

\* No call is about the second state.
Narrow == \A j \in Call : task'[j].state # y /\ y \notin task'[j].todo
\* No connection has made a second call.
Single == \A c \in Conn :
    Cardinality({j \in Call : CallerOf[j] = c /\ task'[j].at # "none"}) <= 1

RegistryNext ==
    \/ part = "overlapping" /\ Next /\ Narrow /\ UNCHANGED part
    \/ part = "one each" /\ Next /\ Single /\ UNCHANGED <<part, sessions>>

RegistrySpec ==
    /\ Init /\ part \in {"overlapping", "one each"}
    /\ [][RegistryNext]_<<part, vars>>
=============================================================================
