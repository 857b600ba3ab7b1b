------------------------------ MODULE MCRealtime ------------------------------
(* Instances of Realtime for TLC. *)
EXTENDS Realtime, TLC

CONSTANTS a, b, k, l, x, y, p, q, r

\* Two connections of different sessions; one session shared by both.
OwnSession    == a :> k @@ b :> l
SharedSession == a :> k @@ b :> k

\* The first client may read both states, the second only one of them.
Readable == a :> {x, y} @@ b :> {x}
\* Two subscribe messages of the first connection at a time, one of the second.
OverlappingCalls == p :> a @@ q :> a @@ r :> b
OneCallEach      == p :> a @@ r :> b
SameCaller       == Permutations({p, q})
\* Only the first watches anything.
OneWatcher == a :> {x} @@ b :> {}
BothWatch  == a :> {x} @@ b :> {x}
=============================================================================
