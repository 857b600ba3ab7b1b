------------------------------ MODULE MCCommands ------------------------------
(* Instances of Commands for TLC. *)
EXTENDS Commands, TLC

CONSTANTS r1, r2, r3, c1, c2, s1, s2, n1, n2, n3, on, off

\* r1 sends c1; r2 re-sends it under a fresh nonce; r3 commands the opposite.
RetryCmdOf   == r1 :> c1 @@ r2 :> c1 @@ r3 :> c2
RetryNonceOf == r1 :> n1 @@ r2 :> n2 @@ r3 :> n3
\* r2 is the same message as r1, delivered twice.
DupNonceOf   == r1 :> n1 @@ r2 :> n1 @@ r3 :> n3
SameState    == c1 :> s1 @@ c2 :> s1
Opposite     == c1 :> on @@ c2 :> off
=============================================================================
