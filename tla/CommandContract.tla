--------------------------- MODULE CommandContract ---------------------------
(***************************************************************************)
(* What the command pipeline of src/commands promises about one actuator   *)
(* command, with everything about requests, timers and subscriptions left  *)
(* out: the value is written to ioBroker at most once, only after the      *)
(* acceptance is on disk, and the status on disk only moves forward - also *)
(* over a restart of the adapter.  Commands.tla is shown to implement it.  *)
(***************************************************************************)
EXTENDS Naturals

CONSTANTS Cmd,      \* command ids
          None      \* "no record under this id"

VARIABLES status,   \* the persisted status of each command
          writes    \* how often its value was written to the actuator state

cvars == <<status, writes>>

Status == {"accepted", "rejected", "executed", "confirmed", "timeout"}

\* The status moves a command may make when it was written n times.
Forward(from, to, n) ==
    \/ from = None /\ to = "accepted"
    \/ from = "accepted" /\ to = "rejected" /\ n = 0
    \/ from = "accepted" /\ to = "executed" /\ n = 1
    \/ from = "executed" /\ to \in {"confirmed", "timeout"}
    \/ from = "timeout"  /\ to = "confirmed"

ContractInit == /\ status = [c \in Cmd |-> None]
                /\ writes = [c \in Cmd |-> 0]

\* One save of the collection can carry the news of several commands.
Record == /\ status' \in [Cmd -> Status \cup {None}]
          /\ \A c \in Cmd : \/ status'[c] = status[c]
                            \/ Forward(status[c], status'[c], writes[c])
          /\ UNCHANGED writes

Write(c) == /\ status[c] = "accepted"
            /\ writes[c] = 0
            /\ writes' = [writes EXCEPT ![c] = 1]
            /\ UNCHANGED status

ContractNext == Record \/ \E c \in Cmd : Write(c)

ContractSpec == ContractInit /\ [][ContractNext]_cvars
=============================================================================
