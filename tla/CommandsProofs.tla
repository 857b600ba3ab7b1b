---------------------------- MODULE CommandsProofs ----------------------------
(***************************************************************************)
(* Proofs about Commands: type correctness, the inductive invariant, and   *)
(* what follows from it - for every set of requests, commands, states and  *)
(* values, and any number of restarts.                                     *)
(***************************************************************************)
EXTENDS Commands, SequenceTheorems, TLAPS

\* Every reachable state is well typed.
THEOREM TypeCorrect == Spec => []TypeOK
<1>1. Init => TypeOK
  BY ConstantsAssumption, NoneAssumption DEF Init, TypeOK, Phase, Unanswered, Status, Event
<1>2. TypeOK /\ [Next]_vars => TypeOK'
  <2> SUFFICES ASSUME TypeOK, [Next]_vars PROVE TypeOK'
    OBVIOUS
  <2> USE ConstantsAssumption DEF memory, world
  <2>1. ASSUME NEW s \in State, NEW v \in Value, NEW a \in BOOLEAN, Publish(s, v, a)
        PROVE  inbox' \in Seq(Event)
    <3> DEFINE e == [state |-> s, val |-> v, ack |-> a]
    <3>1. e \in Event
      BY DEF Event
    <3>2. inbox \in Seq(Event)
      BY DEF TypeOK
    <3>3. inbox' = Append(inbox, e) \/ inbox' = inbox
      BY <2>1 DEF Publish
    <3> HIDE DEF e
    <3> QED BY <3>1, <3>2, <3>3
  <2>2. ASSUME NEW r \in Requests, Execute(r) PROVE TypeOK'
    <3>0. NonceOf[r] \in Nonce /\ CmdOf[r] \in Cmd /\ StateOf[CmdOf[r]] \in State
      OBVIOUS
    <3>1. CASE AnswerKnown(r) \/ Invalid(r)
      BY <3>1 DEF AnswerKnown, Invalid, TypeOK, Phase
    <3>7. CASE Refuse(r) \/ Begin(r)
      <4>1. nonces' \subseteq Nonce
        BY <3>7, <3>0 DEF Refuse, Begin, TypeOK
      <4>2. pc' \in [Requests -> Phase]
        BY <3>7 DEF Refuse, Begin, TypeOK, Phase, Unanswered
      <4> QED BY <3>7, <4>1, <4>2 DEF Refuse, Begin, TypeOK
    <3>2. CASE Accept(r) \/ WriteFails(r) \/ MarkExecuted(r)
      BY <3>2 DEF Accept, WriteFails, MarkExecuted, TypeOK, Phase, Unanswered, Status
    <3>3. CASE Write(r)
      <4>1. inbox' \in Seq(Event)
        BY <3>3, <2>1 DEF Write
      <4> QED BY <3>3, <4>1 DEF Write, TypeOK, Phase, Unanswered, Status
    <3>4. CASE AnnounceFailure(r)
      BY <3>4 DEF AnnounceFailure, TypeOK, Phase, Unanswered, Status
    <3>5. CASE Respond(r)
      <4>1. told' \in [Cmd -> Seq(Status)]
        BY <3>5, <3>0 DEF Respond, TypeOK, Status
      <4>2. /\ timers' \subseteq Cmd /\ pending' \in [State -> Cmd \cup {None}]
            /\ replaced' \subseteq Cmd
        <5>1. Track(CmdOf[r]) \/ UNCHANGED <<timers, pending, replaced>>
          BY <3>5 DEF Respond
        <5>2. pending[StateOf[CmdOf[r]]] \in Cmd \cup {None}
          BY <3>0 DEF TypeOK
        <5> QED BY <5>1, <5>2, <3>0 DEF Track, Takeover, TypeOK
      <4>3. pc' \in [Requests -> Phase]
        BY <3>5 DEF Respond, TypeOK, Phase
      <4> QED BY <3>5, <4>1, <4>2, <4>3 DEF Respond, TypeOK
    <3>6. CASE Subscribed(r)
      <4>1. pending[StateOf[CmdOf[r]]] \in Cmd \cup {None}
        BY <3>0 DEF TypeOK
      <4>2. /\ timers' \subseteq Cmd /\ pending' \in [State -> Cmd \cup {None}]
            /\ replaced' \subseteq Cmd
        BY <3>6, <4>1, <3>0 DEF Subscribed, Track, Takeover, TypeOK
      <4>3. pc' \in [Requests -> Phase]
        BY <3>6 DEF Subscribed, TypeOK, Phase
      <4> QED BY <3>6, <3>0, <4>2, <4>3 DEF Subscribed, TypeOK
    <3>8. CASE PutFails(r)
      BY <3>8, <3>0 DEF PutFails, Spoil, TypeOK, Phase
    <3> QED BY <2>2, <3>1, <3>2, <3>3, <3>4, <3>5, <3>6, <3>7, <3>8 DEF Execute
  <2>3. CASE Confirm
    <3> DEFINE s == Head(inbox).state  c == pending[s]
    <3>1. s \in State /\ c \in Cmd
      <4>1. Head(inbox) \in Event
        BY <2>3 DEF Confirm, TypeOK
      <4> QED BY <2>3, <4>1 DEF Confirm, Proves, TypeOK, Event
    <3>2. /\ pending' = [pending EXCEPT ![s] = None]
          /\ timers' = timers \ {c}
          /\ records' = [records EXCEPT ![c] = "confirmed"]
          /\ announcing' = announcing \cup {<<c, "confirmed">>}
          /\ inbox' = Tail(inbox)
      BY <2>3 DEF Confirm
    <3> HIDE DEF s, c
    <3>3. inbox' \in Seq(Event)
      BY <2>3, <3>2 DEF Confirm, TypeOK
    <3>4. announcing' \subseteq Cmd \X {"confirmed", "timeout"}
      BY <3>1, <3>2 DEF TypeOK
    <3>5. records' \in [Cmd -> Status \cup {None}] /\ timers' \subseteq Cmd
          /\ pending' \in [State -> Cmd \cup {None}]
      BY <3>1, <3>2 DEF TypeOK, Status
    <3> QED BY <2>3, <3>3, <3>4, <3>5 DEF Confirm, TypeOK
  <2>4. CASE Ignore
    BY <2>4 DEF Ignore, TypeOK
  <2>5. ASSUME NEW c \in Cmd, TimeoutCommand(c) PROVE TypeOK'
    <3> DEFINE s == StateOf[c]  p == pending[s]
    <3>1. s \in State /\ p \in Cmd \cup {None}
      BY DEF TypeOK
    <3>2. /\ timers' = timers \ {c} /\ pending' = [pending EXCEPT ![s] = None]
          /\ \/ /\ p # None
                /\ records' = [records EXCEPT ![p] = "timeout"]
                /\ announcing' = announcing \cup {<<p, "timeout">>}
             \/ UNCHANGED <<records, announcing>>
      BY <2>5 DEF TimeoutCommand
    <3> HIDE DEF s, p
    <3>3. announcing' \subseteq Cmd \X {"confirmed", "timeout"}
      BY <3>1, <3>2 DEF TypeOK
    <3>4. records' \in [Cmd -> Status \cup {None}] /\ timers' \subseteq Cmd
          /\ pending' \in [State -> Cmd \cup {None}]
      BY <3>1, <3>2 DEF TypeOK, Status
    <3> QED BY <2>5, <3>3, <3>4 DEF TimeoutCommand, TypeOK
  <2>6. ASSUME NEW c \in Cmd, RecheckBegin(c) \/ RecheckEnd(c) \/ RecheckFails(c) PROVE TypeOK'
    <3>1. CASE RecheckBegin(c)
      BY <3>1 DEF RecheckBegin, TypeOK
    <3>3. CASE RecheckFails(c)
      BY <3>3 DEF RecheckFails, TypeOK
    <3>2. CASE RecheckEnd(c)
      <4>1. announcing' \subseteq Cmd \X {"confirmed", "timeout"}
        BY <3>2 DEF RecheckEnd, TypeOK
      <4>2. records' \in [Cmd -> Status \cup {None}]
        BY <3>2 DEF RecheckEnd, TypeOK, Status
      <4> QED BY <3>2, <4>1, <4>2 DEF RecheckEnd, TypeOK
    <3> QED BY <2>6, <3>1, <3>2, <3>3
  <2>7. ASSUME NEW c \in Cmd, NEW st \in {"confirmed", "timeout"},
               Announce(c, st) \/ ResultPutFails(c, st)
        PROVE  TypeOK'
    <3>1. CASE Announce(c, st)
      BY <3>1 DEF Announce, TypeOK, Status
    <3>2. CASE ResultPutFails(c, st)
      BY <3>2 DEF ResultPutFails, Spoil, TypeOK
    <3> QED BY <2>7, <3>1, <3>2
  <2>8. CASE Persist
    BY <2>8 DEF Persist, TypeOK
  <2>9. CASE Restart
    BY <2>9 DEF Restart, TypeOK, Phase, Unanswered
  <2>10. ASSUME NEW s \in State, NEW v \in Value, Acknowledge(s, v) PROVE TypeOK'
    <3>1. inbox' \in Seq(Event)
      BY <2>10, <2>1 DEF Acknowledge
    <3> QED BY <2>10, <3>1 DEF Acknowledge, TypeOK
  <2>11. ASSUME NEW s \in State, Obey(s) \/ Reannounce(s) PROVE TypeOK'
    <3>1. db[s].val \in Value /\ actuator[s] \in Value
      BY DEF TypeOK
    <3> QED BY <2>11, <2>10, <3>1 DEF Obey, Reannounce
  <2>12. ASSUME NEW s \in State, NEW v \in Value, Operate(s, v) PROVE TypeOK'
    BY <2>12, <2>10 DEF Operate
  <2>13. ASSUME NEW s \in State, Unsubscribe(s) PROVE TypeOK'
    BY <2>13 DEF Unsubscribe, TypeOK
  <2>14. CASE UNCHANGED vars
    BY <2>14 DEF vars, TypeOK
  <2> QED
    BY <2>2, <2>3, <2>4, <2>5, <2>6, <2>7, <2>8, <2>9, <2>11, <2>12, <2>13, <2>14 DEF Next
<1> QED BY <1>1, <1>2, PTL DEF Spec
----------------------------------------------------------------------------
(* The inductive invariant, one lemma for each part of the next-state      *)
(* relation.                                                               *)

ClientWaits == ~OverlappingRetries

\* At the start nothing is believed of any record.
LEMMA ConsistentInit == Init => Consistent
  BY ConstantsAssumption, NoneAssumption
  DEF Init, Consistent, PhaseInv, PhaseAt, OneActive, NonceInv, StatusInv, PendingInv,
      TimersMatchPending, ResultInv, Tells, Active, Unanswered, Contract!Forward

\* Steps of execute() that leave the records alone.
LEMMA RequestConsistent ==
    ASSUME TypeOK, Consistent, ClientWaits, NEW r \in Requests,
           AnswerKnown(r) \/ Refuse(r) \/ Begin(r) \/ Invalid(r) \/ PutFails(r)
    PROVE  Consistent'
<1> USE ConstantsAssumption, NoneAssumption DEF TypeOK, Consistent, memory, world
<1>1. StatusInv' /\ PendingInv' /\ TimersMatchPending' /\ ResultInv'
  BY DEF AnswerKnown, Refuse, Begin, Invalid, PutFails, StatusInv, PendingInv, TimersMatchPending,
         ResultInv
<1>2. NonceInv'
  BY DEF AnswerKnown, Refuse, Begin, Invalid, PutFails, NonceInv, Unanswered
<1>3. PhaseInv'
  BY DEF AnswerKnown, Refuse, Begin, Invalid, PutFails, PhaseInv, PhaseAt
<1>4. OneActive'
  <2>1. CASE AnswerKnown(r) \/ Refuse(r) \/ Invalid(r) \/ PutFails(r)
    <3>1. /\ \A q \in Requests : q # r => pc'[q] = pc[q]
          /\ pc'[r] \in {"answered", "refused"}
      BY <2>1 DEF AnswerKnown, Refuse, Invalid, PutFails
    <3> QED BY <3>1 DEF OneActive, Active, Unanswered
  <2>2. CASE Begin(r)
    <3>1. ASSUME NEW q \in Requests, q # r, CmdOf[q] = CmdOf[r], pc[q] \in Active
          PROVE  FALSE
      <4>1. CASE pc[q] \in Unanswered
        BY <2>2, <3>1, <4>1 DEF Begin, ClientMaySend, ClientWaits, NonceInv
      <4>2. CASE pc[q] = "subscribing"
        BY <2>2, <3>1, <4>2 DEF Begin, PhaseInv, PhaseAt
      <4> QED BY <3>1, <4>1, <4>2 DEF Active
    <3> QED BY <2>2, <3>1 DEF Begin, OneActive
  <2> QED BY <2>1, <2>2
<1> QED BY <1>1, <1>2, <1>3, <1>4

\* Steps of execute() that put a record or write the actuator state.
LEMMA RecordConsistent ==
    ASSUME TypeOK, Consistent, NEW r \in Requests,
           Accept(r) \/ Write(r) \/ WriteFails(r) \/ AnnounceFailure(r) \/ MarkExecuted(r)
    PROVE  Consistent'
<1> DEFINE c == CmdOf[r]
<1> USE ConstantsAssumption, NoneAssumption
<1>0. /\ UNCHANGED <<nonces, durable, pending, timers, recheck, announcing>>
      /\ \A q \in Requests : q # r => pc'[q] = pc[q]
      /\ \A d \in Cmd : d # c => records'[d] = records[d] /\ writes'[d] = writes[d]
      /\ c \in Cmd /\ StateOf[c] \in State
      /\ pc[r] \in Unanswered /\ pc'[r] \in Unanswered \cup {"refused"}
  BY DEF Accept, Write, WriteFails, AnnounceFailure, MarkExecuted, TypeOK, memory, world,
         Unanswered
<1>1. \/ pc[r] = "reading" /\ pc'[r] = "accepting" /\ records'[c] = "accepted"
         /\ writes'[c] = writes[c]
      \/ pc[r] = "accepting" /\ pc'[r] = "written" /\ records'[c] = records[c]
         /\ writes'[c] = writes[c] + 1 /\ durable[c] = records[c]
      \/ pc[r] = "accepting" /\ pc'[r] = "failing" /\ records'[c] = "rejected"
         /\ writes'[c] = writes[c] /\ durable[c] = records[c]
      \/ pc[r] = "failing" /\ pc'[r] = "refused" /\ records'[c] = records[c]
         /\ writes'[c] = writes[c]
      \/ pc[r] = "written" /\ pc'[r] = "executing" /\ records'[c] = "executed"
         /\ writes'[c] = writes[c]
  BY DEF Accept, Write, WriteFails, AnnounceFailure, MarkExecuted, TypeOK, memory, world,
         Landed
<1>2. ASSUME NEW q \in Requests, q # r, CmdOf[q] = c PROVE pc[q] \notin Active
  BY <1>0, <1>2 DEF OneActive, Consistent, Active
<1>3. OneActive' /\ NonceInv'
  BY <1>0 DEF OneActive, NonceInv, Consistent, Active, Unanswered
<1>4. records[c] # "executed" /\ records[c] # "timeout" /\ records[c] # "confirmed"
  BY <1>0, <1>1 DEF PhaseInv, PhaseAt, Consistent
<1>5. PendingInv' /\ TimersMatchPending' /\ ResultInv'
  BY <1>0, <1>4 DEF PendingInv, TimersMatchPending, ResultInv, Consistent, TypeOK
<1>6. StatusInv'
  BY <1>0, <1>1 DEF PhaseInv, PhaseAt, StatusInv, Tells, Contract!Forward, Consistent, TypeOK
<1>7. PhaseInv'
  <2>1. pending[StateOf[c]] # c
    BY <1>0, <1>4 DEF PendingInv, Consistent
  <2>2. \A q \in Requests : q # r /\ CmdOf[q] # c => PhaseAt(q)'
    BY <1>0 DEF PhaseInv, PhaseAt, Consistent, TypeOK
  <2>3. \A q \in Requests : q # r /\ CmdOf[q] = c => PhaseAt(q)'
    BY <1>0, <1>2 DEF PhaseAt, Active, Unanswered
  <2>4. PhaseAt(r)'
    BY <1>0, <1>1, <2>1 DEF PhaseInv, PhaseAt, StatusInv, Tells, Consistent, TypeOK
  <2> QED BY <2>2, <2>3, <2>4 DEF PhaseInv
<1> QED BY <1>3, <1>5, <1>6, <1>7 DEF Consistent

\* execute() answers; awaitConfirmation() installs the wait.
LEMMA TrackConsistent ==
    ASSUME TypeOK, Consistent, NEW r \in Requests, Respond(r) \/ Subscribed(r)
    PROVE  Consistent'
<1> DEFINE c == CmdOf[r]
<1> USE ConstantsAssumption, NoneAssumption
<1>0. c \in Cmd /\ StateOf[c] \in State
  OBVIOUS
<1>1. /\ UNCHANGED <<records, durable, writes, recheck, announcing, nonces>>
      /\ \A q \in Requests : q # r => pc'[q] = pc[q]
      /\ pc[r] \in {"executing", "subscribing"}
      /\ \/ Track(c) /\ pc'[r] = "done"
         \/ UNCHANGED <<timers, pending>> /\ pc'[r] = "subscribing"
  <2>1. CASE Respond(r)
    BY <2>1 DEF Respond, TypeOK, memory, world
  <2>2. CASE Subscribed(r)
    BY <2>2 DEF Subscribed, TypeOK, memory, world
  <2> QED BY <2>1, <2>2
<1>2. records[c] = "executed" /\ durable[c] = "executed"
  BY DEF Respond, Subscribed, PhaseInv, PhaseAt, Landed, Consistent
<1>3. ASSUME NEW q \in Requests, q # r, CmdOf[q] = c PROVE pc[q] \notin Active
  BY <1>1, <1>3 DEF OneActive, Consistent, Active, Unanswered
<1>4. OneActive' /\ NonceInv'
  BY <1>1 DEF OneActive, NonceInv, Consistent, Active, Unanswered
<1>5. StatusInv' /\ ResultInv'
  BY <1>1 DEF StatusInv, ResultInv, Consistent
<1>6. PendingInv'
  <2>1. CASE UNCHANGED pending
    BY <1>1, <2>1 DEF PendingInv, Consistent
  <2>2. CASE pending' = [pending EXCEPT ![StateOf[c]] = c]
    <3>1. \A s \in State : pending'[s] = IF s = StateOf[c] THEN c ELSE pending[s]
      BY <2>2, <1>0 DEF TypeOK
    <3> QED BY <1>0, <1>1, <1>2, <3>1 DEF PendingInv, Consistent
  <2> QED BY <1>1, <2>1, <2>2 DEF Track
<1>7. TimersMatchPending'
  BY <1>0, <1>1 DEF TimersMatchPending, PendingInv, Track, Consistent, TypeOK
<1>8. PhaseInv'
  <2>1. pending[StateOf[c]] # c
    BY <1>1 DEF PhaseInv, PhaseAt, Consistent
  <2>2. \A q \in Requests : q # r /\ CmdOf[q] # c => PhaseAt(q)'
    BY <1>0, <1>1 DEF PhaseInv, PhaseAt, Track, Consistent, TypeOK
  <2>3. \A q \in Requests : q # r /\ CmdOf[q] = c => PhaseAt(q)'
    BY <1>1, <1>3 DEF PhaseAt, Active, Unanswered
  <2>4. PhaseAt(r)'
    BY <1>1, <1>2, <2>1 DEF PhaseAt
  <2> QED BY <2>2, <2>3, <2>4 DEF PhaseInv
<1> QED BY <1>4, <1>5, <1>6, <1>7, <1>8 DEF Consistent

\* A wait is resolved (by an acknowledgement or by its timer), or a recheck
\* upgrades a timeout.
LEMMA ResolveConsistent ==
    ASSUME TypeOK, Consistent, NEW c \in Cmd, NEW st \in {"confirmed", "timeout"},
           records' = [records EXCEPT ![c] = st],
           announcing' = announcing \cup {<<c, st>>},
           UNCHANGED <<pc, durable, writes, nonces>>,
           \/ /\ pending[StateOf[c]] = c
              /\ pending' = [pending EXCEPT ![StateOf[c]] = None]
              /\ timers' = timers \ {c}
              /\ UNCHANGED recheck
           \/ /\ recheck[c] = "reading" /\ st = "confirmed"
              /\ recheck' = [recheck EXCEPT ![c] = "none"]
              /\ UNCHANGED <<pending, timers>>
    PROVE  Consistent'
<1> USE ConstantsAssumption, NoneAssumption
<1>0. StateOf[c] \in State
  OBVIOUS
<1>1. \/ pending[StateOf[c]] = c /\ records[c] = "executed" /\ durable[c] = "executed"
      \/ recheck[c] = "reading" /\ records[c] = "timeout" /\ durable[c] = "timeout"
         /\ st = "confirmed"
  <2>1. CASE pending[StateOf[c]] = c
    BY <1>0, <2>1 DEF PendingInv, Consistent
  <2>2. CASE recheck[c] = "reading" /\ st = "confirmed"
    BY <2>2 DEF ResultInv, Consistent
  <2> QED BY <2>1, <2>2
<1>p. ASSUME NEW s \in State, pending'[s] # pending[s]
      PROVE  s = StateOf[c] /\ pending[s] = c /\ pending'[s] = None
  BY <1>0, <1>p DEF TypeOK
<1>2. ASSUME NEW r \in Requests, CmdOf[r] = c PROVE pc[r] \notin Active
  BY <1>1, <1>2 DEF PhaseInv, PhaseAt, Consistent, Active, Unanswered
<1>3. OneActive' /\ NonceInv'
  BY DEF OneActive, NonceInv, Consistent
<1>4. PhaseInv'
  <2>1. ASSUME NEW r \in Requests, CmdOf[r] # c PROVE PhaseAt(r)'
    <3>1. records'[CmdOf[r]] = records[CmdOf[r]]
      BY <2>1 DEF TypeOK
    <3>2. pending[StateOf[CmdOf[r]]] # CmdOf[r] => pending'[StateOf[CmdOf[r]]] # CmdOf[r]
      BY <1>p
    <3> QED BY <3>1, <3>2 DEF PhaseInv, PhaseAt, Consistent
  <2>2. ASSUME NEW r \in Requests, CmdOf[r] = c PROVE PhaseAt(r)'
    BY <1>2, <2>2 DEF PhaseAt, Active, Unanswered
  <2> QED BY <2>1, <2>2 DEF PhaseInv
<1>5. StatusInv'
  BY <1>1 DEF StatusInv, Tells, Contract!Forward, Consistent, TypeOK
<1>6. PendingInv'
  <2> SUFFICES ASSUME NEW s \in State, pending'[s] # None
               PROVE  /\ StateOf[pending'[s]] = s /\ records'[pending'[s]] = "executed"
                      /\ durable[pending'[s]] = "executed"
    BY DEF PendingInv
  <2>1. pending'[s] = pending[s] /\ pending[s] \in Cmd
    BY <1>p DEF TypeOK
  <2>2. StateOf[pending[s]] = s /\ records[pending[s]] = "executed" /\ durable[pending[s]] = "executed"
    BY <2>1 DEF PendingInv, Consistent
  <2>3. pending[s] # c
    <3>1. CASE recheck[c] = "reading" /\ UNCHANGED pending
      BY <3>1, <2>2 DEF ResultInv, Consistent
    <3>2. CASE pending' = [pending EXCEPT ![StateOf[c]] = None]
      <4>1. pending'[StateOf[c]] = None
        BY <3>2, <1>0 DEF TypeOK
      <4> QED BY <4>1, <2>1, <2>2
    <3> QED BY <3>1, <3>2
  <2> QED BY <2>1, <2>2, <2>3 DEF TypeOK
<1>7. TimersMatchPending'
  <2>1. CASE UNCHANGED <<pending, timers>>
    BY <2>1 DEF TimersMatchPending, Consistent
  <2>2. CASE /\ pending[StateOf[c]] = c
             /\ pending' = [pending EXCEPT ![StateOf[c]] = None]
             /\ timers' = timers \ {c}
    <3>1. \A d \in Cmd : pending'[StateOf[d]] =
                           IF StateOf[d] = StateOf[c] THEN None ELSE pending[StateOf[d]]
      BY <2>2 DEF TypeOK
    <3> QED BY <2>2, <3>1 DEF TimersMatchPending, Consistent
  <2> QED BY <2>1, <2>2
<1>8. ResultInv'
  <2> SUFFICES ASSUME NEW d \in Cmd
               PROVE  /\ <<d, "timeout">> \in announcing' => records'[d] = "timeout"
                      /\ <<d, "confirmed">> \in announcing' => records'[d] = "confirmed"
                      /\ recheck'[d] # "none" => /\ records'[d] = "timeout"
                                                /\ durable[d] = "timeout"
                                                /\ <<d, "timeout">> \notin announcing'
    BY DEF ResultInv
  <2>1. CASE d # c
    BY <2>1 DEF ResultInv, Consistent, TypeOK
  <2>2. CASE d = c
    <3>1. /\ <<c, "timeout">> \in announcing => records[c] = "timeout"
          /\ <<c, "confirmed">> \in announcing => records[c] = "confirmed"
          /\ recheck[c] # "none" => /\ records[c] = "timeout" /\ durable[c] = "timeout"
                                    /\ <<c, "timeout">> \notin announcing
      BY DEF ResultInv, Consistent
    <3>2. records'[c] = st
      BY DEF TypeOK
    <3>3. CASE records[c] = "executed"
      <4>1. recheck'[c] = "none"
        BY <3>1, <3>3 DEF TypeOK
      <4>2. <<c, "timeout">> \notin announcing /\ <<c, "confirmed">> \notin announcing
        BY <3>1, <3>3
      <4> QED BY <2>2, <3>2, <4>1, <4>2
    <3>4. CASE records[c] = "timeout" /\ recheck[c] = "reading" /\ st = "confirmed"
      <4>1. recheck'[c] = "none"
        <5>1. pending[StateOf[c]] # c
          BY <3>4, <1>0 DEF PendingInv, Consistent
        <5> QED BY <5>1 DEF TypeOK
      <4> QED BY <2>2, <3>1, <3>2, <3>4, <4>1
    <3> QED BY <1>1, <3>3, <3>4
  <2> QED BY <2>1, <2>2
<1> QED BY <1>3, <1>4, <1>5, <1>6, <1>7, <1>8 DEF Consistent

\* The timer of a command fires.
LEMMA TimeoutConsistent ==
    ASSUME TypeOK, Consistent, NEW c \in Cmd, TimeoutCommand(c)
    PROVE  Consistent'
<1>1. pending[StateOf[c]] = c /\ records[c] = "executed" /\ c # None
  BY ConstantsAssumption, NoneAssumption
  DEF TimeoutCommand, TimersMatchPending, PendingInv, Consistent
<1>2. /\ records' = [records EXCEPT ![c] = "timeout"]
      /\ announcing' = announcing \cup {<<c, "timeout">>}
      /\ UNCHANGED <<pc, durable, writes, nonces, recheck>>
      /\ pending' = [pending EXCEPT ![StateOf[c]] = None]
      /\ timers' = timers \ {c}
  BY <1>1 DEF TimeoutCommand
<1> QED BY <1>1, <1>2, ResolveConsistent

\* The actuator acknowledges the value waited for.
LEMMA ConfirmConsistent ==
    ASSUME TypeOK, Consistent, Confirm
    PROVE  Consistent'
<1> DEFINE s == Head(inbox).state  c == pending[s]
<1>1. s \in State /\ c \in Cmd
  <2>1. Head(inbox) \in Event
    BY DEF Confirm, TypeOK
  <2> QED BY <2>1 DEF Confirm, Proves, TypeOK, Event
<1>2. StateOf[c] = s
  BY <1>1, NoneAssumption DEF PendingInv, Consistent
<1>3. /\ records' = [records EXCEPT ![c] = "confirmed"]
      /\ announcing' = announcing \cup {<<c, "confirmed">>}
      /\ UNCHANGED <<pc, durable, writes, nonces, recheck>>
      /\ pending' = [pending EXCEPT ![StateOf[c]] = None]
      /\ timers' = timers \ {c}
  BY <1>2 DEF Confirm
<1> HIDE DEF c
<1>4. pending[StateOf[c]] = c
  BY <1>2 DEF c
<1> QED BY <1>1, <1>3, <1>4, ResolveConsistent

\* The grace-period recheck and the emission of results.
LEMMA RecheckConsistent ==
    ASSUME TypeOK, Consistent, NEW c \in Cmd,
           RecheckBegin(c) \/ RecheckEnd(c) \/ RecheckFails(c)
           \/ \E st \in {"confirmed", "timeout"} : Announce(c, st) \/ ResultPutFails(c, st)
    PROVE  Consistent'
<1>1. CASE RecheckEnd(c) /\ db[StateOf[c]].val = ValueOf[c]
  BY <1>1, ResolveConsistent DEF RecheckEnd, world
<1>2. ASSUME UNCHANGED <<pc, records, durable, nonces, pending, timers, writes>>, ResultInv'
      PROVE  Consistent'
  BY <1>2 DEF Consistent, PhaseInv, PhaseAt, OneActive, NonceInv, StatusInv, PendingInv,
              TimersMatchPending
<1>3. CASE \/ RecheckBegin(c) \/ RecheckFails(c)
           \/ RecheckEnd(c) /\ db[StateOf[c]].val # ValueOf[c]
  <2>1. /\ UNCHANGED <<pc, records, durable, nonces, pending, timers, writes, announcing>>
        /\ \A d \in Cmd : recheck'[d] # "none" => recheck[d] # "none"
    BY <1>3 DEF RecheckBegin, RecheckEnd, RecheckFails, TypeOK, world
  <2>2. ResultInv'
    BY <2>1 DEF ResultInv, Consistent
  <2> QED BY <1>2, <2>1, <2>2
<1>4. ASSUME NEW st \in {"confirmed", "timeout"}, Announce(c, st) PROVE Consistent'
  <2>1. /\ UNCHANGED <<pc, records, durable, nonces, pending, timers, writes>>
        /\ <<c, st>> \in announcing /\ durable[c] = records[c]
        /\ announcing' = announcing \ {<<c, st>>}
        /\ \/ recheck' = recheck
           \/ st = "timeout" /\ recheck' = [recheck EXCEPT ![c] = "armed"]
    BY <1>4 DEF Announce, Landed
  <2>2. ResultInv'
    <3>1. CASE recheck' = recheck
      BY <2>1, <3>1 DEF ResultInv, Consistent
    <3>2. CASE st = "timeout" /\ recheck' = [recheck EXCEPT ![c] = "armed"]
      <4>1. records[c] = "timeout"
        BY <2>1, <3>2 DEF ResultInv, Consistent
      <4>2. \A d \in Cmd : d # c => recheck'[d] = recheck[d]
        BY <3>2 DEF TypeOK
      <4> QED BY <2>1, <3>2, <4>1, <4>2 DEF ResultInv, Consistent
    <3> QED BY <2>1, <3>1, <3>2
  <2> QED BY <1>2, <2>1, <2>2
<1>5. ASSUME NEW st \in {"confirmed", "timeout"}, ResultPutFails(c, st) PROVE Consistent'
  <2>1. /\ UNCHANGED <<pc, records, durable, nonces, pending, timers, writes, recheck>>
        /\ announcing' \subseteq announcing
    BY <1>5 DEF ResultPutFails
  <2>2. ResultInv'
    BY <2>1 DEF ResultInv, Consistent
  <2> QED BY <1>2, <2>1, <2>2
<1> QED BY <1>1, <1>3, <1>4, <1>5

\* Saves, restarts and the world outside.
LEMMA OutsideConsistent ==
    ASSUME TypeOK, Consistent,
           \/ Persist \/ Restart \/ Ignore \/ UNCHANGED vars
           \/ \E s \in State : \/ Unsubscribe(s)
                              \/ \E v \in Value \cup {db[s].val, actuator[s]} : Acknowledge(s, v)
    PROVE  Consistent'
<1> USE ConstantsAssumption, NoneAssumption
<1>1. CASE UNCHANGED <<pc, records, durable, nonces, memory, writes>>
  BY <1>1 DEF memory, Consistent, PhaseInv, PhaseAt, OneActive, NonceInv, StatusInv, PendingInv,
              TimersMatchPending, ResultInv
<1>2. CASE Persist
  <2>1. UNCHANGED <<pc, records, nonces, memory, writes>> /\ durable' = records
    BY <1>2 DEF Persist
  <2>2. PhaseInv'
    BY <2>1 DEF PhaseInv, PhaseAt, Consistent, memory
  <2>3. StatusInv'
    BY <2>1 DEF StatusInv, Consistent
  <2> QED BY <2>1, <2>2, <2>3 DEF Consistent, OneActive, NonceInv, PendingInv,
                                  TimersMatchPending, ResultInv, memory
<1>3. CASE Restart
  <2>1. \A r \in Requests : pc'[r] \notin Active
    BY <1>3 DEF Restart, Active, Unanswered, TypeOK
  <2>2. PhaseInv' /\ OneActive' /\ NonceInv'
    BY <2>1 DEF PhaseInv, PhaseAt, OneActive, NonceInv, Active, Unanswered
  <2>3. StatusInv'
    BY <1>3 DEF Restart, StatusInv, Consistent
  <2>4. PendingInv' /\ TimersMatchPending' /\ ResultInv'
    BY <1>3 DEF Restart, PendingInv, TimersMatchPending, ResultInv
  <2> QED BY <2>2, <2>3, <2>4 DEF Consistent
<1> QED BY <1>1, <1>2, <1>3 DEF Ignore, Unsubscribe, Acknowledge, vars

\* Every step keeps the invariant.
LEMMA ConsistentStep == ASSUME TypeOK, Consistent, ClientWaits, [Next]_vars PROVE Consistent'
<1>1. ASSUME NEW r \in Requests, Execute(r) PROVE Consistent'
  BY <1>1, RequestConsistent, RecordConsistent, TrackConsistent DEF Execute
<1>2. ASSUME NEW s \in State, \/ Obey(s) \/ Reannounce(s) \/ \E v \in Value : Operate(s, v)
      PROVE  Consistent'
  <2>1. \E v \in Value \cup {db[s].val, actuator[s]} : Acknowledge(s, v)
    BY <1>2 DEF Obey, Reannounce, Operate
  <2> QED BY <2>1, OutsideConsistent
<1>3. CASE Persist \/ Restart \/ Ignore \/ UNCHANGED vars \/ \E s \in State : Unsubscribe(s)
  BY <1>3, OutsideConsistent
<1> QED
  BY <1>1, <1>2, <1>3, ConfirmConsistent, TimeoutConsistent, RecheckConsistent DEF Next

\* The inductive invariant holds in every reachable state.
THEOREM AlwaysConsistent == ASSUME ClientWaits PROVE Spec => []Consistent
<1>1. Init => Consistent
  BY ConsistentInit
<1>2. TypeOK /\ Consistent /\ [Next]_vars => Consistent'
  BY ConsistentStep
<1> QED BY <1>1, <1>2, TypeCorrect, PTL DEF Spec

\* A command id reaches its actuator at most once, over any number of
\* retries, duplicates and restarts.
THEOREM AtMostOneWrite == ASSUME ClientWaits PROVE Spec => []WrittenAtMostOnce
<1>1. TypeOK /\ Consistent => WrittenAtMostOnce
  <2> SUFFICES ASSUME TypeOK, Consistent, NEW c \in Cmd PROVE writes[c] <= 1
    BY DEF WrittenAtMostOnce
  <2>1. records[c] \in {None, "accepted", "rejected", "executed", "confirmed", "timeout"}
    BY DEF TypeOK, Status
  <2> QED BY <2>1 DEF Consistent, StatusInv, Tells
<1> QED BY <1>1, TypeCorrect, AlwaysConsistent, PTL

\* Only written, undecided commands are waited for, each under a timer of its
\* own.
THEOREM WaitsAreSound ==
    ASSUME ClientWaits PROVE Spec => [](PendingIsExecuted /\ TimersMatchPending)
<1>1. Consistent => PendingIsExecuted /\ TimersMatchPending
  BY DEF Consistent, PendingInv, PendingIsExecuted
<1> QED BY <1>1, AlwaysConsistent, PTL

\* The pipeline implements the contract: at-most-once, write-ahead, and a
\* persisted status that only moves forward.
THEOREM PipelineImplementsContract == ASSUME ClientWaits PROVE Spec => ImplementsContract
<1> USE DEF Contract!cvars, Contract!ContractNext, Contract!Record, Contract!Write
<1>1. Init => Contract!ContractInit
  BY DEF Init, Contract!ContractInit
<1>2. ASSUME TypeOK, Consistent, [Next]_vars PROVE [Contract!ContractNext]_(Contract!cvars)
  <2>1. CASE Persist
    <3>1. durable' \in [Cmd -> Contract!Status \cup {None}]
      <4>1. Contract!Status = Status
        BY DEF Status, Contract!Status
      <4> QED BY <1>2, <2>1, <4>1 DEF Persist, TypeOK
    <3>2. \A c \in Cmd : \/ durable'[c] = durable[c]
                        \/ Contract!Forward(durable[c], durable'[c], writes[c])
      BY <1>2, <2>1 DEF Persist, Consistent, StatusInv
    <3> QED BY <2>1, <3>1, <3>2 DEF Persist
  <2>2. ASSUME NEW r \in Requests, Write(r) PROVE Contract!Write(CmdOf[r])
    <3>1. /\ durable[CmdOf[r]] = "accepted" /\ writes[CmdOf[r]] = 0
      BY <1>2, <2>2 DEF Write, Landed, Consistent, PhaseInv, PhaseAt
    <3> QED BY <2>2, <3>1, ConstantsAssumption DEF Write, TypeOK
  <2>3. ASSUME NEW r \in Requests, Execute(r) PROVE UNCHANGED <<durable, writes>> \/ Write(r)
    BY <2>3 DEF Execute, AnswerKnown, Refuse, Begin, Invalid, Accept, WriteFails,
                AnnounceFailure, MarkExecuted, Respond, Subscribed, PutFails
  <2>4. CASE UNCHANGED <<durable, writes>>
    BY <2>4
  <2>5. CASE \E r \in Requests : Execute(r)
    BY <2>5, <2>2, <2>3, <2>4, ConstantsAssumption
  <2>6. CASE ~Persist /\ ~\E r \in Requests : Execute(r)
    <3>1. UNCHANGED <<durable, writes>>
      BY <1>2, <2>6 DEF Next, vars, Confirm, Ignore, TimeoutCommand, RecheckBegin, RecheckEnd,
         RecheckFails, Announce, ResultPutFails, Restart, Obey, Reannounce, Operate, Acknowledge, Unsubscribe
    <3> QED BY <3>1
  <2> QED BY <2>1, <2>5, <2>6
<1> QED BY <1>1, <1>2, TypeCorrect, AlwaysConsistent, PTL
        DEF Spec, ImplementsContract, Contract!ContractSpec
----------------------------------------------------------------------------
(* What a device was told.                                                 *)

Untold       == <<>>
ToldRejected == <<"rejected">>
ToldExecuted == <<"executed">>
ToldPrompt   == <<"executed", "confirmed">>
ToldTimeout  == <<"executed", "timeout">>
ToldLate     == <<"executed", "timeout", "confirmed">>

\* A tale with one more result.
LEMMA LongerTale ==
    ASSUME NEW s \in Seq(Status), NEW t \in Seq(Status), NEW x \in Status,
           Len(t) = Len(s) + 1, t[Len(t)] = x, \A i \in 1..Len(s) : t[i] = s[i]
    PROVE  Append(s, x) = t
  BY SeqEqual, AppendProperties

\* The legal tales are different ones, and how each goes on.
LEMMA Tales ==
    /\ LegalTale = {Untold, ToldRejected, ToldExecuted, ToldPrompt, ToldTimeout, ToldLate}
    /\ Untold \notin {ToldRejected, ToldExecuted, ToldPrompt, ToldTimeout, ToldLate}
    /\ ToldRejected \notin {ToldExecuted, ToldPrompt, ToldTimeout, ToldLate}
    /\ ToldExecuted \notin {ToldPrompt, ToldTimeout, ToldLate}
    /\ ToldPrompt \notin {ToldTimeout, ToldLate} /\ ToldTimeout # ToldLate
    /\ Append(Untold, "rejected") = ToldRejected /\ Append(Untold, "executed") = ToldExecuted
    /\ Append(ToldExecuted, "confirmed") = ToldPrompt /\ Append(ToldExecuted, "timeout") = ToldTimeout
    /\ Append(ToldTimeout, "confirmed") = ToldLate
<1> USE DEF Untold, ToldRejected, ToldExecuted, ToldPrompt, ToldTimeout, ToldLate
<1>1. LegalTale = {Untold, ToldRejected, ToldExecuted, ToldPrompt, ToldTimeout, ToldLate}
  BY DEF LegalTale
<1>2. /\ Len(Untold) = 0 /\ Len(ToldRejected) = 1 /\ Len(ToldExecuted) = 1
      /\ Len(ToldPrompt) = 2 /\ Len(ToldTimeout) = 2 /\ Len(ToldLate) = 3
  OBVIOUS
<1>3. /\ ToldRejected[1] = "rejected" /\ ToldExecuted[1] = "executed"
      /\ ToldPrompt[2] = "confirmed" /\ ToldTimeout[2] = "timeout"
  OBVIOUS
<1>4. Append(Untold, "rejected") = ToldRejected /\ Append(Untold, "executed") = ToldExecuted
  OBVIOUS
<1>5. Append(ToldExecuted, "confirmed") = ToldPrompt
  <2>1. ToldExecuted \in Seq(Status) /\ ToldPrompt \in Seq(Status)
    BY DEF Status
  <2>2. Len(ToldPrompt) = Len(ToldExecuted) + 1 /\ \A i \in 1..Len(ToldExecuted) : ToldPrompt[i] = ToldExecuted[i]
    OBVIOUS
  <2> QED BY <2>1, <2>2, LongerTale DEF Status
<1>6. Append(ToldExecuted, "timeout") = ToldTimeout
  <2>1. ToldExecuted \in Seq(Status) /\ ToldTimeout \in Seq(Status)
    BY DEF Status
  <2>2. Len(ToldTimeout) = Len(ToldExecuted) + 1 /\ \A i \in 1..Len(ToldExecuted) : ToldTimeout[i] = ToldExecuted[i]
    OBVIOUS
  <2> QED BY <2>1, <2>2, LongerTale DEF Status
<1>7. Append(ToldTimeout, "confirmed") = ToldLate
  <2>1. ToldTimeout \in Seq(Status) /\ ToldLate \in Seq(Status)
    BY DEF Status
  <2>2. Len(ToldLate) = Len(ToldTimeout) + 1 /\ \A i \in 1..Len(ToldTimeout) : ToldLate[i] = ToldTimeout[i]
    OBVIOUS
  <2> QED BY <2>1, <2>2, LongerTale DEF Status
<1> HIDE DEF Untold, ToldRejected, ToldExecuted, ToldPrompt, ToldTimeout, ToldLate
<1> QED BY <1>1, <1>2, <1>3, <1>4, <1>5, <1>6, <1>7

\* The status a record may have when its device was told so much: never one
\* that the tale has already passed, and none the tale does not lead up to.
Bears(tale, st) ==
    /\ tale = Untold => st \in {None, "accepted", "rejected", "executed"}
    /\ tale = ToldRejected => st = "rejected"
    /\ tale = ToldExecuted => st \in {"executed", "confirmed", "timeout"}
    /\ tale = ToldTimeout => st \in {"timeout", "confirmed"}
    /\ tale \in {ToldPrompt, ToldLate} => st = "confirmed"

\* Cache and disk both bear what was told; and what a request, a wait, a
\* recheck or a result not yet emitted will tell goes on from there.
TaleAt(c) ==
    /\ told[c] \in LegalTale
    /\ Bears(told[c], records[c]) /\ Bears(told[c], durable[c])
    /\ \A r \in Requests : CmdOf[r] = c =>
          /\ pc[r] \in Unanswered => told[c] = Untold
          /\ pc[r] = "subscribing" => told[c] = ToldExecuted
    /\ pending[StateOf[c]] = c => told[c] = ToldExecuted
    /\ <<c, "timeout">> \in announcing => told[c] = ToldExecuted
    /\ <<c, "confirmed">> \in announcing => told[c] \in {ToldExecuted, ToldTimeout}
    /\ recheck[c] # "none" => told[c] = ToldTimeout

TaleInv == \A c \in Cmd : TaleAt(c)

\* No device was told anything yet.
LEMMA TaleInit == Init => TaleInv
<1> SUFFICES ASSUME Init, NEW c \in Cmd PROVE TaleAt(c)
  BY DEF TaleInv
<1>1. told[c] = Untold
  BY DEF Init, Untold
<1>2. records[c] = None /\ durable[c] = None /\ pending[StateOf[c]] = None /\ recheck[c] = "none"
  BY ConstantsAssumption DEF Init
<1>3. announcing = {} /\ \A r \in Requests : pc[r] = "idle"
  BY DEF Init
<1> QED BY <1>1, <1>2, <1>3, Tales, NoneAssumption DEF TaleAt, Bears, Unanswered

\* A step that touches nothing of a command but where its requests are.
TaleSame(d) ==
    /\ told'[d] = told[d] /\ records'[d] = records[d] /\ durable'[d] = durable[d]
    /\ pending'[StateOf[d]] = d => pending[StateOf[d]] = d
    /\ \A st \in {"confirmed", "timeout"} : <<d, st>> \in announcing' => <<d, st>> \in announcing
    /\ recheck'[d] # "none" => recheck[d] # "none"

\* Of a command nothing touches, everything stays.
LEMMA TaleKept ==
    ASSUME NEW d \in Cmd, TaleAt(d), TaleSame(d),
           \A r \in Requests : CmdOf[r] = d => pc'[r] = pc[r] \/ pc'[r] \notin Active
    PROVE  TaleAt(d)'
  BY DEF TaleAt, TaleSame, Active

\* execute(): its requests tell nothing until the record is final or executed.
LEMMA TaleExecute ==
    ASSUME TypeOK, Consistent, TaleInv, NEW r \in Requests, Execute(r)
    PROVE  TaleInv'
<1> DEFINE c == CmdOf[r]
<1> USE ConstantsAssumption, NoneAssumption
<1>0. c \in Cmd /\ StateOf[c] \in State
  OBVIOUS
<1> SUFFICES ASSUME NEW d \in Cmd PROVE TaleAt(d)'
  BY DEF TaleInv
<1>t. TaleAt(d) /\ TaleAt(c)
  BY <1>0 DEF TaleInv
<1>p. \A q \in Requests : q # r => pc'[q] = pc[q]
  <2>1. \E p \in Phase : pc' = [pc EXCEPT ![r] = p]
    BY DEF Execute, AnswerKnown, Refuse, Begin, Invalid, Accept, Write, WriteFails,
           AnnounceFailure, MarkExecuted, Respond, Subscribed, PutFails, Phase, Unanswered
  <2> QED BY <2>1 DEF TypeOK
<1>o. pc[r] \in Active => \A q \in Requests : q # r /\ CmdOf[q] = c => pc[q] \notin Active
  BY DEF OneActive, Consistent
<1>1. CASE d # c
  <2>1. TaleSame(d)
    BY <1>0, <1>1 DEF Execute, AnswerKnown, Refuse, Begin, Invalid, Accept, Write, WriteFails,
       AnnounceFailure, MarkExecuted, Respond, Subscribed, PutFails, Track, memory, TypeOK, TaleSame
  <2> QED BY <2>1, <1>t, <1>p, <1>1, TaleKept
<1>2. CASE d = c /\ (AnswerKnown(r) \/ Refuse(r) \/ Invalid(r) \/ PutFails(r))
  <2>1. TaleSame(c) /\ pc'[r] \notin Active
    BY <1>2 DEF AnswerKnown, Refuse, Invalid, PutFails, TaleSame, memory, TypeOK, Active, Unanswered
  <2> QED BY <2>1, <1>t, <1>p, <1>2, <1>0, TaleKept
<1>3. CASE d = c /\ (Begin(r) \/ Accept(r) \/ Write(r) \/ WriteFails(r) \/ MarkExecuted(r))
  <2>1. /\ told'[c] = told[c] /\ durable'[c] = durable[c] /\ pending' = pending
        /\ announcing' = announcing /\ recheck' = recheck
        /\ records'[c] \in {records[c], "accepted", "rejected", "executed"}
    BY <1>3, <1>0 DEF Begin, Accept, Write, WriteFails, MarkExecuted, memory, TypeOK
  <2>2. told[c] = Untold
    <3>1. CASE pc[r] \in Unanswered
      BY <1>t, <3>1 DEF TaleAt
    <3>2. CASE Begin(r)
      BY <1>t, <3>2, Tales DEF TaleAt, Bears, Begin
    <3> QED BY <1>3, <3>1, <3>2 DEF Accept, Write, WriteFails, MarkExecuted, Unanswered
  <2>3. pc'[r] \in Unanswered
    BY <1>3 DEF Begin, Accept, Write, WriteFails, MarkExecuted, TypeOK, Unanswered
  <2>4. \A q \in Requests : CmdOf[q] = c => pc'[q] # "subscribing"
    <3> SUFFICES ASSUME NEW q \in Requests, CmdOf[q] = c, pc'[q] = "subscribing" PROVE FALSE
      OBVIOUS
    <3>1. pc[q] = "subscribing"
      BY <1>p, <2>3 DEF Unanswered
    <3> QED BY <3>1, <1>t, <2>2, Tales DEF TaleAt
  <2>5. Bears(Untold, records'[c])
    BY <1>t, <2>1, <2>2, Tales DEF TaleAt, Bears
  <2> QED BY <1>3, <1>t, <2>1, <2>2, <2>4, <2>5, Tales DEF TaleAt
<1>4. CASE d = c /\ (AnnounceFailure(r) \/ Respond(r))
  <2>1. pc[r] \in Unanswered /\ told[c] = Untold /\ durable[c] = records[c]
    BY <1>4, <1>t DEF AnnounceFailure, Respond, Landed, TaleAt, Unanswered
  <2>2. \A q \in Requests : q # r /\ CmdOf[q] = c => pc'[q] \notin Active
    BY <1>p, <1>o, <2>1 DEF Active
  <2>3. /\ records' = records /\ durable' = durable /\ announcing' = announcing /\ recheck' = recheck
    BY <1>4 DEF AnnounceFailure, Respond, memory
  <2>4. records[c] \in {"rejected", "executed"}
    BY <1>4 DEF AnnounceFailure, Respond, PhaseInv, PhaseAt, Consistent
  <2>5. recheck[c] = "none" /\ <<c, "timeout">> \notin announcing /\ <<c, "confirmed">> \notin announcing
    BY <1>0, <2>4 DEF ResultInv, Consistent
  <2>6. CASE AnnounceFailure(r)
    <3>1. records[c] = "rejected" /\ pc'[r] \notin Active /\ pending' = pending
      BY <2>6 DEF AnnounceFailure, PhaseInv, PhaseAt, Consistent, memory, TypeOK, Active, Unanswered
    <3>2. told'[c] = ToldRejected
      BY <2>6, <1>0, <2>1, Tales DEF AnnounceFailure, TypeOK
    <3>3. pending'[StateOf[c]] # c
      BY <1>0, <3>1 DEF PendingInv, Consistent
    <3>4. \A q \in Requests : CmdOf[q] = c => pc'[q] \notin Active
      BY <2>2, <3>1
    <3> QED BY <1>4, <2>1, <2>3, <2>5, <3>1, <3>2, <3>3, <3>4, Tales DEF TaleAt, Bears, Active
  <2>7. CASE Respond(r)
    <3>1. records[c] = "executed" /\ pc'[r] \in {"done", "subscribing"}
      BY <2>7 DEF Respond, PhaseInv, PhaseAt, Consistent, TypeOK
    <3>2. told'[c] = ToldExecuted
      BY <2>7, <1>0, <2>1, Tales DEF Respond, TypeOK
    <3>3. \A q \in Requests : CmdOf[q] = c => pc'[q] \notin Unanswered
      BY <2>2, <3>1 DEF Active, Unanswered
    <3> QED BY <1>4, <2>1, <2>3, <2>5, <3>1, <3>2, <3>3, Tales DEF TaleAt, Bears
  <2> QED BY <1>4, <2>6, <2>7
<1>5. CASE d = c /\ Subscribed(r)
  <2>1. pc[r] = "subscribing" /\ told[c] = ToldExecuted
    BY <1>5, <1>t DEF Subscribed, TaleAt
  <2>2. /\ told' = told /\ records' = records /\ durable' = durable /\ announcing' = announcing
        /\ recheck' = recheck /\ pc'[r] \notin Active
    BY <1>5 DEF Subscribed, TypeOK, Active, Unanswered
  <2>3. \A q \in Requests : CmdOf[q] = c => pc'[q] = pc[q] \/ pc'[q] \notin Active
    BY <1>p, <2>2
  <2> QED BY <1>5, <1>t, <2>1, <2>2, <2>3 DEF TaleAt, Active
<1> QED BY <1>1, <1>2, <1>3, <1>4, <1>5 DEF Execute

\* A record that becomes final, with the result still to be told.
LEMMA TaleResolve ==
    ASSUME TypeOK, TaleInv, NEW c \in Cmd, NEW st \in {"confirmed", "timeout"},
           told[c] = ToldExecuted \/ (told[c] = ToldTimeout /\ st = "confirmed"),
           records' = [records EXCEPT ![c] = st], announcing' = announcing \cup {<<c, st>>},
           UNCHANGED <<pc, durable, told>>,
           \A d \in Cmd : pending'[StateOf[d]] = d => pending[StateOf[d]] = d,
           \A d \in Cmd : recheck'[d] # "none" => recheck[d] # "none"
    PROVE  TaleInv'
<1> SUFFICES ASSUME NEW d \in Cmd PROVE TaleAt(d)'
  BY DEF TaleInv
<1>t. TaleAt(d)
  BY DEF TaleInv
<1>1. CASE d # c
  <2>1. TaleSame(d)
    BY <1>1 DEF TaleSame, TypeOK
  <2> QED BY <2>1, <1>t, TaleKept
<1>2. CASE d = c
  <2>1. records'[c] = st
    BY DEF TypeOK
  <2>2. Bears(told[c], st)
    BY Tales DEF Bears
  <2>3. \A s \in {"confirmed", "timeout"} : <<c, s>> \in announcing' => s = st \/ <<c, s>> \in announcing
    OBVIOUS
  <2>4. <<c, "timeout">> \in announcing' => told[c] = ToldExecuted
    BY <1>t, <1>2, <2>3 DEF TaleAt
  <2>5. <<c, "confirmed">> \in announcing' => told[c] \in {ToldExecuted, ToldTimeout}
    BY <1>t, <1>2, <2>3 DEF TaleAt
  <2> QED BY <1>t, <1>2, <2>1, <2>2, <2>4, <2>5 DEF TaleAt
<1> QED BY <1>1, <1>2

\* A result is told.
LEMMA TaleAnnounce ==
    ASSUME TypeOK, Consistent, TaleInv, NEW c \in Cmd, NEW st \in {"confirmed", "timeout"},
           Announce(c, st)
    PROVE  TaleInv'
<1> USE NoneAssumption
<1>0. c \in Cmd /\ StateOf[c] \in State
  BY ConstantsAssumption
<1> SUFFICES ASSUME NEW d \in Cmd PROVE TaleAt(d)'
  BY DEF TaleInv
<1>t. TaleAt(d) /\ TaleAt(c)
  BY DEF TaleInv
<1>1. /\ <<c, st>> \in announcing /\ durable[c] = records[c]
      /\ announcing' = announcing \ {<<c, st>>}
      /\ told' = [told EXCEPT ![c] = Append(@, st)]
      /\ recheck' = IF st = "timeout" THEN [recheck EXCEPT ![c] = "armed"] ELSE recheck
      /\ UNCHANGED <<pc, records, durable, pending>>
  BY DEF Announce, Landed
<1>2. CASE d # c
  <2>1. TaleSame(d)
    BY <1>1, <1>2 DEF TaleSame, TypeOK
  <2> QED BY <2>1, <1>1, <1>t, TaleKept
<1>3. CASE d = c
  <2>1. records[c] = st /\ (st = "confirmed" => recheck[c] = "none")
    BY <1>1 DEF ResultInv, Consistent
  <2>2. pending'[StateOf[c]] # c
    BY <1>0, <1>1, <2>1 DEF PendingInv, Consistent
  <2>3. \A r \in Requests : CmdOf[r] = c => pc'[r] \notin Active
    BY <1>1, <2>1 DEF PhaseInv, PhaseAt, Consistent, Active, Unanswered
  <2>4. \A s \in {"confirmed", "timeout"} : <<c, s>> \notin announcing'
    <3>1. \A s \in {"confirmed", "timeout"} : <<c, s>> \in announcing => s = st
      BY <2>1 DEF ResultInv, Consistent
    <3> QED BY <1>1, <3>1
  <2>5. told'[c] = Append(told[c], st)
    BY <1>1 DEF TypeOK
  <2>6. CASE st = "timeout"
    <3>1. told'[c] = ToldTimeout
      BY <1>1, <1>t, <2>5, <2>6, Tales DEF TaleAt
    <3> QED BY <1>1, <1>3, <2>1, <2>2, <2>3, <2>4, <2>6, <3>1, Tales DEF TaleAt, Bears, Active
  <2>7. CASE st = "confirmed"
    <3>1. told'[c] \in {ToldPrompt, ToldLate}
      BY <1>1, <1>t, <2>5, <2>7, Tales DEF TaleAt
    <3>2. recheck'[c] = "none"
      BY <1>1, <2>1, <2>7
    <3> QED BY <1>1, <1>3, <2>1, <2>2, <2>3, <2>4, <2>7, <3>1, <3>2, Tales DEF TaleAt, Bears, Active
  <2> QED BY <2>6, <2>7
<1> QED BY <1>2, <1>3

\* Every step keeps what was told in line with what is kept.
LEMMA TaleStep == ASSUME TypeOK, Consistent, TaleInv, [Next]_vars PROVE TaleInv'
<1> USE NoneAssumption
<1>s. \A d \in Cmd : StateOf[d] \in State
  BY ConstantsAssumption
<1>1. ASSUME UNCHANGED <<pc, records, durable, told, pending, announcing>>,
             \A d \in Cmd : recheck'[d] # "none" => recheck[d] # "none"
      PROVE  TaleInv'
  <2> SUFFICES ASSUME NEW d \in Cmd PROVE TaleAt(d)'
    BY DEF TaleInv
  <2> QED BY <1>1, TaleKept DEF TaleInv, TaleSame
<1>2. CASE Confirm
  <2> DEFINE s == Head(inbox).state  c == pending[s]
  <2>1. s \in State /\ c \in Cmd
    <3>1. Head(inbox) \in Event
      BY <1>2 DEF Confirm, TypeOK
    <3> QED BY <1>2, <3>1 DEF Confirm, Proves, TypeOK, Event
  <2>2. StateOf[c] = s
    BY <2>1 DEF PendingInv, Consistent
  <2>3. /\ records' = [records EXCEPT ![c] = "confirmed"]
        /\ announcing' = announcing \cup {<<c, "confirmed">>}
        /\ UNCHANGED <<pc, durable, told, recheck>>
        /\ pending' = [pending EXCEPT ![s] = None]
    BY <1>2 DEF Confirm
  <2>4. told[c] = ToldExecuted
    BY <2>1, <2>2 DEF TaleInv, TaleAt
  <2>5. \A d \in Cmd : pending'[StateOf[d]] = d => pending[StateOf[d]] = d
    BY <1>s, <2>1, <2>3 DEF TypeOK
  <2> HIDE DEF c
  <2> QED BY <2>1, <2>3, <2>4, <2>5, TaleResolve
<1>3. ASSUME NEW c \in Cmd, TimeoutCommand(c) PROVE TaleInv'
  <2>1. pending[StateOf[c]] = c /\ records[c] = "executed" /\ c # None
    BY <1>3, <1>s DEF TimeoutCommand, TimersMatchPending, PendingInv, Consistent
  <2>2. /\ records' = [records EXCEPT ![c] = "timeout"]
        /\ announcing' = announcing \cup {<<c, "timeout">>}
        /\ UNCHANGED <<pc, durable, told, recheck>>
        /\ pending' = [pending EXCEPT ![StateOf[c]] = None]
    BY <1>3, <2>1 DEF TimeoutCommand
  <2>3. told[c] = ToldExecuted
    BY <2>1 DEF TaleInv, TaleAt
  <2>4. \A d \in Cmd : pending'[StateOf[d]] = d => pending[StateOf[d]] = d
    BY <1>s, <2>2 DEF TypeOK
  <2> QED BY <2>2, <2>3, <2>4, TaleResolve
<1>4. ASSUME NEW c \in Cmd, RecheckBegin(c) \/ RecheckFails(c) PROVE TaleInv'
  BY <1>1, <1>4 DEF RecheckBegin, RecheckFails, TypeOK
<1>5. ASSUME NEW c \in Cmd, RecheckEnd(c) PROVE TaleInv'
  <2>1. told[c] = ToldTimeout
    BY <1>5 DEF RecheckEnd, TaleInv, TaleAt
  <2>2. \A d \in Cmd : recheck'[d] # "none" => recheck[d] # "none"
    BY <1>5 DEF RecheckEnd, TypeOK
  <2>3. UNCHANGED <<pc, durable, told, pending>>
    BY <1>5 DEF RecheckEnd
  <2>4. CASE db[StateOf[c]].val = ValueOf[c]
    BY <1>5, <2>1, <2>2, <2>3, <2>4, TaleResolve DEF RecheckEnd
  <2>5. CASE db[StateOf[c]].val # ValueOf[c]
    BY <1>1, <1>5, <2>2, <2>3, <2>5 DEF RecheckEnd
  <2> QED BY <2>4, <2>5
<1>6. CASE Persist
  BY <1>6 DEF Persist, memory, TaleInv, TaleAt
<1>10. ASSUME NEW c \in Cmd, NEW st \in {"confirmed", "timeout"}, ResultPutFails(c, st)
       PROVE  TaleInv'
  <2>1. UNCHANGED <<pc, records, durable, told, pending, recheck>> /\ announcing' \subseteq announcing
    BY <1>10 DEF ResultPutFails
  <2> SUFFICES ASSUME NEW d \in Cmd PROVE TaleAt(d)'
    BY DEF TaleInv
  <2> QED BY <2>1, TaleKept DEF TaleInv, TaleSame
<1>7. CASE Restart
  <2> SUFFICES ASSUME NEW d \in Cmd PROVE TaleAt(d)'
    BY DEF TaleInv
  <2>1. /\ records' = durable /\ durable' = durable /\ told' = told /\ announcing' = {}
        /\ recheck'[d] = "none" /\ pending'[StateOf[d]] = None
        /\ \A r \in Requests : pc'[r] \notin Active
    BY <1>7, <1>s DEF Restart, Active, Unanswered, TypeOK
  <2> QED BY <2>1 DEF TaleInv, TaleAt, Active
<1>8. ASSUME NEW s \in State, Obey(s) \/ Reannounce(s) \/ Unsubscribe(s) \/ \E v \in Value : Operate(s, v)
      PROVE  TaleInv'
  <2>1. UNCHANGED <<pc, records, durable, told, pending, announcing, recheck>>
    BY <1>8 DEF Obey, Reannounce, Operate, Acknowledge, Unsubscribe, memory
  <2> QED BY <1>1, <2>1
<1>9. CASE Ignore \/ UNCHANGED vars
  BY <1>1, <1>9 DEF Ignore, vars, memory
<1> QED
  BY <1>2, <1>3, <1>4, <1>5, <1>6, <1>7, <1>8, <1>9, <1>10, TaleExecute, TaleAnnounce DEF Next

\* The results a device is told come in a legal order, and no restart takes one
\* back (src/commands/index.ts puts every record before it emits the result).
THEOREM ResultsAreDurable == ASSUME ClientWaits PROVE Spec => []ToldIsDurable
<1>1. TypeOK /\ TaleInv => ToldIsDurable
  <2> SUFFICES ASSUME TypeOK, TaleInv, NEW c \in Cmd
               PROVE  /\ told[c] \in LegalTale
                      /\ told[c] # <<>> =>
                           \/ durable[c] = told[c][Len(told[c])]
                           \/ told[c][Len(told[c])] = "executed" /\ durable[c] \in {"confirmed", "timeout"}
                           \/ told[c][Len(told[c])] = "timeout" /\ durable[c] = "confirmed"
    BY DEF ToldIsDurable
  <2>1. told[c] \in LegalTale /\ Bears(told[c], durable[c])
    BY DEF TaleInv, TaleAt
  <2>2. /\ ToldRejected[Len(ToldRejected)] = "rejected" /\ ToldExecuted[Len(ToldExecuted)] = "executed"
        /\ ToldPrompt[Len(ToldPrompt)] = "confirmed" /\ ToldTimeout[Len(ToldTimeout)] = "timeout"
        /\ ToldLate[Len(ToldLate)] = "confirmed"
    BY DEF ToldRejected, ToldExecuted, ToldPrompt, ToldTimeout, ToldLate
  <2>3. Untold = <<>>
    BY DEF Untold
  <2> QED BY <2>1, <2>2, <2>3, Tales DEF Bears
<1>2. TypeOK /\ Consistent /\ TaleInv /\ [Next]_vars => TaleInv'
  BY TaleStep
<1> QED BY <1>1, <1>2, TaleInit, TypeCorrect, AlwaysConsistent, PTL DEF Spec

\* An event that says so was acknowledged, and so was the value of a command
\* that is told confirmed, or about to be, without a timeout before.
AckInv ==
    /\ \A i \in DOMAIN inbox : inbox[i].ack => inbox[i].val \in acked[inbox[i].state]
    /\ \A c \in Cmd :
          told[c] = ToldPrompt \/ (told[c] = ToldExecuted /\ <<c, "confirmed">> \in announcing)
             => ValueOf[c] \in acked[StateOf[c]]

\* What an actuator acknowledged stays acknowledged, and reaches the adapter as
\* it is or not at all.
LEMMA AckedGrows ==
    ASSUME TypeOK, AckInv, [Next]_vars
    PROVE  /\ \A s \in State : acked[s] \subseteq acked'[s]
           /\ \A i \in DOMAIN inbox' : inbox'[i].ack => inbox'[i].val \in acked'[inbox'[i].state]
<1> USE ConstantsAssumption
<1>1. ASSUME acked' = acked, inbox' = inbox \/ inbox' = <<>> \/ (inbox # <<>> /\ inbox' = Tail(inbox))
      PROVE  /\ \A s \in State : acked[s] \subseteq acked'[s]
             /\ \A i \in DOMAIN inbox' : inbox'[i].ack => inbox'[i].val \in acked'[inbox'[i].state]
  <2>1. CASE inbox # <<>> /\ inbox' = Tail(inbox)
    <3>1. inbox \in Seq(Event)
      BY DEF TypeOK
    <3>2. \A i \in DOMAIN inbox' : i + 1 \in DOMAIN inbox /\ inbox'[i] = inbox[i + 1]
      BY <2>1, <3>1
    <3> QED BY <1>1, <3>2 DEF AckInv
  <2>2. CASE inbox' = inbox
    BY <1>1, <2>2 DEF AckInv
  <2>3. CASE inbox' = <<>>
    BY <1>1, <2>3
  <2> QED BY <1>1, <2>1, <2>2, <2>3
<1>2. ASSUME NEW s \in State, NEW v \in Value, NEW a \in BOOLEAN, Publish(s, v, a),
             a => v \in acked'[s], \A t \in State : acked[t] \subseteq acked'[t]
      PROVE  \A i \in DOMAIN inbox' : inbox'[i].ack => inbox'[i].val \in acked'[inbox'[i].state]
  <2> SUFFICES ASSUME NEW i \in DOMAIN inbox', inbox'[i].ack
               PROVE  inbox'[i].val \in acked'[inbox'[i].state]
    OBVIOUS
  <2> DEFINE e == [state |-> s, val |-> v, ack |-> a]
  <2>1. inbox \in Seq(Event)
    BY DEF TypeOK
  <2>2. inbox' = Append(inbox, e) \/ inbox' = inbox
    BY <1>2 DEF Publish
  <2>3. CASE i \in DOMAIN inbox /\ inbox'[i] = inbox[i]
    <3>0. inbox[i] \in Event
      BY <2>1, <2>3
    <3>1. inbox[i].state \in State
      BY <3>0 DEF Event
    <3>2. inbox[i].ack /\ inbox'[i].val = inbox[i].val /\ inbox'[i].state = inbox[i].state
      BY <2>3, Zenon
    <3>3. inbox[i].val \in acked[inbox[i].state]
      BY <2>3, <3>2 DEF AckInv
    <3> QED BY <1>2, <3>1, <3>2, <3>3
  <2>4. CASE inbox'[i] = e
    BY <1>2, <2>4
  <2> HIDE DEF e
  <2>5. (i \in DOMAIN inbox /\ inbox'[i] = inbox[i]) \/ inbox'[i] = e
    BY <2>1, <2>2
  <2> QED BY <2>3, <2>4, <2>5
<1>3. ASSUME NEW r \in Requests, Execute(r)
      PROVE  /\ \A s \in State : acked[s] \subseteq acked'[s]
             /\ \A i \in DOMAIN inbox' : inbox'[i].ack => inbox'[i].val \in acked'[inbox'[i].state]
  <2>1. CASE Write(r)
    <3>1. acked' = acked /\ Publish(StateOf[CmdOf[r]], ValueOf[CmdOf[r]], FALSE)
      BY <2>1 DEF Write
    <3> QED BY <1>2, <3>1
  <2>2. CASE ~Write(r)
    <3>1. acked' = acked /\ inbox' = inbox
      BY <1>3, <2>2 DEF Execute, AnswerKnown, Refuse, Begin, Invalid, Accept, WriteFails, AnnounceFailure,
         MarkExecuted, Respond, Subscribed, PutFails, world
    <3> QED BY <1>1, <3>1
  <2> QED BY <2>1, <2>2
<1>4. ASSUME NEW s \in State, NEW v \in Value, Acknowledge(s, v)
      PROVE  /\ \A t \in State : acked[t] \subseteq acked'[t]
             /\ \A i \in DOMAIN inbox' : inbox'[i].ack => inbox'[i].val \in acked'[inbox'[i].state]
  <2>1. acked' = [acked EXCEPT ![s] = @ \cup {v}] /\ Publish(s, v, TRUE)
    BY <1>4 DEF Acknowledge
  <2>2. v \in acked'[s] /\ \A t \in State : acked[t] \subseteq acked'[t]
    BY <2>1 DEF TypeOK
  <2> QED BY <1>2, <2>1, <2>2
<1>5. ASSUME NEW s \in State, Obey(s) \/ Reannounce(s) \/ \E v \in Value : Operate(s, v)
      PROVE  /\ \A t \in State : acked[t] \subseteq acked'[t]
             /\ \A i \in DOMAIN inbox' : inbox'[i].ack => inbox'[i].val \in acked'[inbox'[i].state]
  <2>1. db[s].val \in Value /\ actuator[s] \in Value
    BY DEF TypeOK
  <2> QED BY <1>4, <1>5, <2>1 DEF Obey, Reannounce, Operate
<1>6. ASSUME NEW c \in Cmd,
             TimeoutCommand(c) \/ RecheckBegin(c) \/ RecheckEnd(c) \/ RecheckFails(c)
                \/ \E st \in {"confirmed", "timeout"} : Announce(c, st) \/ ResultPutFails(c, st)
      PROVE  acked' = acked /\ inbox' = inbox
  BY <1>6 DEF TimeoutCommand, RecheckBegin, RecheckEnd, RecheckFails, Announce, ResultPutFails,
              world
<1>7. CASE Confirm \/ Ignore
  BY <1>1, <1>7 DEF Confirm, Ignore
<1>8. CASE Persist \/ Restart \/ (\E s \in State : Unsubscribe(s)) \/ UNCHANGED vars
  BY <1>1, <1>8 DEF Persist, Restart, Unsubscribe, vars, world
<1> QED BY <1>1, <1>3, <1>5, <1>6, <1>7, <1>8 DEF Next

\* Every step keeps the acknowledgements behind prompt confirmations.
LEMMA AckStep ==
    ASSUME TypeOK, Consistent, TaleInv, AckInv, [Next]_vars
    PROVE  AckInv'
<1> USE NoneAssumption
<1>s. \A d \in Cmd : StateOf[d] \in State
  BY ConstantsAssumption
<1> SUFFICES ASSUME NEW d \in Cmd,
                    told'[d] = ToldPrompt \/ (told'[d] = ToldExecuted /\ <<d, "confirmed">> \in announcing')
             PROVE  ValueOf[d] \in acked[StateOf[d]]
  BY <1>s, AckedGrows DEF AckInv
<1>1. ASSUME told' = told, <<d, "confirmed">> \in announcing' => <<d, "confirmed">> \in announcing
      PROVE  ValueOf[d] \in acked[StateOf[d]]
  BY <1>1 DEF AckInv
<1>2. ASSUME NEW r \in Requests, Execute(r) PROVE ValueOf[d] \in acked[StateOf[d]]
  <2>1. CASE AnnounceFailure(r) \/ Respond(r)
    <3>1. CmdOf[r] \in Cmd /\ pc[r] \in Unanswered /\ announcing' = announcing
      BY <2>1, ConstantsAssumption DEF AnnounceFailure, Respond, memory, Unanswered
    <3>2. CASE CmdOf[r] = d
      <4>1. told[d] = Untold
        BY <3>1, <3>2 DEF TaleInv, TaleAt
      <4>2. records[d] \in {"rejected", "executed"}
        BY <2>1, <3>2 DEF AnnounceFailure, Respond, PhaseInv, PhaseAt, Consistent
      <4>3. <<d, "confirmed">> \notin announcing
        BY <4>2 DEF ResultInv, Consistent
      <4>4. told'[d] = Append(Untold, "rejected") \/ told'[d] = Append(Untold, "executed")
        BY <2>1, <3>2, <4>1 DEF AnnounceFailure, Respond, TypeOK
      <4> QED BY <3>1, <4>3, <4>4, Tales
    <3>3. CASE CmdOf[r] # d
      <4>1. told'[d] = told[d]
        BY <2>1, <3>1, <3>3 DEF AnnounceFailure, Respond, TypeOK
      <4> QED BY <3>1, <4>1 DEF AckInv
    <3> QED BY <3>2, <3>3
  <2>2. CASE ~AnnounceFailure(r) /\ ~Respond(r)
    <3>1. told' = told /\ announcing' = announcing
      BY <1>2, <2>2 DEF Execute, AnswerKnown, Refuse, Begin, Invalid, Accept, Write, WriteFails,
         MarkExecuted, Subscribed, PutFails, memory
    <3> QED BY <1>1, <3>1
  <2> QED BY <2>1, <2>2
<1>3. CASE Confirm
  <2> DEFINE e == Head(inbox)  c == pending[e.state]
  <2>1. /\ inbox # <<>> /\ e.ack /\ c # None /\ e.val = ValueOf[c]
        /\ announcing' = announcing \cup {<<c, "confirmed">>} /\ told' = told
    BY <1>3 DEF Confirm, Proves
  <2>2. CASE c = d
    <3>1. e \in Event /\ 1 \in DOMAIN inbox /\ inbox[1] = e
      BY <2>1 DEF TypeOK
    <3>2. e.state \in State
      BY <3>1 DEF Event
    <3>3. StateOf[c] = e.state
      BY <2>1, <3>2 DEF PendingInv, Consistent
    <3>4. e.val \in acked[e.state]
      BY <2>1, <3>1 DEF AckInv
    <3> QED BY <2>1, <2>2, <3>3, <3>4
  <2>3. CASE c # d
    <3>1. <<d, "confirmed">> \in announcing' => <<d, "confirmed">> \in announcing
      BY <2>1, <2>3
    <3> QED BY <1>1, <2>1, <3>1
  <2> QED BY <2>2, <2>3
<1>4. ASSUME NEW c \in Cmd, TimeoutCommand(c) PROVE ValueOf[d] \in acked[StateOf[d]]
  <2>1. told' = told /\ (<<d, "confirmed">> \in announcing' => <<d, "confirmed">> \in announcing)
    BY <1>4 DEF TimeoutCommand
  <2> QED BY <1>1, <2>1
<1>5. ASSUME NEW c \in Cmd, RecheckBegin(c) \/ RecheckEnd(c) \/ RecheckFails(c)
      PROVE  ValueOf[d] \in acked[StateOf[d]]
  <2>1. told' = told
    BY <1>5 DEF RecheckBegin, RecheckEnd, RecheckFails
  <2>2. CASE RecheckEnd(c) /\ c = d
    <3>1. told[d] = ToldTimeout
      BY <2>2 DEF RecheckEnd, TaleInv, TaleAt
    <3> QED BY <2>1, <3>1, Tales
  <2>3. CASE RecheckBegin(c) \/ RecheckFails(c) \/ c # d
    <3>1. <<d, "confirmed">> \in announcing' => <<d, "confirmed">> \in announcing
      BY <1>5, <2>3 DEF RecheckBegin, RecheckEnd, RecheckFails
    <3> QED BY <1>1, <2>1, <3>1
  <2> QED BY <1>5, <2>2, <2>3
<1>6. ASSUME NEW c \in Cmd, NEW st \in {"confirmed", "timeout"}, Announce(c, st)
      PROVE  ValueOf[d] \in acked[StateOf[d]]
  <2>1. /\ <<c, st>> \in announcing /\ announcing' = announcing \ {<<c, st>>}
        /\ told' = [told EXCEPT ![c] = Append(@, st)]
    BY <1>6 DEF Announce
  <2>2. CASE c # d
    <3>1. told'[d] = told[d]
      BY <2>1, <2>2 DEF TypeOK
    <3> QED BY <2>1, <3>1 DEF AckInv
  <2>3. CASE c = d
    <3>1. told'[d] = Append(told[d], st) /\ told[d] \in {ToldExecuted, ToldTimeout}
      BY <2>1, <2>3 DEF TypeOK, TaleInv, TaleAt
    <3>2. CASE st = "timeout"
      <4>1. told[d] = ToldExecuted
        BY <2>1, <2>3, <3>2 DEF TaleInv, TaleAt
      <4> QED BY <3>1, <3>2, <4>1, Tales
    <3>3. CASE st = "confirmed"
      BY <2>1, <2>3, <3>1, <3>3, Tales DEF AckInv
    <3> QED BY <3>2, <3>3
  <2> QED BY <2>2, <2>3
<1>7. CASE Ignore \/ Persist \/ UNCHANGED vars \/ Restart
  <2>1. told' = told /\ announcing' \subseteq announcing
    BY <1>7 DEF Ignore, Persist, Restart, vars, memory
  <2> QED BY <1>1, <2>1
<1>9. ASSUME NEW c \in Cmd, NEW st \in {"confirmed", "timeout"}, ResultPutFails(c, st)
      PROVE  ValueOf[d] \in acked[StateOf[d]]
  BY <1>1, <1>9 DEF ResultPutFails
<1>8. ASSUME NEW s \in State, Obey(s) \/ Reannounce(s) \/ Unsubscribe(s) \/ \E v \in Value : Operate(s, v)
      PROVE  ValueOf[d] \in acked[StateOf[d]]
  <2>1. told' = told /\ announcing' = announcing
    BY <1>8 DEF Obey, Reannounce, Operate, Acknowledge, Unsubscribe, memory
  <2> QED BY <1>1, <2>1
<1> QED BY <1>2, <1>3, <1>4, <1>5, <1>6, <1>7, <1>8, <1>9 DEF Next

\* A command confirmed within the waiting time had its value acknowledged by
\* the actuator: a stale value or the command's own write is never taken for a
\* confirmation by handleForeignStateChange.
THEOREM PromptConfirmationsHold == ASSUME ClientWaits PROVE Spec => []PromptConfirmationWasAcked
<1>1. Init => AckInv
  <2> SUFFICES ASSUME Init PROVE AckInv
    OBVIOUS
  <2>1. inbox = <<>> /\ \A c \in Cmd : told[c] = Untold
    BY DEF Init, Untold
  <2> QED BY <2>1, Tales DEF AckInv
<1>2. TypeOK /\ Consistent /\ TaleInv /\ AckInv /\ [Next]_vars => TaleInv' /\ AckInv'
  BY TaleStep, AckStep
<1>3. AckInv => PromptConfirmationWasAcked
  BY DEF AckInv, PromptConfirmationWasAcked, ToldPrompt
<1> QED BY <1>1, <1>2, <1>3, TaleInit, TypeCorrect, AlwaysConsistent, PTL DEF Spec
=============================================================================
