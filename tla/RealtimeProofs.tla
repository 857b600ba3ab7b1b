----------------------------- MODULE RealtimeProofs -----------------------------
(* The registry of the gateway: every entry is subscribed at ioBroker and has  *)
(* or is about to get a member, and a registered subscriber is never behind -  *)
(* for any connections, states, sessions and rights.                           *)
EXTENDS Realtime, TLAPS

\* The stages of a call that is under way.
Under == {"joining", "refused", "reading", "read"}

\* A connection nobody opened has no call and watches nothing; a call under
\* way is about some state.
CallInv ==
    /\ \A c \in Conn : ws[c] = "new" => subs[c] = {}
    /\ \A k \in Call : task[k].at \in Under => /\ ws[CallerOf[k]] # "new"
                                             /\ task[k].state \in State

RegInv == TypeOK /\ CallInv /\ RegistryIsBacked /\ RegisteredIsCurrent

\* Everything is empty at the start.
LEMMA RegInit == Init => RegInv
<1> SUFFICES ASSUME Init PROVE RegInv
  OBVIOUS
<1>1. Idle \in Task /\ Idle.at \notin Under
  BY DEF Idle, Task, Under
<1>2. TypeOK
  BY <1>1, RealtimeAssumption DEF Init, TypeOK
<1>3. CallInv
  BY <1>1 DEF Init, CallInv
<1>4. RegistryIsBacked /\ RegisteredIsCurrent
  BY DEF Init, RegistryIsBacked, RegisteredIsCurrent
<1> QED BY <1>2, <1>3, <1>4 DEF RegInv

\* The types of the registry alone.
RegistryTypeOK ==
    /\ subs \in [Conn -> SUBSET State]
    /\ present \subseteq State
    /\ members \in [State -> SUBSET Conn]
    /\ task \in [Call -> Task]
    /\ ioSubs \subseteq State
    /\ refused \subseteq present

\* releaseSubscription only takes away: what is left in the map has somebody,
\* or is what it was, and calls that hold a Set still in the map keep it -
\* whichever unsubscriptions ioBroker refuses.
LEMMA ReleaseFacts ==
    ASSUME NEW C \in SUBSET Conn, NEW watched \in [Conn -> SUBSET State],
           RegistryTypeOK, Release(C, watched)
    PROVE  /\ present' \subseteq present
           /\ members' \in [State -> SUBSET Conn]
           /\ \A s \in State : members'[s] \subseteq members[s]
           /\ ioSubs' \subseteq ioSubs
           /\ refused' \subseteq present'
           /\ \A s \in present' : s \in ioSubs => s \in ioSubs'
           /\ \A s \in present' : s \in refused => s \in refused'
           /\ \A s \in present' : members'[s] = {} => members[s] = {}
           /\ task' \in [Call -> Task]
           /\ \A k \in Call : task'[k].at = task[k].at /\ task'[k].state = task[k].state
           /\ \A k \in Call : task[k].state \in present' => task'[k] = task[k]
<1> DEFINE touched == {s \in present : \E c \in C : s \in watched[c]}
           left(s) == IF s \in touched THEN members[s] \ {c \in C : s \in watched[c]}
                                       ELSE members[s]
           dropped == {s \in touched : left(s) = {}}
<1>1. /\ members' = [s \in State |-> left(s)]
      /\ present' = present \ dropped
      /\ refused' = refused \ dropped
      /\ task' = [k \in Call |-> IF task[k].state \in dropped
                                 THEN [task[k] EXCEPT !.attached = FALSE] ELSE task[k]]
  BY DEF Release
<1>2. PICK kept \in SUBSET (dropped \cap Refusing) : ioSubs' = ioSubs \ (dropped \ kept)
  BY DEF Release
<1>3. \A s \in State : left(s) \subseteq members[s]
  OBVIOUS
<1>4. \A s \in present \ dropped : left(s) = {} => members[s] = {}
  OBVIOUS
<1>5. \A k \in Call :
         /\ task'[k] = IF task[k].state \in dropped
                       THEN [task[k] EXCEPT !.attached = FALSE] ELSE task[k]
         /\ task[k] \in Task
  BY <1>1 DEF RegistryTypeOK
<1> HIDE DEF dropped, left
<1>6. \A k \in Call : /\ task'[k] \in Task
                      /\ task'[k].at = task[k].at /\ task'[k].state = task[k].state
  BY <1>5 DEF Task
<1>7. task' \in [Call -> Task]
  BY <1>1, <1>6
<1>8. members' \in [State -> SUBSET Conn] /\ \A s \in State : members'[s] = left(s)
  BY <1>1, <1>3 DEF RegistryTypeOK
<1>9. /\ present' \subseteq present /\ refused' \subseteq present'
      /\ \A s \in present' : s \notin dropped /\ (s \in refused => s \in refused')
  BY <1>1 DEF RegistryTypeOK
<1>10. ioSubs' \subseteq ioSubs /\ \A s \in present' : s \in ioSubs => s \in ioSubs'
  BY <1>2, <1>9
<1>11. \A s \in present' : members'[s] = {} => members[s] = {}
  BY <1>1, <1>4, <1>8 DEF RegistryTypeOK
<1>12. \A k \in Call : task[k].state \in present' => task'[k] = task[k]
  BY <1>5, <1>9
<1> QED BY <1>3, <1>6, <1>7, <1>8, <1>9, <1>10, <1>11, <1>12

\* A step that only takes subscriptions away keeps the registry in order.
LEMMA ReleaseStep ==
    ASSUME RegInv, NEW C \in SUBSET Conn, NEW watched \in [Conn -> SUBSET State],
           Release(C, watched),
           TypeOK', CallInv',
           \A c \in Conn : subs'[c] \subseteq subs[c],
           \A c \in Conn : ws'[c] = "open" => /\ ws[c] = "open"
                                              /\ current'[c] = current[c] /\ spoilt'[c] = spoilt[c]
    PROVE  RegInv'
<1>1. RegistryTypeOK
  BY DEF RegInv, TypeOK, RegistryTypeOK
<1>2. /\ present' \subseteq present
      /\ \A s \in State : members'[s] \subseteq members[s]
      /\ \A s \in present' : s \in ioSubs => s \in ioSubs'
      /\ \A s \in present' : s \in refused => s \in refused'
      /\ \A s \in present' : members'[s] = {} => members[s] = {}
      /\ \A k \in Call : task'[k].at = task[k].at /\ task'[k].state = task[k].state
      /\ \A k \in Call : task[k].state \in present' => task'[k] = task[k]
  BY <1>1, ReleaseFacts
<1>3. RegistryIsBacked'
  <2> SUFFICES ASSUME NEW s \in present', s \notin refused'
               PROVE  /\ s \in ioSubs'
                      /\ members'[s] = {} => \E k \in Call : /\ task'[k].at = "joining"
                                                             /\ task'[k].attached
                                                             /\ task'[k].state = s
    BY DEF RegistryIsBacked
  <2>1. s \in present \ refused
    BY <1>2
  <2> QED BY <1>2, <2>1 DEF RegInv, RegistryIsBacked
<1>4. \A c \in Conn, s \in State : CallsFor(c, s)' = CallsFor(c, s)
  BY <1>2 DEF CallsFor
<1>5. RegisteredIsCurrent'
  <2> SUFFICES ASSUME NEW c \in Conn, NEW s \in State,
                      s \in present' \ refused', c \in members'[s], s \in subs'[c], ws'[c] = "open",
                      CallsFor(c, s)' = {}
               PROVE  s \in current'[c] \cup spoilt'[c]
    BY DEF RegisteredIsCurrent
  <2>1. /\ s \in present \ refused /\ c \in members[s] /\ s \in subs[c] /\ ws[c] = "open"
        /\ CallsFor(c, s) = {}
    BY <1>2, <1>4
  <2> QED BY <2>1 DEF RegInv, RegisteredIsCurrent
<1> QED BY <1>3, <1>5 DEF RegInv

\* Closing a socket opens none.
LEMMA ClosingFacts ==
    ASSUME TypeOK, NEW C
    PROVE  /\ Closing(C) \in [Conn -> {"new", "open", "closing", "dead", "closed"}]
           /\ \A c \in Conn : /\ Closing(C)[c] = "open" => ws[c] = "open"
                              /\ Closing(C)[c] = "new" <=> ws[c] = "new"
  BY DEF Closing, TypeOK

\* What a client has is kept while its socket is open.
LEMMA KeepFacts ==
    ASSUME TypeOK, KeepOpen
    PROVE  /\ current' \in [Conn -> SUBSET State] /\ spoilt' \in [Conn -> SUBSET State]
           /\ \A c \in Conn : ws'[c] = "open" => /\ current'[c] = current[c]
                                                 /\ spoilt'[c] = spoilt[c]
  BY DEF KeepOpen, TypeOK

\* Steps that leave the registry alone and open no socket.
LEMMA QuietStep ==
    ASSUME RegInv, UNCHANGED <<registry, task, missed>>,
           UNCHANGED client \/ KeepOpen,
           ws' \in [Conn -> {"new", "open", "closing", "dead", "closed"}],
           \A c \in Conn : (ws'[c] = "open" => ws[c] = "open") /\ (ws'[c] = "new" => ws[c] = "new"),
           connections' \subseteq Conn, authed' \subseteq Conn, alive' \subseteq Conn,
           sessions' \subseteq Session
    PROVE  RegInv'
<1>1. /\ subs' = subs /\ present' = present /\ members' = members /\ ioSubs' = ioSubs
      /\ refused' = refused /\ task' = task /\ missed' = missed
  BY DEF registry
<1>2. TypeOK
  BY DEF RegInv
<1>3. /\ current' \in [Conn -> SUBSET State] /\ spoilt' \in [Conn -> SUBSET State]
      /\ \A c \in Conn : ws'[c] = "open" => current'[c] = current[c] /\ spoilt'[c] = spoilt[c]
  BY <1>2, KeepFacts DEF client, TypeOK
<1>4. TypeOK'
  BY <1>1, <1>2, <1>3 DEF TypeOK
<1>5. CallInv'
  BY <1>1, RealtimeAssumption DEF RegInv, CallInv
<1>6. RegistryIsBacked'
  BY <1>1 DEF RegInv, RegistryIsBacked
<1>7. RegisteredIsCurrent'
  BY <1>1, <1>3 DEF RegInv, RegisteredIsCurrent, CallsFor
<1> QED BY <1>4, <1>5, <1>6, <1>7 DEF RegInv

\* A socket is opened: its connection watches nothing yet.
LEMMA ConnectStep == ASSUME RegInv, NEW c \in Conn, HandleConnection(c) PROVE RegInv'
<1>1. /\ ws[c] = "new" /\ ws' = [ws EXCEPT ![c] = "open"]
      /\ connections' = connections \cup {c} /\ alive' = alive \cup {c}
      /\ UNCHANGED <<authed, sessions, task, current, spoilt, missed>>
      /\ UNCHANGED <<subs, present, members, ioSubs, refused>>
  BY DEF HandleConnection, registry, client
<1>2. TypeOK'
  BY <1>1 DEF RegInv, TypeOK
<1>3. CallInv'
  BY <1>1, RealtimeAssumption DEF RegInv, TypeOK, CallInv
<1>4. RegistryIsBacked'
  BY <1>1 DEF RegInv, RegistryIsBacked
<1>5. subs[c] = {}
  BY <1>1 DEF RegInv, CallInv
<1>6. RegisteredIsCurrent'
  BY <1>1, <1>5 DEF RegInv, TypeOK, RegisteredIsCurrent, CallsFor
<1> QED BY <1>2, <1>3, <1>4, <1>6 DEF RegInv

\* cleanupConnection, of connections whose sockets are no longer open.
LEMMA CleanupStep ==
    ASSUME RegInv, NEW C \in SUBSET Conn, Cleanup(C),
           ws' \in [Conn -> {"new", "open", "closing", "dead", "closed"}],
           \A c \in Conn : (ws'[c] = "open" => ws[c] = "open") /\ (ws'[c] = "new" => ws[c] = "new"),
           alive' \subseteq Conn, UNCHANGED <<authed, sessions, missed>>
    PROVE  RegInv'
<1>1. /\ connections' = connections \ C
      /\ KeepOpen
      /\ Release(C, subs) /\ subs' = subs
  BY DEF Cleanup
<1>2. TypeOK /\ RegistryTypeOK /\ subs \in [Conn -> SUBSET State]
  BY DEF RegInv, TypeOK, RegistryTypeOK
<1>3. /\ present' \subseteq present
      /\ members' \in [State -> SUBSET Conn]
      /\ ioSubs' \subseteq ioSubs
      /\ refused' \subseteq present'
      /\ task' \in [Call -> Task]
      /\ \A k \in Call : task'[k].at = task[k].at /\ task'[k].state = task[k].state
  BY <1>1, <1>2, ReleaseFacts
<1>4. /\ current' \in [Conn -> SUBSET State] /\ spoilt' \in [Conn -> SUBSET State]
      /\ \A c \in Conn : ws'[c] = "open" => current'[c] = current[c] /\ spoilt'[c] = spoilt[c]
  BY <1>1, <1>2, KeepFacts
<1>5. TypeOK'
  BY <1>1, <1>2, <1>3, <1>4 DEF TypeOK
<1>6. CallInv'
  BY <1>1, <1>3, RealtimeAssumption DEF RegInv, CallInv
<1>7. \A c \in Conn : subs'[c] \subseteq subs[c]
  BY <1>1
<1> QED BY <1>1, <1>2, <1>4, <1>5, <1>6, <1>7, ReleaseStep

\* One turn of subscribe()'s loop: the first subscriber of a state is about to
\* join (or ioBroker is about to refuse it), every other one joins at once and
\* is about to read the value.  The call's last state, if any, is settled.
LEMMA VisitStep ==
    ASSUME RegInv, NEW k \in Call, NEW s \in State, NEW rest \in SUBSET State,
           Visit(k, s, rest), task[k].at # "joining", ws[CallerOf[k]] # "new",
           UNCHANGED <<ws, connections, authed, alive, sessions, missed>>,
           current' \in [Conn -> SUBSET State], spoilt' \in [Conn -> SUBSET State],
           \A d \in Conn : current[d] \cup spoilt[d] \subseteq current'[d] \cup spoilt'[d],
           task[k].at \in {"reading", "read"} /\ ws[CallerOf[k]] = "open"
              => task[k].state \in current'[CallerOf[k]] \cup spoilt'[CallerOf[k]]
    PROVE  RegInv'
<1> DEFINE c == CallerOf[k]
           turn(p) == [at |-> p, state |-> s, todo |-> rest, attached |-> TRUE, fresh |-> FALSE]
<1>1. /\ subs' = [subs EXCEPT ![c] = @ \cup {s}]
      /\ \/ /\ s \in present
            /\ members' = [members EXCEPT ![s] = @ \cup {c}]
            /\ task' = [task EXCEPT ![k] = turn("reading")]
            /\ UNCHANGED <<present, ioSubs, refused>>
         \/ /\ s \notin present
            /\ present' = present \cup {s}
            /\ members' = [members EXCEPT ![s] = {}]
            /\ \/ /\ ioSubs' = ioSubs \cup {s}
                  /\ task' = [task EXCEPT ![k] = turn("joining")]
                  /\ UNCHANGED refused
               \/ /\ refused' = refused \cup {s}
                  /\ task' = [task EXCEPT ![k] = turn("refused")]
                  /\ UNCHANGED ioSubs
  BY DEF Visit
<1>0. c \in Conn
  BY RealtimeAssumption
<1>2. \A p \in {"joining", "refused", "reading"} :
         turn(p) \in Task /\ turn(p).at = p /\ turn(p).state = s /\ turn(p).attached
  BY DEF Task
<1> HIDE DEF turn, c
<1>3. /\ \A j \in Call : j # k => task'[j] = task[j]
      /\ task'[k].state = s /\ task'[k].at \in Under
      /\ \A d \in Conn : d # c => subs'[d] = subs[d]
      /\ \A t \in State : t # s => members'[t] = members[t]
  BY <1>1, <1>2 DEF RegInv, TypeOK, Under
<1>4. TypeOK'
  <2>1. task' \in [Call -> Task]
    BY <1>1, <1>2 DEF RegInv, TypeOK
  <2>2. subs' \in [Conn -> SUBSET State] /\ members' \in [State -> SUBSET Conn]
    BY <1>0, <1>1 DEF RegInv, TypeOK
  <2>3. present' \subseteq State /\ ioSubs' \subseteq State /\ refused' \subseteq present'
    BY <1>1 DEF RegInv, TypeOK
  <2> QED BY <2>1, <2>2, <2>3 DEF RegInv, TypeOK
<1>5. CallInv'
  <2>1. \A d \in Conn : ws'[d] = "new" => subs'[d] = {}
    BY <1>3 DEF RegInv, CallInv, c
  <2>2. \A j \in Call : task'[j].at \in Under => ws'[CallerOf[j]] # "new" /\ task'[j].state \in State
    BY <1>3 DEF RegInv, CallInv
  <2> QED BY <2>1, <2>2 DEF CallInv
<1>6. RegistryIsBacked'
  <2> SUFFICES ASSUME NEW t \in present', t \notin refused'
               PROVE  /\ t \in ioSubs'
                      /\ members'[t] = {} => \E j \in Call : /\ task'[j].at = "joining"
                                                             /\ task'[j].attached
                                                             /\ task'[j].state = t
    BY DEF RegistryIsBacked
  <2>1. CASE t = s
    <3>1. CASE s \in present
      <4>1. s \in ioSubs' /\ members'[s] # {}
        BY <1>1, <2>1, <3>1 DEF RegInv, TypeOK, RegistryIsBacked
      <4> QED BY <2>1, <4>1
    <3>2. CASE s \notin present
      <4>1. ioSubs' = ioSubs \cup {s} /\ task' = [task EXCEPT ![k] = turn("joining")]
        BY <1>1, <2>1, <3>2
      <4>2. task'[k] = turn("joining")
        BY <4>1 DEF RegInv, TypeOK
      <4> QED BY <1>2, <2>1, <4>1, <4>2
    <3> QED BY <3>1, <3>2
  <2>2. CASE t # s
    <3>1. t \in present /\ t \notin refused /\ members'[t] = members[t]
      BY <1>1, <1>3, <2>2 DEF RegInv, TypeOK
    <3>2. t \in ioSubs'
      BY <1>1, <3>1 DEF RegInv, RegistryIsBacked
    <3>3. \A j \in Call : task[j].at = "joining" => task'[j] = task[j]
      BY <1>3
    <3> QED BY <3>1, <3>2, <3>3 DEF RegInv, RegistryIsBacked
  <2> QED BY <2>1, <2>2
<1>7. RegisteredIsCurrent'
  <2> SUFFICES ASSUME NEW d \in Conn, NEW t \in State,
                      t \in present' \ refused', d \in members'[t], t \in subs'[d], ws'[d] = "open",
                      CallsFor(d, t)' = {}
               PROVE  t \in current'[d] \cup spoilt'[d]
    BY DEF RegisteredIsCurrent
  <2>1. ~(d = c /\ t = s)
    <3>1. SUFFICES ASSUME d = c, t = s PROVE FALSE
      OBVIOUS
    <3>2. task'[k].at \in {"joining", "reading"}
      BY <1>1, <1>2, <3>1 DEF RegInv, TypeOK
    <3> QED BY <1>3, <3>1, <3>2 DEF CallsFor, c
  <2>2. t \in subs[d] /\ ws[d] = "open"
    BY <1>1, <2>1 DEF RegInv, TypeOK
  <2>3. t \in present \ refused /\ d \in members[t]
    BY <1>1, <1>3, <2>1 DEF RegInv, TypeOK
  <2>4. CASE \E j \in CallsFor(d, t) : j # k
    BY <1>3, <2>4 DEF CallsFor
  <2>5. CASE k \in CallsFor(d, t)
    BY <2>2, <2>5 DEF CallsFor
  <2>6. CASE CallsFor(d, t) = {}
    BY <2>2, <2>3, <2>6 DEF RegInv, RegisteredIsCurrent
  <2> QED BY <2>4, <2>5, <2>6
<1> QED BY <1>4, <1>5, <1>6, <1>7 DEF RegInv

\* A call goes on or ends and the registry stays: what it was about to join is
\* not taken from it, and if it is over, its state is settled.
LEMMA CallStep ==
    ASSUME RegInv, NEW k \in Call, NEW next \in Task, task' = [task EXCEPT ![k] = next],
           UNCHANGED <<registry, ws, connections, authed, alive, sessions, missed>>,
           task[k].at \in {"refused", "reading", "read"},
           next.at \in Under => next.state = task[k].state,
           task[k].at = "reading" => next.at = "read" \/ next.at = "over",
           next.at \notin {"joining", "reading"},
           current' \in [Conn -> SUBSET State], spoilt' \in [Conn -> SUBSET State],
           \A d \in Conn : current[d] \cup spoilt[d] \subseteq current'[d] \cup spoilt'[d],
           task[k].at \in {"reading", "read"} /\ next.at = "over" /\ ws[CallerOf[k]] = "open"
              => task[k].state \in current'[CallerOf[k]] \cup spoilt'[CallerOf[k]],
           task[k].at = "refused" \/ task[k].at = "read" => next.at = "over"
    PROVE  RegInv'
<1>1. /\ subs' = subs /\ present' = present /\ members' = members /\ ioSubs' = ioSubs
      /\ refused' = refused
  BY DEF registry
<1>2. /\ \A j \in Call : j # k => task'[j] = task[j]
      /\ task'[k] = next /\ task' \in [Call -> Task]
  BY DEF RegInv, TypeOK
<1>3. TypeOK'
  BY <1>1, <1>2 DEF RegInv, TypeOK
<1>4. CallInv'
  <2>1. task[k].at \in Under
    BY DEF Under
  <2> QED BY <1>1, <1>2, <2>1 DEF RegInv, CallInv
<1>5. RegistryIsBacked'
  <2>1. \A j \in Call : task[j].at = "joining" => task'[j] = task[j]
    BY <1>2
  <2> QED BY <1>1, <2>1 DEF RegInv, RegistryIsBacked
<1>6. RegisteredIsCurrent'
  <2> SUFFICES ASSUME NEW d \in Conn, NEW t \in State,
                      t \in present \ refused, d \in members[t], t \in subs[d], ws[d] = "open",
                      CallsFor(d, t)' = {}
               PROVE  t \in current'[d] \cup spoilt'[d]
    BY <1>1 DEF RegisteredIsCurrent
  <2>1. CASE \E j \in CallsFor(d, t) : j # k
    BY <1>2, <2>1 DEF CallsFor
  <2>2. CASE k \in CallsFor(d, t)
    <3>1. CallerOf[k] = d /\ task[k].state = t /\ task[k].at \in {"reading", "read"}
      BY <2>2 DEF CallsFor
    <3>2. next.at = "over"
      BY <1>2, <3>1 DEF CallsFor, Under
    <3> QED BY <3>1, <3>2
  <2>3. CASE CallsFor(d, t) = {}
    BY <2>3 DEF RegInv, RegisteredIsCurrent
  <2> QED BY <2>1, <2>2, <2>3
<1> QED BY <1>3, <1>4, <1>5, <1>6 DEF RegInv

\* ioBroker has answered the first subscriber.
LEMMA JoinStep == ASSUME RegInv, NEW k \in Call, Join(k) PROVE RegInv'
<1> DEFINE c == CallerOf[k]
<1>1. /\ task[k].at = "joining" /\ task[k] \in Task
      /\ task' = [task EXCEPT ![k] = [task[k] EXCEPT !.at = "reading"]]
      /\ members' = IF task[k].attached THEN [members EXCEPT ![task[k].state] = @ \cup {c}] ELSE members
      /\ UNCHANGED <<ws, connections, authed, alive, sessions, subs, present, refused, ioSubs, missed>>
      /\ UNCHANGED <<current, spoilt>>
      /\ c \in Conn
  BY RealtimeAssumption DEF Join, RegInv, TypeOK, client
<1> HIDE DEF c
<1>2. [task[k] EXCEPT !.at = "reading"] \in Task
  BY <1>1 DEF Task
<1>3. /\ \A j \in Call : j # k => task'[j] = task[j]
      /\ task'[k].state = task[k].state /\ task'[k].at = "reading"
  BY <1>1, <1>2 DEF RegInv, TypeOK, Task
<1>4. task' \in [Call -> Task]
  BY <1>1, <1>2 DEF RegInv, TypeOK
<1>5. members' \in [State -> SUBSET Conn]
  BY <1>1 DEF RegInv, TypeOK
<1>6. TypeOK'
  BY <1>1, <1>4, <1>5 DEF RegInv, TypeOK
<1>7. CallInv'
  BY <1>1, <1>3 DEF RegInv, CallInv, Under
<1>8. \A s \in State : /\ members[s] \subseteq members'[s]
                       /\ members'[s] \subseteq members[s] \cup {c}
                       /\ s # task[k].state => members'[s] = members[s]
                       /\ s = task[k].state /\ task[k].attached => members'[s] # {}
  BY <1>1 DEF RegInv, TypeOK
<1>9. RegistryIsBacked'
  <2> SUFFICES ASSUME NEW s \in present \ refused, members'[s] = {}
               PROVE  \E j \in Call : task'[j].at = "joining" /\ task'[j].attached /\ task'[j].state = s
    BY <1>1 DEF RegInv, RegistryIsBacked
  <2>1. s \in State /\ members[s] = {}
    BY <1>8 DEF RegInv, TypeOK
  <2>2. PICK j \in Call : task[j].at = "joining" /\ task[j].attached /\ task[j].state = s
    BY <2>1 DEF RegInv, RegistryIsBacked
  <2>3. j # k
    BY <1>8, <2>1, <2>2
  <2> QED BY <1>3, <2>2, <2>3
<1>10. RegisteredIsCurrent'
  <2> SUFFICES ASSUME NEW d \in Conn, NEW s \in State,
                      s \in present \ refused, d \in members'[s], s \in subs[d], ws[d] = "open",
                      CallsFor(d, s)' = {}
               PROVE  s \in current[d] \cup spoilt[d]
    BY <1>1 DEF RegisteredIsCurrent
  <2>1. ~(d = c /\ s = task[k].state)
    BY <1>3 DEF CallsFor, c
  <2>2. d \in members[s]
    BY <1>8, <2>1
  <2>3. CallsFor(d, s) = {}
    BY <1>1, <1>3 DEF CallsFor
  <2> QED BY <2>2, <2>3 DEF RegInv, RegisteredIsCurrent
<1> QED BY <1>6, <1>7, <1>9, <1>10 DEF RegInv

\* The call that is over.
LEMMA OverFacts == Over \in Task /\ Over.at = "over" /\ Over.at \notin Under
  BY DEF Over, Idle, Task, Under

\* ioBroker refused the first subscriber; its Set stays as it is.
LEMMA JoinFailsStep == ASSUME RegInv, NEW k \in Call, JoinFails(k) PROVE RegInv'
<1>1. /\ task[k].at = "refused" /\ task' = [task EXCEPT ![k] = Over]
      /\ UNCHANGED <<registry, ws, connections, authed, alive, sessions, missed, current, spoilt>>
  BY DEF JoinFails, client
<1> QED BY <1>1, OverFacts, CallStep DEF RegInv, TypeOK

\* ioBroker has read the value.
LEMMA ReadInitialStep == ASSUME RegInv, NEW k \in Call, ReadInitial(k) PROVE RegInv'
<1> DEFINE next == [task[k] EXCEPT !.at = "read", !.fresh = TRUE]
<1>1. /\ task[k].at = "reading" /\ task[k] \in Task
      /\ UNCHANGED <<registry, ws, connections, authed, alive, sessions, missed, current, spoilt>>
  BY DEF ReadInitial, client, RegInv, TypeOK
<1>2. next \in Task /\ next.at = "read" /\ next.state = task[k].state
  BY <1>1 DEF Task
<1>3. task' = [task EXCEPT ![k] = next]
  BY DEF ReadInitial, RegInv, TypeOK
<1> HIDE DEF next
<1> QED BY <1>1, <1>2, <1>3, CallStep DEF RegInv, TypeOK

\* The read was rejected: the client is left without a first value.
LEMMA ReadFailsStep == ASSUME RegInv, NEW k \in Call, ReadFails(k) PROVE RegInv'
<1> DEFINE c == CallerOf[k]
<1>1. /\ task[k].at = "reading" /\ task' = [task EXCEPT ![k] = Over]
      /\ task[k].state \in State /\ c \in Conn
      /\ spoilt' = IF ws[c] = "open" THEN [spoilt EXCEPT ![c] = @ \cup {task[k].state}] ELSE spoilt
      /\ UNCHANGED <<registry, ws, connections, authed, alive, sessions, missed, current>>
  BY RealtimeAssumption DEF ReadFails, RegInv, CallInv, Under
<1> HIDE DEF c
<1>2. /\ current' \in [Conn -> SUBSET State] /\ spoilt' \in [Conn -> SUBSET State]
      /\ \A d \in Conn : current[d] \cup spoilt[d] \subseteq current'[d] \cup spoilt'[d]
      /\ ws[c] = "open" => task[k].state \in current'[c] \cup spoilt'[c]
  BY <1>1 DEF RegInv, TypeOK
<1> QED BY <1>1, <1>2, OverFacts, CallStep DEF c

\* What was read is sent: the client has the latest value, or one a change
\* had overtaken.
LEMMA SendValueFacts ==
    ASSUME TypeOK, NEW k \in Call, CallerOf[k] \in Conn, task[k].state \in State, SendValue(k)
    PROVE  /\ current' \in [Conn -> SUBSET State] /\ spoilt' \in [Conn -> SUBSET State]
           /\ \A d \in Conn : current[d] \cup spoilt[d] \subseteq current'[d] \cup spoilt'[d]
           /\ ws[CallerOf[k]] = "open"
                => task[k].state \in current'[CallerOf[k]] \cup spoilt'[CallerOf[k]]
<1> DEFINE c == CallerOf[k]
           s == task[k].state
<1>1. c \in Conn /\ s \in State
  OBVIOUS
<1>2. \/ ws[c] # "open" /\ UNCHANGED <<current, spoilt>>
      \/ /\ current' = [current EXCEPT ![c] = @ \cup {s}]
         /\ spoilt' = [spoilt EXCEPT ![c] = @ \ {s}]
      \/ /\ current' = [current EXCEPT ![c] = @ \ {s}]
         /\ spoilt' = [spoilt EXCEPT ![c] = @ \cup {s}]
  BY DEF SendValue, client
<1> HIDE DEF c, s
<1>3. /\ current' \in [Conn -> SUBSET State] /\ spoilt' \in [Conn -> SUBSET State]
      /\ \A d \in Conn : current[d] \cup spoilt[d] \subseteq current'[d] \cup spoilt'[d]
      /\ ws[c] = "open" => s \in current'[c] \cup spoilt'[c]
  BY <1>1, <1>2 DEF TypeOK
<1> QED BY <1>3 DEF c, s

\* The value was sent; the call ends or goes on with the next id.
LEMMA SendInitialStep == ASSUME RegInv, NEW k \in Call, SendInitial(k) PROVE RegInv'
<1>1. /\ TypeOK /\ task[k].at = "read" /\ task[k] \in Task /\ SendValue(k)
      /\ UNCHANGED <<ws, connections, authed, alive, sessions, missed>>
      /\ CallerOf[k] \in Conn
  BY RealtimeAssumption DEF SendInitial, RegInv, TypeOK
<1>2. task[k].state \in State /\ ws[CallerOf[k]] # "new"
  BY <1>1 DEF RegInv, CallInv, Under
<1>3. /\ current' \in [Conn -> SUBSET State] /\ spoilt' \in [Conn -> SUBSET State]
      /\ \A d \in Conn : current[d] \cup spoilt[d] \subseteq current'[d] \cup spoilt'[d]
      /\ ws[CallerOf[k]] = "open"
            => task[k].state \in current'[CallerOf[k]] \cup spoilt'[CallerOf[k]]
  BY <1>1, <1>2, SendValueFacts
<1>4. CASE task' = [task EXCEPT ![k] = Over] /\ UNCHANGED registry
  BY <1>1, <1>3, <1>4, OverFacts, CallStep
<1>5. CASE \E s \in task[k].todo : Visit(k, s, task[k].todo \ {s})
  <2>1. PICK s \in task[k].todo : Visit(k, s, task[k].todo \ {s})
    BY <1>5
  <2>2. s \in State /\ task[k].todo \ {s} \in SUBSET State
    BY <1>1 DEF Task
  <2> QED BY <1>1, <1>2, <1>3, <2>1, <2>2, VisitStep
<1> QED BY <1>4, <1>5 DEF SendInitial

\* A state changes: it reaches every registered, open subscriber, because the
\* registry is backed.
LEMMA ChangeStep == ASSUME RegInv, NEW s \in State, StateChange(s) PROVE RegInv'
<1> DEFINE reached == IF s \in ioSubs /\ s \in present
                      THEN {c \in members[s] : s \in subs[c] /\ ws[c] = "open"} ELSE {}
<1>1. /\ current' = [c \in Conn |-> IF c \in reached THEN current[c] \cup {s} ELSE current[c] \ {s}]
      /\ spoilt' = [c \in Conn |-> IF c \in reached THEN spoilt[c] \ {s} ELSE spoilt[c]]
      /\ task' = [k \in Call |-> IF task[k].at = "read" /\ task[k].state = s
                                 THEN [task[k] EXCEPT !.fresh = FALSE] ELSE task[k]]
      /\ missed' = IF s \in AlarmStates \ ioSubs THEN missed \cup {s} ELSE missed
      /\ UNCHANGED <<ws, connections, authed, alive, sessions>>
      /\ UNCHANGED <<subs, present, members, ioSubs, refused>>
  BY DEF StateChange, registry
<1>2. \A c \in Conn : /\ s \in present \ refused /\ c \in members[s] /\ s \in subs[c] /\ ws[c] = "open"
                      => s \in current'[c]
  BY <1>1 DEF RegInv, RegistryIsBacked
<1>3. \A c \in Conn, t \in State : t # s /\ t \in current[c] \cup spoilt[c]
                                     => t \in current'[c] \cup spoilt'[c]
  BY <1>1
<1>4. current' \in [Conn -> SUBSET State] /\ spoilt' \in [Conn -> SUBSET State]
  BY <1>1 DEF RegInv, TypeOK
<1> HIDE DEF reached
<1>5. \A k \in Call : /\ task'[k] \in Task
                      /\ task'[k].at = task[k].at /\ task'[k].state = task[k].state
                      /\ task'[k].attached = task[k].attached
  <2> TAKE k \in Call
  <2>1. task[k] \in Task
    BY DEF RegInv, TypeOK
  <2>2. task'[k] = task[k] \/ task'[k] = [task[k] EXCEPT !.fresh = FALSE]
    BY <1>1
  <2> QED BY <2>1, <2>2 DEF Task
<1>6. task' \in [Call -> Task]
  BY <1>1, <1>5
<1>7. TypeOK'
  BY <1>1, <1>4, <1>6 DEF RegInv, TypeOK
<1>8. CallInv' /\ RegistryIsBacked'
  BY <1>1, <1>5 DEF RegInv, CallInv, RegistryIsBacked
<1>9. \A c \in Conn, t \in State : CallsFor(c, t)' = CallsFor(c, t)
  BY <1>5 DEF CallsFor
<1>10. RegisteredIsCurrent'
  BY <1>1, <1>2, <1>3, <1>9 DEF RegInv, RegisteredIsCurrent
<1> QED BY <1>7, <1>8, <1>10 DEF RegInv

\* Every step of the gateway keeps the registry in order.
LEMMA RegStep == RegInv /\ [Next]_vars => RegInv'
<1> SUFFICES ASSUME RegInv, [Next]_vars PROVE RegInv'
  OBVIOUS
<1>0. TypeOK
  BY DEF RegInv
<1>1. ASSUME NEW c \in Conn, HandleConnection(c) PROVE RegInv'
  BY <1>1, ConnectStep
<1>2. ASSUME NEW c \in Conn, HandleAuth(c) PROVE RegInv'
  BY <1>0, <1>2, ClosingFacts, QuietStep DEF HandleAuth, TypeOK
<1>3. ASSUME NEW c \in Conn, AuthTimeout(c) PROVE RegInv'
  BY <1>0, <1>3, ClosingFacts, QuietStep DEF AuthTimeout, TypeOK
<1>4. ASSUME NEW c \in Conn, CloseEvent(c) \/ ErrorEvent(c) PROVE RegInv'
  <2>1. /\ Cleanup({c}) /\ alive' = alive \ {c}
        /\ UNCHANGED <<authed, sessions, missed>>
        /\ ws' = [ws EXCEPT ![c] = "closed"] \/ ws' = [ws EXCEPT ![c] = "dead"]
    BY <1>4 DEF CloseEvent, ErrorEvent
  <2> QED BY <1>0, <2>1, CleanupStep DEF TypeOK
<1>5. ASSUME HeartbeatTick PROVE RegInv'
  <2> DEFINE silent == connections \ alive
             ended  == {c \in (connections \cap alive) \cap authed : SessionOf[c] \notin sessions}
  <2>1. /\ ws' = [c \in Conn |-> IF c \in silent THEN "dead" ELSE Closing(ended)[c]]
        /\ alive' = {} /\ Cleanup(silent \cup ended)
        /\ UNCHANGED <<authed, sessions, missed>>
    BY <1>5 DEF HeartbeatTick
  <2>2. silent \cup ended \in SUBSET Conn
    BY <1>0 DEF TypeOK
  <2>4. /\ ws' \in [Conn -> {"new", "open", "closing", "dead", "closed"}]
        /\ \A c \in Conn : (ws'[c] = "open" => ws[c] = "open") /\ (ws'[c] = "new" => ws[c] = "new")
    <3> HIDE DEF silent, ended
    <3> QED BY <1>0, <2>1, <2>2, ClosingFacts
  <2> QED BY <1>0, <2>1, <2>2, <2>4, CleanupStep DEF TypeOK
<1>6. ASSUME NEW c \in Conn, Pong(c) PROVE RegInv'
  BY <1>0, <1>6, QuietStep DEF Pong, TypeOK
<1>7. ASSUME NEW c \in Conn, PeerCloses(c) PROVE RegInv'
  BY <1>0, <1>7, QuietStep DEF PeerCloses, TypeOK
<1>8. ASSUME NEW k \in Call, NEW S \in SUBSET State, Subscribe(k, S) PROVE RegInv'
  <2>1. PICK s \in S : Visit(k, s, S \ {s})
    BY <1>8 DEF Subscribe
  <2>2. /\ task[k].at = "none" /\ ws[CallerOf[k]] # "new"
        /\ UNCHANGED <<ws, connections, authed, alive, sessions, current, spoilt, missed>>
    BY <1>8 DEF Subscribe, CanReceive, client
  <2> QED BY <1>0, <2>1, <2>2, VisitStep DEF TypeOK
<1>9. ASSUME NEW c \in Conn, NEW s \in State, Unsubscribe(c, s) PROVE RegInv'
  <2> DEFINE watched == [subs EXCEPT ![c] = {s}]
  <2>1. /\ ws[c] # "new"
        /\ subs' = [subs EXCEPT ![c] = @ \ {s}]
        /\ Release({c}, watched)
        /\ UNCHANGED <<ws, connections, authed, alive, sessions, current, spoilt, missed>>
    BY <1>9 DEF Unsubscribe, CanReceive, client
  <2>2. watched \in [Conn -> SUBSET State] /\ RegistryTypeOK
    BY <1>0 DEF TypeOK, RegistryTypeOK
  <2> HIDE DEF watched
  <2>3. /\ present' \subseteq present
        /\ members' \in [State -> SUBSET Conn]
        /\ ioSubs' \subseteq ioSubs
        /\ refused' \subseteq present'
        /\ task' \in [Call -> Task]
        /\ \A k \in Call : task'[k].at = task[k].at /\ task'[k].state = task[k].state
    BY <2>1, <2>2, ReleaseFacts
  <2>4. \A d \in Conn : subs'[d] \subseteq subs[d]
    BY <1>0, <2>1 DEF TypeOK
  <2>5. TypeOK'
    BY <1>0, <2>1, <2>3 DEF TypeOK
  <2>6. CallInv'
    BY <2>1, <2>3, <2>4 DEF RegInv, CallInv
  <2> QED BY <2>1, <2>2, <2>4, <2>5, <2>6, ReleaseStep
<1>10. ASSUME NEW k \in Call, Join(k) \/ JoinFails(k) PROVE RegInv'
  BY <1>10, JoinStep, JoinFailsStep
<1>11. ASSUME NEW k \in Call, ReadInitial(k) \/ ReadFails(k) \/ SendInitial(k) PROVE RegInv'
  BY <1>11, ReadInitialStep, ReadFailsStep, SendInitialStep
<1>12. ASSUME NEW n \in Session, SessionExpires(n) \/ NotifySessionRevoked(n) PROVE RegInv'
  BY <1>0, <1>12, ClosingFacts, QuietStep DEF SessionExpires, NotifySessionRevoked, TypeOK
<1>13. ASSUME NEW s \in State, StateChange(s) PROVE RegInv'
  BY <1>13, ChangeStep
<1>14. CASE UNCHANGED vars
  BY <1>0, <1>14, QuietStep DEF vars, TypeOK
<1> QED BY <1>1, <1>2, <1>3, <1>4, <1>5, <1>6, <1>7, <1>8, <1>9, <1>10, <1>11, <1>12, <1>13, <1>14
        DEF Next

\* Every reachable state of the gateway is well typed.
THEOREM TypeCorrect == Spec => []TypeOK
<1>1. RegInv => TypeOK
  BY DEF RegInv
<1> QED BY <1>1, RegInit, RegStep, PTL DEF Spec

\* releaseSubscription and subscribe: whatever connections come, leave and
\* wait in between, a state in stateSubscribers is subscribed at ioBroker and
\* none is kept there for nobody - but for those whose first subscriber ioBroker
\* refused.
THEOREM RegistryStaysBacked == Spec => []RegistryIsBacked
<1>1. RegInv => RegistryIsBacked
  BY DEF RegInv
<1> QED BY <1>1, RegInit, RegStep, PTL DEF Spec

\* publishStateChange: a client that is registered, and past the first value
\* of its subscription, has the latest one, unless that first value was not to
\* be read, or a change overtook it, and no change has come since.
THEOREM RegisteredStaysCurrent == Spec => []RegisteredIsCurrent
<1>1. RegInv => RegisteredIsCurrent
  BY DEF RegInv
<1> QED BY <1>1, RegInit, RegStep, PTL DEF Spec
=============================================================================
