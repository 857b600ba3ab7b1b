------------------------------- MODULE Realtime -------------------------------
(***************************************************************************)
(* RealtimeGateway (src/realtime/index.ts): WebSocket connections and the  *)
(* registry of which connection watches which ioBroker state, together     *)
(* with AlarmEventsService (src/alarms/index.ts), whose recording rests on *)
(* the same ioBroker subscriptions of the one adapter.                     *)
(*                                                                         *)
(* A step is a stretch of code between two awaits.  The awaits that matter *)
(* are those of subscribe(): the first subscriber of a state puts an empty *)
(* Set into stateSubscribers, waits for ioBroker, and joins the Set it     *)
(* holds - which may by then be out of the map; then the value is read, and*)
(* sent when the answer has come.  Both calls may be rejected, which ends  *)
(* subscribe() where it is.  handleMessage is not serialised: a connection *)
(* may have several calls under way.  Subscribing and unsubscribing take   *)
(* effect at ioBroker in the order the calls are made.                     *)
(*                                                                         *)
(* Action_Fault is the action with a plausible fault in it; no             *)
(* specification uses it.                                                  *)
(***************************************************************************)
EXTENDS Naturals, FiniteSets

CONSTANTS
    Conn,        \* connections; each is opened at most once
    State,       \* ioBroker state ids (a public id stands for one state)
    Session,     \* sessions
    AlarmStates, \* states whose role makes AlarmEventsService subscribe them
    SessionOf,   \* [Conn -> Session] the session a connection logs in with
    MayRead,     \* [Conn -> SUBSET State] what resolveAuthorized lets its user read
    Silent,      \* connections whose peer never answers a ping
    Call,        \* subscribe messages; each is received at most once
    CallerOf,    \* [Call -> Conn] the connection each of them is of
    Refusing,    \* states ioBroker may refuse to (un)subscribe or to read
    None

ASSUME RealtimeAssumption ==
    /\ AlarmStates \subseteq State
    /\ SessionOf \in [Conn -> Session]
    /\ MayRead \in [Conn -> SUBSET State]
    /\ Silent \subseteq Conn
    /\ CallerOf \in [Call -> Conn]
    /\ Refusing \subseteq State
    /\ None \notin State

VARIABLES
    ws,          \* the socket: "new", "open", "closing" (close() called here),
                 \* "dead" (gone, 'close' event not yet delivered), "closed"
    connections, \* this.connections
    authed,      \* connections with a ctx
    alive,       \* connection.alive, of the connections in the set
    sessions,    \* active sessions
    subs,        \* connection.subscriptions, by state
    present,     \* the keys of stateSubscribers
    members,     \* its values
    task,        \* where each subscribe() call is
    ioSubs,      \* states ioBroker delivers to the adapter
    refused,     \* history: keys whose first subscriber ioBroker refused
    current,     \* states whose latest value the client of a connection has
    spoilt,      \* history: states whose first value a connection did not get,
                 \* or got after a change had overtaken it, and no change since
    missed       \* alarm states with a change the adapter never heard of

registry == <<subs, present, members, ioSubs, refused>>
client   == <<current, spoilt>>
vars == <<ws, connections, authed, alive, sessions, registry, task, client, missed>>

\* "joining", "refused": subscribeForeignStatesAsync is to answer, to reject;
\* "reading": the value is asked for, "read": the answer is on its way.
Idle == [at |-> "none", state |-> None, todo |-> {}, attached |-> FALSE, fresh |-> FALSE]
Over == [Idle EXCEPT !.at = "over"]
Task == [at : {"none", "joining", "refused", "reading", "read", "over"}, state : State \cup {None},
         todo : SUBSET State, attached : BOOLEAN, fresh : BOOLEAN]

\* The calls of a connection that are on their way to a state's first value.
CallsFor(c, s) == {k \in Call : /\ CallerOf[k] = c /\ task[k].state = s
                                /\ task[k].at \in {"joining", "reading", "read"}}

Init ==
    /\ ws = [c \in Conn |-> "new"]
    /\ connections = {}
    /\ authed = {}
    /\ alive = {}
    /\ sessions = Session
    /\ subs = [c \in Conn |-> {}]
    /\ present = {}
    /\ members = [s \in State |-> {}]
    /\ task = [k \in Call |-> Idle]
    /\ ioSubs = AlarmStates          \* subscribeToAlarmObjects, once at startup
    /\ refused = {}
    /\ current = [c \in Conn |-> {}]
    /\ spoilt = [c \in Conn |-> {}]
    /\ missed = {}

----------------------------------------------------------------------------
(* Connections                                                             *)

\* A message can still arrive after the server called close().
CanReceive(c) == ws[c] \in {"open", "closing"}

\* What a client has of the values ends with its socket.
KeepOpen ==
    /\ current' = [c \in Conn |-> IF ws'[c] = "open" THEN current[c] ELSE {}]
    /\ spoilt'  = [c \in Conn |-> IF ws'[c] = "open" THEN spoilt[c]  ELSE {}]

Closing(C) == [c \in Conn |-> IF c \in C /\ ws[c] = "open" THEN "closing" ELSE ws[c]]

HandleConnection(c) ==
    /\ ws[c] = "new"
    /\ ws' = [ws EXCEPT ![c] = "open"]
    /\ connections' = connections \cup {c}
    /\ alive' = alive \cup {c}
    /\ UNCHANGED <<authed, sessions, registry, task, client, missed>>

\* handleAuth: verified, or told AUTH_REQUIRED and closed.
HandleAuth(c) ==
    /\ CanReceive(c)
    /\ \/ /\ SessionOf[c] \in sessions
          /\ authed' = authed \cup {c}
          /\ UNCHANGED ws
       \/ /\ ws' = Closing({c})
          /\ UNCHANGED authed
    /\ UNCHANGED <<connections, alive, sessions, registry, task, missed>>
    /\ KeepOpen

AuthTimeout(c) ==
    /\ ws[c] = "open" /\ c \notin authed
    /\ ws' = Closing({c})
    /\ UNCHANGED <<connections, authed, alive, sessions, registry, task, missed>>
    /\ KeepOpen

\* The connections of C leave the Sets of their subscriptions; a Set left
\* empty is dropped from the map and unsubscribed (unless ioBroker refuses) -
\* also when it is empty only because its first subscriber has not joined yet.
Release(C, watched) ==
    LET touched == {s \in present : \E c \in C : s \in watched[c]}
        left(s) == IF s \in touched THEN members[s] \ {c \in C : s \in watched[c]}
                                    ELSE members[s]
        dropped == {s \in touched : left(s) = {}}
    IN  /\ members' = [s \in State |-> left(s)]
        /\ present' = present \ dropped
        /\ \E kept \in SUBSET (dropped \cap Refusing) : ioSubs' = ioSubs \ (dropped \ kept)
        /\ refused' = refused \ dropped
        /\ task' = [k \in Call |-> IF task[k].state \in dropped
                                   THEN [task[k] EXCEPT !.attached = FALSE] ELSE task[k]]

\* cleanupConnection: subscriptions is walked and not cleared, so a second
\* cleanup of the same connection releases once more.
Cleanup(C) ==
    /\ connections' = connections \ C
    /\ KeepOpen
    /\ Release(C, subs)
    /\ UNCHANGED subs

CloseEvent(c) ==
    /\ ws[c] \in {"closing", "dead"}
    /\ ws' = [ws EXCEPT ![c] = "closed"]
    /\ Cleanup({c})
    /\ alive' = alive \ {c}
    /\ UNCHANGED <<authed, sessions, missed>>

\* The 'error' event cleans up; the 'close' event after it does so again.
ErrorEvent(c) ==
    /\ CanReceive(c)
    /\ ws' = [ws EXCEPT ![c] = "dead"]
    /\ Cleanup({c})
    /\ alive' = alive \ {c}
    /\ UNCHANGED <<authed, sessions, missed>>

\* heartbeatTick: silent peers are terminated, ended sessions closed, both
\* cleaned up; everybody else is pinged.
HeartbeatTick_SessionUnchecked ==
    LET silent == connections \ alive IN
    /\ ws' = [c \in Conn |-> IF c \in silent THEN "dead" ELSE ws[c]]
    /\ alive' = {}
    /\ Cleanup(silent)
    /\ UNCHANGED <<authed, sessions, missed>>

HeartbeatTick_NobodyTerminated ==
    LET ended == {c \in (connections \cap alive) \cap authed : SessionOf[c] \notin sessions} IN
    /\ ws' = Closing(ended)
    /\ alive' = {}
    /\ Cleanup(ended)
    /\ UNCHANGED <<authed, sessions, missed>>

HeartbeatTick ==
    LET silent == connections \ alive
        ended  == {c \in (connections \cap alive) \cap authed : SessionOf[c] \notin sessions}
    IN
    /\ ws' = [c \in Conn |-> IF c \in silent THEN "dead" ELSE Closing(ended)[c]]
    /\ alive' = {}
    /\ Cleanup(silent \cup ended)
    /\ UNCHANGED <<authed, sessions, missed>>

Pong(c) ==
    /\ CanReceive(c) /\ c \notin Silent /\ c \in connections
    /\ alive' = alive \cup {c}
    /\ UNCHANGED <<ws, connections, authed, sessions, registry, task,
                   client, missed>>

\* The client closes its socket, or the network does.
PeerCloses(c) ==
    /\ CanReceive(c)
    /\ ws' = [ws EXCEPT ![c] = "dead"]
    /\ UNCHANGED <<connections, authed, alive, sessions, registry, task, missed>>
    /\ KeepOpen

\* A session runs out unnoticed, or is revoked with a notice to its sockets.
SessionExpires(n) ==
    /\ n \in sessions
    /\ sessions' = sessions \ {n}
    /\ UNCHANGED <<ws, connections, authed, alive, registry, task, client, missed>>

NotifySessionRevoked(n) ==
    /\ n \in sessions
    /\ sessions' = sessions \ {n}
    /\ ws' = Closing({c \in connections \cap authed : SessionOf[c] = n})
    /\ UNCHANGED <<connections, authed, alive, registry, task, missed>>
    /\ KeepOpen

----------------------------------------------------------------------------
(* subscribe() and unsubscribe()                                           *)

\* One turn of subscribe()'s loop, up to its next await.
Visit(k, s, rest) ==
    LET c == CallerOf[k]
        At(p) == [at |-> p, state |-> s, todo |-> rest, attached |-> TRUE, fresh |-> FALSE]
    IN
    /\ subs' = [subs EXCEPT ![c] = @ \cup {s}]
    /\ \/ /\ s \in present
          /\ members' = [members EXCEPT ![s] = @ \cup {c}]
          /\ task' = [task EXCEPT ![k] = At("reading")]
          /\ UNCHANGED <<present, ioSubs, refused>>
       \/ /\ s \notin present
          /\ present' = present \cup {s}
          /\ members' = [members EXCEPT ![s] = {}]
          /\ \/ /\ ioSubs' = ioSubs \cup {s}
                /\ task' = [task EXCEPT ![k] = At("joining")]
                /\ UNCHANGED refused
             \/ /\ s \in Refusing
                /\ refused' = refused \cup {s}
                /\ task' = [task EXCEPT ![k] = At("refused")]
                /\ UNCHANGED ioSubs

\* A subscribe message for S; ids the caller may not read are skipped.
Subscribe(k, S) ==
    /\ CanReceive(CallerOf[k]) /\ CallerOf[k] \in authed /\ task[k].at = "none"
    /\ S \subseteq MayRead[CallerOf[k]]
    /\ \E s \in S : Visit(k, s, S \ {s})
    /\ UNCHANGED <<ws, connections, authed, alive, sessions, client, missed>>

\* subscribeForeignStatesAsync has answered: join the Set created before.
Join(k) ==
    LET t == task[k] IN
    /\ t.at = "joining"
    /\ members' = IF t.attached THEN [members EXCEPT ![t.state] = @ \cup {CallerOf[k]}]
                                ELSE members
    /\ task' = [task EXCEPT ![k].at = "reading"]
    /\ UNCHANGED <<ws, connections, authed, alive, sessions, subs, present, refused,
                   ioSubs, client, missed>>

\* It was rejected: the call is over, the empty Set stays in the map, and so
\* does the connection's subscription.
JoinFails(k) ==
    /\ task[k].at = "refused"
    /\ task' = [task EXCEPT ![k] = Over]
    /\ UNCHANGED <<ws, connections, authed, alive, sessions, registry, client, missed>>

\* ioBroker reads the value; its answer is under way.
ReadInitial(k) ==
    /\ task[k].at = "reading"
    /\ task' = [task EXCEPT ![k].at = "read", ![k].fresh = TRUE]
    /\ UNCHANGED <<ws, connections, authed, alive, sessions, registry, client, missed>>

\* The read is rejected: the call is over, nothing is sent.
ReadFails(k) ==
    LET t == task[k]  c == CallerOf[k] IN
    /\ t.at = "reading" /\ t.state \in Refusing
    /\ task' = [task EXCEPT ![k] = Over]
    /\ spoilt' = IF ws[c] = "open" THEN [spoilt EXCEPT ![c] = @ \cup {t.state}] ELSE spoilt
    /\ UNCHANGED <<ws, connections, authed, alive, sessions, registry, current, missed>>

\* What was read is sent, after any change that has been published meanwhile.
SendValue(k) ==
    LET t == task[k]  c == CallerOf[k] IN
    IF ws[c] # "open" THEN UNCHANGED client
    ELSE IF t.fresh
    THEN /\ current' = [current EXCEPT ![c] = @ \cup {t.state}]
         /\ spoilt' = [spoilt EXCEPT ![c] = @ \ {t.state}]
    ELSE /\ current' = [current EXCEPT ![c] = @ \ {t.state}]
         /\ spoilt' = [spoilt EXCEPT ![c] = @ \cup {t.state}]

\* ... and on with the remaining ids - whatever became of the connection
\* meanwhile, ids it may no longer read left out.
SendInitial_ValueNotSent(k) ==
    LET t == task[k] IN
    /\ t.at = "read"
    /\ UNCHANGED client
    /\ \/ /\ task' = [task EXCEPT ![k] = Over]
          /\ UNCHANGED registry
       \/ \E s \in t.todo : Visit(k, s, t.todo \ {s})
    /\ UNCHANGED <<ws, connections, authed, alive, sessions, missed>>

SendInitial_OneIdTooFar(k) ==
    LET t == task[k] IN
    /\ t.at = "read"
    /\ SendValue(k)
    /\ \E s \in t.todo \cup {None} : Visit(k, s, t.todo \ {s})
    /\ UNCHANGED <<ws, connections, authed, alive, sessions, missed>>

SendInitial(k) ==
    LET t == task[k] IN
    /\ t.at = "read"
    /\ SendValue(k)
    /\ \/ /\ task' = [task EXCEPT ![k] = Over]
          /\ UNCHANGED registry
       \/ \E s \in t.todo : Visit(k, s, t.todo \ {s})
    /\ UNCHANGED <<ws, connections, authed, alive, sessions, missed>>

\* An unsubscribe message (its ids are independent of each other).
Unsubscribe_EntryKept(c, s) ==
    /\ CanReceive(c) /\ c \in authed /\ s \in subs[c]
    /\ subs' = [subs EXCEPT ![c] = @ \ {s}]
    /\ members' = [members EXCEPT ![s] = @ \ {c}]
    /\ UNCHANGED <<ws, connections, authed, alive, sessions, present, ioSubs, refused, task,
                   client, missed>>

Unsubscribe(c, s) ==
    /\ CanReceive(c) /\ c \in authed /\ s \in subs[c]
    /\ subs' = [subs EXCEPT ![c] = @ \ {s}]
    /\ Release({c}, [subs EXCEPT ![c] = {s}])
    /\ UNCHANGED <<ws, connections, authed, alive, sessions, client, missed>>

\* A state changes: publishStateChange sends it to the registered connections
\* that still want it, recordIfAlarm records it - if ioBroker delivers it.
\* An answer under way to subscribe() now carries the older value.
StateChange(s) ==
    LET reached == IF s \in ioSubs /\ s \in present
                   THEN {c \in members[s] : s \in subs[c] /\ ws[c] = "open"} ELSE {}
    IN
    /\ current' = [c \in Conn |-> IF c \in reached THEN current[c] \cup {s}
                                                   ELSE current[c] \ {s}]
    /\ spoilt' = [c \in Conn |-> IF c \in reached THEN spoilt[c] \ {s} ELSE spoilt[c]]
    /\ task' = [k \in Call |-> IF task[k].at = "read" /\ task[k].state = s
                               THEN [task[k] EXCEPT !.fresh = FALSE] ELSE task[k]]
    /\ missed' = IF s \in AlarmStates \ ioSubs THEN missed \cup {s} ELSE missed
    /\ UNCHANGED <<ws, connections, authed, alive, sessions, registry>>

----------------------------------------------------------------------------
Next ==
    \/ \E c \in Conn :
          \/ HandleConnection(c) \/ HandleAuth(c) \/ AuthTimeout(c) \/ CloseEvent(c)
          \/ ErrorEvent(c) \/ Pong(c) \/ PeerCloses(c)
          \/ \E s \in State : Unsubscribe(c, s)
    \/ \E k \in Call :
          \/ Join(k) \/ JoinFails(k) \/ ReadInitial(k) \/ ReadFails(k) \/ SendInitial(k)
          \/ \E S \in SUBSET State : Subscribe(k, S)
    \/ HeartbeatTick
    \/ \E n \in Session : SessionExpires(n) \/ NotifySessionRevoked(n)
    \/ \E s \in State : StateChange(s)

Spec == Init /\ [][Next]_vars

\* Timers fire, and a closed socket is reported (the ws
\* library gives a peer that does not answer a close 30 seconds).
Fairness == /\ WF_vars(HeartbeatTick)
            /\ \A c \in Conn : WF_vars(AuthTimeout(c)) /\ WF_vars(CloseEvent(c))

FairSpec == Spec /\ Fairness

----------------------------------------------------------------------------
(* Properties                                                              *)

\* Every variable holds a value of its kind.
TypeOK ==
    /\ ws \in [Conn -> {"new", "open", "closing", "dead", "closed"}]
    /\ connections \subseteq Conn /\ authed \subseteq Conn /\ alive \subseteq Conn
    /\ sessions \subseteq Session
    /\ subs \in [Conn -> SUBSET State]
    /\ present \subseteq State
    /\ members \in [State -> SUBSET Conn]
    /\ task \in [Call -> Task]
    /\ ioSubs \subseteq State
    /\ refused \subseteq present
    /\ current \in [Conn -> SUBSET State]
    /\ spoilt \in [Conn -> SUBSET State]
    /\ missed \subseteq AlarmStates

\* Every state in the registry is subscribed at ioBroker, unless ioBroker
\* refused the subscriber that put it there, and none is kept for nobody: an
\* empty Set has a first subscriber about to join it, or had one refused.
RegistryIsBacked ==
    \A s \in present \ refused :
        /\ s \in ioSubs
        /\ members[s] = {} => \E k \in Call : /\ task[k].at = "joining" /\ task[k].attached
                                              /\ task[k].state = s

\* A registered, open subscriber of a backed state is never behind once its
\* calls for it are over: no change between joining and the first value is
\* lost - but the first value may fail, or come after the change that overtook
\* it, and then stands until the next change.
RegisteredIsCurrent ==
    \A c \in Conn, s \in State :
        /\ s \in present \ refused /\ c \in members[s] /\ s \in subs[c] /\ ws[c] = "open"
        /\ CallsFor(c, s) = {}
        => s \in current[c] \cup spoilt[c]

\* A connection that outlives its session is cut, told or not ("a stale-but-
\* still-open connection would otherwise keep receiving live updates").
EndedSessionIsCut ==
    \A c \in Conn :
        (ws[c] = "open" /\ c \in authed /\ SessionOf[c] \notin sessions) ~> (ws[c] = "closed")

\* A peer that never logs in, or never answers a ping, loses its socket.
SilentPeerIsCut ==
    \A c \in Conn : ws[c] = "open" ~> (ws[c] = "closed" \/ (c \in authed /\ c \notin Silent))

\* "connections currently subscribed to it": everybody open whose subscribe
\* call for the state has returned.
SubscribedIsRegistered ==
    \A c \in Conn : \A s \in subs[c] :
        (ws[c] = "open" /\ c \in connections /\ \A k \in Call : CallerOf[k] = c => task[k].at \in {"none", "over"})
            => s \in present /\ c \in members[s]

\* An alarm is recorded "no matter who (if anyone) is currently watching".
NoAlarmMissed == missed = {}
=============================================================================
