------------------------------- MODULE Commands -------------------------------
(***************************************************************************)
(* CommandsService (src/commands/index.ts): the actuator command pipeline. *)
(*                                                                         *)
(* A request is one call of execute().  Node runs one callback at a time,  *)
(* so the model's steps are the stretches of code between two awaits; pc   *)
(* names the await a request is suspended at.  The ioBroker state database *)
(* (db), the actuator behind it, the event stream to the adapter (inbox)   *)
(* and the adapter's subscriptions (ioSubs) are external and modelled from *)
(* how the service uses them.                                              *)
(*                                                                         *)
(* The store's cache is records, its persisted JSON is durable: a put()    *)
(* changes the cache at once, Persist makes it durable, and the code after *)
(* "await put" runs only when that has happened.  setStateAsync may reject *)
(* instead: the cache keeps the change, the code after the await is not    *)
(* run, and only a later save - of any command - makes it durable.         *)
(*                                                                         *)
(* A definition named Action_Fault is the action with one plausible fault  *)
(* in it; no specification uses it, it shows that a property notices.      *)
(***************************************************************************)
EXTENDS Naturals, Sequences, FiniteSets

CONSTANTS
    Requests,     \* calls of execute()
    Cmd,          \* command ids
    State,        \* ioBroker state ids
    Value,        \* values a command or an actuator can give a state
    Nonce,        \* request nonces
    None,         \* absent
    CmdOf,        \* [Requests -> Cmd]
    NonceOf,      \* [Requests -> Nonce]
    StateOf,      \* [Cmd -> State]  the state a command id addresses
    ValueOf,      \* [Cmd -> Value]  the value it carries
    InitialValue, \* what every state and actuator starts with
    OverlappingRetries, \* may a client re-send a command id, under a new
                        \* nonce, before the first request is answered?
    MaxInbox,     \* bound: actuator events queued for the adapter
    MaxCrashes,   \* bound: restarts of the adapter
    MaxUnsaved    \* bound: commands one of whose saves is rejected

ASSUME ConstantsAssumption ==
    /\ CmdOf \in [Requests -> Cmd]
    /\ NonceOf \in [Requests -> Nonce]
    /\ StateOf \in [Cmd -> State]
    /\ ValueOf \in [Cmd -> Value]
    /\ InitialValue \in Value
    /\ OverlappingRetries \in BOOLEAN
    /\ MaxInbox \in Nat
    /\ MaxCrashes \in Nat
    /\ MaxUnsaved \in Nat

ASSUME NoneAssumption ==
    /\ None \notin Cmd
    /\ None \notin {"accepted", "rejected", "executed", "confirmed", "timeout"}

VARIABLES
    pc,         \* where each request is suspended
    records,    \* commandsStore's cache: the status under each id
    durable,    \* the same as last persisted
    nonces,     \* ReplayGuard's memory
    pending,    \* pendingByStateId
    timers,     \* commands with an armed confirmation timer
    recheck,    \* the grace-period recheck of each command
    announcing, \* results put into the store and not yet emitted
    known,      \* subscribedStateIds
    ioSubs,     \* states ioBroker delivers to this adapter
    db,         \* the state database
    actuator,   \* the physical actuator behind each state
    inbox,      \* state changes under way to onStateChange
    told,       \* commandResult events emitted, per command
    writes,     \* history: setForeignState effects per command
    acked,      \* history: values each actuator acknowledged
    replaced,   \* history: commands whose wait a later command took over
    unsaved,    \* history: commands one of whose saves was rejected
    crashes

memory == <<pending, timers, recheck, announcing, known, replaced, unsaved>>
world  == <<db, actuator, inbox, ioSubs, acked>>
vars   == <<pc, records, durable, nonces, memory, world, told, writes, crashes>>

Status == {"accepted", "rejected", "executed", "confirmed", "timeout"}

\* Suspension points of execute(), in order.
Unanswered == {"reading", "accepting", "written", "executing", "failing"}
Phase == Unanswered \cup {"idle", "subscribing", "done", "refused", "answered", "lost"}

Event == [state : State, val : Value, ack : BOOLEAN]

\* After "await this.store.put(...)": what was put is on disk.
Landed(c) == durable[c] = records[c]

\* A put of c's record is awaited.
Saving(c) ==
    \/ \E r \in Requests : CmdOf[r] = c /\ pc[r] \in {"accepting", "executing", "failing"}
    \/ \E st \in {"confirmed", "timeout"} : <<c, st>> \in announcing

----------------------------------------------------------------------------
Init ==
    /\ pc = [r \in Requests |-> "idle"]
    /\ records = [c \in Cmd |-> None]
    /\ durable = [c \in Cmd |-> None]
    /\ nonces = {}
    /\ pending = [s \in State |-> None]
    /\ timers = {}
    /\ recheck = [c \in Cmd |-> "none"]
    /\ announcing = {}
    /\ known = {}
    /\ ioSubs = {}
    /\ db = [s \in State |-> [val |-> InitialValue, ack |-> TRUE]]
    /\ actuator = [s \in State |-> InitialValue]
    /\ inbox = <<>>
    /\ told = [c \in Cmd |-> <<>>]
    /\ writes = [c \in Cmd |-> 0]
    /\ acked = [s \in State |-> {}]
    /\ replaced = {}
    /\ unsaved = {}
    /\ crashes = 0

----------------------------------------------------------------------------
(* execute()                                                               *)

\* The client's side: a deliberate retry comes after the answer (or the loss)
\* of the first request; a duplicate of the same message may come any time.
ClientMaySend(r) ==
    \/ OverlappingRetries
    \/ \A q \in Requests :
          q # r /\ CmdOf[q] = CmdOf[r] /\ pc[q] \in Unanswered
              => NonceOf[q] = NonceOf[r]

\* The id is known: its record is the answer, nothing is done again.
AnswerKnown(r) ==
    /\ pc[r] = "idle" /\ ClientMaySend(r)
    /\ records[CmdOf[r]] # None
    /\ pc' = [pc EXCEPT ![r] = "answered"]
    /\ UNCHANGED <<records, durable, nonces, memory, world, told, writes, crashes>>

\* RATE_LIMITED (before the nonce is looked at), REPLAY_DETECTED, or any of
\* the permission, confirmation and local-network refusals.
Refuse(r) ==
    /\ pc[r] = "idle" /\ ClientMaySend(r)
    /\ records[CmdOf[r]] = None
    /\ nonces' \in {nonces, nonces \cup {NonceOf[r]}}
    /\ pc' = [pc EXCEPT ![r] = "refused"]
    /\ UNCHANGED <<records, durable, memory, world, told, writes, crashes>>

\* Every synchronous check passed; suspended in getForeignObjectAsync.
Begin_NoReplayCheck(r) ==
    /\ pc[r] = "idle" /\ ClientMaySend(r)
    /\ records[CmdOf[r]] = None
    /\ nonces' = nonces \cup {NonceOf[r]}
    /\ pc' = [pc EXCEPT ![r] = "reading"]
    /\ UNCHANGED <<records, durable, memory, world, told, writes, crashes>>

Begin(r) ==
    /\ pc[r] = "idle" /\ ClientMaySend(r)
    /\ records[CmdOf[r]] = None
    /\ NonceOf[r] \notin nonces
    /\ nonces' = nonces \cup {NonceOf[r]}
    /\ pc' = [pc EXCEPT ![r] = "reading"]
    /\ UNCHANGED <<records, durable, memory, world, told, writes, crashes>>

\* The object could not be read, or validateValue refused the value (which
\* values it refuses is left open).
Invalid(r) ==
    /\ pc[r] = "reading"
    /\ pc' = [pc EXCEPT ![r] = "refused"]
    /\ UNCHANGED <<records, durable, nonces, memory, world, told, writes, crashes>>

\* store.put(record): whatever was under the id is overwritten.
Accept(r) ==
    /\ pc[r] = "reading"
    /\ records' = [records EXCEPT ![CmdOf[r]] = "accepted"]
    /\ pc' = [pc EXCEPT ![r] = "accepting"]
    /\ UNCHANGED <<durable, nonces, memory, world, told, writes, crashes>>

\* An event reaches the adapter's queue only while it is subscribed.
Publish(s, v, a) ==
    inbox' = IF s \in ioSubs
             THEN Append(inbox, [state |-> s, val |-> v, ack |-> a])
             ELSE inbox

\* setForeignStateAsync takes effect: val with ack: false.
Write_BeforePersist(r) ==
    LET c == CmdOf[r]  s == StateOf[c] IN
    /\ pc[r] = "accepting"
    /\ db' = [db EXCEPT ![s] = [val |-> ValueOf[c], ack |-> FALSE]]
    /\ Publish(s, ValueOf[c], FALSE)
    /\ writes' = [writes EXCEPT ![c] = @ + 1]
    /\ pc' = [pc EXCEPT ![r] = "written"]
    /\ UNCHANGED <<records, durable, nonces, memory, actuator, ioSubs, acked, told, crashes>>

Write(r) ==
    LET c == CmdOf[r]  s == StateOf[c] IN
    /\ pc[r] = "accepting" /\ Landed(c)
    /\ db' = [db EXCEPT ![s] = [val |-> ValueOf[c], ack |-> FALSE]]
    /\ Publish(s, ValueOf[c], FALSE)
    /\ writes' = [writes EXCEPT ![c] = @ + 1]
    /\ pc' = [pc EXCEPT ![r] = "written"]
    /\ UNCHANGED <<records, durable, nonces, memory, actuator, ioSubs, acked, told, crashes>>

\* setForeignStateAsync throws: put 'rejected'.
WriteFails(r) ==
    /\ pc[r] = "accepting" /\ Landed(CmdOf[r])
    /\ records' = [records EXCEPT ![CmdOf[r]] = "rejected"]
    /\ pc' = [pc EXCEPT ![r] = "failing"]
    /\ UNCHANGED <<durable, nonces, memory, world, told, writes, crashes>>

AnnounceFailure(r) ==
    /\ pc[r] = "failing" /\ Landed(CmdOf[r])
    /\ told' = [told EXCEPT ![CmdOf[r]] = Append(@, "rejected")]
    /\ pc' = [pc EXCEPT ![r] = "refused"]
    /\ UNCHANGED <<records, durable, nonces, memory, world, writes, crashes>>

\* The write's reply: put 'executed'.
MarkExecuted(r) ==
    /\ pc[r] = "written"
    /\ records' = [records EXCEPT ![CmdOf[r]] = "executed"]
    /\ pc' = [pc EXCEPT ![r] = "executing"]
    /\ UNCHANGED <<durable, nonces, memory, world, told, writes, crashes>>

\* awaitConfirmation's synchronous tail: replace the state's pending wait.
Takeover(c) == replaced' = (replaced \cup {pending[StateOf[c]]}) \ {c, None}

Track_RearmsPrevious(c) ==
    /\ timers' = timers \cup {pending[StateOf[c]], c}
    /\ Takeover(c)
    /\ pending' = [pending EXCEPT ![StateOf[c]] = c]

Track_NoTimer(c) ==
    /\ timers' = timers \ {pending[StateOf[c]]}
    /\ Takeover(c)
    /\ pending' = [pending EXCEPT ![StateOf[c]] = c]

Track(c) ==
    /\ timers' = (timers \ {pending[StateOf[c]]}) \cup {c}
    /\ Takeover(c)
    /\ pending' = [pending EXCEPT ![StateOf[c]] = c]

\* The result is emitted and execute() answers; the detached
\* awaitConfirmation runs up to its first await.
Respond(r) ==
    LET c == CmdOf[r] IN
    /\ pc[r] = "executing" /\ Landed(c)
    /\ told' = [told EXCEPT ![c] = Append(@, "executed")]
    /\ IF StateOf[c] \in known
       THEN Track(c) /\ pc' = [pc EXCEPT ![r] = "done"]
       ELSE /\ pc' = [pc EXCEPT ![r] = "subscribing"]
            /\ UNCHANGED <<timers, pending, replaced>>
    /\ UNCHANGED <<records, durable, nonces, recheck, announcing, known, unsaved, world,
                   writes, crashes>>

\* subscribeForeignStatesAsync settled: a failure is only logged.
Subscribed(r) ==
    LET c == CmdOf[r]  s == StateOf[c] IN
    /\ pc[r] = "subscribing"
    /\ \/ known' = known \cup {s} /\ ioSubs' = ioSubs \cup {s}
       \/ UNCHANGED <<known, ioSubs>>
    /\ Track(c)
    /\ pc' = [pc EXCEPT ![r] = "done"]
    /\ UNCHANGED <<records, durable, nonces, recheck, announcing, unsaved, db, actuator,
                   inbox, acked, told, writes, crashes>>

\* A save of c's record, or the audit entry awaited after it, is rejected.
Spoil(c) == /\ unsaved' = unsaved \cup {c}
            /\ Cardinality(unsaved') <= MaxUnsaved

\* ... under execute(), which throws: what it put stays in the cache, its
\* caller is refused, nothing is emitted and no wait is installed.
PutFails(r) ==
    /\ pc[r] \in {"accepting", "executing", "failing"}
    /\ Spoil(CmdOf[r])
    /\ pc' = [pc EXCEPT ![r] = "refused"]
    /\ UNCHANGED <<records, durable, nonces, pending, timers, recheck, announcing, known,
                   replaced, world, told, writes, crashes>>

Execute(r) ==
    \/ AnswerKnown(r) \/ Refuse(r) \/ Begin(r)
    \/ Invalid(r) \/ Accept(r)
    \/ Write(r) \/ WriteFails(r) \/ AnnounceFailure(r)
    \/ MarkExecuted(r) \/ Respond(r) \/ Subscribed(r) \/ PutFails(r)

----------------------------------------------------------------------------
(* handleForeignStateChange()                                              *)

\* The event proves the pending command: acked, and with its value.
Proves_AnyAck(e) ==
    LET c == pending[e.state] IN
    /\ e.ack
    /\ c # None
    /\ records[c] = "executed"

Proves(e) ==
    LET c == pending[e.state] IN
    /\ e.ack
    /\ c # None
    /\ records[c] = "executed"
    /\ e.val = ValueOf[c]

Confirm ==
    /\ inbox # <<>> /\ Proves(Head(inbox))
    /\ LET s == Head(inbox).state  c == pending[s] IN
       /\ pending' = [pending EXCEPT ![s] = None]
       /\ timers' = timers \ {c}
       /\ records' = [records EXCEPT ![c] = "confirmed"]
       /\ announcing' = announcing \cup {<<c, "confirmed">>}
    /\ inbox' = Tail(inbox)
    /\ UNCHANGED <<pc, durable, nonces, recheck, known, replaced, unsaved, db, actuator,
                   ioSubs, acked, told, writes, crashes>>

Ignore ==
    /\ inbox # <<>> /\ ~Proves(Head(inbox))
    /\ inbox' = Tail(inbox)
    /\ UNCHANGED <<pc, records, durable, nonces, memory, db, actuator, ioSubs,
                   acked, told, writes, crashes>>

----------------------------------------------------------------------------
(* timeoutCommand() and recheckAfterTimeout()                              *)

\* The timer armed for c fires; its callback looks up c's STATE, and whatever
\* command is pending there is the one that times out.
TimeoutCommand(c) ==
    LET s == StateOf[c]  p == pending[s] IN
    /\ c \in timers
    /\ timers' = timers \ {c}
    /\ pending' = [pending EXCEPT ![s] = None]
    /\ IF p # None /\ records[p] = "executed"
       THEN /\ records' = [records EXCEPT ![p] = "timeout"]
            /\ announcing' = announcing \cup {<<p, "timeout">>}
       ELSE UNCHANGED <<records, announcing>>
    /\ UNCHANGED <<pc, durable, nonces, recheck, known, replaced, unsaved, world, told,
                   writes, crashes>>

\* put and audit are through: emit; after a timeout, arm the recheck.
Announce_BeforePersist(c, st) ==
    /\ <<c, st>> \in announcing
    /\ announcing' = announcing \ {<<c, st>>}
    /\ told' = [told EXCEPT ![c] = Append(@, st)]
    /\ recheck' = IF st = "timeout" THEN [recheck EXCEPT ![c] = "armed"] ELSE recheck
    /\ UNCHANGED <<pc, records, durable, nonces, pending, timers, known, replaced, unsaved,
                   world, writes, crashes>>

Announce(c, st) ==
    /\ <<c, st>> \in announcing /\ Landed(c)
    /\ announcing' = announcing \ {<<c, st>>}
    /\ told' = [told EXCEPT ![c] = Append(@, st)]
    /\ recheck' = IF st = "timeout" THEN [recheck EXCEPT ![c] = "armed"] ELSE recheck
    /\ UNCHANGED <<pc, records, durable, nonces, pending, timers, known, replaced, unsaved,
                   world, writes, crashes>>

\* The put or the audit entry is rejected instead: nothing is emitted, and
\* after a timeout no recheck is armed.
ResultPutFails(c, st) ==
    /\ <<c, st>> \in announcing
    /\ Spoil(c)
    /\ announcing' = announcing \ {<<c, st>>}
    /\ UNCHANGED <<pc, records, durable, nonces, pending, timers, recheck, known, replaced,
                   world, told, writes, crashes>>

\* The status is looked at before the state is read ...
RecheckBegin(c) ==
    /\ recheck[c] = "armed"
    /\ recheck' = [recheck EXCEPT ![c] = IF records[c] = "timeout" THEN "reading" ELSE "none"]
    /\ UNCHANGED <<pc, records, durable, nonces, pending, timers, announcing, known,
                   replaced, unsaved, world, told, writes, crashes>>

\* ... and only the state's val decides: not its ack, not the status again.
RecheckEnd(c) ==
    /\ recheck[c] = "reading"
    /\ recheck' = [recheck EXCEPT ![c] = "none"]
    /\ IF db[StateOf[c]].val = ValueOf[c]
       THEN /\ records' = [records EXCEPT ![c] = "confirmed"]
            /\ announcing' = announcing \cup {<<c, "confirmed">>}
       ELSE UNCHANGED <<records, announcing>>
    /\ UNCHANGED <<pc, durable, nonces, pending, timers, known, replaced, unsaved, world,
                   told, writes, crashes>>

\* The read of the state fails (it is only logged).
RecheckFails(c) ==
    /\ recheck[c] = "reading"
    /\ recheck' = [recheck EXCEPT ![c] = "none"]
    /\ UNCHANGED <<pc, records, durable, nonces, pending, timers, announcing, known,
                   replaced, unsaved, world, told, writes, crashes>>

----------------------------------------------------------------------------
(* The store, the process, and the world outside the adapter               *)

\* setStateAsync of the whole collection reaches the database: an awaited put
\* carries with it what earlier rejected ones left behind in the cache.
Persist == /\ \E c \in Cmd : Saving(c) /\ ~Landed(c)
           /\ durable' = records
           /\ UNCHANGED <<pc, records, nonces, memory, world, told, writes, crashes>>

\* The adapter process dies and starts again: only the persisted collection
\* survives; callers of execute() get no answer.
Restart ==
    /\ crashes < MaxCrashes
    /\ crashes' = crashes + 1
    /\ pc' = [r \in Requests |->
                IF pc[r] \in Unanswered \cup {"subscribing"} THEN "lost" ELSE pc[r]]
    /\ records' = durable
    /\ nonces' = {}
    /\ pending' = [s \in State |-> None]
    /\ timers' = {}
    /\ recheck' = [c \in Cmd |-> "none"]
    /\ announcing' = {}
    /\ known' = {}
    /\ ioSubs' = {}
    /\ inbox' = <<>>
    /\ UNCHANGED <<durable, db, actuator, acked, replaced, unsaved, told, writes>>

\* The actuator's adapter writes v back with ack: true.
Acknowledge(s, v) ==
    /\ Len(inbox) < MaxInbox
    /\ db' = [db EXCEPT ![s] = [val |-> v, ack |-> TRUE]]
    /\ actuator' = [actuator EXCEPT ![s] = v]
    /\ acked' = [acked EXCEPT ![s] = @ \cup {v}]
    /\ Publish(s, v, TRUE)
    /\ UNCHANGED <<pc, records, durable, nonces, memory, ioSubs, told, writes, crashes>>

\* It carries out an unacknowledged write,
Obey(s) == ~db[s].ack /\ Acknowledge(s, db[s].val)
\* re-announces what it is at (a heartbeat, a failed switch),
Reannounce(s) == Acknowledge(s, actuator[s])
\* or is switched by hand.
Operate(s, v) == v # actuator[s] /\ Acknowledge(s, v)

\* RealtimeGateway.releaseSubscription drops the adapter's one subscription
\* of a state when its last watching client leaves.
Unsubscribe(s) ==
    /\ s \in ioSubs
    /\ ioSubs' = ioSubs \ {s}
    /\ UNCHANGED <<pc, records, durable, nonces, memory, db, actuator, inbox, acked,
                   told, writes, crashes>>

----------------------------------------------------------------------------
Next ==
    \/ \E r \in Requests : Execute(r)
    \/ Confirm \/ Ignore
    \/ \E c \in Cmd : \/ TimeoutCommand(c)
                      \/ RecheckBegin(c) \/ RecheckEnd(c) \/ RecheckFails(c)
                      \/ \E st \in {"confirmed", "timeout"} :
                            Announce(c, st) \/ ResultPutFails(c, st)
    \/ Persist \/ Restart
    \/ \E s \in State : \/ Obey(s) \/ Reannounce(s) \/ Unsubscribe(s)
                        \/ \E v \in Value : Operate(s, v)

Spec == Init /\ [][Next]_vars

\* The event loop runs what is runnable: replies of ioBroker, timers, queued
\* state changes, saves.  Nothing obliges a client or an actuator to act.
Fairness ==
    /\ \A r \in Requests : WF_vars(Invalid(r) \/ Accept(r) \/ Write(r) \/ WriteFails(r)
                                   \/ AnnounceFailure(r) \/ MarkExecuted(r)
                                   \/ Respond(r) \/ Subscribed(r))
    /\ \A c \in Cmd : /\ WF_vars(TimeoutCommand(c))
                      /\ WF_vars(RecheckBegin(c))
                      /\ WF_vars(RecheckEnd(c) \/ RecheckFails(c))
                      /\ \A st \in {"confirmed", "timeout"} : WF_vars(Announce(c, st))
    /\ WF_vars(Confirm \/ Ignore)
    /\ WF_vars(Persist)

FairSpec == Spec /\ Fairness

----------------------------------------------------------------------------
(* Properties                                                              *)

\* Every variable holds a value of its kind.
TypeOK ==
    /\ pc \in [Requests -> Phase]
    /\ records \in [Cmd -> Status \cup {None}]
    /\ durable \in [Cmd -> Status \cup {None}]
    /\ nonces \subseteq Nonce
    /\ pending \in [State -> Cmd \cup {None}]
    /\ timers \subseteq Cmd
    /\ recheck \in [Cmd -> {"none", "armed", "reading"}]
    /\ announcing \subseteq Cmd \X {"confirmed", "timeout"}
    /\ known \subseteq State
    /\ ioSubs \subseteq State
    /\ db \in [State -> [val : Value, ack : BOOLEAN]]
    /\ actuator \in [State -> Value]
    /\ inbox \in Seq(Event)
    /\ told \in [Cmd -> Seq(Status)]
    /\ writes \in [Cmd -> Nat]
    /\ acked \in [State -> SUBSET Value]
    /\ replaced \subseteq Cmd
    /\ unsaved \subseteq Cmd
    /\ crashes \in 0..MaxCrashes

\* A command id reaches its actuator at most once, whatever is re-sent and
\* wherever the adapter restarts ("idempotent: client retried the same
\* commandId").
WrittenAtMostOnce == \A c \in Cmd : writes[c] <= 1

\* The wait a state has is for a command that is written and undecided, and
\* addressed to that state: no resolved command is ever waited for.
PendingIsExecuted ==
    \A s \in State : pending[s] # None =>
        /\ StateOf[pending[s]] = s
        /\ records[pending[s]] = "executed"

\* The armed confirmation timers are those of the commands waited for: no
\* command can be timed out by the timer of one it replaced.
TimersMatchPending ==
    timers = {c \in Cmd : pending[StateOf[c]] = c}

\* What a device may see of one command, in order.
LegalTale == { <<>>, <<"rejected">>, <<"executed">>, <<"executed", "confirmed">>,
               <<"executed", "timeout">>, <<"executed", "timeout", "confirmed">> }

\* The results pushed for a command come in a legal order, and never run ahead
\* of the disk: a restart does not take back what a device was told.
ToldIsDurable ==
    \A c \in Cmd :
        /\ told[c] \in LegalTale
        /\ told[c] # <<>> =>
             LET last == told[c][Len(told[c])] IN
             \/ durable[c] = last
             \/ last = "executed" /\ durable[c] \in {"confirmed", "timeout"}
             \/ last = "timeout" /\ durable[c] = "confirmed"

\* A confirmation within the waiting time rests on an acknowledgement of the
\* commanded value by the actuator (the bug of 2026-08-04 does not come back).
PromptConfirmationWasAcked ==
    \A c \in Cmd : told[c] = <<"executed", "confirmed">>
                       => ValueOf[c] \in acked[StateOf[c]]

\* The late upgrade too is said to mean that the actuator "has caught up".
ConfirmedWasAcked ==
    \A c \in Cmd : records[c] = "confirmed" => ValueOf[c] \in acked[StateOf[c]]

\* While the adapter stays up, the device of every command that was written is
\* told how it ended, unless a later command took over its wait or one of its
\* saves was rejected.
ResultReachesDevice ==
    \A c \in Cmd : (records[c] = "executed") ~>
        \/ told[c] # <<>> /\ told[c][Len(told[c])] \in {"confirmed", "timeout"}
        \/ c \in replaced \cup unsaved

\* The at-most-once, write-ahead contract, read on the persisted status.
Contract == INSTANCE CommandContract WITH status <- durable
ImplementsContract == Contract!ContractSpec

----------------------------------------------------------------------------
(* The inductive invariant behind WrittenAtMostOnce, PendingIsExecuted,    *)
(* TimersMatchPending and ImplementsContract (CommandsProofs.tla), for a   *)
(* client that waits for its answer before a deliberate retry.             *)

Active == Unanswered \cup {"subscribing"}

\* A suspended request knows what its command's record is, on disk too.
PhaseAt(r) ==
    LET c == CmdOf[r] IN
    /\ pc[r] = "reading"   => records[c] = None
    /\ pc[r] = "accepting" => records[c] = "accepted" /\ writes[c] = 0
    /\ pc[r] = "written"   => /\ records[c] = "accepted" /\ durable[c] = "accepted"
                              /\ writes[c] = 1
    /\ pc[r] = "failing"   => records[c] = "rejected"
    /\ pc[r] = "executing" => records[c] = "executed"
    /\ pc[r] \in {"executing", "subscribing"} => pending[StateOf[c]] # c
    /\ pc[r] = "subscribing" => records[c] = "executed" /\ durable[c] = "executed"

PhaseInv == \A r \in Requests : PhaseAt(r)

\* At most one request works on a command id.
OneActive ==
    \A q, r \in Requests :
        q # r /\ CmdOf[q] = CmdOf[r] /\ pc[q] \in Active => pc[r] \notin Active

NonceInv == \A r \in Requests : pc[r] \in Unanswered => NonceOf[r] \in nonces

\* A status tells how often the value was written.
Tells(st, n) ==
    /\ st \in {None, "rejected"} => n = 0
    /\ st = "accepted" => n \in {0, 1}
    /\ st \in {"executed", "confirmed", "timeout"} => n = 1

\* The disk is at most one legal move behind the cache.
StatusInv ==
    \A c \in Cmd :
        /\ Tells(records[c], writes[c]) /\ Tells(durable[c], writes[c])
        /\ durable[c] = records[c] \/ Contract!Forward(durable[c], records[c], writes[c])

PendingInv ==
    \A s \in State : pending[s] # None =>
        /\ StateOf[pending[s]] = s
        /\ records[pending[s]] = "executed" /\ durable[pending[s]] = "executed"

ResultInv ==
    \A c \in Cmd :
        /\ <<c, "timeout">> \in announcing => records[c] = "timeout"
        /\ <<c, "confirmed">> \in announcing => records[c] = "confirmed"
        /\ recheck[c] # "none" => /\ records[c] = "timeout" /\ durable[c] = "timeout"
                                  /\ <<c, "timeout">> \notin announcing

\* The record a request, a wait, a timer or a recheck acts on is the one it
\* believes it acts on.
Consistent == /\ PhaseInv /\ OneActive /\ NonceInv /\ StatusInv
              /\ PendingInv /\ TimersMatchPending /\ ResultInv
=============================================================================
