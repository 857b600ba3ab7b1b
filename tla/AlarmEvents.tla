------------------------------ MODULE AlarmEvents ------------------------------
(***************************************************************************)
(* The two logs the adapter keeps in a collection of their own: the alarms *)
(* (src/alarms/index.ts) and the audit log (src/audit/index.ts).  Both put *)
(* an event and then trim to the newest; the audit log can be cleared      *)
(* (src/main.ts).  And the app that asks for the alarms it missed          *)
(* (AlarmMonitor.kt).  The logs share nothing: which one it is is chosen   *)
(* at the start.                                                           *)
(*                                                                         *)
(* An alarm here is a message that passed the filter of recordIfAlarm: of  *)
(* a state with an alarm role, with the value true.  Realtime models the   *)
(* subscription that brings it.                                            *)
(*                                                                         *)
(* A definition named Action_Fault is the action with one plausible fault  *)
(* in it; no specification uses it, it shows that a property notices.      *)
(***************************************************************************)
EXTENDS CollectionStore, Naturals, FiniteSets

CONSTANTS
    Writers,      \* calls of recordIfAlarm, log, clearAudit that may overlap
    MaxKept,      \* MAX_ALARM_EVENTS, MAX_AUDIT_EVENTS
    Delay,        \* bound: how far the time stamp of a state lies back
    MaxEvents,    \* bound: events ever put
    MaxHour,      \* bound: the clock
    MaxClears,    \* bound: clearings of the audit log
    MaxTroubles   \* bound: rejected writes, restarts, failed requests

ASSUME AlarmEventsAssumption ==
    /\ {MaxKept, MaxHour} \subseteq Nat \ {0}
    /\ {MaxEvents, MaxClears} \subseteq Nat

VARIABLES
    which,      \* "alarms" or "audit"
    log,        \* the collection: events in the order of its Map
    writer,     \* the call each writer is in
    hour,       \* the clock
    phone,      \* the app: its watermark, and the catch-up it is in
    usedUp,     \* what is used up of the bounds
    returned,   \* history: events whose call returned, and that were not cleared
    notified,   \* history: events the app told its user of
    late,       \* history: alarms put, or back, after the list of their time was made
    unfetched   \* history: alarms in a list that never came

logVars == <<which, log, writer, hour, phone, usedUp, returned, notified, late, unfetched>>

Event   == [no : 1..MaxEvents + MaxClears, ts : 0..MaxHour]
NoCall  == [at |-> "none"]
AtRest  == [at |-> "rest", watermark |-> 0]
Elements(s) == {s[i] : i \in DOMAIN s}

AlarmsTypeOK ==
    /\ which \in {"alarms", "audit"}
    /\ {log.cache, log.disk} \subseteq Seq(Event)
    /\ \A i, j \in DOMAIN log.cache : log.cache[i].no = log.cache[j].no => i = j
    /\ \A w \in Writers : writer[w].at \in {"none", "putting", "trimming", "clearing"}
    /\ \A w \in Writers : writer[w].at # "none" => w \in Waiting(log)
    /\ hour \in 0..MaxHour
    /\ phone.watermark \in 0..hour
    /\ phone.at \in {"rest", "asked", "answered"}
    /\ returned \cup notified \cup late \cup unfetched \subseteq Event

AlarmsInit ==
    /\ which \in {"alarms", "audit"}
    /\ log = Loaded(<<>>)
    /\ writer = [w \in Writers |-> NoCall]
    /\ hour = 1
    /\ phone = AtRest
    /\ usedUp = [events |-> 0, clears |-> 0, troubles |-> 0]
    /\ returned = {} /\ notified = {} /\ late = {} /\ unfetched = {}

UseUp(what, limit) == usedUp[what] < limit /\ usedUp' = [usedUp EXCEPT ![what] = @ + 1]

----------------------------------------------------------------------------
(* The collection.                                                         *)

\* trim: sorted by time stamp, newest first, in the order of the Map within
\* one; the rest is cut off.
Before_OldestFirst(s, i, j) == s[i].ts < s[j].ts \/ (s[i].ts = s[j].ts /\ i < j)

Before(s, i, j) == s[i].ts > s[j].ts \/ (s[i].ts = s[j].ts /\ i < j)

\* The positions in S, in an order that is given as a set of pairs.
Arranged(S, order) ==
    [k \in 1..Cardinality(S) |-> CHOOSE i \in S : Cardinality({j \in S : <<j, i>> \in order}) = k - 1]

Newest(s) ==
    LET all    == DOMAIN s
        places == Arranged(all, {p \in all \X all : Before(s, p[1], p[2])})
    IN [k \in 1..MaxKept |-> s[places[k]]]

\* retain: what is not older than the cut-off, in the order of the Map
Retained(s, cutoff) ==
    LET kept   == {i \in DOMAIN s : s[i].ts >= cutoff}
        places == Arranged(kept, {p \in kept \X kept : p[1] < p[2]})
    IN [k \in 1..Cardinality(kept) |-> s[places[k]]]

\* recordIfAlarm and AuditService.log up to the await of put.  An alarm has
\* the time stamp of its state.
Record(w, ts) ==
    LET event == [no |-> usedUp.events + 1, ts |-> ts] IN
    /\ writer[w] = NoCall
    /\ UseUp("events", MaxEvents)
    /\ log' = Update(log, w, Append(log.cache, event))
    /\ writer' = [writer EXCEPT ![w] = [at |-> "putting", event |-> event, wiped |-> FALSE]]
    /\ late' = IF ts <= phone.watermark \/ (phone.at = "answered" /\ ts <= phone.read)
               THEN late \cup {event} ELSE late
    /\ UNCHANGED <<which, hour, phone, returned, notified, unfetched>>

\* clearAll and clearOlderThan up to the await of retain.
Clear(w, cutoff) ==
    /\ which = "audit" /\ writer[w] = NoCall
    /\ UseUp("clears", MaxClears)
    /\ log' = Update(log, w, Retained(log.cache, cutoff))
    /\ writer' = [v \in Writers |->
          IF v = w THEN [at |-> "clearing"]
          ELSE IF writer[v].at \in {"putting", "trimming"} /\ writer[v].event.ts < cutoff
          THEN [writer[v] EXCEPT !.wiped = TRUE] ELSE writer[v]]
    /\ returned' = {e \in returned : e.ts >= cutoff}
    /\ UNCHANGED <<which, hour, phone, notified, late, unfetched>>

CallReturns(w) ==
    /\ log' = Landed(log)
    /\ writer' = [writer EXCEPT ![w] = NoCall]
    /\ returned' = IF writer[w].wiped THEN returned ELSE returned \cup {writer[w].event}
    /\ UNCHANGED usedUp

\* put has returned: trim, which writes again if there was something to cut.
Fits(s) == Len(s) <= MaxKept

TrimNext(w) ==
    IF Fits(log.cache) THEN CallReturns(w)
    ELSE /\ log' = Update(Landed(log), w, Newest(log.cache))
         /\ writer' = [writer EXCEPT ![w].at = "trimming"]
         /\ UNCHANGED <<returned, usedUp>>

\* The log is cleared: only now the event that says so.
LogTheClear(w) ==
    LET event == [no |-> usedUp.events + 1, ts |-> hour] IN
    /\ UseUp("events", MaxEvents + MaxClears)
    /\ log' = Update(Landed(log), w, Append(log.cache, event))
    /\ writer' = [writer EXCEPT ![w] = [at |-> "putting", event |-> event, wiped |-> FALSE]]
    /\ UNCHANGED returned

\* The oldest write lands, and its caller goes on.
LogSaved ==
    /\ log.writes # <<>>
    /\ LET w == Head(log.writes).by IN
       CASE writer[w].at = "putting"  -> TrimNext(w)
         [] writer[w].at = "trimming" -> CallReturns(w)
         [] writer[w].at = "clearing" -> LogTheClear(w)
    /\ UNCHANGED <<which, hour, phone, notified, late, unfetched>>

\* Or it is rejected, and its caller ends: nothing is trimmed, a clearing is
\* not logged.
LogRejected ==
    /\ log.writes # <<>>
    /\ UseUp("troubles", MaxTroubles)
    /\ log' = Rejected(log)
    /\ writer' = [writer EXCEPT ![Head(log.writes).by] = NoCall]
    /\ UNCHANGED <<which, hour, phone, returned, notified, late, unfetched>>

\* A trimmed event may come back.
LogReloaded ==
    /\ UseUp("troubles", MaxTroubles)
    /\ log' = Reloaded(log)
    /\ writer' = [w \in Writers |-> NoCall]
    /\ late' = late \cup (Elements(log.disk) \ Elements(log.cache))
    /\ UNCHANGED <<which, hour, phone, returned, notified, unfetched>>

HourPasses ==
    /\ hour < MaxHour
    /\ hour' = hour + 1
    /\ UNCHANGED <<which, log, writer, phone, usedUp, returned, notified, late, unfetched>>

----------------------------------------------------------------------------
(* The app's catch-up.                                                     *)

\* catchUp(): the watermark and the clock are read, then the list asked for.
CatchUpStarts ==
    /\ which = "alarms" /\ phone.at = "rest"
    /\ phone' = [at |-> "asked", watermark |-> phone.watermark, read |-> hour]
    /\ UNCHANGED <<which, log, writer, hour, usedUp, returned, notified, late, unfetched>>

\* GET /alarm-events: listSince, from the cache of the collection
ListSince_FromDisk(ms) == {e \in Elements(log.disk) : e.ts > ms}

ListSince(ms) == {e \in Elements(log.cache) : e.ts > ms}

AlarmsListed ==
    /\ phone.at = "asked"
    /\ phone' = [at |-> "answered", watermark |-> phone.watermark, read |-> phone.read,
                 list |-> ListSince(phone.watermark)]
    /\ UNCHANGED <<which, log, writer, hour, usedUp, returned, notified, late, unfetched>>

\* The list arrives: every event is notified, the watermark moves to the
\* reading of the clock from before the request.
CatchUpEnds ==
    /\ phone.at = "answered"
    /\ notified' = notified \cup phone.list
    /\ phone' = [at |-> "rest", watermark |-> phone.read]
    /\ UNCHANGED <<which, log, writer, hour, usedUp, returned, late, unfetched>>

\* The request fails, before it reached the adapter or on its way back: the
\* watermark moves all the same.
CatchUpFails ==
    /\ phone.at \in {"asked", "answered"}
    /\ UseUp("troubles", MaxTroubles)
    /\ unfetched' = unfetched \cup
          (IF phone.at = "asked" THEN ListSince(phone.watermark) ELSE phone.list)
    /\ phone' = [at |-> "rest", watermark |-> phone.read]
    /\ UNCHANGED <<which, log, writer, hour, returned, notified, late>>

\* The app is stopped before the list arrives.
CatchUpCancelled ==
    /\ phone.at \in {"asked", "answered"}
    /\ phone' = [at |-> "rest", watermark |-> phone.watermark]
    /\ UNCHANGED <<which, log, writer, hour, usedUp, returned, notified, late, unfetched>>

LogNext ==
    \/ \E w \in Writers, ts \in 0..hour :
          ts + Delay >= hour /\ (which = "audit" => ts = hour) /\ Record(w, ts)
    \/ \E w \in Writers, cutoff \in 1..hour + 1 : Clear(w, cutoff)
    \/ LogSaved \/ LogRejected \/ LogReloaded \/ HourPasses
    \/ CatchUpStarts \/ AlarmsListed \/ CatchUpEnds \/ CatchUpFails \/ CatchUpCancelled

LogSpec == AlarmsInit /\ [][LogNext]_logVars

----------------------------------------------------------------------------
(* Properties                                                              *)

\* trim() keeps the newest, and not more.  An event whose call returned
\* stays, over restarts and rejected writes, until MaxKept others that are no
\* older are there, or it is cleared.  And as long as no write is rejected
\* and nothing restarts, the log has no more than MaxKept events and those
\* whose put is under way.
LogHoldsTheNewest ==
    /\ \A e \in returned :
          \/ e \in Elements(log.cache)
          \/ Cardinality({x \in Elements(log.cache) : x.ts >= e.ts}) >= MaxKept
    /\ usedUp.troubles = 0 =>
          Len(log.cache) <= MaxKept + Cardinality({w \in Writers : writer[w].at = "putting"})

\* The app's user hears of every alarm that is in the log and no later than
\* the app's watermark - if it was in the log when the list was made, and
\* the list came.
NoAlarmSkipped ==
    which = "alarms" =>
        \A e \in Elements(log.cache) :
            e.ts <= phone.watermark => e \in notified \cup late \cup unfetched

\* "a failed fetch will simply be retried with the same window next time this
\* runs" (AlarmMonitor.kt:75): a failed request loses no alarm.
FailedWindowIsRetried ==
    which = "alarms" =>
        \A e \in Elements(log.cache) : e.ts <= phone.watermark => e \in notified \cup late
=============================================================================
