----------------------------- MODULE DeviceAccess -----------------------------
(***************************************************************************)
(* What a paired device may do and how an administrator ends it: devices   *)
(* (src/devices/index.ts), sessions and their refresh tokens               *)
(* (src/sessions/index.ts), tunnel tokens (src/tunnel/index.ts), the login *)
(* and refresh routes (src/api/router.ts), the bearer check in front of    *)
(* every other route (src/api/middleware.ts), and the administrator's      *)
(* messages (src/main.ts).                                                 *)
(*                                                                         *)
(* The collections are CollectionStores; a handler is suspended at the     *)
(* await of its own write, and the code after it runs in the step in which *)
(* that write settles.  A refresh token is a number, minted once.  Expiry  *)
(* of sessions and tokens only takes access away and is left out, as are   *)
(* the awaited audit entries, which come after the state has changed.      *)
(*                                                                         *)
(* Action_Fault is the action with a plausible fault in it; no             *)
(* specification uses it.                                                  *)
(***************************************************************************)
EXTENDS CollectionStore, Naturals, FiniteSets

CONSTANTS
    Handlers,    \* bound: requests and admin messages served at a time
    Background,  \* stands for a write nobody waits for
    Devices,     \* devices paired earlier
    Sessions,    \* ids create() can give
    Nobody,        \* absent
    MaxTokens,   \* bound: refresh tokens minted
    MaxDecisions,\* bound: messages of administrators
    MaxRequests, \* bound: requests with the bookkeeping of the bearer check
    MaxFaults,   \* bound: rejected writes and restarts
    MaxSpent     \* bound: of these together, a fault counting one, the others two

ASSUME AccessAssumption ==
    /\ Background \notin Handlers
    /\ {MaxTokens, MaxDecisions, MaxRequests, MaxFaults, MaxSpent} \subseteq Nat

VARIABLES
    devices, sessions, rules, \* the stores; rules: may a rule of the device remain
    tunnels,   \* devices with a live tunnel token
    sockets,   \* sessions with an open, authenticated realtime connection
    jobs,      \* what each handler is suspended in
    minted,    \* refresh tokens made so far
    known,     \* refresh tokens an answer has carried to a client
    exchanged, \* history: answers with a new token, per token presented
    out,       \* history: devices an answer said are revoked or deleted
    hearsay,   \* history: devices a message said are deleted because somebody
               \* else had just taken them out; such an answer awaits no write
    ended,     \* history: sessions an answer said are revoked
    spent      \* what is used up of the bounds

stores  == <<devices, sessions, rules>>
history == <<exchanged, out, hearsay, ended>>
accessVars    == <<stores, tunnels, sockets, jobs, minted, known, history, spent>>

Tokens == 1..MaxTokens

DeviceStatus == {"approved", "rejected", "revoked"}
Session == [device : Devices, now : Tokens, before : Tokens \cup {Nobody}, revoked : BOOLEAN]

Step == {"free", "login", "refresh", "reuse", "approving", "revoking", "session",
         "next", "looping", "rules", "removing"}
Job == [at : Step, for : {"revoke", "delete", "all", Nobody}, d : Devices \cup {Nobody},
        s : Sessions \cup {Nobody}, t : Tokens \cup {Nobody},
        todo : SUBSET Sessions, all : SUBSET Sessions,
        overruled : BOOLEAN] \* the device was approved while this revoked it
Free == [at |-> "free", for |-> Nobody, d |-> Nobody, s |-> Nobody, t |-> Nobody,
         todo |-> {}, all |-> {}, overruled |-> FALSE]

\* "Absent" is nothing that can be there.
ASSUME NobodyAssumption ==
    Nobody \notin Devices \cup Sessions \cup DeviceStatus \cup Session

StoreOf(T) == [cache : T, disk : T, writes : Seq([by : Handlers \cup {Background}, json : T])]

AccessTypeOK ==
    /\ devices \in StoreOf([Devices -> DeviceStatus \cup {Nobody}])
    /\ sessions \in StoreOf([Sessions -> Session \cup {Nobody}])
    /\ rules \in StoreOf([Devices -> BOOLEAN])
    /\ tunnels \subseteq Devices
    /\ sockets \subseteq Sessions
    /\ jobs \in [Handlers -> Job]
    /\ minted \in 0..MaxTokens
    /\ known \subseteq 1..minted
    /\ exchanged \in [Tokens -> Nat]
    /\ out \subseteq Devices
    /\ hearsay \subseteq Devices
    /\ ended \subseteq Sessions
    /\ spent \in [decisions : Nat, requests : Nat, faults : Nat]

AccessInit ==
    /\ devices = Loaded([d \in Devices |-> "approved"])
    /\ sessions = Loaded([s \in Sessions |-> Nobody])
    /\ \E owners \in SUBSET Devices : rules = Loaded([d \in Devices |-> d \in owners])
    /\ tunnels = {} /\ sockets = {}
    /\ jobs = [h \in Handlers |-> Free]
    /\ minted = 0 /\ known = {}
    /\ exchanged = [t \in Tokens |-> 0]
    /\ out = {} /\ hearsay = {} /\ ended = {}
    /\ spent = [decisions |-> 0, requests |-> 0, faults |-> 0]

----------------------------------------------------------------------------
(* Handlers, their awaits, and what the checks in front of them read       *)

IsFree(h) == jobs[h] = Free
Suspend(h, job) == jobs' = [jobs EXCEPT ![h] = job]
Finish(h) == jobs' = [jobs EXCEPT ![h] = Free]
Spend(what) ==
    /\ spent' = [spent EXCEPT ![what] = @ + 1]
    /\ 2 * (spent'.decisions + spent'.requests) + spent'.faults <= MaxSpent

IsUsable(d) == devices.cache[d] = "approved"
Known(s) == sessions.cache[s] # Nobody
IsActive(s) == Known(s) /\ ~sessions.cache[s].revoked

SessionsOf(d) == {s \in Sessions : Known(s) /\ sessions.cache[s].device = d}

\* A client holds an access token of the session.
HasAccessToken(s) ==
    Known(s) /\ known \cap {sessions.cache[s].now, sessions.cache[s].before} # {}

\* put({ ...session, revoked: true }).  The loops below put sessions as they
\* were when the loop began; of a revoked session nothing else is read again.
RevokedIn(store, s) == [store.cache EXCEPT ![s].revoked = TRUE]

----------------------------------------------------------------------------
(* POST /auth/login and /auth/refresh                                      *)

\* verifyLogin() has found the device usable and the signature good.
Login_TokenNotCounted(h, d, s) ==
    /\ IsFree(h)
    /\ IsUsable(d) /\ ~Known(s) /\ minted < MaxTokens
    /\ sessions' = Update(sessions, h, [sessions.cache EXCEPT ![s] =
          [device |-> d, now |-> minted, before |-> Nobody, revoked |-> FALSE]])
    /\ Suspend(h, [Free EXCEPT !.at = "login", !.s = s, !.t = minted])
    /\ UNCHANGED <<devices, rules, tunnels, sockets, minted, known, history, spent>>

Login(h, d, s) ==
    /\ IsFree(h)
    /\ IsUsable(d) /\ ~Known(s) /\ minted < MaxTokens
    /\ minted' = minted + 1
    /\ sessions' = Update(sessions, h, [sessions.cache EXCEPT ![s] =
          [device |-> d, now |-> minted', before |-> Nobody, revoked |-> FALSE]])
    /\ Suspend(h, [Free EXCEPT !.at = "login", !.s = s, !.t = minted'])
    /\ UNCHANGED <<devices, rules, tunnels, sockets, known, history, spent>>

AnswerLogin(h) ==
    /\ jobs[h].at = "login" /\ Settles(sessions, h)
    /\ sessions' = Landed(sessions)
    /\ known' = known \cup {jobs[h].t}
    /\ Finish(h)
    /\ UNCHANGED <<devices, rules, tunnels, sockets, minted, history, spent>>

\* findByRefreshToken(): by the current or the previous token.
Finds(s, t) ==
    IsActive(s) /\ t \in known \cap {sessions.cache[s].now, sessions.cache[s].before}

\* rotate() with the current token; the fault takes the one before as well.
Refresh_AnyGeneration(h, s, t) ==
    /\ IsFree(h)
    /\ Finds(s, t) /\ IsUsable(sessions.cache[s].device) /\ minted < MaxTokens
    /\ minted' = minted + 1
    /\ sessions' = Update(sessions, h, [sessions.cache EXCEPT ![s].now = minted',
                                                              ![s].before = t])
    /\ Suspend(h, [Free EXCEPT !.at = "refresh", !.s = s, !.t = t])
    /\ UNCHANGED <<devices, rules, tunnels, sockets, known, history, spent>>

Refresh(h, s, t) ==
    /\ IsFree(h)
    /\ Finds(s, t) /\ t = sessions.cache[s].now
    /\ IsUsable(sessions.cache[s].device) /\ minted < MaxTokens
    /\ minted' = minted + 1
    /\ sessions' = Update(sessions, h, [sessions.cache EXCEPT ![s].now = minted',
                                                              ![s].before = t])
    /\ Suspend(h, [Free EXCEPT !.at = "refresh", !.s = s, !.t = t])
    /\ UNCHANGED <<devices, rules, tunnels, sockets, known, history, spent>>

\* The answer carries the token this handler minted.
AnswerRefresh(h) ==
    LET json == Head(sessions.writes).json IN
    /\ jobs[h].at = "refresh" /\ Settles(sessions, h)
    /\ sessions' = Landed(sessions)
    /\ known' = known \cup {json[jobs[h].s].now}
    /\ exchanged' = [exchanged EXCEPT ![jobs[h].t] = @ + 1]
    /\ Finish(h)
    /\ UNCHANGED <<devices, rules, tunnels, sockets, minted, out, hearsay, ended, spent>>

\* rotate() with the token before: revokeFamily().  A family is one session.
DetectReuse(h, s, t) ==
    /\ IsFree(h)
    /\ Finds(s, t) /\ t = sessions.cache[s].before
    /\ IsUsable(sessions.cache[s].device)
    /\ sessions' = Update(sessions, h, RevokedIn(sessions, s))
    /\ Suspend(h, [Free EXCEPT !.at = "reuse", !.s = s])
    /\ UNCHANGED <<devices, rules, tunnels, sockets, minted, known, history, spent>>

AnswerReuse(h) ==
    /\ jobs[h].at = "reuse" /\ Settles(sessions, h)
    /\ sessions' = Landed(sessions)
    /\ ended' = ended \cup {jobs[h].s}
    /\ Finish(h)
    /\ UNCHANGED <<devices, rules, tunnels, sockets, minted, known, exchanged, out, hearsay, spent>>

----------------------------------------------------------------------------
(* Access: the bearer check of every other route, the realtime login       *)

Admitted(s) == HasAccessToken(s) /\ IsActive(s) /\ IsUsable(sessions.cache[s].device)

\* POST /tunnel-token/:embedId.  The check also notes when the device and the
\* session were last seen: two writes of the collections nobody waits for.
IssueTunnel(s) ==
    /\ Admitted(s) /\ spent.requests < MaxRequests
    /\ tunnels' = tunnels \cup {sessions.cache[s].device}
    /\ devices' = Update(devices, Background, devices.cache)
    /\ sessions' = Update(sessions, Background, sessions.cache)
    /\ Spend("requests")
    /\ UNCHANGED <<rules, sockets, jobs, minted, known, history>>

TunnelExpires(d) ==
    /\ d \in tunnels
    /\ tunnels' = tunnels \ {d}
    /\ UNCHANGED <<stores, sockets, jobs, minted, known, history, spent>>

OpenSocket(s) ==
    /\ Admitted(s) /\ s \notin sockets
    /\ sockets' = sockets \cup {s}
    /\ UNCHANGED <<stores, tunnels, jobs, minted, known, history, spent>>

\* heartbeatTick(): connections of sessions no longer active.
Heartbeat ==
    /\ \E s \in sockets : ~IsActive(s)
    /\ sockets' = {s \in sockets : IsActive(s)}
    /\ UNCHANGED <<stores, tunnels, jobs, minted, known, history, spent>>

PeerLeaves(s) ==
    /\ s \in sockets
    /\ sockets' = sockets \ {s}
    /\ UNCHANGED <<stores, tunnels, jobs, minted, known, history, spent>>

----------------------------------------------------------------------------
(* Messages of administrators                                              *)

CutTunnels(d) == tunnels' = tunnels \ {d}
CutSockets(ds) == sockets' = {s \in sockets : sessions.cache[s].device \notin ds}

ApproveDevice(h, d) ==
    /\ IsFree(h) /\ spent.decisions < MaxDecisions
    /\ devices.cache[d] # Nobody
    /\ devices' = Update(devices, h, [devices.cache EXCEPT ![d] = "approved"])
    /\ out' = out \ {d}
    /\ jobs' = [g \in Handlers |-> IF g = h
                                   THEN [Free EXCEPT !.at = "approving", !.d = d]
                                   ELSE [jobs[g] EXCEPT !.overruled = @ \/ jobs[g].d = d]]
    /\ Spend("decisions")
    /\ UNCHANGED <<sessions, rules, tunnels, sockets, minted, known, exchanged, hearsay, ended>>

RejectDevice(h, d) ==
    /\ IsFree(h) /\ spent.decisions < MaxDecisions
    /\ devices.cache[d] # Nobody
    /\ devices' = Update(devices, h, [devices.cache EXCEPT ![d] = "rejected"])
    /\ Suspend(h, [Free EXCEPT !.at = "approving", !.d = d])
    /\ Spend("decisions")
    /\ UNCHANGED <<sessions, rules, tunnels, sockets, minted, known, history>>

DeviceSaved(h) ==
    /\ jobs[h].at = "approving" /\ Settles(devices, h)
    /\ devices' = Landed(devices)
    /\ Finish(h)
    /\ UNCHANGED <<sessions, rules, tunnels, sockets, minted, known, history, spent>>

\* revokeDevice: the device first ...
RevokeDevice(h, d) ==
    /\ IsFree(h) /\ spent.decisions < MaxDecisions
    /\ devices.cache[d] # Nobody
    /\ devices' = Update(devices, h, [devices.cache EXCEPT ![d] = "revoked"])
    /\ Suspend(h, [Free EXCEPT !.at = "revoking", !.d = d])
    /\ Spend("decisions")
    /\ UNCHANGED <<sessions, rules, tunnels, sockets, minted, known, history>>

Loop(purpose, d, ss) ==
    [Free EXCEPT !.at = "next", !.for = purpose, !.d = d, !.todo = ss, !.all = ss]

\* ... then the sessions found at that moment.
DeviceRevoked(h) ==
    LET d == jobs[h].d IN
    /\ jobs[h].at = "revoking" /\ Settles(devices, h)
    /\ devices' = Landed(devices)
    /\ Suspend(h, [Loop("revoke", d, SessionsOf(d)) EXCEPT !.overruled = jobs[h].overruled])
    /\ UNCHANGED <<sessions, rules, tunnels, sockets, minted, known, history, spent>>

\* deleteDevice begins with the sessions and leaves the device as it is.
DeleteDevice(h, d) ==
    /\ IsFree(h) /\ spent.decisions < MaxDecisions
    /\ devices.cache[d] # Nobody
    /\ Suspend(h, Loop("delete", d, SessionsOf(d)))
    /\ Spend("decisions")
    /\ UNCHANGED <<stores, tunnels, sockets, minted, known, history>>

\* A device that is not in the list is answered for at once.
DeleteGoneDevice(d) ==
    /\ spent.decisions < MaxDecisions
    /\ devices.cache[d] = Nobody
    /\ hearsay' = hearsay \cup {d}
    /\ Spend("decisions")
    /\ UNCHANGED <<stores, tunnels, sockets, jobs, minted, known, exchanged, out, ended>>

\* revokeAllSessions, as a message or by the control state.
RevokeAllSessions(h) ==
    /\ IsFree(h) /\ spent.decisions < MaxDecisions
    /\ Suspend(h, Loop("all", Nobody, {s \in Sessions : Known(s)}))
    /\ Spend("decisions")
    /\ UNCHANGED <<stores, tunnels, sockets, minted, known, history>>

\* One turn of a loop `for (session of ...) await put(...)`.
RevokeNext(h) ==
    /\ jobs[h].at = "next"
    /\ \E s \in jobs[h].todo :
          /\ sessions' = Update(sessions, h, RevokedIn(sessions, s))
          /\ Suspend(h, [jobs[h] EXCEPT !.at = "looping", !.todo = @ \ {s}])
    /\ UNCHANGED <<devices, rules, tunnels, sockets, minted, known, history, spent>>

NextRevoked(h) ==
    /\ jobs[h].at = "looping" /\ Settles(sessions, h)
    /\ sessions' = Landed(sessions)
    /\ Suspend(h, [jobs[h] EXCEPT !.at = "next"])
    /\ UNCHANGED <<devices, rules, tunnels, sockets, minted, known, history, spent>>

LoopEnds(h, purpose) ==
    jobs[h].at = "next" /\ jobs[h].for = purpose /\ jobs[h].todo = {}

EndRevokeDevice_TunnelKept(h) ==
    /\ LoopEnds(h, "revoke")
    /\ CutSockets({jobs[h].d})
    /\ out' = (IF jobs[h].overruled THEN out ELSE out \cup {jobs[h].d})
    /\ ended' = ended \cup jobs[h].all
    /\ Finish(h)
    /\ UNCHANGED <<stores, tunnels, minted, known, exchanged, hearsay, spent>>

EndRevokeDevice(h) ==
    /\ LoopEnds(h, "revoke")
    /\ CutTunnels(jobs[h].d) /\ CutSockets({jobs[h].d})
    /\ out' = (IF jobs[h].overruled THEN out ELSE out \cup {jobs[h].d})
    /\ ended' = ended \cup jobs[h].all
    /\ Finish(h)
    /\ UNCHANGED <<stores, minted, known, exchanged, hearsay, spent>>

EndRevokeAll(h) ==
    /\ LoopEnds(h, "all")
    /\ CutSockets({d \in Devices : devices.cache[d] # Nobody})
    /\ ended' = ended \cup jobs[h].all
    /\ Finish(h)
    /\ UNCHANGED <<stores, tunnels, minted, known, exchanged, out, hearsay, spent>>

\* devices.delete(): of a device that is no longer there it writes nothing,
\* and the message is answered.
RemoveDevice(h) ==
    LET d == jobs[h].d IN
    \/ /\ devices.cache[d] # Nobody
       /\ devices' = Update(devices, h, [devices.cache EXCEPT ![d] = Nobody])
       /\ Suspend(h, [jobs[h] EXCEPT !.at = "removing"])
       /\ UNCHANGED history
    \/ /\ devices.cache[d] = Nobody
       /\ hearsay' = hearsay \cup {d}
       /\ ended' = ended \cup jobs[h].all
       /\ Finish(h)
       /\ UNCHANGED <<devices, exchanged, out>>

\* The rules the device owns are deleted first, awaiting each.
EndDelete(h) ==
    LET d == jobs[h].d IN
    /\ LoopEnds(h, "delete")
    /\ CutTunnels(d) /\ CutSockets({d})
    /\ \/ /\ rules.cache[d]
          /\ rules' = Update(rules, h, [rules.cache EXCEPT ![d] = FALSE])
          /\ Suspend(h, [jobs[h] EXCEPT !.at = "rules"])
          /\ UNCHANGED <<devices, history>>
       \/ /\ ~rules.cache[d]
          /\ RemoveDevice(h)
          /\ UNCHANGED rules
    /\ UNCHANGED <<sessions, minted, known, spent>>

RulesDeleted(h) ==
    /\ jobs[h].at = "rules" /\ Settles(rules, h)
    /\ rules' = Landed(rules)
    /\ RemoveDevice(h)
    /\ UNCHANGED <<sessions, tunnels, sockets, minted, known, spent>>

DeviceDeleted(h) ==
    /\ jobs[h].at = "removing" /\ Settles(devices, h)
    /\ devices' = Landed(devices)
    /\ out' = out \cup {jobs[h].d} /\ ended' = ended \cup jobs[h].all
    /\ Finish(h)
    /\ UNCHANGED <<sessions, rules, tunnels, sockets, minted, known, exchanged, hearsay, spent>>

\* put() is not awaited.
RevokeSession_NotAwaited(h, s) ==
    /\ IsFree(h) /\ spent.decisions < MaxDecisions
    /\ Known(s)
    /\ sessions' = Update(sessions, Background, RevokedIn(sessions, s))
    /\ sockets' = sockets \ {s}
    /\ ended' = ended \cup {s}
    /\ Spend("decisions")
    /\ UNCHANGED <<devices, rules, tunnels, jobs, minted, known, exchanged, out, hearsay>>

RevokeSession(h, s) ==
    /\ IsFree(h) /\ spent.decisions < MaxDecisions
    /\ Known(s)
    /\ sessions' = Update(sessions, h, RevokedIn(sessions, s))
    /\ Suspend(h, [Free EXCEPT !.at = "session", !.s = s])
    /\ Spend("decisions")
    /\ UNCHANGED <<devices, rules, tunnels, sockets, minted, known, history>>

\* The tunnels are left as they are.
SessionRevoked(h) ==
    /\ jobs[h].at = "session" /\ Settles(sessions, h)
    /\ sessions' = Landed(sessions)
    /\ sockets' = sockets \ {jobs[h].s}
    /\ ended' = ended \cup {jobs[h].s}
    /\ Finish(h)
    /\ UNCHANGED <<devices, rules, tunnels, minted, known, exchanged, out, hearsay, spent>>

----------------------------------------------------------------------------
(* Failures                                                                *)

\* A write of the bookkeeping settles; nobody hears of it.
BackgroundSettles ==
    \/ /\ Settles(devices, Background)
       /\ devices' = Landed(devices)
       /\ UNCHANGED <<sessions, rules, tunnels, sockets, jobs, minted, known, history, spent>>
    \/ /\ Settles(sessions, Background)
       /\ sessions' = Landed(sessions)
       /\ UNCHANGED <<devices, rules, tunnels, sockets, jobs, minted, known, history, spent>>

\* setStateAsync rejects: the handler throws, or nobody minds.
WriteFails ==
    /\ spent.faults < MaxFaults
    /\ \/ /\ devices.writes # <<>> /\ devices' = Rejected(devices)
          /\ jobs' = [h \in Handlers |-> IF Settles(devices, h) THEN Free ELSE jobs[h]]
          /\ UNCHANGED <<sessions, rules>>
       \/ /\ sessions.writes # <<>> /\ sessions' = Rejected(sessions)
          /\ jobs' = [h \in Handlers |-> IF Settles(sessions, h) THEN Free ELSE jobs[h]]
          /\ UNCHANGED <<devices, rules>>
       \/ /\ rules.writes # <<>> /\ rules' = Rejected(rules)
          /\ jobs' = [h \in Handlers |-> IF Settles(rules, h) THEN Free ELSE jobs[h]]
          /\ UNCHANGED <<devices, sessions>>
    /\ Spend("faults")
    /\ UNCHANGED <<tunnels, sockets, minted, known, history>>

AccessRestarts ==
    /\ spent.faults < MaxFaults
    /\ devices' = Reloaded(devices) /\ sessions' = Reloaded(sessions)
    /\ rules' = Reloaded(rules)
    /\ tunnels' = {} /\ sockets' = {}
    /\ jobs' = [h \in Handlers |-> Free]
    /\ Spend("faults")
    /\ hearsay' = {} \* the property below is about what is said until then
    /\ UNCHANGED <<minted, known, exchanged, out, ended>>

Client(h) ==
    \/ \E d \in Devices, s \in Sessions : Login(h, d, s)
    \/ \E s \in Sessions, t \in known : Refresh(h, s, t) \/ DetectReuse(h, s, t)
    \/ AnswerLogin(h) \/ AnswerRefresh(h) \/ AnswerReuse(h)

Administrator(h) ==
    \/ \E d \in Devices : \/ ApproveDevice(h, d) \/ RejectDevice(h, d)
                          \/ RevokeDevice(h, d) \/ DeleteDevice(h, d)
    \/ \E s \in Sessions : RevokeSession(h, s)
    \/ RevokeAllSessions(h)
    \/ DeviceSaved(h) \/ DeviceRevoked(h) \/ RevokeNext(h) \/ NextRevoked(h)
    \/ EndRevokeDevice(h) \/ EndRevokeAll(h)
    \/ EndDelete(h) \/ RulesDeleted(h) \/ DeviceDeleted(h) \/ SessionRevoked(h)

AccessNext ==
    \/ \E h \in Handlers : Client(h) \/ Administrator(h)
    \/ \E s \in Sessions : IssueTunnel(s) \/ OpenSocket(s) \/ PeerLeaves(s)
    \/ \E d \in Devices : TunnelExpires(d) \/ DeleteGoneDevice(d)
    \/ Heartbeat \/ BackgroundSettles \/ WriteFails \/ AccessRestarts

AccessSpec == AccessInit /\ [][AccessNext]_accessVars

----------------------------------------------------------------------------
(* Properties                                                              *)

\* Once an administrator has been told that a device is revoked or deleted, and
\* until one approves it again, nothing of it works, also after a restart: no
\* login, refresh or request (they all ask whether it is usable), and after a
\* revocation no tunnel and no realtime connection that was open before
\* (src/devices/index.ts:63, "revocation takes effect instantly").  A message
\* that was answered because somebody else had taken the device out just before
\* has awaited no write: what it said holds until the next start only.
RevokedStaysOut ==
    /\ \A d \in out :
          /\ devices.cache[d] # "approved" /\ devices.disk[d] # "approved"
          /\ devices.cache[d] # Nobody =>
                d \notin tunnels /\ \A s \in sockets : sessions.cache[s].device # d
    /\ \A d \in hearsay : devices.cache[d] = Nobody

\* A device an administrator was told is removed stays removed: "Permanently
\* removes the device record itself" (src/devices/index.ts:68), for every
\* message the adapter answers with ok, the second of two and a repeated one
\* included.  TLC refutes it: the next start may bring the device back.
ToldRemovalStays == [][\A d \in hearsay : devices'.cache[d] = Nobody]_accessVars

\* Once an answer has said that a session is revoked - its own, its device's or
\* all of them, or a refresh token used twice - it never comes back: not by a
\* refresh that was under way, a loop over stale sessions, or a restart.
EndedSessionStaysEnded ==
    \A s \in ended :
        /\ sessions.cache[s] # Nobody /\ sessions.cache[s].revoked
        /\ sessions.disk[s] # Nobody /\ sessions.disk[s].revoked

\* "called when a device is unpaired or its session revoked, so a tunnel
\* doesn't keep working past that point" (src/tunnel/index.ts:78): the tunnel
\* tokens of a device do not outlive the revocation of its sessions.
TunnelsNeedASession ==
    \A d \in tunnels : SessionsOf(d) \ ended # {}

\* A refresh token buys one new token, whoever presents it, how often and in
\* whatever overlap, over failed writes and restarts (src/sessions/index.ts:84,
\* an already rotated-away token revokes the family).
RefreshTokenUsedOnce == \A t \in Tokens : exchanged[t] <= 1
=============================================================================
