-------------------------------- MODULE Gates --------------------------------
(***************************************************************************)
(* What a request passes before and while it is served, as one client's    *)
(* address goes through it: the portal gate (src/api/portalGate.ts) with   *)
(* an AbuseGuard of its own, the AbuseGuard and the RateLimiter in front   *)
(* of pairing and login (src/api/middleware.ts, src/security), and the     *)
(* handlers (src/api/router.ts), which report how they went - some of them *)
(* long after they were let in.                                            *)
(*                                                                         *)
(* The buckets of different addresses do not touch each other: the module  *)
(* follows the buckets of one.  The clock starts at 1; 0 is "null".        *)
(*                                                                         *)
(* A definition named Action_Fault is the action with one plausible fault  *)
(* in it; no specification uses it, it shows that a property notices.      *)
(***************************************************************************)
EXTENDS Naturals, Sequences

CONSTANTS
    Visitors,       \* bound: requests served at a time
    WindowMs,       \* AbuseGuardConfig.windowMs
    BlockMs,        \* AbuseGuardConfig.blockMs
    MaxFailuresOk,  \* AbuseGuardConfig.maxFailures
    RateWindow,     \* WINDOW_MS of the RateLimiter
    LimitPerMinute, \* its limit
    MaxInstant      \* bound: the last instant

ASSUME GatesAssumption ==
    /\ {MaxFailuresOk, WindowMs, BlockMs, RateWindow, LimitPerMinute, MaxInstant} \subseteq Nat \ {0}

VARIABLES
    instant,     \* Date.now()
    guard,       \* the bucket of abuseGuard
    portalGuard, \* the bucket of portalAbuseGuard
    limiter,     \* the bucket of authRateLimiter
    serving,     \* what each handler is suspended in
    sealed,      \* history: until when a block is in force that began with no other handler at work
    failed,      \* history: the failures of the last WindowMs since a success or a block
    admitted     \* history: the requests let in during the last RateWindow

gatesVars == <<instant, guard, portalGuard, limiter, serving, sealed, failed, admitted>>

NoBucket == [failures |-> 0, windowStart |-> 0, blockedUntil |-> 0]
NoCount  == [count |-> 0, windowStart |-> 0]

Instants == 0..(MaxInstant + BlockMs)
AbuseBucket == [failures : Nat, windowStart : Instants, blockedUntil : Instants]

GatesTypeOK ==
    /\ instant \in 1..MaxInstant
    /\ guard \in AbuseBucket /\ portalGuard \in AbuseBucket
    /\ \A b \in {guard, portalGuard} : b.blockedUntil # 0 => b.failures >= MaxFailuresOk
    /\ limiter \in [count : Nat, windowStart : Instants]
    /\ serving \in [Visitors -> {"free", "working", "auditing"}]
    /\ sealed \in Instants

GatesInit ==
    /\ instant = 1
    /\ guard = NoBucket /\ portalGuard = NoBucket /\ limiter = NoCount
    /\ serving = [v \in Visitors |-> "free"]
    /\ sealed = 0 /\ failed = <<>> /\ admitted = <<>>

----------------------------------------------------------------------------
(* AbuseGuard and RateLimiter, on one bucket.                              *)

\* isBlocked, and what it leaves of the bucket: nothing once the block is over
IsBlocked(b) == b.blockedUntil # 0 /\ instant < b.blockedUntil

Looked(b) == IF b.blockedUntil # 0 /\ ~IsBlocked(b) THEN NoBucket ELSE b

\* recordFailure
Failure_OneTooMany(b) ==
    LET c == IF b = NoBucket \/ instant - b.windowStart >= WindowMs
             THEN [failures |-> 0, windowStart |-> instant, blockedUntil |-> 0] ELSE b IN
    [failures |-> c.failures + 1, windowStart |-> c.windowStart,
     blockedUntil |-> IF c.failures >= MaxFailuresOk /\ c.blockedUntil = 0 THEN instant + BlockMs
                      ELSE c.blockedUntil]

Failure(b) ==
    LET c == IF b = NoBucket \/ instant - b.windowStart >= WindowMs
             THEN [failures |-> 0, windowStart |-> instant, blockedUntil |-> 0] ELSE b IN
    [failures |-> c.failures + 1, windowStart |-> c.windowStart,
     blockedUntil |-> IF c.failures + 1 >= MaxFailuresOk /\ c.blockedUntil = 0 THEN instant + BlockMs
                      ELSE c.blockedUntil]

\* snapshot() drops what is neither blocked nor within its window.
Pruned(b) == IF ~IsBlocked(b) /\ instant - b.windowStart >= WindowMs THEN NoBucket ELSE b

\* consume
NewWindow == limiter.count = 0 \/ instant - limiter.windowStart >= RateWindow

Consumable == NewWindow \/ limiter.count < LimitPerMinute

Consumed == IF NewWindow THEN [count |-> 1, windowStart |-> instant]
            ELSE [limiter EXCEPT !.count = @ + 1]

----------------------------------------------------------------------------
(* The gate.                                                               *)

\* What a request with the right key does to the guards.
KeyAccepted_OneGuardForAll == portalGuard' = NoBucket /\ guard' = NoBucket

KeyAccepted == portalGuard' = NoBucket /\ guard' = Looked(guard)

\* A wrong key, none, or any key while the address is blocked: 401.
Refuse401 ==
    /\ portalGuard' = IF IsBlocked(portalGuard) THEN portalGuard ELSE Failure(Looked(portalGuard))
    /\ UNCHANGED <<instant, guard, limiter, serving, sealed, failed, admitted>>

\* A route without blockIfAbusive.
PassGate ==
    /\ ~IsBlocked(portalGuard)
    /\ portalGuard' = NoBucket
    /\ UNCHANGED <<instant, guard, limiter, serving, sealed, failed, admitted>>

\* GET /server/info: counted, not guarded.
ServerInfo ==
    /\ ~IsBlocked(portalGuard)
    /\ portalGuard' = NoBucket
    /\ Consumable
    /\ limiter' = Consumed
    /\ admitted' = Append(admitted, instant)
    /\ UNCHANGED <<instant, guard, serving, sealed, failed>>

\* blockIfAbusive, then rateLimitByIp: the request is turned away by one of them ...
TurnedAway ==
    /\ ~IsBlocked(portalGuard)
    /\ IsBlocked(guard) \/ ~Consumable
    /\ KeyAccepted
    /\ UNCHANGED <<instant, limiter, serving, sealed, failed, admitted>>

\* ... or its handler runs up to the first await.
Enter(v) ==
    /\ serving[v] = "free"
    /\ ~IsBlocked(portalGuard) /\ ~IsBlocked(guard) /\ Consumable
    /\ KeyAccepted
    /\ limiter' = Consumed
    /\ admitted' = Append(admitted, instant)
    /\ serving' = [serving EXCEPT ![v] = "working"]
    /\ UNCHANGED <<instant, sealed, failed>>

----------------------------------------------------------------------------
(* The handlers of /pairing/claim, /auth/challenge, /login and /refresh.   *)

\* recordAbuseFailure.  The audit entry that is awaited next changes nothing.
RecordFailure(v) ==
    LET started == ~IsBlocked(guard) /\ Failure(guard).blockedUntil # 0
        alone   == \A w \in Visitors \ {v} : serving[w] = "free" IN
    /\ guard' = Failure(guard)
    /\ sealed' = IF started /\ alone THEN Failure(guard).blockedUntil ELSE sealed
    /\ failed' = IF started \/ IsBlocked(guard) THEN <<>> ELSE Append(failed, instant)
    /\ serving' = [serving EXCEPT ![v] = "free"]
    /\ UNCHANGED <<instant, portalGuard, limiter, admitted>>

\* Refused by what was validated, looked up, or awaited.
Fails(v) == serving[v] = "working" /\ RecordFailure(v)

\* claim(), the session of a login or the rotation has returned.
Succeeds(v) ==
    /\ serving[v] = "working"
    /\ guard' = NoBucket
    /\ failed' = <<>>
    /\ serving' = [serving EXCEPT ![v] = "auditing"]
    /\ UNCHANGED <<instant, portalGuard, limiter, sealed, admitted>>

\* A challenge proves nothing and is not recorded.  (It is answered in the
\* stretch that let it in; what comes between the two steps changes nothing.)
Challenged(v) ==
    /\ serving[v] = "working"
    /\ serving' = [serving EXCEPT ![v] = "free"]
    /\ UNCHANGED <<instant, guard, portalGuard, limiter, sealed, failed, admitted>>

\* The audit entry of a success is saved, or its write is rejected: then the
\* catch counts a failure.
Audited(v) ==
    /\ serving[v] = "auditing"
    /\ serving' = [serving EXCEPT ![v] = "free"]
    /\ UNCHANGED <<instant, guard, portalGuard, limiter, sealed, failed, admitted>>

AuditFails(v) == serving[v] = "auditing" /\ RecordFailure(v)

----------------------------------------------------------------------------
\* The administrator looks at both guards.
ListAbuseState ==
    /\ guard' = Pruned(guard) /\ portalGuard' = Pruned(portalGuard)
    /\ UNCHANGED <<instant, limiter, serving, sealed, failed, admitted>>

\* What of some times, which are in order, lies less than span before a moment.
Within(moment, span, times) ==
    LET young == {i \in DOMAIN times : moment - times[i] < span}
        first == CHOOSE i \in young : \A j \in young : i <= j IN
    IF young = {} THEN <<>> ELSE SubSeq(times, first, Len(times))

TimePasses ==
    /\ instant < MaxInstant
    /\ instant' = instant + 1
    /\ failed' = Within(instant', WindowMs, failed)
    /\ admitted' = Within(instant', RateWindow, admitted)
    /\ UNCHANGED <<guard, portalGuard, limiter, serving, sealed>>

GatesNext ==
    \/ Refuse401 \/ PassGate \/ ServerInfo \/ TurnedAway
    \/ \E v \in Visitors : Enter(v) \/ Fails(v) \/ Succeeds(v) \/ Challenged(v) \/ Audited(v) \/ AuditFails(v)
    \/ ListAbuseState \/ TimePasses

GatesSpec == GatesInit /\ [][GatesNext]_gatesVars

----------------------------------------------------------------------------
(* Properties                                                              *)

\* A block that began while no other request of the address was being served
\* lasts as long as announced: until then no handler runs for the address,
\* whatever keys, reading requests and looks of the administrator come in
\* between (src/main.ts:129-136 tells of a portal key that wiped it out).
BlockHolds == instant < sealed => \A v \in Visitors : serving[v] = "free"

\* Windows that are fixed, and begin with what they count, let pass no more
\* than twice what they should.  A burst of failures cannot stay below the
\* threshold: without a success or a block in between, no span of WindowMs
\* holds twice the threshold less one.  And the limiter lets in at most twice
\* its limit in any span of RateWindow, wherever that begins.
FixedWindowsHold ==
    /\ Len(failed) <= 2 * MaxFailuresOk - 2
    /\ Len(admitted) <= 2 * LimitPerMinute
=============================================================================
