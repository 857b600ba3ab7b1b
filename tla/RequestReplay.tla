---------------------------- MODULE RequestReplay ----------------------------
(***************************************************************************)
(* Signed requests (src/security/requestSignature.ts) and the replay guard *)
(* behind them (src/security/replayGuard.ts), as the HTTP middleware and   *)
(* the WebSocket handshake use them: the timestamp and the signature are   *)
(* checked first, then the (device, nonce) pair is looked up, and          *)
(* remembered for TTL.                                                     *)
(*                                                                         *)
(* A request may arrive any number of times, at any time and in any order: *)
(* retries of a proxy, late copies, clients whose clock is ahead or behind.*)
(* The check is one synchronous stretch of code, but it reads the clock    *)
(* twice: for the timestamp, and again, up to Lag later, for the guard.    *)
(*                                                                         *)
(* A definition named Action_Fault is the action with one plausible fault  *)
(* in it; no specification uses it, it shows that a property notices.      *)
(***************************************************************************)
EXTENDS Integers

CONSTANTS
    Requests,    \* signed requests
    Keys,        \* "sig:<device>:<nonce>"
    KeyOf,       \* [Requests -> Keys]
    StampOf,     \* [Requests -> Nat]  X-Signature-Timestamp
    Skew,        \* SIGNATURE_MAX_CLOCK_SKEW_MS
    TTL,         \* SIGNATURE_REPLAY_GUARD_TTL_MS
    Lag,         \* what may pass between the two readings of the clock
    MaxTime,     \* bound: the last instant of the server's clock
    MaxRestarts  \* bound: restarts of the adapter

ASSUME ConstantsAssumption ==
    /\ KeyOf \in [Requests -> Keys]
    /\ StampOf \in [Requests -> Nat]
    /\ Skew \in Nat
    /\ TTL \in Nat
    /\ Lag \in Nat
    /\ MaxTime \in Nat
    /\ MaxRestarts \in Nat

VARIABLES
    now,       \* Date.now()
    seen,      \* ReplayGuard.seen: key -> expiresAt
    accepted,  \* history: how often each request was let through since the start
    slipped,   \* history: those let through when the guard's reading of the clock
               \* was past their time already
    answers,   \* history: what each request was answered since the start
    restarts

vars == <<now, seen, accepted, slipped, answers, restarts>>

Answer == {"accepted", "SIGNATURE_INVALID", "REPLAY_DETECTED"}

TypeOK ==
    /\ now \in Nat
    /\ DOMAIN seen \subseteq Keys
    /\ \A k \in DOMAIN seen : seen[k] \in Nat
    /\ accepted \in [Requests -> Nat]
    /\ slipped \subseteq Requests
    /\ answers \in [Requests -> SUBSET Answer]
    /\ restarts \in Nat

Nothing == [k \in {} |-> 0]

Init ==
    /\ now = 0
    /\ seen = Nothing
    /\ accepted = [r \in Requests |-> 0]
    /\ slipped = {}
    /\ answers = [r \in Requests |-> {}]
    /\ restarts = 0

----------------------------------------------------------------------------
\* Math.abs(Date.now() - timestamp) <= SIGNATURE_MAX_CLOCK_SKEW_MS
Fresh(r) ==
    /\ now - StampOf[r] <= Skew
    /\ StampOf[r] - now <= Skew

\* The map without the entries whose expiresAt < the guard's Date.now().
EvictedAt_OneTickEarly(t) ==
    [k \in {j \in DOMAIN seen : seen[j] > t} |-> seen[k]]

EvictedAt(t) == [k \in {j \in DOMAIN seen : seen[j] >= t} |-> seen[k]]

Remember(map, key, t) ==
    [k \in DOMAIN map \cup {key} |-> IF k = key THEN t + TTL ELSE map[k]]

Say(r, answer) == answers' = [answers EXCEPT ![r] = @ \cup {answer}]

\* The clock when the guard reads it.
GuardReads(t) == t \in now .. now + Lag /\ t <= MaxTime

\* verifyRequestSignature returned false: too far off, or this copy's
\* signature does not verify.  The guard is not asked.
Refuse_NonceBurnt(r) ==
    /\ seen' = Remember(EvictedAt(now), KeyOf[r], now)
    /\ Say(r, "SIGNATURE_INVALID")
    /\ UNCHANGED <<now, accepted, slipped, restarts>>

Refuse(r) ==
    /\ Say(r, "SIGNATURE_INVALID")
    /\ UNCHANGED <<now, seen, accepted, slipped, restarts>>

Accept(r, t) ==
    /\ Fresh(r)
    /\ GuardReads(t)
    /\ KeyOf[r] \notin DOMAIN EvictedAt(t)
    /\ now' = t
    /\ seen' = Remember(EvictedAt(t), KeyOf[r], t)
    /\ accepted' = [accepted EXCEPT ![r] = @ + 1]
    /\ slipped' = IF t > StampOf[r] + Skew THEN slipped \cup {r} ELSE slipped
    /\ Say(r, "accepted")
    /\ UNCHANGED restarts

RefuseReplay(r, t) ==
    /\ Fresh(r)
    /\ GuardReads(t)
    /\ KeyOf[r] \in DOMAIN EvictedAt(t)
    /\ now' = t
    /\ seen' = EvictedAt(t)
    /\ Say(r, "REPLAY_DETECTED")
    /\ UNCHANGED <<accepted, slipped, restarts>>

Tick ==
    /\ now < MaxTime
    /\ now' = now + 1
    /\ UNCHANGED <<seen, accepted, slipped, answers, restarts>>

\* The guard is in memory only; so is what the histories count from.
Restart ==
    /\ restarts < MaxRestarts
    /\ restarts' = restarts + 1
    /\ seen' = Nothing
    /\ accepted' = [r \in Requests |-> 0]
    /\ slipped' = {}
    /\ answers' = [r \in Requests |-> {}]
    /\ UNCHANGED now

Next ==
    \/ \E r \in Requests :
          \/ \E t \in 0 .. MaxTime : Accept(r, t) \/ RefuseReplay(r, t)
          \/ Refuse(r)
    \/ Tick
    \/ Restart

Spec == Init /\ [][Next]_vars

----------------------------------------------------------------------------
(* Properties                                                              *)

\* Between two restarts a signed request is let through once, however its
\* copies are delayed and whatever the client's clock says: by the time the
\* guard has forgotten the nonce, the timestamp is no longer acceptable
\* (src/main.ts:87-90).  There is one way around: its time ends between the
\* two readings of the clock.  Then it is let through once more, and never
\* again.
AcceptedOnce ==
    \A r \in Requests : accepted[r] <= 1 \/ (r \in slipped /\ accepted[r] = 2)

\* "to make replay detection airtight for the request's entire acceptance
\* window.  A bit of extra margin." (src/main.ts:88-89): no request is let
\* through twice.  TLC refutes it, as the memory is twice the skew and no more.
ReplayIsAirtight == \A r \in Requests : accepted[r] <= 1

\* A request is answered REPLAY_DETECTED only if its nonce was really used: a
\* copy whose signature failed does not burn it (src/api/middleware.ts:150).
NoFalseReplay ==
    \A r \in Requests :
        "REPLAY_DETECTED" \in answers[r] =>
            \E q \in Requests : KeyOf[q] = KeyOf[r] /\ accepted[q] > 0

\* The strengthening of AcceptedOnce: a request let through is still
\* remembered, for long enough, or too old for Fresh for ever.
RememberedLongEnough ==
    \A r \in Requests :
        accepted[r] > 0 =>
            \/ /\ KeyOf[r] \in DOMAIN seen
               /\ seen[KeyOf[r]] + Skew >= StampOf[r] + TTL
            \/ now > StampOf[r] + Skew

\* Those that slipped through are too old for ever.
SlippedAreOver == \A r \in slipped : now > StampOf[r] + Skew

\* The strengthening of NoFalseReplay: what the guard remembers was used.
RememberedWasUsed ==
    \A k \in DOMAIN seen : \E q \in Requests : KeyOf[q] = k /\ accepted[q] > 0
=============================================================================
