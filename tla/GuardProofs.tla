---------------------------- MODULE GuardProofs -----------------------------
(* What a request meets in front of the routes and behind them, for all       *)
(* values of the constants: the replay guard lets a signed request through    *)
(* once, a block of the abuse guard holds until its announced end, a tunnel   *)
(* forwards what is entitled, no access rule outlives its embed.  With        *)
(* PairingProofs and DeviceAccessProofs this is all of MCFront.               *)
EXTENDS MCFront, PairingProofs, DeviceAccessProofs

----------------------------------------------------------------------------
(* Replay guard: any requests, clock and durations, TTL >= 2 * Skew        *)

\* What the guard keeps after it has swept the expired entries.
LEMMA EvictedKeeps ==
    ASSUME NEW t
    PROVE  /\ DOMAIN EvictedAt(t) = {k \in DOMAIN seen : seen[k] >= t}
           /\ \A k \in DOMAIN EvictedAt(t) : EvictedAt(t)[k] = seen[k]
BY DEF EvictedAt

\* The guard starts well typed,
LEMMA TypeInit == Init => TypeOK
BY ConstantsAssumption DEF Init, TypeOK, Nothing, Answer

\* Every step keeps the state well typed.
LEMMA TypeStep == TypeOK /\ [Next]_vars => TypeOK'
<1> SUFFICES ASSUME TypeOK, [Next]_vars PROVE TypeOK'
  OBVIOUS
<1> USE ConstantsAssumption DEF TypeOK
<1>1. ASSUME NEW r \in Requests, NEW t \in 0 .. MaxTime, Accept(r, t)
      PROVE  TypeOK'
  <2> DEFINE after == Remember(EvictedAt(t), KeyOf[r], t)
  <2>1. /\ seen' = after /\ now' = t
        /\ accepted' = [accepted EXCEPT ![r] = @ + 1]
        /\ answers' = [answers EXCEPT ![r] = @ \cup {"accepted"}]
        /\ slipped' \subseteq slipped \cup {r}
        /\ UNCHANGED restarts
    BY <1>1 DEF Accept, Say
  <2>2. KeyOf[r] \in Keys
    OBVIOUS
  <2>a. /\ DOMAIN after = DOMAIN EvictedAt(t) \cup {KeyOf[r]}
        /\ after[KeyOf[r]] = t + TTL
        /\ \A k \in DOMAIN EvictedAt(t) : k # KeyOf[r] => after[k] = EvictedAt(t)[k]
    BY DEF Remember
  <2>b. /\ DOMAIN EvictedAt(t) \subseteq DOMAIN seen
        /\ \A k \in DOMAIN EvictedAt(t) : EvictedAt(t)[k] = seen[k]
    BY EvictedKeeps
  <2> HIDE DEF after
  <2>3. DOMAIN after \subseteq Keys
    BY <2>2, <2>a, <2>b
  <2>4. \A k \in DOMAIN after : after[k] \in Nat
    BY <2>a, <2>b
  <2>5. answers' \in [Requests -> SUBSET Answer] /\ accepted' \in [Requests -> Nat]
    BY <2>1 DEF Answer
  <2> QED
    BY <2>1, <2>3, <2>4, <2>5
<1>2. ASSUME NEW r \in Requests, NEW t \in 0 .. MaxTime, RefuseReplay(r, t)
      PROVE  TypeOK'
  <2>1. /\ seen' = EvictedAt(t) /\ now' = t
        /\ answers' = [answers EXCEPT ![r] = @ \cup {"REPLAY_DETECTED"}]
        /\ UNCHANGED <<accepted, slipped, restarts>>
    BY <1>2 DEF RefuseReplay, Say
  <2>2. /\ DOMAIN EvictedAt(t) \subseteq Keys
        /\ \A k \in DOMAIN EvictedAt(t) : EvictedAt(t)[k] \in Nat
    BY EvictedKeeps
  <2> QED
    BY <2>1, <2>2 DEF Answer
<1>3. ASSUME NEW r \in Requests, Refuse(r) PROVE TypeOK'
  BY <1>3 DEF Refuse, Say, Answer
<1>4. CASE Tick
  BY <1>4 DEF Tick
<1>5. CASE Restart
  BY <1>5 DEF Restart, Nothing
<1>6. CASE UNCHANGED vars
  BY <1>6 DEF vars
<1> QED
  BY <1>1, <1>2, <1>3, <1>4, <1>5, <1>6 DEF Next

\* The guard's state is always well typed.
THEOREM TypeCorrect == Spec => []TypeOK
<1>1. Init => TypeOK
  BY TypeInit
<1>2. TypeOK /\ [Next]_vars => TypeOK'
  BY TypeStep
<1> QED
  BY <1>1, <1>2, PTL DEF Spec

----------------------------------------------------------------------------
Once == AcceptedOnce /\ RememberedLongEnough /\ SlippedAreOver

\* nothing has been let through at the start,
LEMMA OnceInit == Init => Once
BY ConstantsAssumption DEF Init, Once, AcceptedOnce, RememberedLongEnough, SlippedAreOver

\* A request that was let through and could come again is still remembered,
\* as long as its time has not ended: where the two durations meet.
LEMMA FreshIsRemembered ==
    ASSUME TTL >= 2 * Skew, TypeOK, RememberedLongEnough,
           NEW r \in Requests, Fresh(r), accepted[r] > 0,
           NEW t \in 0 .. MaxTime, GuardReads(t), ~(t > StampOf[r] + Skew)
    PROVE  KeyOf[r] \in DOMAIN EvictedAt(t)
<1> USE ConstantsAssumption DEF TypeOK
<1>1. /\ StampOf[r] \in Nat /\ now \in Nat /\ Skew \in Nat /\ TTL \in Nat
      /\ t \in Nat /\ t <= StampOf[r] + Skew
  BY DEF GuardReads
<1>2. now <= StampOf[r] + Skew
  BY <1>1 DEF Fresh
<1>3. /\ KeyOf[r] \in DOMAIN seen
      /\ seen[KeyOf[r]] + Skew >= StampOf[r] + TTL
  BY <1>1, <1>2 DEF RememberedLongEnough
<1>4. seen[KeyOf[r]] >= t
  BY <1>1, <1>3
<1> QED
  BY <1>3, <1>4, EvictedKeeps

\* Sweeping the expired entries loses no request that could still come.
LEMMA SweepIsHarmless ==
    ASSUME TTL >= 2 * Skew, TypeOK, RememberedLongEnough,
           NEW q \in Requests, accepted[q] > 0,
           NEW t \in 0 .. MaxTime, GuardReads(t)
    PROVE  \/ /\ KeyOf[q] \in DOMAIN EvictedAt(t)
              /\ EvictedAt(t)[KeyOf[q]] + Skew >= StampOf[q] + TTL
           \/ t > StampOf[q] + Skew
<1> USE ConstantsAssumption DEF TypeOK
<1>1. /\ StampOf[q] \in Nat /\ now \in Nat /\ Skew \in Nat /\ TTL \in Nat /\ Lag \in Nat
      /\ t \in Nat /\ now <= t
  BY DEF GuardReads
<1>2. CASE t > StampOf[q] + Skew
  BY <1>2
<1>3. CASE ~(t > StampOf[q] + Skew)
  <2>1. /\ KeyOf[q] \in DOMAIN seen
        /\ seen[KeyOf[q]] + Skew >= StampOf[q] + TTL
    BY <1>1, <1>3 DEF RememberedLongEnough
  <2>2. seen[KeyOf[q]] >= t
    BY <1>1, <1>3, <2>1
  <2> QED
    <3>1. KeyOf[q] \in DOMAIN EvictedAt(t) /\ EvictedAt(t)[KeyOf[q]] = seen[KeyOf[q]]
      <4> DEFINE key == KeyOf[q]
      <4>1. key \in DOMAIN seen /\ seen[key] >= t
        BY <2>1, <2>2
      <4> HIDE DEF key
      <4>2. key \in DOMAIN EvictedAt(t) /\ EvictedAt(t)[key] = seen[key]
        BY <4>1, EvictedKeeps
      <4> QED
        BY <4>2 DEF key
    <3> QED
      BY <2>1, <3>1
<1> QED
  BY <1>2, <1>3

\* and no step lets a request through once more but as its time ends.
LEMMA OnceStep ==
    ASSUME TTL >= 2 * Skew, TypeOK, Once, [Next]_vars
    PROVE  Once'
<1> USE ConstantsAssumption DEF TypeOK, Once
<1>1. ASSUME NEW r \in Requests, NEW t \in 0 .. MaxTime, Accept(r, t)
      PROVE  Once'
  <2> DEFINE after == Remember(EvictedAt(t), KeyOf[r], t)
  <2>1. /\ Fresh(r) /\ KeyOf[r] \notin DOMAIN EvictedAt(t)
        /\ GuardReads(t) /\ seen' = after /\ now' = t
        /\ accepted'[r] = accepted[r] + 1
        /\ \A q \in Requests : q # r => accepted'[q] = accepted[q]
        /\ slipped' = IF t > StampOf[r] + Skew THEN slipped \cup {r} ELSE slipped
    BY <1>1 DEF Accept
  <2>a. /\ DOMAIN after = DOMAIN EvictedAt(t) \cup {KeyOf[r]}
        /\ after[KeyOf[r]] = t + TTL
        /\ \A k \in DOMAIN EvictedAt(t) : k # KeyOf[r] => after[k] = EvictedAt(t)[k]
    BY DEF Remember
  <2> HIDE DEF after
  <2>2. r \notin slipped /\ accepted[r] \in Nat /\ accepted[r] <= 1
    <3>1. StampOf[r] \in Nat /\ now \in Nat /\ Skew \in Nat
      OBVIOUS
    <3>2. ~(now > StampOf[r] + Skew)
      BY <2>1, <3>1 DEF Fresh
    <3>3. r \notin slipped
      BY <3>2 DEF SlippedAreOver
    <3> QED
      BY <3>3 DEF AcceptedOnce
  <2>9. accepted[r] = 0 \/ t > StampOf[r] + Skew
    <3>1. ~(accepted[r] > 0) \/ t > StampOf[r] + Skew
      BY <2>1, FreshIsRemembered
    <3> QED
      BY <2>2, <3>1
  <2>3. AcceptedOnce'
    <3>1. accepted'[r] <= 1 \/ (r \in slipped' /\ accepted'[r] = 2)
      BY <2>1, <2>2, <2>9
    <3>2. slipped \subseteq slipped'
      BY <2>1
    <3> QED
      BY <2>1, <3>1, <3>2 DEF AcceptedOnce
  <2>4. /\ StampOf[r] \in Nat /\ now \in Nat /\ Skew \in Nat /\ TTL \in Nat /\ Lag \in Nat
        /\ t \in Nat /\ now <= t
    BY <2>1 DEF GuardReads
  <2>5. after[KeyOf[r]] + Skew >= StampOf[r] + TTL
    BY <2>1, <2>4, <2>a DEF Fresh
  <2>6. ASSUME NEW q \in Requests, accepted'[q] > 0, q # r
        PROVE  \/ /\ KeyOf[q] \in DOMAIN after
                  /\ after[KeyOf[q]] + Skew >= StampOf[q] + TTL
               \/ t > StampOf[q] + Skew
    <3>1. accepted[q] > 0
      BY <2>1, <2>6
    <3>2. CASE t > StampOf[q] + Skew
      BY <3>2
    <3>3. CASE /\ KeyOf[q] \in DOMAIN EvictedAt(t)
               /\ EvictedAt(t)[KeyOf[q]] + Skew >= StampOf[q] + TTL
      <4>1. KeyOf[q] # KeyOf[r]
        BY <2>1, <3>3
      <4>2. KeyOf[q] \in DOMAIN after /\ after[KeyOf[q]] = EvictedAt(t)[KeyOf[q]]
        BY <3>3, <4>1, <2>a
      <4> QED
        BY <3>3, <4>2
    <3>4. \/ /\ KeyOf[q] \in DOMAIN EvictedAt(t)
             /\ EvictedAt(t)[KeyOf[q]] + Skew >= StampOf[q] + TTL
          \/ t > StampOf[q] + Skew
      BY <2>1, <3>1, SweepIsHarmless
    <3> QED
      BY <3>2, <3>3, <3>4
  <2>7. KeyOf[r] \in DOMAIN after
    BY <2>a
  <2>8. RememberedLongEnough'
    BY <2>1, <2>5, <2>6, <2>7 DEF RememberedLongEnough
  <2>10. SlippedAreOver'
    <3>1. \A q \in slipped' : q \in Requests /\ StampOf[q] \in Nat
      BY <2>1
    <3>2. ASSUME NEW q \in slipped' PROVE t > StampOf[q] + Skew
      <4>1. (q = r /\ t > StampOf[r] + Skew) \/ q \in slipped
        BY <2>1, <3>2
      <4>2. CASE q \in slipped
        <5>1. now > StampOf[q] + Skew
          BY <4>2 DEF SlippedAreOver
        <5> QED
          BY <2>4, <3>1, <3>2, <5>1
      <4> QED
        BY <4>1, <4>2
    <3> QED
      BY <2>1, <3>2 DEF SlippedAreOver
  <2> QED
    BY <2>3, <2>8, <2>10
<1>2. ASSUME NEW r \in Requests, NEW t \in 0 .. MaxTime, RefuseReplay(r, t)
      PROVE  Once'
  <2>1. /\ GuardReads(t) /\ seen' = EvictedAt(t) /\ now' = t
        /\ accepted' = accepted /\ slipped' = slipped
    BY <1>2 DEF RefuseReplay
  <2>2. AcceptedOnce'
    BY <2>1 DEF AcceptedOnce
  <2>3. RememberedLongEnough'
    BY <2>1, SweepIsHarmless DEF RememberedLongEnough
  <2>4. SlippedAreOver'
    <3>1. t \in Nat /\ now \in Nat /\ now <= t /\ Skew \in Nat
      BY <2>1 DEF GuardReads
    <3>2. \A q \in slipped : StampOf[q] \in Nat
      OBVIOUS
    <3> QED
      BY <2>1, <3>1, <3>2 DEF SlippedAreOver
  <2> QED
    BY <2>2, <2>3, <2>4
<1>3. ASSUME NEW r \in Requests, Refuse(r) PROVE Once'
  BY <1>3 DEF Refuse, AcceptedOnce, RememberedLongEnough, SlippedAreOver
<1>4. CASE Tick
  <2>1. \A q \in slipped : StampOf[q] \in Nat
    OBVIOUS
  <2> QED
    BY <1>4, <2>1 DEF Tick, AcceptedOnce, RememberedLongEnough, SlippedAreOver
<1>5. CASE Restart
  BY <1>5 DEF Restart, AcceptedOnce, RememberedLongEnough, SlippedAreOver
<1>6. CASE UNCHANGED vars
  BY <1>6 DEF vars, AcceptedOnce, RememberedLongEnough, SlippedAreOver
<1> QED
  BY <1>1, <1>2, <1>3, <1>4, <1>5, <1>6 DEF Next

\* A signed request is let through once between two restarts - and once more
\* if its time ends between the two readings of the clock -, for every skew
\* and every TTL of at least twice the skew.  The shipped 5 and 10 minutes are
\* just that; the requirement stated at src/main.ts:87 is weaker.
THEOREM RequestAcceptedOnce ==
    ASSUME TTL >= 2 * Skew
    PROVE  Spec => []AcceptedOnce
<1>1. Init => TypeOK /\ Once
  BY TypeInit, OnceInit
<1>2. TypeOK /\ Once /\ [Next]_vars => (TypeOK /\ Once)'
  BY TypeStep, OnceStep
<1>3. Once => AcceptedOnce
  BY DEF Once
<1> QED
  BY <1>1, <1>2, <1>3, PTL DEF Spec

----------------------------------------------------------------------------
ReplayUsed == RememberedWasUsed /\ NoFalseReplay

\* Every step keeps that what is remembered was used.
LEMMA UsedStep ==
    ASSUME TypeOK, ReplayUsed, [Next]_vars
    PROVE  ReplayUsed'
<1> USE ConstantsAssumption DEF TypeOK, ReplayUsed
<1>1. ASSUME NEW r \in Requests, NEW t \in 0 .. MaxTime, Accept(r, t)
      PROVE  ReplayUsed'
  <2>1. /\ seen' = Remember(EvictedAt(t), KeyOf[r], t)
        /\ accepted'[r] > 0
        /\ \A q \in Requests : accepted[q] > 0 => accepted'[q] > 0
        /\ \A q \in Requests : "REPLAY_DETECTED" \in answers'[q]
                                  => "REPLAY_DETECTED" \in answers[q]
    BY <1>1 DEF Accept, Say
  <2>2. RememberedWasUsed'
    <3> SUFFICES ASSUME NEW k \in DOMAIN (seen')
                 PROVE  \E q \in Requests : KeyOf[q] = k /\ accepted'[q] > 0
      BY DEF RememberedWasUsed
    <3>a. DOMAIN Remember(EvictedAt(t), KeyOf[r], t) = DOMAIN EvictedAt(t) \cup {KeyOf[r]}
      BY DEF Remember
    <3>1. k = KeyOf[r] \/ k \in DOMAIN seen
      BY <2>1, <3>a, EvictedKeeps
    <3> QED
      BY <2>1, <3>1 DEF RememberedWasUsed
  <2>3. NoFalseReplay'
    BY <2>1 DEF NoFalseReplay
  <2> QED
    BY <2>2, <2>3
<1>2. ASSUME NEW r \in Requests, NEW t \in 0 .. MaxTime, RefuseReplay(r, t)
      PROVE  ReplayUsed'
  <2>1. /\ seen' = EvictedAt(t) /\ accepted' = accepted
        /\ KeyOf[r] \in DOMAIN seen
        /\ \A q \in Requests : q # r => answers'[q] = answers[q]
    BY <1>2, EvictedKeeps DEF RefuseReplay, Say
  <2>2. RememberedWasUsed'
    BY <2>1, EvictedKeeps DEF RememberedWasUsed
  <2>3. NoFalseReplay'
    BY <2>1 DEF NoFalseReplay, RememberedWasUsed
  <2> QED
    BY <2>2, <2>3
<1>3. ASSUME NEW r \in Requests, Refuse(r) PROVE ReplayUsed'
  <2>1. /\ UNCHANGED <<seen, accepted>>
        /\ \A q \in Requests : "REPLAY_DETECTED" \in answers'[q]
                                  => "REPLAY_DETECTED" \in answers[q]
    BY <1>3 DEF Refuse, Say
  <2> QED
    BY <2>1 DEF RememberedWasUsed, NoFalseReplay
<1>4. CASE Tick
  BY <1>4 DEF Tick, RememberedWasUsed, NoFalseReplay
<1>5. CASE Restart
  BY <1>5 DEF Restart, Nothing, RememberedWasUsed, NoFalseReplay
<1>6. CASE UNCHANGED vars
  BY <1>6 DEF vars, RememberedWasUsed, NoFalseReplay
<1> QED
  BY <1>1, <1>2, <1>3, <1>4, <1>5, <1>6 DEF Next

\* A request is refused as a replay only when its nonce has been used: for
\* every TTL, the guard never turns away the first good copy.
THEOREM ReplayWasUsed == Spec => []NoFalseReplay
<1>1. Init => TypeOK /\ ReplayUsed
  BY TypeInit DEF Init, ReplayUsed, RememberedWasUsed, NoFalseReplay, Nothing
<1>2. TypeOK /\ ReplayUsed /\ [Next]_vars => (TypeOK /\ ReplayUsed)'
  BY TypeStep, UsedStep
<1>3. ReplayUsed => NoFalseReplay
  BY DEF ReplayUsed
<1> QED
  BY <1>1, <1>2, <1>3, PTL DEF Spec

----------------------------------------------------------------------------
(* Abuse guard: any threshold, window and length of a block               *)

Bucket == [failures : Nat, windowStart : Nat, blockedUntil : Nat]

\* What the guard's bucket is worth while a block must hold: nobody is being
\* served, and the bucket itself says so until then.
Sealed ==
    /\ guard \in Bucket /\ instant \in Nat /\ sealed \in Nat
    /\ serving \in [Visitors -> {"free", "working", "auditing"}]
    /\ instant < sealed =>
          /\ \A v \in Visitors : serving[v] = "free"
          /\ sealed <= guard.blockedUntil

\* What recordFailure makes of an address's bucket.
LEMMA FailureBucket ==
    ASSUME NEW b \in Bucket, instant \in Nat
    PROVE  Failure(b) \in Bucket
<1> DEFINE c == IF b = NoBucket \/ instant - b.windowStart >= WindowMs
                THEN [failures |-> 0, windowStart |-> instant, blockedUntil |-> 0] ELSE b
<1>1. c \in Bucket
  BY DEF Bucket
<1>2. instant + BlockMs \in Nat
  BY GatesAssumption
<1>3. Failure(b) = [failures |-> c.failures + 1, windowStart |-> c.windowStart,
                    blockedUntil |-> IF c.failures + 1 >= MaxFailuresOk /\ c.blockedUntil = 0
                                     THEN instant + BlockMs ELSE c.blockedUntil]
  BY DEF Failure
<1> HIDE DEF c
<1> QED BY <1>1, <1>2, <1>3 DEF Bucket

\* A look at the bucket, by a request or by the administrator, leaves a block
\* in force as it is.
LEMMA LooksKeepABlock ==
    ASSUME NEW b \in Bucket, instant \in Nat
    PROVE  /\ Looked(b) \in Bucket /\ Pruned(b) \in Bucket
           /\ IsBlocked(b) => Looked(b) = b /\ Pruned(b) = b
<1>1. NoBucket \in Bucket
  BY DEF NoBucket, Bucket
<1> QED BY <1>1 DEF Looked, Pruned

\* No address is blocked yet.
LEMMA SealedInit == GatesInit => Sealed
  BY DEF GatesInit, Sealed, Bucket, NoBucket

\* Whoever is at work proves that no block must hold.
LEMMA AtWork ==
    ASSUME Sealed, NEW v \in Visitors, serving[v] # "free"
    PROVE  ~(instant < sealed)
  BY DEF Sealed

\* A failed request is counted, and may begin a block.
LEMMA RecordFailureStep ==
    ASSUME Sealed, NEW v \in Visitors, serving[v] # "free", RecordFailure(v)
    PROVE  Sealed'
<1> DEFINE started == ~IsBlocked(guard) /\ Failure(guard).blockedUntil # 0
           alone   == \A w \in Visitors \ {v} : serving[w] = "free"
<1>1. /\ guard' = Failure(guard) /\ instant' = instant
      /\ sealed' = IF started /\ alone THEN Failure(guard).blockedUntil ELSE sealed
      /\ serving' = [serving EXCEPT ![v] = "free"]
  BY DEF RecordFailure
<1>2. guard' \in Bucket
  BY <1>1, FailureBucket DEF Sealed
<1>3. guard'.blockedUntil \in Nat
  BY <1>2 DEF Bucket
<1>4. serving' \in [Visitors -> {"free", "working", "auditing"}]
  BY <1>1 DEF Sealed
<1>5. CASE started /\ alone
  <2>1. sealed' = guard'.blockedUntil
    BY <1>1, <1>5
  <2>2. \A w \in Visitors : serving'[w] = "free"
    BY <1>1, <1>5 DEF Sealed
  <2> QED BY <1>1, <1>2, <1>3, <1>4, <2>1, <2>2 DEF Sealed
<1>6. CASE ~(started /\ alone)
  <2>1. sealed' = sealed
    BY <1>1, <1>6
  <2> QED BY <1>1, <1>2, <1>4, <2>1, AtWork DEF Sealed
<1> QED BY <1>5, <1>6

\* Every step keeps the seals.
LEMMA SealedStep == Sealed /\ [GatesNext]_gatesVars => Sealed'
<1> SUFFICES ASSUME Sealed, [GatesNext]_gatesVars PROVE Sealed'
  OBVIOUS
<1>1. instant < sealed => IsBlocked(guard)
  BY DEF Sealed, IsBlocked, Bucket
<1>2. /\ Looked(guard) \in Bucket /\ Pruned(guard) \in Bucket
      /\ IsBlocked(guard) => Looked(guard) = guard /\ Pruned(guard) = guard
  BY LooksKeepABlock DEF Sealed
<1>3. ASSUME guard' \in {guard, Looked(guard), Pruned(guard)},
             UNCHANGED <<instant, sealed, serving>>
      PROVE  Sealed'
  BY <1>1, <1>2, <1>3 DEF Sealed
<1>4. CASE Refuse401 \/ PassGate \/ ServerInfo
  BY <1>3, <1>4 DEF Refuse401, PassGate, ServerInfo
<1>5. CASE TurnedAway
  BY <1>3, <1>5 DEF TurnedAway, KeyAccepted
<1>6. CASE ListAbuseState
  BY <1>3, <1>6 DEF ListAbuseState
<1>7. ASSUME NEW v \in Visitors, Enter(v) PROVE Sealed'
  <2>1. ~(instant < sealed)
    BY <1>1, <1>7 DEF Enter
  <2>2. /\ guard' = Looked(guard) /\ UNCHANGED <<instant, sealed>>
        /\ serving' = [serving EXCEPT ![v] = "working"]
    BY <1>7 DEF Enter, KeyAccepted
  <2> QED BY <1>2, <2>1, <2>2 DEF Sealed
<1>8. ASSUME NEW v \in Visitors, Fails(v) \/ AuditFails(v) PROVE Sealed'
  BY <1>8, RecordFailureStep DEF Fails, AuditFails
<1>9. ASSUME NEW v \in Visitors, Succeeds(v) \/ Challenged(v) \/ Audited(v) PROVE Sealed'
  <2>1. ~(instant < sealed)
    BY <1>9, AtWork DEF Succeeds, Challenged, Audited
  <2>2. /\ guard' \in {guard, NoBucket} /\ UNCHANGED <<instant, sealed>>
        /\ serving' \in [Visitors -> {"free", "working", "auditing"}]
    BY <1>9 DEF Succeeds, Challenged, Audited, Sealed
  <2>3. NoBucket \in Bucket
    BY DEF NoBucket, Bucket
  <2> QED BY <2>1, <2>2, <2>3 DEF Sealed
<1>10. CASE TimePasses
  BY <1>10 DEF TimePasses, Sealed
<1>11. CASE UNCHANGED gatesVars
  BY <1>3, <1>11 DEF gatesVars
<1> QED BY <1>4, <1>5, <1>6, <1>7, <1>8, <1>9, <1>10, <1>11 DEF GatesNext

\* A block that began while no other request of its address was being served
\* holds until its announced end: no handler runs for the address.
THEOREM BlocksHold == GatesSpec => []BlockHolds
<1>1. Sealed => BlockHolds
  BY DEF Sealed, BlockHolds
<1> QED BY <1>1, SealedInit, SealedStep, PTL DEF GatesSpec

----------------------------------------------------------------------------
(* How much two fixed windows let pass: any windows, threshold and limit   *)

\* Times that are counted fall into two windows: the one that began at
\* start, which holds no more than here of them, and the one before it, with
\* no more than before.
Halves(times, start, before, here) ==
    \E k \in 0..Len(times) :
        /\ k <= before /\ Len(times) - k <= here
        /\ \A i \in 1..k : times[i] <= start

\* Times that grow old leave at the front: the two windows keep their
\* bounds, and once the later one is over nothing is left of the first.
LEMMA WithinHalves ==
    ASSUME NEW times \in Seq(Nat), NEW moment \in Nat, NEW span \in Nat, NEW start \in Nat,
           NEW before \in Nat, NEW here \in Nat,
           Halves(times, start, before, here)
    PROVE  /\ Halves(Within(moment, span, times), start, before, here)
           /\ moment - start >= span => Len(Within(moment, span, times)) <= here
<1> DEFINE young == {i \in DOMAIN times : moment - times[i] < span}
           first == CHOOSE i \in young : \A j \in young : i <= j
           left  == SubSeq(times, first, Len(times))
<1>1. PICK k \in 0..Len(times) :
         /\ k <= before /\ Len(times) - k <= here
         /\ \A i \in 1..k : times[i] <= start
  BY DEF Halves
<1>2. /\ Len(times) \in Nat /\ DOMAIN times = 1..Len(times)
      /\ \A i \in 1..Len(times) : times[i] \in Nat
  BY LenProperties, ElementOfSeq
<1>3. CASE young = {}
  <2>1. Within(moment, span, times) = <<>>
    BY <1>3 DEF Within
  <2>2. Len(<<>>) = 0
    OBVIOUS
  <2>3. Halves(<<>>, start, before, here)
    BY <2>2 DEF Halves
  <2> QED BY <2>1, <2>2, <2>3
<1>4. CASE young # {}
  <2>1. Within(moment, span, times) = left
    BY <1>4 DEF Within
  <2>2. first \in young /\ \A j \in young : first <= j
    <3>1. young \in SUBSET Nat
      BY <1>2
    <3>2. \E i \in young : \A j \in young : i <= j
      BY <1>4, <3>1, LeastExists
    <3> QED BY <3>2
  <2>3. first \in 1..Len(times) /\ moment - times[first] < span
    BY <1>2, <2>2
  <2> HIDE DEF first, young
  <2>4. /\ left \in Seq(Nat) /\ Len(left) = Len(times) - first + 1
        /\ \A i \in 1..Len(left) : left[i] = times[first + i - 1]
    <3>1. \A i \in first..Len(times) : times[i] \in Nat
      BY <1>2, <2>3
    <3> QED BY <1>2, <2>3, <3>1, SubSeqProperties
  <2> HIDE DEF left
  <2>5. CASE first <= k
    <3> DEFINE j == k - first + 1
    <3>1. j \in 0..Len(left) /\ j <= before /\ Len(left) - j <= here
      BY <1>1, <1>2, <2>3, <2>4, <2>5
    <3>2. \A i \in 1..j : left[i] <= start
      <4> SUFFICES ASSUME NEW i \in 1..j PROVE left[i] <= start
        OBVIOUS
      <4>1. first + i - 1 \in 1..k /\ i \in 1..Len(left)
        BY <1>1, <1>2, <2>3, <2>4, <2>5
      <4> QED BY <1>1, <2>4, <4>1
    <3>3. Halves(left, start, before, here)
      BY <3>1, <3>2 DEF Halves
    <3>4. ~(moment - start >= span)
      <4>1. first \in 1..k
        BY <1>1, <1>2, <2>3, <2>5
      <4>2. times[first] <= start /\ times[first] \in Nat
        BY <1>1, <1>2, <2>3, <4>1
      <4> QED BY <2>3, <4>2
    <3> QED BY <2>1, <3>3, <3>4
  <2>6. CASE ~(first <= k)
    <3>0. first \in Nat /\ k + 1 <= first /\ first <= Len(times) /\ Len(times) - k <= here
      BY <1>1, <1>2, <2>3, <2>6
    <3>1. 0 \in 0..Len(left) /\ 0 <= before /\ Len(left) - 0 <= here
      <4>1. Len(left) \in Nat /\ Len(left) <= here
        BY <1>2, <2>4, <3>0
      <4> QED BY <4>1
    <3>2. Halves(left, start, before, here)
      BY <3>1 DEF Halves
    <3> QED BY <2>1, <2>4, <3>1, <3>2
  <2> QED BY <2>5, <2>6
<1> QED BY <1>3, <1>4

\* What is left of some times are some of these times, and no more.
LEMMA WithinType ==
    ASSUME NEW times \in Seq(Nat), NEW moment \in Nat, NEW span \in Nat, NEW last \in Nat,
           \A i \in 1..Len(times) : times[i] <= last
    PROVE  /\ Within(moment, span, times) \in Seq(Nat)
           /\ Len(Within(moment, span, times)) <= Len(times)
           /\ \A i \in 1..Len(Within(moment, span, times)) : Within(moment, span, times)[i] <= last
<1> DEFINE young == {i \in DOMAIN times : moment - times[i] < span}
           first == CHOOSE i \in young : \A j \in young : i <= j
           left  == SubSeq(times, first, Len(times))
<1>2. /\ Len(times) \in Nat /\ DOMAIN times = 1..Len(times)
      /\ \A i \in 1..Len(times) : times[i] \in Nat
  BY LenProperties, ElementOfSeq
<1>3. CASE young = {}
  <2>1. Within(moment, span, times) = <<>>
    BY <1>3 DEF Within
  <2> QED BY <1>2, <2>1
<1>4. CASE young # {}
  <2>1. Within(moment, span, times) = left
    BY <1>4 DEF Within
  <2>2. first \in young
    <3>1. young \in SUBSET Nat
      BY <1>2
    <3>2. \E i \in young : \A j \in young : i <= j
      BY <1>4, <3>1, LeastExists
    <3> QED BY <3>2
  <2>3. first \in 1..Len(times)
    BY <1>2, <2>2
  <2> HIDE DEF first, young
  <2>4. /\ left \in Seq(Nat) /\ Len(left) = Len(times) - first + 1
        /\ \A i \in 1..Len(left) : left[i] = times[first + i - 1]
    <3>1. \A i \in first..Len(times) : times[i] \in Nat
      BY <1>2, <2>3
    <3> QED BY <1>2, <2>3, <3>1, SubSeqProperties
  <2> HIDE DEF left
  <2>5. \A i \in 1..Len(left) : left[i] <= last
    <3> SUFFICES ASSUME NEW i \in 1..Len(left) PROVE left[i] <= last
      OBVIOUS
    <3>1. first + i - 1 \in 1..Len(times)
      BY <1>2, <2>3, <2>4
    <3> QED BY <2>4, <3>1
  <2> QED BY <1>2, <2>1, <2>3, <2>4, <2>5
<1> QED BY <1>3, <1>4

\* What is counted in the window under way adds to it, ...
LEMMA HalvesGoOn ==
    ASSUME NEW times \in Seq(Nat), NEW moment \in Nat, NEW start \in Nat, NEW before \in Nat,
           NEW here \in Nat, Halves(times, start, before, here)
    PROVE  Halves(Append(times, moment), start, before, here + 1)
<1>1. PICK k \in 0..Len(times) :
         /\ k <= before /\ Len(times) - k <= here
         /\ \A i \in 1..k : times[i] <= start
  BY DEF Halves
<1>2. /\ Len(times) \in Nat /\ Len(Append(times, moment)) = Len(times) + 1
      /\ \A i \in 1..Len(times) : Append(times, moment)[i] = times[i]
  BY AppendProperties, LenProperties
<1>3. k \in 0..Len(Append(times, moment)) /\ Len(Append(times, moment)) - k <= here + 1
  BY <1>1, <1>2
<1>4. \A i \in 1..k : Append(times, moment)[i] <= start
  BY <1>1, <1>2
<1> QED BY <1>1, <1>3, <1>4 DEF Halves

\* ... and what begins a window leaves all there was to the one before it.
LEMMA HalvesBegin ==
    ASSUME NEW times \in Seq(Nat), NEW moment \in Nat, NEW before \in Nat,
           Len(times) <= before, \A i \in 1..Len(times) : times[i] <= moment
    PROVE  Halves(Append(times, moment), moment, before, 1)
<1>1. /\ Len(times) \in Nat /\ Len(Append(times, moment)) = Len(times) + 1
      /\ \A i \in 1..Len(times) : Append(times, moment)[i] = times[i]
  BY AppendProperties, LenProperties
<1>2. Len(times) \in 0..Len(Append(times, moment)) /\ Len(Append(times, moment)) - Len(times) <= 1
  BY <1>1
<1>3. \A i \in 1..Len(times) : Append(times, moment)[i] <= moment
  BY <1>1
<1> QED BY <1>2, <1>3 DEF Halves

\* Two windows hold no more than both bounds together.
LEMMA HalvesBound ==
    ASSUME NEW times \in Seq(Nat), NEW start, NEW before \in Nat, NEW here \in Nat,
           Halves(times, start, before, here)
    PROVE  Len(times) <= before + here
<1>1. Len(times) \in Nat
  BY LenProperties
<1> QED BY <1>1 DEF Halves

\* Another moment is in order after the others.
LEMMA InOrder ==
    ASSUME NEW times \in Seq(Nat), NEW moment \in Nat, \A i \in 1..Len(times) : times[i] <= moment
    PROVE  /\ Append(times, moment) \in Seq(Nat)
           /\ \A i \in 1..Len(Append(times, moment)) : Append(times, moment)[i] <= moment
<1>1. /\ Len(times) \in Nat /\ Len(Append(times, moment)) = Len(times) + 1
      /\ Append(times, moment) \in Seq(Nat)
      /\ \A i \in 1..Len(times) : Append(times, moment)[i] = times[i]
      /\ Append(times, moment)[Len(times) + 1] = moment
  BY AppendProperties, LenProperties
<1> QED BY <1>1

----------------------------------------------------------------------------
\* The failures that are remembered: none since a block began; without a
\* bucket, or with one whose window is over, fewer than the threshold; and in
\* two windows as many in the second as the bucket has counted.
FailuresFit(b, times, moment) ==
    /\ times \in Seq(Nat) /\ \A i \in 1..Len(times) : times[i] <= moment
    /\ b.blockedUntil # 0 => times = <<>>
    /\ b.blockedUntil = 0 =>
         /\ b.failures <= MaxFailuresOk - 1
         /\ b # NoBucket => Halves(times, b.windowStart, MaxFailuresOk - 1, b.failures)
         /\ b = NoBucket \/ moment - b.windowStart >= WindowMs => Len(times) <= MaxFailuresOk - 1

\* The requests that were let in, against what the limiter has counted.
AdmittedFit(b, times, moment) ==
    /\ times \in Seq(Nat) /\ \A i \in 1..Len(times) : times[i] <= moment
    /\ b \in [count : Nat, windowStart : Nat]
    /\ b.count <= LimitPerMinute
    /\ b.count = 0 => times = <<>>
    /\ Halves(times, b.windowStart, LimitPerMinute, b.count)
    /\ moment - b.windowStart >= RateWindow => Len(times) <= LimitPerMinute

WindowsInv ==
    /\ instant \in Nat /\ guard \in Bucket
    /\ FailuresFit(guard, failed, instant)
    /\ AdmittedFit(limiter, admitted, instant)

\* There is nothing to count yet.
LEMMA WindowsInit == GatesInit => WindowsInv
<1> SUFFICES ASSUME GatesInit PROVE WindowsInv
  OBVIOUS
<1>1. /\ instant = 1 /\ guard = NoBucket /\ limiter = NoCount /\ failed = <<>> /\ admitted = <<>>
  BY DEF GatesInit
<1>2. NoBucket \in Bucket /\ NoBucket.failures = 0 /\ NoBucket.blockedUntil = 0
  BY DEF NoBucket, Bucket
<1>3. FailuresFit(NoBucket, <<>>, 1)
  BY <1>2, GatesAssumption DEF FailuresFit
<1>4. NoCount \in [count : Nat, windowStart : Nat] /\ NoCount.count = 0 /\ NoCount.windowStart = 0
  BY DEF NoCount
<1>5. Halves(<<>>, 0, LimitPerMinute, 0)
  BY GatesAssumption DEF Halves
<1>6. AdmittedFit(NoCount, <<>>, 1)
  BY <1>4, <1>5, GatesAssumption DEF AdmittedFit
<1> QED BY <1>1, <1>2, <1>3, <1>6 DEF WindowsInv

\* A failure that is counted fits: it goes on with a window, or begins one,
\* or reaches the threshold, and then a block begins and nothing is left.
LEMMA FailureFits ==
    ASSUME instant \in Nat, NEW b \in Bucket, NEW times, FailuresFit(b, times, instant)
    PROVE  FailuresFit(Failure(b),
                       IF (~IsBlocked(b) /\ Failure(b).blockedUntil # 0) \/ IsBlocked(b) THEN <<>>
                       ELSE Append(times, instant),
                       instant)
<1> DEFINE fresh == b = NoBucket \/ instant - b.windowStart >= WindowMs
           after == Failure(b)
           left  == IF (~IsBlocked(b) /\ after.blockedUntil # 0) \/ IsBlocked(b) THEN <<>>
                    ELSE Append(times, instant)
<1>1. /\ b.failures \in Nat /\ b.windowStart \in Nat /\ b.blockedUntil \in Nat
      /\ MaxFailuresOk \in Nat /\ MaxFailuresOk >= 1 /\ WindowMs \in Nat /\ WindowMs >= 1
      /\ BlockMs \in Nat /\ BlockMs >= 1
  BY GatesAssumption DEF Bucket
<1>2. times \in Seq(Nat) /\ \A i \in 1..Len(times) : times[i] <= instant
  BY DEF FailuresFit
<1>3. fresh => /\ after.failures = 1 /\ after.windowStart = instant
               /\ after.blockedUntil = IF 1 >= MaxFailuresOk THEN instant + BlockMs ELSE 0
  BY <1>1 DEF Failure
<1>4. ~fresh => /\ after.failures = b.failures + 1 /\ after.windowStart = b.windowStart
                /\ after.blockedUntil = IF b.failures + 1 >= MaxFailuresOk /\ b.blockedUntil = 0
                                        THEN instant + BlockMs ELSE b.blockedUntil
  BY <1>1 DEF Failure
<1>5. after.failures # 0
  BY <1>1, <1>3, <1>4
<1>6. after # NoBucket
  BY <1>5 DEF NoBucket
<1>7. ~(instant - after.windowStart >= WindowMs)
  BY <1>1, <1>3, <1>4
<1>8. left \in Seq(Nat) /\ \A i \in 1..Len(left) : left[i] <= instant
  BY <1>2, InOrder
<1>9. after.blockedUntil # 0 => left = <<>>
  OBVIOUS
<1>10. ASSUME after.blockedUntil = 0
       PROVE  after.failures <= MaxFailuresOk - 1
  <2>1. CASE fresh
    BY <1>1, <1>3, <1>10, <2>1
  <2>2. CASE ~fresh
    BY <1>1, <1>4, <1>10, <2>2
  <2> QED BY <2>1, <2>2
<1>11. ASSUME after.blockedUntil = 0
       PROVE  Halves(left, after.windowStart, MaxFailuresOk - 1, after.failures)
  <2>0. MaxFailuresOk - 1 \in Nat
    BY <1>1
  <2>1. CASE left = <<>>
    <3>1. after.failures \in Nat
      BY <1>1, <1>3, <1>4
    <3> HIDE DEF left, after
    <3>2. 0 \in 0..Len(<<>>) /\ Len(<<>>) - 0 <= after.failures
      BY <3>1
    <3> QED BY <2>0, <2>1, <3>2 DEF Halves
  <2>2. CASE left = Append(times, instant) /\ fresh
    <3>1. Len(times) <= MaxFailuresOk - 1
      BY <1>1, <2>2 DEF FailuresFit
    <3>2. Halves(Append(times, instant), instant, MaxFailuresOk - 1, 1)
      BY <1>2, <2>0, <3>1, HalvesBegin
    <3> QED BY <1>3, <2>2, <3>2
  <2>3. CASE left = Append(times, instant) /\ ~fresh
    <3>1. b.blockedUntil = 0
      BY <1>1, <1>4, <1>11, <2>3
    <3>2. Halves(times, b.windowStart, MaxFailuresOk - 1, b.failures)
      BY <2>3, <3>1 DEF FailuresFit
    <3>3. Halves(Append(times, instant), b.windowStart, MaxFailuresOk - 1, b.failures + 1)
      BY <1>1, <1>2, <2>0, <3>2, HalvesGoOn
    <3> QED BY <1>4, <2>3, <3>3
  <2> QED BY <2>1, <2>2, <2>3
<1> HIDE DEF fresh, after, left
<1>12. FailuresFit(after, left, instant)
  BY <1>6, <1>7, <1>8, <1>9, <1>10, <1>11 DEF FailuresFit
<1> QED BY <1>12 DEF after, left

\* A bucket that is dropped, after its block or its window, leaves fewer
\* failures than the threshold behind.
LEMMA DroppedFits ==
    ASSUME instant \in Nat, NEW b \in Bucket, NEW times, FailuresFit(b, times, instant)
    PROVE  FailuresFit(Looked(b), times, instant) /\ FailuresFit(Pruned(b), times, instant)
<1>1. ASSUME Len(times) <= MaxFailuresOk - 1 PROVE FailuresFit(NoBucket, times, instant)
  <2>1. NoBucket.failures = 0 /\ NoBucket.blockedUntil = 0 /\ 0 <= MaxFailuresOk - 1
    BY GatesAssumption DEF NoBucket
  <2> QED BY <1>1, <2>1 DEF FailuresFit
<1>2. ASSUME b.blockedUntil # 0 PROVE Len(times) <= MaxFailuresOk - 1
  <2>1. times = <<>>
    BY <1>2 DEF FailuresFit
  <2> QED BY <2>1, GatesAssumption
<1>3. FailuresFit(Looked(b), times, instant)
  <2>1. Looked(b) = b \/ (Looked(b) = NoBucket /\ b.blockedUntil # 0)
    BY DEF Looked
  <2> QED BY <1>1, <1>2, <2>1
<1>4. FailuresFit(Pruned(b), times, instant)
  <2>1. Pruned(b) = b \/ (Pruned(b) = NoBucket /\ instant - b.windowStart >= WindowMs)
    BY DEF Pruned
  <2>2. CASE Pruned(b) = b
    BY <2>2
  <2>3. CASE Pruned(b) = NoBucket /\ instant - b.windowStart >= WindowMs
    <3>1. CASE b.blockedUntil # 0
      BY <1>1, <1>2, <2>3, <3>1
    <3>2. CASE b.blockedUntil = 0
      BY <1>1, <2>3, <3>2 DEF FailuresFit
    <3> QED BY <3>1, <3>2
  <2> QED BY <2>1, <2>2, <2>3
<1> QED BY <1>3, <1>4

\* A request that is let in fits the limiter's count.
LEMMA ConsumedFits ==
    ASSUME instant \in Nat, AdmittedFit(limiter, admitted, instant), Consumable
    PROVE  AdmittedFit(Consumed, Append(admitted, instant), instant)
<1> DEFINE left == Append(admitted, instant)
<1>1. /\ limiter \in [count : Nat, windowStart : Nat] /\ limiter.count <= LimitPerMinute
      /\ admitted \in Seq(Nat) /\ \A i \in 1..Len(admitted) : admitted[i] <= instant
  BY DEF AdmittedFit
<1>2. /\ limiter.count \in Nat /\ limiter.windowStart \in Nat
      /\ LimitPerMinute \in Nat /\ LimitPerMinute >= 1 /\ RateWindow \in Nat /\ RateWindow >= 1
  BY <1>1, GatesAssumption
<1>3. left \in Seq(Nat) /\ \A i \in 1..Len(left) : left[i] <= instant
  BY <1>1, InOrder
<1>4. CASE NewWindow
  <2>1. Consumed = [count |-> 1, windowStart |-> instant]
    BY <1>4 DEF Consumed
  <2>2. Len(admitted) <= LimitPerMinute
    <3>1. CASE limiter.count = 0
      <4>1. admitted = <<>>
        BY <3>1 DEF AdmittedFit
      <4> QED BY <1>2, <4>1
    <3>2. CASE instant - limiter.windowStart >= RateWindow
      BY <3>2 DEF AdmittedFit
    <3> QED BY <1>4, <3>1, <3>2 DEF NewWindow
  <2>3. Halves(left, instant, LimitPerMinute, 1)
    BY <1>1, <1>2, <2>2, HalvesBegin
  <2>4. /\ Consumed \in [count : Nat, windowStart : Nat]
        /\ Consumed.count = 1 /\ Consumed.windowStart = instant
        /\ ~(instant - instant >= RateWindow)
    BY <1>2, <2>1
  <2> HIDE DEF left
  <2>5. AdmittedFit(Consumed, left, instant)
    BY <1>2, <1>3, <2>3, <2>4 DEF AdmittedFit
  <2> QED BY <2>5 DEF left
<1>5. CASE ~NewWindow
  <2>1. Consumed = [limiter EXCEPT !.count = @ + 1]
    BY <1>5 DEF Consumed
  <2>2. /\ Consumed \in [count : Nat, windowStart : Nat]
        /\ Consumed.count = limiter.count + 1 /\ Consumed.windowStart = limiter.windowStart
    BY <1>1, <1>2, <2>1
  <2>3. limiter.count < LimitPerMinute /\ ~(instant - limiter.windowStart >= RateWindow)
    BY <1>5 DEF Consumable, NewWindow
  <2>4. Halves(left, limiter.windowStart, LimitPerMinute, limiter.count + 1)
    <3>1. Halves(admitted, limiter.windowStart, LimitPerMinute, limiter.count)
      BY DEF AdmittedFit
    <3> QED BY <1>1, <1>2, <3>1, HalvesGoOn
  <2>5. Consumed.count <= LimitPerMinute /\ Consumed.count # 0
    BY <1>2, <2>2, <2>3
  <2> HIDE DEF left
  <2>6. AdmittedFit(Consumed, left, instant)
    BY <1>3, <2>2, <2>3, <2>4, <2>5 DEF AdmittedFit
  <2> QED BY <2>6 DEF left
<1> QED BY <1>4, <1>5

\* A failed request keeps what is remembered within its windows.
LEMMA RecordFailureFits ==
    ASSUME WindowsInv, NEW v \in Visitors, RecordFailure(v)
    PROVE  WindowsInv'
<1>1. /\ guard' = Failure(guard) /\ UNCHANGED <<instant, limiter, admitted>>
      /\ failed' = IF (~IsBlocked(guard) /\ Failure(guard).blockedUntil # 0) \/ IsBlocked(guard)
                   THEN <<>> ELSE Append(failed, instant)
  BY DEF RecordFailure
<1>2. FailuresFit(guard', failed', instant)
  BY <1>1, FailureFits DEF WindowsInv
<1>3. guard' \in Bucket
  BY <1>1, FailureBucket DEF WindowsInv
<1> QED BY <1>1, <1>2, <1>3 DEF WindowsInv

\* The clock goes on: what is too old is forgotten.
LEMMA TimePassesFits ==
    ASSUME WindowsInv, TimePasses
    PROVE  WindowsInv'
<1>1. /\ instant' = instant + 1
      /\ failed' = Within(instant', WindowMs, failed)
      /\ admitted' = Within(instant', RateWindow, admitted)
      /\ UNCHANGED <<guard, limiter>>
  BY DEF TimePasses
<1>2. /\ instant \in Nat /\ guard \in Bucket
      /\ FailuresFit(guard, failed, instant) /\ AdmittedFit(limiter, admitted, instant)
  BY DEF WindowsInv
<1>3. /\ instant' \in Nat /\ instant <= instant'
      /\ MaxFailuresOk - 1 \in Nat /\ WindowMs \in Nat /\ RateWindow \in Nat /\ LimitPerMinute \in Nat
  BY <1>1, <1>2, GatesAssumption
<1>4. FailuresFit(guard, failed', instant')
  <2>1. failed \in Seq(Nat) /\ \A i \in 1..Len(failed) : failed[i] <= instant'
    <3>1. failed \in Seq(Nat) /\ \A i \in 1..Len(failed) : failed[i] <= instant
      BY <1>2 DEF FailuresFit
    <3>2. \A i \in 1..Len(failed) : failed[i] \in Nat
      BY <3>1, ElementOfSeq
    <3> QED BY <1>2, <1>3, <3>1, <3>2
  <2>2. /\ failed' \in Seq(Nat) /\ Len(failed') <= Len(failed)
        /\ \A i \in 1..Len(failed') : failed'[i] <= instant'
    BY <1>1, <1>3, <2>1, WithinType
  <2>3. guard.blockedUntil # 0 => failed' = <<>>
    <3> SUFFICES ASSUME guard.blockedUntil # 0 PROVE failed' = <<>>
      OBVIOUS
    <3>1. failed = <<>>
      BY <1>2 DEF FailuresFit
    <3>2. Len(failed') = 0
      BY <2>2, <3>1, LenProperties
    <3> QED BY <2>2, <3>2, EmptySeq
  <2>4. ASSUME guard.blockedUntil = 0, guard # NoBucket
        PROVE  /\ Halves(failed', guard.windowStart, MaxFailuresOk - 1, guard.failures)
               /\ instant' - guard.windowStart >= WindowMs => Len(failed') <= MaxFailuresOk - 1
    <3>1. /\ Halves(failed, guard.windowStart, MaxFailuresOk - 1, guard.failures)
          /\ guard.failures <= MaxFailuresOk - 1
      BY <1>2, <2>4 DEF FailuresFit
    <3>2. guard.windowStart \in Nat /\ guard.failures \in Nat
      BY <1>2 DEF Bucket
    <3>3. /\ Halves(failed', guard.windowStart, MaxFailuresOk - 1, guard.failures)
          /\ instant' - guard.windowStart >= WindowMs => Len(failed') <= guard.failures
      BY <1>1, <1>3, <2>1, <3>1, <3>2, WithinHalves
    <3>4. Len(failed') \in Nat
      BY <2>2, LenProperties
    <3> QED BY <1>3, <3>1, <3>2, <3>3, <3>4
  <2>5. ASSUME guard.blockedUntil = 0, guard = NoBucket
        PROVE  Len(failed') <= MaxFailuresOk - 1
    <3>1. Len(failed) <= MaxFailuresOk - 1
      BY <1>2, <2>5 DEF FailuresFit
    <3>2. Len(failed) \in Nat /\ Len(failed') \in Nat
      BY <2>1, <2>2, LenProperties
    <3> QED BY <1>3, <2>2, <3>1, <3>2
  <2>6. guard.blockedUntil = 0 => guard.failures <= MaxFailuresOk - 1
    BY <1>2 DEF FailuresFit
  <2> QED BY <2>2, <2>3, <2>4, <2>5, <2>6 DEF FailuresFit
<1>5. AdmittedFit(limiter, admitted', instant')
  <2>1. admitted \in Seq(Nat) /\ \A i \in 1..Len(admitted) : admitted[i] <= instant'
    <3>1. admitted \in Seq(Nat) /\ \A i \in 1..Len(admitted) : admitted[i] <= instant
      BY <1>2 DEF AdmittedFit
    <3>2. \A i \in 1..Len(admitted) : admitted[i] \in Nat
      BY <3>1, ElementOfSeq
    <3> QED BY <1>2, <1>3, <3>1, <3>2
  <2>2. /\ admitted' \in Seq(Nat) /\ Len(admitted') <= Len(admitted)
        /\ \A i \in 1..Len(admitted') : admitted'[i] <= instant'
    BY <1>1, <1>3, <2>1, WithinType
  <2>3. limiter.count = 0 => admitted' = <<>>
    <3> SUFFICES ASSUME limiter.count = 0 PROVE admitted' = <<>>
      OBVIOUS
    <3>1. admitted = <<>>
      BY <1>2 DEF AdmittedFit
    <3>2. Len(admitted') = 0
      BY <2>2, <3>1, LenProperties
    <3> QED BY <2>2, <3>2, EmptySeq
  <2>4. /\ limiter \in [count : Nat, windowStart : Nat] /\ limiter.count <= LimitPerMinute
        /\ Halves(admitted, limiter.windowStart, LimitPerMinute, limiter.count)
    BY <1>2 DEF AdmittedFit
  <2>5. limiter.windowStart \in Nat /\ limiter.count \in Nat
    BY <2>4
  <2>6. /\ Halves(admitted', limiter.windowStart, LimitPerMinute, limiter.count)
        /\ instant' - limiter.windowStart >= RateWindow => Len(admitted') <= limiter.count
    BY <1>1, <1>3, <2>1, <2>4, <2>5, WithinHalves
  <2>7. Len(admitted') \in Nat
    BY <2>2, LenProperties
  <2>8. instant' - limiter.windowStart >= RateWindow => Len(admitted') <= LimitPerMinute
    BY <1>3, <2>4, <2>5, <2>6, <2>7
  <2> QED BY <2>2, <2>3, <2>4, <2>6, <2>8 DEF AdmittedFit
<1> QED BY <1>1, <1>2, <1>3, <1>4, <1>5 DEF WindowsInv

\* Every step keeps both counts within two windows.
LEMMA WindowsStep == WindowsInv /\ [GatesNext]_gatesVars => WindowsInv'
<1> SUFFICES ASSUME WindowsInv, [GatesNext]_gatesVars PROVE WindowsInv'
  OBVIOUS
<1>1. /\ instant \in Nat /\ guard \in Bucket
      /\ FailuresFit(guard, failed, instant) /\ AdmittedFit(limiter, admitted, instant)
  BY DEF WindowsInv
<1>2. /\ Looked(guard) \in Bucket /\ Pruned(guard) \in Bucket
      /\ FailuresFit(Looked(guard), failed, instant) /\ FailuresFit(Pruned(guard), failed, instant)
  BY <1>1, LooksKeepABlock, DroppedFits
<1>3. ASSUME guard' \in {guard, Looked(guard), Pruned(guard)},
             UNCHANGED <<instant, failed, limiter, admitted>>
      PROVE  WindowsInv'
  BY <1>1, <1>2, <1>3 DEF WindowsInv
<1>4. ASSUME guard' \in {guard, Looked(guard)}, UNCHANGED <<instant, failed>>,
             Consumable, limiter' = Consumed, admitted' = Append(admitted, instant)
      PROVE  WindowsInv'
  <2>1. AdmittedFit(limiter', admitted', instant)
    BY <1>1, <1>4, ConsumedFits
  <2> QED BY <1>1, <1>2, <1>4, <2>1 DEF WindowsInv
<1>5. CASE Refuse401 \/ PassGate
  BY <1>3, <1>5 DEF Refuse401, PassGate
<1>6. CASE ServerInfo
  BY <1>4, <1>6 DEF ServerInfo
<1>7. CASE TurnedAway
  BY <1>3, <1>7 DEF TurnedAway, KeyAccepted
<1>8. ASSUME NEW v \in Visitors, Enter(v) PROVE WindowsInv'
  BY <1>4, <1>8 DEF Enter, KeyAccepted
<1>9. ASSUME NEW v \in Visitors, Fails(v) \/ AuditFails(v) PROVE WindowsInv'
  BY <1>9, RecordFailureFits DEF Fails, AuditFails
<1>10. ASSUME NEW v \in Visitors, Succeeds(v) PROVE WindowsInv'
  <2>1. guard' = NoBucket /\ failed' = <<>> /\ UNCHANGED <<instant, limiter, admitted>>
    BY <1>10 DEF Succeeds
  <2>2. NoBucket \in Bucket /\ NoBucket.failures = 0 /\ NoBucket.blockedUntil = 0
    BY DEF NoBucket, Bucket
  <2>3. FailuresFit(NoBucket, <<>>, instant)
    BY <2>2, GatesAssumption DEF FailuresFit
  <2> QED BY <1>1, <2>1, <2>2, <2>3 DEF WindowsInv
<1>11. ASSUME NEW v \in Visitors, Challenged(v) \/ Audited(v) PROVE WindowsInv'
  BY <1>3, <1>11 DEF Challenged, Audited
<1>12. CASE ListAbuseState
  BY <1>3, <1>12 DEF ListAbuseState
<1>13. CASE TimePasses
  BY <1>13, TimePassesFits
<1>14. CASE UNCHANGED gatesVars
  BY <1>3, <1>14 DEF gatesVars
<1> QED BY <1>5, <1>6, <1>7, <1>8, <1>9, <1>10, <1>11, <1>12, <1>13, <1>14 DEF GatesNext

\* No span of the window's length holds twice the threshold less one of
\* failures without a success or a block in between, and none of the
\* limiter's lets in more than twice its limit, wherever the span begins: for
\* every threshold, limit and window, and any number of handlers at work.
THEOREM WindowsHold == GatesSpec => []FixedWindowsHold
<1>1. WindowsInv => FixedWindowsHold
  <2> SUFFICES ASSUME WindowsInv PROVE FixedWindowsHold
    OBVIOUS
  <2>1. /\ guard \in Bucket
        /\ FailuresFit(guard, failed, instant) /\ AdmittedFit(limiter, admitted, instant)
        /\ MaxFailuresOk \in Nat /\ MaxFailuresOk >= 1 /\ LimitPerMinute \in Nat
    BY GatesAssumption DEF WindowsInv
  <2>2. guard.failures \in Nat /\ failed \in Seq(Nat) /\ Len(failed) \in Nat
    BY <2>1, LenProperties DEF Bucket, FailuresFit
  <2>3. Len(failed) <= 2 * MaxFailuresOk - 2
    <3>1. CASE guard.blockedUntil # 0
      <4>1. failed = <<>>
        BY <2>1, <3>1 DEF FailuresFit
      <4> QED BY <2>1, <4>1
    <3>2. CASE guard.blockedUntil = 0 /\ guard = NoBucket
      <4>1. Len(failed) <= MaxFailuresOk - 1
        BY <2>1, <3>2 DEF FailuresFit
      <4> QED BY <2>1, <2>2, <4>1
    <3>3. CASE guard.blockedUntil = 0 /\ guard # NoBucket
      <4>1. /\ guard.failures <= MaxFailuresOk - 1
            /\ Halves(failed, guard.windowStart, MaxFailuresOk - 1, guard.failures)
        BY <2>1, <3>3 DEF FailuresFit
      <4>2. Len(failed) <= MaxFailuresOk - 1 + guard.failures
        BY <2>1, <2>2, <4>1, HalvesBound
      <4> QED BY <2>1, <2>2, <4>1, <4>2
    <3> QED BY <3>1, <3>2, <3>3
  <2>4. Len(admitted) <= 2 * LimitPerMinute
    <3>1. /\ limiter.count \in Nat /\ limiter.count <= LimitPerMinute /\ admitted \in Seq(Nat)
          /\ Halves(admitted, limiter.windowStart, LimitPerMinute, limiter.count)
      BY <2>1 DEF AdmittedFit
    <3>2. Len(admitted) <= LimitPerMinute + limiter.count
      BY <2>1, <3>1, HalvesBound
    <3>3. Len(admitted) \in Nat
      BY <3>1, LenProperties
    <3> QED BY <2>1, <3>1, <3>2, <3>3
  <2> QED BY <2>3, <2>4 DEF FixedWindowsHold
<1> QED BY <1>1, WindowsInit, WindowsStep, PTL DEF GatesSpec

----------------------------------------------------------------------------
(* The types of the buckets, for any clock and any number of handlers     *)

\* A bucket whose block was announced by enough failures.
Announced(b) == b \in AbuseBucket /\ (b.blockedUntil # 0 => b.failures >= MaxFailuresOk)

\* recordFailure starts a block only at the threshold, and names an instant
\* the clock can reach.
LEMMA FailureIsAnnounced ==
    ASSUME NEW b, Announced(b), instant \in 1..MaxInstant
    PROVE  Announced(Failure(b))
<1> DEFINE c == IF b = NoBucket \/ instant - b.windowStart >= WindowMs
                THEN [failures |-> 0, windowStart |-> instant, blockedUntil |-> 0] ELSE b
<1>1. /\ MaxFailuresOk \in Nat /\ BlockMs \in Nat /\ MaxInstant \in Nat
      /\ instant \in Instants /\ instant + BlockMs \in Instants /\ 0 \in Instants
  BY GatesAssumption DEF Instants
<1>2. Announced(c)
  BY <1>1 DEF Announced, AbuseBucket
<1>3. Failure(b) = [failures |-> c.failures + 1, windowStart |-> c.windowStart,
                    blockedUntil |-> IF c.failures + 1 >= MaxFailuresOk /\ c.blockedUntil = 0
                                     THEN instant + BlockMs ELSE c.blockedUntil]
  BY DEF Failure
<1> HIDE DEF c
<1>4. c.failures \in Nat /\ c.windowStart \in Instants /\ c.blockedUntil \in Instants
  BY <1>2 DEF Announced, AbuseBucket
<1>5. c.blockedUntil # 0 => c.failures >= MaxFailuresOk
  BY <1>2 DEF Announced
<1> QED BY <1>1, <1>3, <1>4, <1>5 DEF Announced, AbuseBucket

\* Looking at a bucket drops it or leaves it.
LEMMA LookIsAnnounced ==
    ASSUME NEW b, Announced(b)
    PROVE  Announced(NoBucket) /\ Announced(Looked(b)) /\ Announced(Pruned(b))
<1>1. 0 \in Instants
  BY GatesAssumption DEF Instants
<1>2. Announced(NoBucket)
  BY <1>1 DEF Announced, AbuseBucket, NoBucket
<1> QED BY <1>2 DEF Looked, Pruned

\* A request that is counted leaves the limiter a count.
LEMMA ConsumedTyped ==
    ASSUME limiter \in [count : Nat, windowStart : Instants], instant \in 1..MaxInstant
    PROVE  Consumed \in [count : Nat, windowStart : Instants]
<1>1. instant \in Instants
  BY GatesAssumption DEF Instants
<1> QED BY <1>1 DEF Consumed

\* There are no buckets yet.
LEMMA GatesTypeInit == GatesInit => GatesTypeOK
<1> SUFFICES ASSUME GatesInit PROVE GatesTypeOK
  OBVIOUS
<1>1. 0 \in Instants /\ 1 \in 1..MaxInstant
  BY GatesAssumption DEF Instants
<1> QED BY <1>1 DEF GatesInit, GatesTypeOK, NoBucket, NoCount, AbuseBucket

\* Every step keeps the types.
LEMMA GatesTypeStep == GatesTypeOK /\ [GatesNext]_gatesVars => GatesTypeOK'
<1> SUFFICES ASSUME GatesTypeOK, [GatesNext]_gatesVars PROVE GatesTypeOK'
  OBVIOUS
<1> DEFINE Counter == [count : Nat, windowStart : Instants]
           Serving == [Visitors -> {"free", "working", "auditing"}]
<1>1. /\ instant \in 1..MaxInstant /\ Announced(guard) /\ Announced(portalGuard)
      /\ limiter \in Counter /\ serving \in Serving /\ sealed \in Instants
  BY DEF GatesTypeOK, Announced
<1>2. /\ Announced(NoBucket) /\ Announced(Looked(guard)) /\ Announced(Pruned(guard))
      /\ Announced(Looked(portalGuard)) /\ Announced(Pruned(portalGuard))
  BY <1>1, LookIsAnnounced
<1>3. Announced(Failure(guard)) /\ Announced(Failure(Looked(portalGuard)))
  BY <1>1, <1>2, FailureIsAnnounced
<1>4. Consumed \in Counter
  BY <1>1, ConsumedTyped
<1>5. ASSUME instant' \in 1..MaxInstant, Announced(guard'), Announced(portalGuard'),
             limiter' \in Counter, serving' \in Serving, sealed' \in Instants
      PROVE  GatesTypeOK'
  BY <1>5 DEF GatesTypeOK, Announced
<1>6. CASE Refuse401 \/ PassGate \/ ServerInfo
  BY <1>1, <1>2, <1>3, <1>4, <1>5, <1>6 DEF Refuse401, PassGate, ServerInfo
<1>7. CASE TurnedAway
  BY <1>1, <1>2, <1>5, <1>7 DEF TurnedAway, KeyAccepted
<1>8. ASSUME NEW v \in Visitors, Enter(v) PROVE GatesTypeOK'
  BY <1>1, <1>2, <1>4, <1>5, <1>8 DEF Enter, KeyAccepted
<1>9. ASSUME NEW v \in Visitors, Fails(v) \/ AuditFails(v) PROVE GatesTypeOK'
  <2>1. RecordFailure(v)
    BY <1>9 DEF Fails, AuditFails
  <2>2. Failure(guard).blockedUntil \in Instants
    BY <1>3 DEF Announced, AbuseBucket
  <2> QED BY <1>1, <1>3, <1>5, <2>1, <2>2 DEF RecordFailure
<1>10. ASSUME NEW v \in Visitors, Succeeds(v) \/ Challenged(v) \/ Audited(v) PROVE GatesTypeOK'
  BY <1>1, <1>2, <1>5, <1>10 DEF Succeeds, Challenged, Audited
<1>11. CASE ListAbuseState
  BY <1>1, <1>2, <1>5, <1>11 DEF ListAbuseState
<1>12. CASE TimePasses
  BY <1>1, <1>5, <1>12, GatesAssumption DEF TimePasses
<1>13. CASE UNCHANGED gatesVars
  BY <1>1, <1>5, <1>13 DEF gatesVars
<1> QED BY <1>6, <1>7, <1>8, <1>9, <1>10, <1>11, <1>12, <1>13 DEF GatesNext

\* The buckets of an address, the clock and the handlers have their types,
\* and a block is never announced by fewer failures than the threshold.
THEOREM GatesTyped == GatesSpec => []GatesTypeOK
BY GatesTypeInit, GatesTypeStep, PTL DEF GatesSpec

----------------------------------------------------------------------------
(* Tunnels: any embeds, contexts, access rules and life of a token        *)

\* The two halves of TunnelsAreEntitled, with the types they rest on.
TokensInv ==
    /\ minute \in Nat
    /\ \A t \in tokens : t.expiresAt \in Nat
    /\ \A t, u \in tokens : t.embed = u.embed /\ t.ctx.deviceId = u.ctx.deviceId => t = u

ForwardedInv ==
    forwarded # NotForwarded =>
        forwarded.granted /\ forwarded.to = forwarded.url /\ forwarded.at - forwarded.since <= TokenTTL

\* No token is issued and nothing forwarded yet.
LEMMA TokensInit == EmbedInit => TokensInv /\ ForwardedInv
  BY DEF EmbedInit, TokensInv, ForwardedInv

\* Taking tokens away disturbs nothing.
LEMMA FewerTokens ==
    ASSUME TokensInv, tokens' \subseteq tokens, minute' \in Nat
    PROVE  TokensInv'
  BY DEF TokensInv

\* issue() revokes the token a device holds for the embed and adds a new one.
LEMMA IssueStep ==
    ASSUME TokensInv, NEW e \in EmbedIds, NEW ctx \in Contexts, Issue(e, ctx)
    PROVE  TokensInv'
<1> DEFINE kept == {t \in Live : ~SameWebView(t, e, ctx)}
           new  == [token |-> counted.tunnels + 1, embed |-> e, ctx |-> ctx,
                    expiresAt |-> minute + TokenTTL]
<1>1. tokens' = kept \cup {new} /\ minute' = minute
  BY DEF Issue
<1>2. /\ kept \subseteq tokens
      /\ \A t \in kept : ~(t.embed = e /\ t.ctx.deviceId = ctx.deviceId)
  BY DEF Live, SameWebView
<1>3. new.embed = e /\ new.ctx = ctx /\ new.expiresAt = minute + TokenTTL
  OBVIOUS
<1>4. minute + TokenTTL \in Nat
  BY EmbedAssumption DEF TokensInv
<1> HIDE DEF kept, new
<1> QED BY <1>1, <1>2, <1>3, <1>4 DEF TokensInv

\* Only a live token whose context is still entitled forwards anything.
LEMMA ForwardStep ==
    ASSUME TokensInv, NEW token, NEW path, Forward(token, path)
    PROVE  ForwardedInv'
<1>1. PICK t \in Live :
         /\ Resolves(t) /\ InsideOrigin(embeds.cache[t.embed], path)
         /\ forwarded' = [to |-> IF path = "relative" THEN embeds.cache[t.embed] ELSE path,
                          embed |-> t.embed, ctx |-> t.ctx, since |-> t.expiresAt - TokenTTL,
                          at |-> minute, granted |-> CanAccess(access.cache, t.embed, t.ctx),
                          url |-> embeds.cache[t.embed]]
  BY DEF Forward
<1>2. t.expiresAt \in Nat /\ t.expiresAt >= minute /\ minute \in Nat /\ TokenTTL \in Nat
  BY EmbedAssumption DEF Live, TokensInv
<1>3. forwarded'.granted
  BY <1>1 DEF Resolves
<1>4. forwarded'.to = forwarded'.url
  BY <1>1 DEF InsideOrigin
<1>5. forwarded'.at - forwarded'.since <= TokenTTL
  BY <1>1, <1>2
<1> QED BY <1>3, <1>4, <1>5 DEF ForwardedInv

\* Every step keeps both invariants.
LEMMA EmbedStep == TokensInv /\ ForwardedInv /\ [EmbedNext]_embedVars => (TokensInv /\ ForwardedInv)'
<1> SUFFICES ASSUME TokensInv, ForwardedInv, [EmbedNext]_embedVars
             PROVE  TokensInv' /\ ForwardedInv'
  OBVIOUS
<1>1. ASSUME tokens' \subseteq tokens, minute' = minute, forwarded' = forwarded
      PROVE  TokensInv' /\ ForwardedInv'
  BY <1>1, FewerTokens DEF TokensInv, ForwardedInv
<1>2. Live \subseteq tokens
  BY DEF Live
<1>3. ASSUME NEW h \in Editors, Edit(h) PROVE TokensInv' /\ ForwardedInv'
  <2>1. UNCHANGED <<tokens, minute, forwarded>>
    BY <1>3 DEF Edit, CreateEmbed, UpdateEmbed, CreateAccessRule, DeleteAccessRule, DeleteEmbed,
                EditSaved, DeleteGoesOn, EditRejected
  <2> QED BY <1>1, <2>1
<1>4. CASE EmbedRestarts
  BY <1>1, <1>4 DEF EmbedRestarts
<1>8. ASSUME NEW e \in EmbedIds, NEW ctx \in Contexts, Issue(e, ctx)
      PROVE  TokensInv' /\ ForwardedInv'
  BY <1>8, IssueStep DEF Issue, ForwardedInv
<1>9. ASSUME NEW k \in 1..MaxTunnels, ProxyRefused(k) \/ ProxyKept(k)
      PROVE  TokensInv' /\ ForwardedInv'
  BY <1>1, <1>2, <1>9 DEF ProxyRefused, ProxyKept
<1>10. ASSUME NEW k \in 1..MaxTunnels, NEW p \in Origins \cup {"relative"}, Forward(k, p)
       PROVE  TokensInv' /\ ForwardedInv'
  <2>1. tokens' = Live /\ minute' = minute
    BY <1>10 DEF Forward
  <2>2. TokensInv'
    BY <1>2, <2>1, FewerTokens DEF TokensInv
  <2> QED BY <1>10, <2>2, ForwardStep
<1>11. ASSUME NEW d \in {ctx.deviceId : ctx \in Contexts}, RevokeAllForDevice(d)
       PROVE  TokensInv' /\ ForwardedInv'
  BY <1>1, <1>11 DEF RevokeAllForDevice
<1>12. CASE MinutePasses
  <2>1. minute' \in Nat /\ tokens' = tokens /\ forwarded' = forwarded
    BY <1>12 DEF MinutePasses, TokensInv
  <2> QED BY <2>1, FewerTokens DEF ForwardedInv
<1>13. CASE UNCHANGED embedVars
  BY <1>1, <1>13 DEF embedVars
<1> QED
  BY <1>3, <1>4, <1>8, <1>9, <1>10, <1>11, <1>12, <1>13 DEF EmbedNext

\* One tunnel per device and embed, and nothing is forwarded but for a context
\* that may open the embed, to where it points, within a token's life.
THEOREM TunnelsStayEntitled == EmbedSpec => []TunnelsAreEntitled
<1>1. TokensInv /\ ForwardedInv => TunnelsAreEntitled
  BY DEF TokensInv, ForwardedInv, TunnelsAreEntitled
<1> QED BY <1>1, TokensInit, EmbedStep, PTL DEF EmbedSpec

----------------------------------------------------------------------------
(* Access rules: any embeds, rules and messages at a time, any number of   *)
(* rejected writes and stops                                               *)

\* The rules that createAccessRule() can store, and lists of the first n, each
\* of which is there once.
Entered == {Rule(n, g) : n \in Nat \ {0}, g \in {h \in Grants : ValidSingleOwner(h)}}
RuleLists == Seq(Entered)
Numbered(n) ==
    {V \in RuleLists : /\ \A k \in DOMAIN V : V[k].id <= n
                       /\ \A k, l \in DOMAIN V : V[k].id = V[l].id => k = l}

EmbedMaps == [EmbedIds -> Origins \cup {NoEmbed}]
Message == [at : {"none"} \cup OnEmbeds \cup OnRules, embed : EmbedIds \cup {NoEmbed}, left : SUBSET Nat]

\* A message waits for the collection its await says.
AwaitFit(h) ==
    /\ h \in Waiting(embeds) <=> messages[h].at \in OnEmbeds
    /\ h \in Waiting(access) <=> messages[h].at \in OnRules
    /\ messages[h].at # "none" => messages[h].embed \in EmbedIds
    /\ messages[h].at = "none" => messages[h] = NoMessage
    /\ messages[h].left \subseteq 1..counted.grants

EmbedShape ==
    /\ embeds \in Collections(EmbedMaps, Editors) /\ Single(embeds, Editors)
    /\ access \in Collections(RuleLists, Editors) /\ Single(access, Editors)
    /\ Everywhere(access, Numbered(counted.grants))
    /\ messages \in [Editors -> Message]
    /\ made \subseteq EmbedIds /\ cut \subseteq EmbedIds
    /\ counted \in [grants : Nat, tunnels : Nat, edits : Nat, mishaps : Nat]
    /\ \A h \in Editors : AwaitFit(h)

\* What is so in the cache is so in every version, or from the write on of one
\* of the messages W.
Backed(store, S, W) ==
    store.cache \in S => Everywhere(store, S) \/ \E h \in W : Since(store, h, S)

Doing(ats, e) == {h \in Editors : messages[h].at \in ats /\ messages[h].embed = e}

Offers(e) == {V \in EmbedMaps : V[e] # NoEmbed}
Lacks(r)  == {V \in RuleLists : \A k \in DOMAIN V : V[k] # r}

\* An embed that is there is saved, and a rule that is gone is gone from what
\* is saved, but for messages under way and those that were cut short.
HomeFit == \A e \in EmbedIds \ cut : Backed(embeds, Offers(e), Doing({"creating"}, e))
GoneFit ==
    \A r \in Entered : r.urlEmbedId \notin cut =>
        Backed(access, Lacks(r), Doing({"unlinking", "rules"}, r.urlEmbedId))

\* The embed whose rules are being deleted is gone, so that none is added, and
\* those that are there are still to be deleted.
DeletionFit(h) ==
    /\ messages[h].at \in {"embed", "rules"} =>
          embeds.cache[messages[h].embed] = NoEmbed /\ messages[h].embed \in made
    /\ messages[h].at = "rules" =>
          \A k \in DOMAIN access.cache :
              access.cache[k].urlEmbedId = messages[h].embed <=> access.cache[k].id \in messages[h].left

RulesInv == EmbedShape /\ HomeFit /\ GoneFit /\ (\A h \in Editors : DeletionFit(h)) /\ NoOrphanRule

\* A write, with what holds of its content put down to the message.
LEMMA BackedUpdate ==
    ASSUME NEW T, NEW B, NEW store \in Collections(T, B), NEW by \in B, by \notin Waiting(store),
           NEW C \in T, NEW to, to = Update(store, by, C), NEW S, NEW W, NEW W2,
           Backed(store, S, W), \A h \in W : h \in W2, C \in S /\ store.cache \notin S => by \in W2
    PROVE  Backed(to, S, W2)
<1> SUFFICES ASSUME to.cache \in S PROVE Everywhere(to, S) \/ \E h \in W2 : Since(to, h, S)
  BY DEF Backed
<1>1. /\ to.cache = C
      /\ Everywhere(store, S) /\ C \in S => Everywhere(to, S)
      /\ \A b : Since(store, b, S) /\ (b = by => C \in S) /\ (store.cache \in S => C \in S) => Since(to, b, S)
  BY UpdateFacts
<1>2. Since(store, by, S)
  BY VersionFacts
<1>3. CASE store.cache \in S
  BY <1>1, <1>3 DEF Backed
<1>4. CASE store.cache \notin S
  BY <1>1, <1>2, <1>4
<1> QED BY <1>3, <1>4

\* A write that settles, or none: the message it lands for is not needed.
LEMMA BackedShift ==
    ASSUME NEW T, NEW B, NEW store \in Collections(T, B), NEW to,
           \/ to = store
           \/ store.writes # <<>> /\ to = Landed(store)
           \/ store.writes # <<>> /\ to = Rejected(store),
           NEW S, NEW W, NEW W2, Backed(store, S, W),
           \A h \in W : h \in W2 \/ (store.writes # <<>> /\ to = Landed(store) /\ h = Head(store.writes).by)
    PROVE  Backed(to, S, W2)
<1> SUFFICES ASSUME to.cache \in S PROVE Everywhere(to, S) \/ \E h \in W2 : Since(to, h, S)
  BY DEF Backed
<1>1. /\ to.cache = store.cache
      /\ Everywhere(store, S) => Everywhere(to, S)
      /\ \A b : Since(store, b, S) => Since(to, b, S)
  <2>1. CASE to = store
    BY <2>1
  <2>2. CASE store.writes # <<>> /\ to = Landed(store)
    BY <2>2, LandedFacts
  <2>3. CASE store.writes # <<>> /\ to = Rejected(store)
    BY <2>3, RejectedFacts
  <2> QED BY <2>1, <2>2, <2>3
<1>2. CASE Everywhere(store, S)
  BY <1>1, <1>2
<1>3. ASSUME NEW h \in W, Since(store, h, S) PROVE Everywhere(to, S) \/ \E g \in W2 : Since(to, g, S)
  <2>1. CASE h \in W2
    BY <1>1, <1>3, <2>1
  <2>2. CASE store.writes # <<>> /\ to = Landed(store) /\ h = Head(store.writes).by
    BY <1>3, <2>2, LandedFacts
  <2> QED BY <2>1, <2>2
<1> QED BY <1>1, <1>2, <1>3 DEF Backed

\* What a stored rule is made of.
LEMMA EnteredFacts ==
    ASSUME NEW n \in Nat \ {0}, NEW g \in Grants, ValidSingleOwner(g), NEW r, r = Rule(n, g)
    PROVE  /\ r \in Entered /\ r.id = n /\ r.urlEmbedId = g.urlEmbedId /\ r.urlEmbedId \in EmbedIds
           /\ ValidSingleOwner(r)
<1>1. r \in Entered
  BY DEF Entered
<1>2. /\ {"urlEmbedId", "roleId", "userId", "deviceId"} \subseteq DOMAIN g /\ g.urlEmbedId \in EmbedIds
  BY EmbedAssumption
<1>3. \A f \in {"urlEmbedId", "roleId", "userId", "deviceId"} : r[f] = g[f]
  BY <1>2 DEF Rule
<1>4. r.id = n
  BY DEF Rule
<1>5. ValidSingleOwner(r)
  BY <1>3 DEF ValidSingleOwner, OwnerFields
<1> QED BY <1>1, <1>2, <1>3, <1>4, <1>5

\* What is known of each rule of a list.
LEMMA RuleFacts ==
    ASSUME NEW V \in RuleLists
    PROVE  \A k \in DOMAIN V :
               /\ V[k] \in Entered /\ V[k].id \in Nat \ {0} /\ V[k].urlEmbedId \in EmbedIds
               /\ ValidSingleOwner(V[k])
<1> SUFFICES ASSUME NEW k \in DOMAIN V
             PROVE  /\ V[k] \in Entered /\ V[k].id \in Nat \ {0} /\ V[k].urlEmbedId \in EmbedIds
                    /\ ValidSingleOwner(V[k])
  OBVIOUS
<1>1. V[k] \in Entered
  BY DEF RuleLists
<1>2. PICK n \in Nat \ {0}, g \in Grants : ValidSingleOwner(g) /\ V[k] = Rule(n, g)
  BY <1>1 DEF Entered
<1> QED BY <1>1, <1>2, EnteredFacts

\* A list without one of its rules; the others are all there.
LEMMA RuleGone ==
    ASSUME NEW n \in Nat, NEW V \in Numbered(n), NEW i \in DOMAIN V, NEW A, A = RemoveAt(V, i)
    PROVE  /\ A \in Numbered(n)
           /\ \A k \in DOMAIN A : \E l \in DOMAIN V : A[k] = V[l] /\ V[l].id # V[i].id
           /\ \A l \in DOMAIN V : l # i => \E k \in DOMAIN A : A[k] = V[l]
<1>1. /\ V \in Seq(Entered) /\ \A k \in DOMAIN V : V[k].id <= n
      /\ \A k, l \in DOMAIN V : V[k].id = V[l].id => k = l
  BY DEF Numbered, RuleLists
<1>2. /\ A \in Seq(Entered) /\ DOMAIN A = 1..(Len(V) - 1) /\ Len(V) \in Nat /\ DOMAIN V = 1..Len(V)
      /\ \A j \in 1..(Len(V) - 1) : A[j] = IF j < i THEN V[j] ELSE V[j + 1]
  BY <1>1, RemovedAt
<1> DEFINE from(j) == IF j < i THEN j ELSE j + 1
<1>3. \A j \in DOMAIN A : from(j) \in DOMAIN V /\ A[j] = V[from(j)] /\ from(j) # i
  BY <1>2
<1>4. \A j, k \in DOMAIN A : from(j) = from(k) => j = k
  BY <1>2
<1>5. \A l \in DOMAIN V : l # i => \E j \in DOMAIN A : from(j) = l
  <2> SUFFICES ASSUME NEW l \in DOMAIN V, l # i PROVE \E j \in DOMAIN A : from(j) = l
    OBVIOUS
  <2>1. CASE l < i
    BY <1>2, <2>1
  <2>2. CASE l > i
    <3>1. l - 1 \in DOMAIN A /\ from(l - 1) = l
      BY <1>2, <2>2
    <3> QED BY <3>1
  <2> QED BY <1>2, <2>1, <2>2
<1> HIDE DEF from
<1>6. \A k \in DOMAIN A : V[from(k)].id # V[i].id
  BY <1>1, <1>3
<1>7. \A k, l \in DOMAIN A : A[k].id = A[l].id => from(k) = from(l)
  BY <1>1, <1>3
<1>8. \A k \in DOMAIN A : A[k].id <= n
  BY <1>1, <1>3
<1>9. A \in Numbered(n)
  BY <1>2, <1>4, <1>7, <1>8 DEF Numbered, RuleLists
<1> QED BY <1>3, <1>5, <1>6, <1>9

\* A rule of the embed e goes, for the message h.
RestStays(store, to, e, h) ==
    \A r \in Entered : \A W, W2 :
        /\ Backed(store, Lacks(r), W) /\ \A g \in W : g \in W2
        /\ r.urlEmbedId = e => h \in W2
        => Backed(to, Lacks(r), W2)

\* A collection of the first n rules at most, and what the removal of the one
\* at i, by the message h, makes of it.
Ruled(store, n) ==
    /\ store \in Collections(RuleLists, Editors) /\ Everywhere(store, Numbered(n)) /\ Single(store, Editors)

Shortened(store, to, n, h, i) ==
    /\ Ruled(to, n) /\ Waiting(to) = Waiting(store) \cup {h}
    /\ \A k \in DOMAIN to.cache :
          \E l \in DOMAIN store.cache : /\ to.cache[k] = store.cache[l]
                                        /\ store.cache[l].id # store.cache[i].id
    /\ RestStays(store, to, store.cache[i].urlEmbedId, h)

\* The removal of a rule is on its way: it is put down to the message h.
LEMMA RuleRemoved ==
    ASSUME NEW h \in Editors, NEW n \in Nat, NEW store, Ruled(store, n), h \notin Waiting(store),
           NEW i \in DOMAIN store.cache, NEW to, to = Update(store, h, RemoveAt(store.cache, i))
    PROVE  Shortened(store, to, n, h, i)
<1> DEFINE V == store.cache
           A == RemoveAt(V, i)
<1>1. V \in Numbered(n) /\ V \in RuleLists
  BY VersionFacts DEF Ruled
<1>2. /\ A \in Numbered(n)
      /\ \A k \in DOMAIN A : \E l \in DOMAIN V : A[k] = V[l] /\ V[l].id # V[i].id
      /\ \A l \in DOMAIN V : l # i => \E k \in DOMAIN A : A[k] = V[l]
  BY <1>1, RuleGone
<1> HIDE DEF A
<1>3. A \in RuleLists /\ to = Update(store, h, A)
  BY <1>2 DEF A, Numbered
<1>4. /\ to \in Collections(RuleLists, Editors) /\ to.cache = A /\ Waiting(to) = Waiting(store) \cup {h}
      /\ Everywhere(to, Numbered(n)) /\ Single(to, Editors)
  BY <1>2, <1>3, UpdateFacts DEF Ruled
<1>5. ASSUME NEW r \in Entered, NEW W, NEW W2, Backed(store, Lacks(r), W), \A g \in W : g \in W2,
             r.urlEmbedId = V[i].urlEmbedId => h \in W2
      PROVE  Backed(to, Lacks(r), W2)
  <2>1. A \in Lacks(r) /\ V \notin Lacks(r) => r = V[i]
    BY <1>1, <1>2 DEF Lacks
  <2>2. A \in Lacks(r) /\ V \notin Lacks(r) => h \in W2
    BY <1>5, <2>1
  <2> QED BY <1>3, <1>5, <2>2, BackedUpdate DEF Ruled
<1>6. RestStays(store, to, V[i].urlEmbedId, h)
  BY <1>5 DEF RestStays
<1> QED BY <1>2, <1>4, <1>6 DEF Shortened, Ruled

\* delete() goes on with the rules `todo` of the embed e, or is done.
LEMMA NextRule ==
    ASSUME NEW h \in Editors, NEW n \in Nat, NEW store \in Collections(RuleLists, Editors),
           Everywhere(store, Numbered(n)), Single(store, Editors), h \notin Waiting(store),
           messages \in [Editors -> Message], NEW e \in EmbedIds, NEW todo \in SUBSET (1..n),
           \A k \in DOMAIN store.cache : store.cache[k].urlEmbedId = e <=> store.cache[k].id \in todo,
           DeleteNextRule(h, e, todo, store)
    PROVE  /\ access' \in Collections(RuleLists, Editors) /\ Everywhere(access', Numbered(n))
           /\ Single(access', Editors)
           /\ \A g \in Editors : g # h => (g \in Waiting(access') <=> g \in Waiting(store))
           /\ \A k \in DOMAIN access'.cache : \E l \in DOMAIN store.cache : access'.cache[k] = store.cache[l]
           /\ messages' \in [Editors -> Message] /\ \A g \in Editors : g # h => messages'[g] = messages[g]
           /\ \/ /\ messages'[h] = NoMessage /\ h \notin Waiting(access') /\ access' = store
                 /\ \A k \in DOMAIN access'.cache : access'.cache[k].urlEmbedId # e
              \/ /\ messages'[h].at = "rules" /\ messages'[h].embed = e /\ h \in Waiting(access')
                 /\ messages'[h].left \subseteq 1..n
                 /\ \A k \in DOMAIN access'.cache :
                       access'.cache[k].urlEmbedId = e <=> access'.cache[k].id \in messages'[h].left
                 /\ RestStays(store, access', e, h)
<1> DEFINE V == store.cache
           there == {k \in DOMAIN V : V[k].id \in todo}
           i == Earliest(there)
<1>1. V \in Numbered(n) /\ V \in RuleLists /\ \A k \in DOMAIN V : V[k].id \in Nat
  <2>1. V \in Numbered(n) /\ V \in RuleLists
    BY VersionFacts
  <2> QED BY <2>1, RuleFacts
<1>2. NoMessage \in Message
  BY DEF NoMessage, Message
<1>3. CASE there = {}
  <2>1. messages' = [messages EXCEPT ![h] = NoMessage] /\ access' = store
    BY <1>3 DEF DeleteNextRule, Served
  <2>2. messages'[h] = NoMessage /\ messages' \in [Editors -> Message]
        /\ \A g \in Editors : g # h => messages'[g] = messages[g]
    BY <1>2, <2>1
  <2>3. \A k \in DOMAIN V : V[k].urlEmbedId # e
    BY <1>3
  <2> QED BY <2>1, <2>2, <2>3
<1>4. CASE there # {}
  <2>1. i \in there
    <3>1. there \in SUBSET Nat
      BY <1>1 DEF RuleLists
    <3> HIDE DEF there
    <3> QED BY <1>4, <3>1, LeastExists DEF Earliest
  <2> DEFINE left == todo \ {V[i].id}
             J == [at |-> "rules", embed |-> e, left |-> left]
  <2>2. messages' = [messages EXCEPT ![h] = J] /\ access' = Update(store, h, RemoveAt(V, i))
    BY <1>4 DEF DeleteNextRule, AwaitsOn
  <2>3. J \in Message /\ left \subseteq 1..n
    <3>1. todo \subseteq 1..n /\ todo \subseteq Nat
      OBVIOUS
    <3>2. \A v : todo \ {v} \subseteq 1..n /\ todo \ {v} \in SUBSET Nat
      BY <3>1, Zenon
    <3> HIDE DEF i, there
    <3> QED BY <3>2 DEF Message, OnRules
  <2>4. J.at = "rules" /\ J.embed = e /\ J.left = left
    OBVIOUS
  <2> HIDE DEF J
  <2>5. /\ messages'[h] = J /\ messages' \in [Editors -> Message]
        /\ \A g \in Editors : g # h => messages'[g] = messages[g]
    BY <2>2, <2>3
  <2>6. i \in DOMAIN V /\ V[i].id \in todo /\ V[i].urlEmbedId = e
    BY <2>1
  <2> HIDE DEF i, there, left
  <2>7. /\ access' \in Collections(RuleLists, Editors) /\ Everywhere(access', Numbered(n)) /\ Single(access', Editors)
        /\ Waiting(access') = Waiting(store) \cup {h}
        /\ \A k \in DOMAIN access'.cache :
              \E l \in DOMAIN store.cache : access'.cache[k] = store.cache[l] /\ store.cache[l].id # store.cache[i].id
        /\ RestStays(store, access', store.cache[i].urlEmbedId, h)
    <3>1. i \in DOMAIN store.cache /\ access' = Update(store, h, RemoveAt(store.cache, i))
      BY <2>2, <2>6
    <3>2. Ruled(store, n)
      BY DEF Ruled
    <3>3. Shortened(store, access', n, h, i)
      BY <3>1, <3>2, RuleRemoved
    <3> QED BY <3>3 DEF Shortened, Ruled
  <2>8. \A k \in DOMAIN access'.cache : access'.cache[k].urlEmbedId = e <=> access'.cache[k].id \in left
    BY <2>7 DEF left
  <2>9. \A k \in DOMAIN access'.cache : \E l \in DOMAIN V : access'.cache[k] = V[l]
    BY <2>7
  <2> QED BY <2>3, <2>4, <2>5, <2>6, <2>7, <2>8, <2>9
<1> QED BY <1>3, <1>4


\* Only the message h moves on.
LEMMA EmbedShapeStep ==
    ASSUME EmbedShape, NEW h \in Editors,
           embeds' \in Collections(EmbedMaps, Editors), Single(embeds', Editors),
           access' \in Collections(RuleLists, Editors), Single(access', Editors),
           Everywhere(access', Numbered(counted'.grants)), counted.grants <= counted'.grants,
           counted' \in [grants : Nat, tunnels : Nat, edits : Nat, mishaps : Nat],
           messages' \in [Editors -> Message], made' \subseteq EmbedIds, cut' \subseteq EmbedIds,
           \A g \in Editors : g # h => /\ messages'[g] = messages[g]
                                       /\ g \in Waiting(embeds') <=> g \in Waiting(embeds)
                                       /\ g \in Waiting(access') <=> g \in Waiting(access),
           AwaitFit(h)'
    PROVE  EmbedShape'
<1>1. ASSUME NEW g \in Editors, g # h PROVE AwaitFit(g)'
  <2>1. AwaitFit(g)
    BY DEF EmbedShape
  <2>2. counted.grants \in Nat /\ counted'.grants \in Nat
    BY DEF EmbedShape
  <2>3. messages[g].left \subseteq 1..counted'.grants
    <3>1. messages[g].left \subseteq 1..counted.grants
      BY <2>1 DEF AwaitFit
    <3> QED BY <2>2, <3>1
  <2> QED BY <1>1, <2>1, <2>3 DEF AwaitFit
<1> QED BY <1>1 DEF EmbedShape

\* What a message awaits next.
LEMMA AwaitFacts ==
    ASSUME messages \in [Editors -> Message], NEW h \in Editors, NEW at \in OnEmbeds \cup OnRules,
           NEW e \in EmbedIds, AwaitsOn(h, at, e, {})
    PROVE  /\ messages' \in [Editors -> Message] /\ \A g \in Editors : g # h => messages'[g] = messages[g]
           /\ messages'[h].at = at /\ messages'[h].embed = e /\ messages'[h].left = {}
<1> DEFINE J == [at |-> at, embed |-> e, left |-> {}]
<1>1. J \in Message /\ J.at = at /\ J.embed = e /\ J.left = {}
  BY DEF Message
<1>2. messages' = [messages EXCEPT ![h] = J]
  BY DEF AwaitsOn
<1> HIDE DEF J
<1> QED BY <1>1, <1>2

\* What Served leaves of a message, its own and the others.
LEMMA ServedFacts ==
    ASSUME messages \in [Editors -> Message], NEW h \in Editors, Served(h)
    PROVE  /\ messages' \in [Editors -> Message] /\ \A g \in Editors : g # h => messages'[g] = messages[g]
           /\ messages'[h] = NoMessage /\ messages'[h].at = "none" /\ messages'[h].left = {}
<1>1. NoMessage \in Message /\ NoMessage.at = "none" /\ NoMessage.left = {}
  BY DEF NoMessage, Message
<1>2. messages' = [messages EXCEPT ![h] = NoMessage]
  BY DEF Served
<1> QED BY <1>1, <1>2

\* An embed is created, changed or deleted.
LEMMA EmbedWrite ==
    ASSUME RulesInv, NEW h \in Editors, NEW e \in EmbedIds, NEW o \in Origins \cup {NoEmbed},
           messages[h] = NoMessage, PutEmbed(h, e, o), NEW at \in OnEmbeds, AwaitsOn(h, at, e, {}),
           \/ at = "creating" /\ e \notin made /\ o # NoEmbed
           \/ at = "updating" /\ embeds.cache[e] # NoEmbed /\ o # NoEmbed
           \/ at = "embed" /\ e \in made /\ o = NoEmbed,
           made' = IF at = "creating" THEN made \cup {e} ELSE made,
           UNCHANGED <<access, cut>>,
           counted' \in [grants : Nat, tunnels : Nat, edits : Nat, mishaps : Nat],
           counted'.grants = counted.grants
    PROVE  RulesInv'
<1>1. /\ embeds \in Collections(EmbedMaps, Editors) /\ Single(embeds, Editors) /\ EmbedShape
      /\ access \in Collections(RuleLists, Editors)
      /\ messages \in [Editors -> Message] /\ made \subseteq EmbedIds /\ AwaitFit(h)
  BY DEF RulesInv, EmbedShape
<1>2. /\ messages' \in [Editors -> Message] /\ \A g \in Editors : g # h => messages'[g] = messages[g]
      /\ messages'[h].at = at /\ messages'[h].embed = e /\ messages'[h].left = {}
  BY <1>1, AwaitFacts
<1>3. messages[h].at = "none" /\ h \notin Waiting(embeds) /\ h \notin Waiting(access)
  BY <1>1 DEF AwaitFit, NoMessage, OnEmbeds, OnRules
<1> DEFINE C == [embeds.cache EXCEPT ![e] = o]
<1>4. C \in EmbedMaps /\ C[e] = o /\ (\A f \in EmbedIds : f # e => C[f] = embeds.cache[f])
  <2>1. embeds.cache \in EmbedMaps
    BY <1>1, VersionFacts
  <2> QED BY <2>1 DEF EmbedMaps
<1>5. embeds' = Update(embeds, h, C)
  BY DEF PutEmbed
<1> HIDE DEF C
<1>6. /\ embeds' \in Collections(EmbedMaps, Editors) /\ embeds'.cache = C
      /\ Waiting(embeds') = Waiting(embeds) \cup {h} /\ Single(embeds', Editors)
  BY <1>1, <1>3, <1>4, <1>5, UpdateFacts
<1>7. EmbedShape'
  <2>1. AwaitFit(h)'
    BY <1>2, <1>3, <1>6 DEF AwaitFit, OnEmbeds, OnRules
  <2>2. counted.grants \in Nat /\ Single(access, Editors) /\ Everywhere(access, Numbered(counted.grants)) /\ cut \subseteq EmbedIds
    BY <1>1 DEF EmbedShape
  <2>3. made' \subseteq EmbedIds
    BY <1>1
  <2> QED BY <1>1, <1>2, <1>6, <2>1, <2>2, <2>3, EmbedShapeStep
<1>8. HomeFit'
  <2> SUFFICES ASSUME NEW f \in EmbedIds, f \notin cut
               PROVE  Backed(embeds', Offers(f), Doing({"creating"}, f)')
    BY DEF HomeFit
  <2>1. Backed(embeds, Offers(f), Doing({"creating"}, f))
    BY DEF RulesInv, HomeFit
  <2>2. \A g \in Doing({"creating"}, f) : g \in Doing({"creating"}, f)'
    BY <1>2, <1>3 DEF Doing
  <2>3. C \in Offers(f) /\ embeds.cache \notin Offers(f) => h \in Doing({"creating"}, f)'
    BY <1>1, <1>2, <1>4, VersionFacts DEF Doing, Offers
  <2> QED BY <1>1, <1>3, <1>4, <1>5, <2>1, <2>2, <2>3, BackedUpdate
<1>9. GoneFit'
  <2> SUFFICES ASSUME NEW r \in Entered, r.urlEmbedId \notin cut
               PROVE  Backed(access, Lacks(r), Doing({"unlinking", "rules"}, r.urlEmbedId)')
    BY DEF GoneFit
  <2>1. Backed(access, Lacks(r), Doing({"unlinking", "rules"}, r.urlEmbedId))
    BY DEF RulesInv, GoneFit
  <2>2. \A g \in Doing({"unlinking", "rules"}, r.urlEmbedId) : g \in Doing({"unlinking", "rules"}, r.urlEmbedId)'
    BY <1>2, <1>3 DEF Doing
  <2> QED BY <1>1, <2>1, <2>2, BackedShift
<1>10. ASSUME NEW g \in Editors PROVE DeletionFit(g)'
  <2>1. DeletionFit(g)
    BY DEF RulesInv
  <2>2. messages[g].at # "none" => messages[g].embed \in EmbedIds
    BY <1>1 DEF EmbedShape, AwaitFit
  <2>3. CASE g = h
    BY <1>2, <1>4, <1>6, <2>3 DEF DeletionFit, OnEmbeds
  <2>4. CASE g # h
    BY <1>2, <1>4, <1>6, <2>1, <2>2, <2>4 DEF DeletionFit
  <2> QED BY <2>3, <2>4
<1>11. NoOrphanRule'
  <2> SUFFICES ASSUME NEW k \in DOMAIN access.cache, NEW f, f = access.cache[k].urlEmbedId
               PROVE  \/ embeds'.cache[f] # NoEmbed \/ f \in cut
                      \/ \E g \in Editors : messages'[g].embed = f /\ messages'[g].at \in {"embed", "rules"}
    BY DEF NoOrphanRule
  <2>1. f \in EmbedIds
    BY <1>1, VersionFacts, RuleFacts
  <2>2. \/ embeds.cache[f] # NoEmbed \/ f \in cut
        \/ \E g \in Editors : messages[g].embed = f /\ messages[g].at \in {"embed", "rules"}
    BY DEF RulesInv, NoOrphanRule
  <2>3. CASE embeds.cache[f] # NoEmbed
    BY <1>2, <1>4, <1>6, <2>1, <2>3
  <2>4. ASSUME NEW g \in Editors, messages[g].embed = f, messages[g].at \in {"embed", "rules"}
        PROVE  messages'[g].embed = f /\ messages'[g].at \in {"embed", "rules"}
    BY <1>2, <1>3, <2>4
  <2> QED BY <2>2, <2>3, <2>4
<1> QED BY <1>7, <1>8, <1>9, <1>10, <1>11 DEF RulesInv

\* A write of the embeds settles.
LEMMA EmbedsSettle ==
    ASSUME RulesInv, NEW h \in Editors, Settles(embeds, h), Served(h), UNCHANGED <<access, made>>,
           \/ embeds' = Landed(embeds) /\ messages[h].at \in {"creating", "updating"} /\ cut' = cut
           \/ embeds' = Rejected(embeds) /\ cut' = cut \cup CutShort(h),
           counted' \in [grants : Nat, tunnels : Nat, edits : Nat, mishaps : Nat],
           counted'.grants = counted.grants
    PROVE  RulesInv'
<1>1. /\ embeds \in Collections(EmbedMaps, Editors) /\ Single(embeds, Editors) /\ EmbedShape
      /\ access \in Collections(RuleLists, Editors)
      /\ messages \in [Editors -> Message] /\ made \subseteq EmbedIds /\ cut \subseteq EmbedIds /\ AwaitFit(h)
  BY DEF RulesInv, EmbedShape
<1>2. /\ messages' \in [Editors -> Message] /\ \A g \in Editors : g # h => messages'[g] = messages[g]
      /\ messages'[h] = NoMessage /\ messages'[h].at = "none" /\ messages'[h].left = {}
  BY <1>1, ServedFacts
<1>3. /\ embeds' \in Collections(EmbedMaps, Editors) /\ embeds'.cache = embeds.cache
      /\ Single(embeds', Editors) /\ h \in Waiting(embeds) /\ h \notin Waiting(embeds')
      /\ \A g \in Editors : g # h => (g \in Waiting(embeds') <=> g \in Waiting(embeds))
  <2>1. embeds.writes # <<>> /\ Head(embeds.writes).by = h
    BY DEF Settles
  <2>2. CASE embeds' = Landed(embeds)
    BY <1>1, <2>1, <2>2, LandedFacts
  <2>3. CASE embeds' = Rejected(embeds)
    BY <1>1, <2>1, <2>3, RejectedFacts
  <2> QED BY <2>2, <2>3
<1>4. messages[h].at \in OnEmbeds /\ h \notin Waiting(access)
  BY <1>1, <1>3 DEF AwaitFit, OnEmbeds, OnRules
<1>5. cut' \subseteq EmbedIds /\ cut \subseteq cut'
  BY <1>1, <1>4 DEF CutShort, AwaitFit, OnEmbeds
<1>6. EmbedShape'
  <2>1. AwaitFit(h)'
    BY <1>2, <1>3, <1>4 DEF AwaitFit, OnEmbeds, OnRules
  <2>2. counted.grants \in Nat /\ Single(access, Editors) /\ Everywhere(access, Numbered(counted.grants))
    BY <1>1 DEF EmbedShape
  <2> QED BY <1>1, <1>2, <1>3, <1>5, <2>1, <2>2, EmbedShapeStep
<1>7. HomeFit'
  <2> SUFFICES ASSUME NEW f \in EmbedIds, f \notin cut'
               PROVE  Backed(embeds', Offers(f), Doing({"creating"}, f)')
    BY DEF HomeFit
  <2>1. Backed(embeds, Offers(f), Doing({"creating"}, f))
    BY <1>5 DEF RulesInv, HomeFit
  <2>2. ASSUME NEW g \in Doing({"creating"}, f), g # h PROVE g \in Doing({"creating"}, f)'
    BY <1>2, <2>2 DEF Doing
  <2>3. embeds.writes # <<>> /\ Head(embeds.writes).by = h
    BY DEF Settles
  <2>4. CASE embeds' = Landed(embeds)
    BY <1>1, <2>1, <2>2, <2>3, <2>4, BackedShift
  <2>5. CASE embeds' = Rejected(embeds) /\ cut' = cut \cup CutShort(h)
    <3>1. h \notin Doing({"creating"}, f)
      BY <2>5 DEF Doing, CutShort
    <3> QED BY <1>1, <2>1, <2>2, <2>3, <2>5, <3>1, BackedShift
  <2> QED BY <2>4, <2>5
<1>8. GoneFit'
  <2> SUFFICES ASSUME NEW r \in Entered, r.urlEmbedId \notin cut'
               PROVE  Backed(access, Lacks(r), Doing({"unlinking", "rules"}, r.urlEmbedId)')
    BY DEF GoneFit
  <2>1. Backed(access, Lacks(r), Doing({"unlinking", "rules"}, r.urlEmbedId))
    BY <1>5 DEF RulesInv, GoneFit
  <2>2. \A g \in Doing({"unlinking", "rules"}, r.urlEmbedId) : g \in Doing({"unlinking", "rules"}, r.urlEmbedId)'
    BY <1>2, <1>4 DEF Doing, OnEmbeds
  <2> QED BY <1>1, <2>1, <2>2, BackedShift
<1>9. ASSUME NEW g \in Editors PROVE DeletionFit(g)'
  <2>1. DeletionFit(g)
    BY DEF RulesInv
  <2>2. CASE g = h
    BY <1>2, <2>2 DEF DeletionFit
  <2>3. CASE g # h
    BY <1>2, <1>3, <2>1, <2>3 DEF DeletionFit
  <2> QED BY <2>2, <2>3
<1>10. NoOrphanRule'
  <2> SUFFICES ASSUME NEW k \in DOMAIN access.cache, NEW f, f = access.cache[k].urlEmbedId
               PROVE  \/ embeds'.cache[f] # NoEmbed \/ f \in cut'
                      \/ \E g \in Editors : messages'[g].embed = f /\ messages'[g].at \in {"embed", "rules"}
    BY DEF NoOrphanRule
  <2>1. \/ embeds.cache[f] # NoEmbed \/ f \in cut
        \/ \E g \in Editors : messages[g].embed = f /\ messages[g].at \in {"embed", "rules"}
    BY DEF RulesInv, NoOrphanRule
  <2>2. ASSUME NEW g \in Editors, messages[g].embed = f, messages[g].at \in {"embed", "rules"}
        PROVE  f \in cut' \/ (messages'[g].embed = f /\ messages'[g].at \in {"embed", "rules"})
    BY <1>2, <2>2 DEF CutShort
  <2> QED BY <1>3, <1>5, <2>1, <2>2
<1> QED BY <1>6, <1>7, <1>8, <1>9, <1>10 DEF RulesInv

\* A write of the rules settles, the last of its message.
LEMMA AccessSettles ==
    ASSUME RulesInv, NEW h \in Editors, Settles(access, h), Served(h), UNCHANGED <<embeds, made>>,
           \/ access' = Landed(access) /\ messages[h].at \in {"granting", "unlinking"} /\ cut' = cut
           \/ access' = Rejected(access) /\ cut' = cut \cup CutShort(h),
           counted' \in [grants : Nat, tunnels : Nat, edits : Nat, mishaps : Nat],
           counted'.grants = counted.grants
    PROVE  RulesInv'
<1>1. /\ embeds \in Collections(EmbedMaps, Editors) /\ Single(access, Editors) /\ EmbedShape
      /\ access \in Collections(RuleLists, Editors) /\ Everywhere(access, Numbered(counted.grants))
      /\ messages \in [Editors -> Message] /\ made \subseteq EmbedIds /\ cut \subseteq EmbedIds /\ AwaitFit(h)
  BY DEF RulesInv, EmbedShape
<1>2. /\ messages' \in [Editors -> Message] /\ \A g \in Editors : g # h => messages'[g] = messages[g]
      /\ messages'[h] = NoMessage /\ messages'[h].at = "none" /\ messages'[h].left = {}
  BY <1>1, ServedFacts
<1>3. /\ access' \in Collections(RuleLists, Editors) /\ access'.cache = access.cache
      /\ Single(access', Editors) /\ h \in Waiting(access) /\ h \notin Waiting(access')
      /\ Everywhere(access', Numbered(counted.grants))
      /\ \A g \in Editors : g # h => (g \in Waiting(access') <=> g \in Waiting(access))
  <2>1. access.writes # <<>> /\ Head(access.writes).by = h
    BY DEF Settles
  <2>2. CASE access' = Landed(access)
    BY <1>1, <2>1, <2>2, LandedFacts
  <2>3. CASE access' = Rejected(access)
    BY <1>1, <2>1, <2>3, RejectedFacts
  <2> QED BY <2>2, <2>3
<1>4. messages[h].at \in OnRules /\ h \notin Waiting(embeds)
  BY <1>1, <1>3 DEF AwaitFit, OnEmbeds, OnRules
<1>5. cut' \subseteq EmbedIds /\ cut \subseteq cut'
  BY <1>1, <1>4 DEF CutShort, AwaitFit, OnRules
<1>6. EmbedShape'
  <2>1. AwaitFit(h)'
    BY <1>2, <1>3, <1>4 DEF AwaitFit, OnEmbeds, OnRules
  <2>2. counted.grants \in Nat /\ Single(embeds, Editors)
    BY <1>1 DEF EmbedShape
  <2> QED BY <1>1, <1>2, <1>3, <1>5, <2>1, <2>2, EmbedShapeStep
<1>7. HomeFit'
  <2> SUFFICES ASSUME NEW f \in EmbedIds, f \notin cut'
               PROVE  Backed(embeds, Offers(f), Doing({"creating"}, f)')
    BY DEF HomeFit
  <2>1. Backed(embeds, Offers(f), Doing({"creating"}, f))
    BY <1>5 DEF RulesInv, HomeFit
  <2>2. \A g \in Doing({"creating"}, f) : g \in Doing({"creating"}, f)'
    BY <1>2, <1>4 DEF Doing, OnRules
  <2> QED BY <1>1, <2>1, <2>2, BackedShift
<1>8. GoneFit'
  <2> SUFFICES ASSUME NEW r \in Entered, r.urlEmbedId \notin cut'
               PROVE  Backed(access', Lacks(r), Doing({"unlinking", "rules"}, r.urlEmbedId)')
    BY DEF GoneFit
  <2>1. Backed(access, Lacks(r), Doing({"unlinking", "rules"}, r.urlEmbedId))
    BY <1>5 DEF RulesInv, GoneFit
  <2>2. ASSUME NEW g \in Doing({"unlinking", "rules"}, r.urlEmbedId), g # h
        PROVE  g \in Doing({"unlinking", "rules"}, r.urlEmbedId)'
    BY <1>2, <2>2 DEF Doing
  <2>3. access.writes # <<>> /\ Head(access.writes).by = h
    BY DEF Settles
  <2>4. CASE access' = Landed(access)
    BY <1>1, <2>1, <2>2, <2>3, <2>4, BackedShift
  <2>5. CASE access' = Rejected(access) /\ cut' = cut \cup CutShort(h)
    <3>1. h \notin Doing({"unlinking", "rules"}, r.urlEmbedId)
      BY <2>5 DEF Doing, CutShort
    <3> QED BY <1>1, <2>1, <2>2, <2>3, <2>5, <3>1, BackedShift
  <2> QED BY <2>4, <2>5
<1>9. ASSUME NEW g \in Editors PROVE DeletionFit(g)'
  <2>1. DeletionFit(g)
    BY DEF RulesInv
  <2>2. CASE g = h
    BY <1>2, <2>2 DEF DeletionFit
  <2>3. CASE g # h
    BY <1>2, <1>3, <2>1, <2>3 DEF DeletionFit
  <2> QED BY <2>2, <2>3
<1>10. NoOrphanRule'
  <2> SUFFICES ASSUME NEW k \in DOMAIN access.cache, NEW f, f = access.cache[k].urlEmbedId
               PROVE  \/ embeds.cache[f] # NoEmbed \/ f \in cut'
                      \/ \E g \in Editors : messages'[g].embed = f /\ messages'[g].at \in {"embed", "rules"}
    BY <1>3 DEF NoOrphanRule
  <2>1. \/ embeds.cache[f] # NoEmbed \/ f \in cut
        \/ \E g \in Editors : messages[g].embed = f /\ messages[g].at \in {"embed", "rules"}
    BY DEF RulesInv, NoOrphanRule
  <2>2. ASSUME NEW g \in Editors, messages[g].embed = f, messages[g].at \in {"embed", "rules"}
        PROVE  f \in cut' \/ (messages'[g].embed = f /\ messages'[g].at \in {"embed", "rules"})
    BY <1>2, <2>2 DEF CutShort
  <2> QED BY <1>5, <2>1, <2>2
<1> QED BY <1>6, <1>7, <1>8, <1>9, <1>10 DEF RulesInv

\* The loop of delete() goes on, or ends: after a write of the embeds, after
\* one of the rules, or at once.
LEMMA RulesGoOn ==
    ASSUME RulesInv, NEW h \in Editors, NEW e \in made, embeds.cache[e] = NoEmbed,
           NEW store, NEW todo, DeleteNextRule(h, e, todo, store),
           \/ /\ messages[h] = NoMessage /\ UNCHANGED embeds
              /\ store = access /\ todo = RulesOf(e)
           \/ /\ messages[h].at = "embed" /\ messages[h].embed = e
              /\ Settles(embeds, h) /\ embeds' = Landed(embeds)
              /\ store = access /\ todo = RulesOf(e)
           \/ /\ messages[h].at = "rules" /\ messages[h].embed = e
              /\ UNCHANGED embeds
              /\ Settles(access, h) /\ store = Landed(access) /\ todo = messages[h].left,
           UNCHANGED <<made, cut>>,
           counted' \in [grants : Nat, tunnels : Nat, edits : Nat, mishaps : Nat],
           counted'.grants = counted.grants
    PROVE  RulesInv'
<1> DEFINE n == counted.grants
<1>1. /\ embeds \in Collections(EmbedMaps, Editors) /\ Single(embeds, Editors) /\ EmbedShape
      /\ access \in Collections(RuleLists, Editors) /\ Everywhere(access, Numbered(n)) /\ Single(access, Editors)
      /\ messages \in [Editors -> Message] /\ made \subseteq EmbedIds /\ cut \subseteq EmbedIds /\ AwaitFit(h)
      /\ n \in Nat /\ e \in EmbedIds
  BY DEF RulesInv, EmbedShape
<1>2. messages[h].at \in {"none", "embed", "rules"}
  BY DEF NoMessage
<1>3. /\ embeds' \in Collections(EmbedMaps, Editors) /\ embeds'.cache = embeds.cache
      /\ Single(embeds', Editors) /\ h \notin Waiting(embeds')
      /\ \A g \in Editors : g # h => (g \in Waiting(embeds') <=> g \in Waiting(embeds))
  <2>1. CASE UNCHANGED embeds /\ messages[h].at \in {"none", "rules"}
    <3>1. h \notin Waiting(embeds)
      BY <1>1, <2>1 DEF AwaitFit, OnEmbeds
    <3> QED BY <1>1, <2>1, <3>1
  <2>2. CASE Settles(embeds, h) /\ embeds' = Landed(embeds)
    BY <1>1, <2>2, LandedFacts DEF Settles
  <2> QED BY <2>1, <2>2 DEF NoMessage
<1>4. /\ store \in Collections(RuleLists, Editors) /\ store.cache = access.cache
      /\ Everywhere(store, Numbered(n)) /\ Single(store, Editors) /\ h \notin Waiting(store)
      /\ \A g \in Editors : g # h => (g \in Waiting(store) <=> g \in Waiting(access))
  <2>1. CASE store = access /\ messages[h].at \in {"none", "embed"}
    <3>1. h \notin Waiting(access)
      BY <1>1, <2>1 DEF AwaitFit, OnRules
    <3> QED BY <1>1, <2>1, <3>1
  <2>2. CASE Settles(access, h) /\ store = Landed(access)
    BY <1>1, <2>2, LandedFacts DEF Settles
  <2> QED BY <2>1, <2>2 DEF NoMessage
<1>5. access.cache \in Numbered(n) /\ access.cache \in RuleLists
      /\ \A k \in DOMAIN access.cache : access.cache[k].id \in 1..n
  <2>1. access.cache \in Numbered(n) /\ access.cache \in RuleLists
    BY <1>1, VersionFacts
  <2>2. \A k \in DOMAIN access.cache : access.cache[k].id \in Nat \ {0} /\ access.cache[k].id <= n
    BY <2>1, RuleFacts DEF Numbered
  <2> QED BY <1>1, <2>1, <2>2
<1>6. /\ todo \in SUBSET (1..n)
      /\ \A k \in DOMAIN store.cache : store.cache[k].urlEmbedId = e <=> store.cache[k].id \in todo
  <2>1. CASE todo = RulesOf(e)
    <3>1. todo \in SUBSET (1..n)
      BY <1>5, <2>1 DEF RulesOf
    <3>2. \A k, l \in DOMAIN access.cache : access.cache[k].id = access.cache[l].id => k = l
      BY <1>5 DEF Numbered
    <3>3. \A k \in DOMAIN access.cache : access.cache[k].urlEmbedId = e <=> access.cache[k].id \in todo
      BY <2>1, <3>2 DEF RulesOf
    <3> QED BY <1>4, <3>1, <3>3
  <2>2. CASE messages[h].at = "rules" /\ messages[h].embed = e /\ todo = messages[h].left
    <3>1. DeletionFit(h)
      BY DEF RulesInv
    <3> QED BY <1>1, <1>4, <2>2, <3>1 DEF DeletionFit, AwaitFit
  <2> QED BY <2>1, <2>2
<1>7. /\ access' \in Collections(RuleLists, Editors) /\ Everywhere(access', Numbered(n))
      /\ Single(access', Editors)
      /\ \A g \in Editors : g # h => (g \in Waiting(access') <=> g \in Waiting(store))
      /\ \A k \in DOMAIN access'.cache : \E l \in DOMAIN store.cache : access'.cache[k] = store.cache[l]
      /\ messages' \in [Editors -> Message] /\ \A g \in Editors : g # h => messages'[g] = messages[g]
      /\ \/ /\ messages'[h] = NoMessage /\ h \notin Waiting(access') /\ access' = store
            /\ \A k \in DOMAIN access'.cache : access'.cache[k].urlEmbedId # e
         \/ /\ messages'[h].at = "rules" /\ messages'[h].embed = e /\ h \in Waiting(access')
            /\ messages'[h].left \subseteq 1..n
            /\ \A k \in DOMAIN access'.cache :
                  access'.cache[k].urlEmbedId = e <=> access'.cache[k].id \in messages'[h].left
            /\ RestStays(store, access', e, h)
  BY <1>1, <1>4, <1>6, NextRule
<1> HIDE DEF n
<1>8. messages'[h].at \in {"none", "rules"}
  BY <1>7 DEF NoMessage
<1>9. EmbedShape'
  <2>1. AwaitFit(h)'
    BY <1>1, <1>3, <1>7 DEF AwaitFit, OnEmbeds, OnRules, NoMessage, n
  <2>2. \A g \in Editors : g # h => /\ messages'[g] = messages[g]
                                    /\ g \in Waiting(embeds') <=> g \in Waiting(embeds)
                                    /\ g \in Waiting(access') <=> g \in Waiting(access)
    BY <1>3, <1>4, <1>7
  <2>3. Everywhere(access', Numbered(counted'.grants)) /\ counted.grants <= counted'.grants
    BY <1>1, <1>7 DEF n
  <2> QED BY <1>1, <1>3, <1>7, <2>1, <2>2, <2>3, EmbedShapeStep
<1>10. HomeFit'
  <2> SUFFICES ASSUME NEW f \in EmbedIds, f \notin cut
               PROVE  Backed(embeds', Offers(f), Doing({"creating"}, f)')
    BY DEF HomeFit
  <2>1. Backed(embeds, Offers(f), Doing({"creating"}, f))
    BY DEF RulesInv, HomeFit
  <2>2. \A g \in Doing({"creating"}, f) : g \in Doing({"creating"}, f)'
    BY <1>2, <1>7 DEF Doing
  <2>3. embeds' = embeds \/ (embeds.writes # <<>> /\ embeds' = Landed(embeds))
    BY DEF Settles
  <2> QED BY <1>1, <2>1, <2>2, <2>3, BackedShift
<1>11. GoneFit'
  <2> SUFFICES ASSUME NEW r \in Entered, r.urlEmbedId \notin cut
               PROVE  Backed(access', Lacks(r), Doing({"unlinking", "rules"}, r.urlEmbedId)')
    BY DEF GoneFit
  <2> DEFINE W  == Doing({"unlinking", "rules"}, r.urlEmbedId)
             W2 == Doing({"unlinking", "rules"}, r.urlEmbedId)'
  <2>1. Backed(access, Lacks(r), W)
    BY DEF RulesInv, GoneFit
  <2>2. \A g \in W : g \in W \ {h} \/ g = h
    OBVIOUS
  <2>3. Backed(store, Lacks(r), W \ {h})
    <3>1. CASE store = access /\ messages[h].at \in {"none", "embed"}
      <4>1. h \notin W
        BY <3>1 DEF Doing
      <4> HIDE DEF W
      <4> QED BY <1>1, <2>1, <2>2, <3>1, <4>1, BackedShift
    <3>2. CASE Settles(access, h) /\ store = Landed(access)
      <4>1. access.writes # <<>> /\ Head(access.writes).by = h
        BY <3>2 DEF Settles
      <4> HIDE DEF W
      <4> QED BY <1>1, <2>1, <2>2, <3>2, <4>1, BackedShift
    <3> QED BY <3>1, <3>2 DEF NoMessage
  <2>4. \A g \in W \ {h} : g \in W2
    BY <1>7 DEF Doing
  <2>5. CASE access' = store
    <3> HIDE DEF W, W2
    <3>1. Backed(store, Lacks(r), W2)
      BY <1>4, <2>3, <2>4, BackedShift
    <3> QED BY <2>5, <3>1 DEF W2
  <2>6. CASE messages'[h].at = "rules" /\ messages'[h].embed = e /\ RestStays(store, access', e, h)
    <3>1. r.urlEmbedId = e => h \in W2
      BY <1>7, <2>6 DEF Doing
    <3> HIDE DEF W, W2
    <3>2. Backed(access', Lacks(r), W2)
      BY <2>3, <2>4, <2>6, <3>1 DEF RestStays
    <3> QED BY <3>2 DEF W2
  <2> QED BY <1>7, <2>5, <2>6
<1>12. ASSUME NEW g \in Editors PROVE DeletionFit(g)'
  <2>1. DeletionFit(g)
    BY DEF RulesInv
  <2>2. CASE g = h
    BY <1>1, <1>3, <1>7, <2>2 DEF DeletionFit, NoMessage
  <2>3. CASE g # h
    <3>1. messages'[g] = messages[g] /\ embeds'.cache = embeds.cache
      BY <1>3, <1>7, <2>3
    <3>2. \A k \in DOMAIN access'.cache : \E l \in DOMAIN access.cache : access'.cache[k] = access.cache[l]
      BY <1>4, <1>7
    <3> QED BY <2>1, <3>1, <3>2 DEF DeletionFit
  <2> QED BY <2>2, <2>3
<1>13. NoOrphanRule'
  <2> SUFFICES ASSUME NEW k \in DOMAIN access'.cache, NEW f, f = access'.cache[k].urlEmbedId
               PROVE  \/ embeds'.cache[f] # NoEmbed \/ f \in cut
                      \/ \E g \in Editors : messages'[g].embed = f /\ messages'[g].at \in {"embed", "rules"}
    BY DEF NoOrphanRule
  <2>1. PICK l \in DOMAIN access.cache : access'.cache[k] = access.cache[l]
    BY <1>4, <1>7
  <2>2. \/ embeds.cache[f] # NoEmbed \/ f \in cut
        \/ \E g \in Editors : messages[g].embed = f /\ messages[g].at \in {"embed", "rules"}
    BY <2>1 DEF RulesInv, NoOrphanRule
  <2>3. ASSUME NEW g \in Editors, messages[g].embed = f, messages[g].at \in {"embed", "rules"}
        PROVE  messages'[g].embed = f /\ messages'[g].at \in {"embed", "rules"}
    <3>1. CASE g # h
      BY <1>7, <2>3, <3>1
    <3>2. CASE g = h
      <4>1. f = e
        BY <2>3, <3>2 DEF NoMessage
      <4> QED BY <1>7, <3>2, <4>1
    <3> QED BY <3>1, <3>2
  <2> QED BY <1>3, <2>2, <2>3
<1> QED BY <1>9, <1>10, <1>11, <1>12, <1>13 DEF RulesInv

\* A rule is created: for an embed that is there.
LEMMA RuleAdded ==
    ASSUME RulesInv, NEW h \in Editors, NEW g \in Grants, CreateAccessRule(h, g),
           counted' \in [grants : Nat, tunnels : Nat, edits : Nat, mishaps : Nat],
           counted'.grants = counted.grants + 1
    PROVE  RulesInv'
<1> DEFINE n == counted.grants
           r == Rule(n + 1, g)
           A == Append(access.cache, r)
<1>1. /\ embeds \in Collections(EmbedMaps, Editors) /\ Single(embeds, Editors) /\ EmbedShape
      /\ access \in Collections(RuleLists, Editors) /\ Everywhere(access, Numbered(n)) /\ Single(access, Editors)
      /\ messages \in [Editors -> Message] /\ made \subseteq EmbedIds /\ cut \subseteq EmbedIds /\ AwaitFit(h)
      /\ n \in Nat
  BY DEF RulesInv, EmbedShape
<1>2. /\ messages[h] = NoMessage /\ ValidSingleOwner(g) /\ embeds.cache[g.urlEmbedId] # NoEmbed
      /\ access' = Update(access, h, A) /\ AwaitsOn(h, "granting", g.urlEmbedId, {})
      /\ UNCHANGED <<embeds, made, cut>>
  BY DEF CreateAccessRule
<1>3. r \in Entered /\ r.id = n + 1 /\ r.urlEmbedId = g.urlEmbedId /\ r.urlEmbedId \in EmbedIds
  BY <1>1, <1>2, EnteredFacts
<1> HIDE DEF r
<1>4. /\ messages' \in [Editors -> Message] /\ \A f \in Editors : f # h => messages'[f] = messages[f]
      /\ messages'[h].at = "granting" /\ messages'[h].embed = r.urlEmbedId /\ messages'[h].left = {}
  <2>1. "granting" \in OnEmbeds \cup OnRules
    BY DEF OnRules
  <2> QED BY <1>1, <1>2, <1>3, <2>1, AwaitFacts
<1>5. messages[h].at = "none" /\ h \notin Waiting(embeds) /\ h \notin Waiting(access)
  BY <1>1, <1>2 DEF AwaitFit, NoMessage, OnEmbeds, OnRules
<1>6. /\ access.cache \in Numbered(n) /\ access.cache \in Seq(Entered) /\ access.cache \in RuleLists
      /\ \A k \in DOMAIN access.cache : access.cache[k].id \in Nat /\ access.cache[k].id <= n
  <2>1. access.cache \in Numbered(n) /\ access.cache \in RuleLists
    BY <1>1, VersionFacts
  <2> QED BY <2>1, RuleFacts DEF Numbered, RuleLists
<1>7. /\ A \in Seq(Entered) /\ DOMAIN A = DOMAIN access.cache \cup {Len(access.cache) + 1}
      /\ A[Len(access.cache) + 1] = r /\ \A k \in DOMAIN access.cache : A[k] = access.cache[k]
      /\ Len(access.cache) + 1 \notin DOMAIN access.cache
  <2>1. /\ A \in Seq(Entered) /\ Len(A) = Len(access.cache) + 1
        /\ A[Len(access.cache) + 1] = r /\ \A k \in 1..Len(access.cache) : A[k] = access.cache[k]
    BY <1>3, <1>6, AppendProperties
  <2>2. DOMAIN A = 1..Len(A) /\ DOMAIN access.cache = 1..Len(access.cache) /\ Len(access.cache) \in Nat
    BY <1>6, <2>1
  <2> QED BY <2>1, <2>2
<1> HIDE DEF A
<1>8. A \in Numbered(n + 1) /\ A \in RuleLists
  <2>1. \A k \in DOMAIN A : A[k].id <= n + 1
    BY <1>1, <1>3, <1>6, <1>7
  <2>2. \A k, l \in DOMAIN A : A[k].id = A[l].id => k = l
    <3>1. \A k, l \in DOMAIN access.cache : access.cache[k].id = access.cache[l].id => k = l
      BY <1>6 DEF Numbered
    <3>2. \A k \in DOMAIN access.cache : A[k].id # n + 1
      BY <1>1, <1>6, <1>7
    <3> QED BY <1>3, <1>7, <3>1, <3>2
  <2> QED BY <1>7, <2>1, <2>2 DEF Numbered, RuleLists
<1>9. Everywhere(access, Numbered(n + 1))
  <2>1. Numbered(n) \subseteq Numbered(n + 1)
    <3> SUFFICES ASSUME NEW V \in Numbered(n) PROVE V \in Numbered(n + 1)
      OBVIOUS
    <3>1. V \in RuleLists /\ \A k \in DOMAIN V : V[k].id <= n
      BY DEF Numbered
    <3>2. \A k \in DOMAIN V : V[k].id <= n + 1
      BY <1>1, <3>1, RuleFacts
    <3> QED BY <3>2 DEF Numbered
  <2> QED BY <1>1, <2>1, VersionFacts
<1>10. /\ access' \in Collections(RuleLists, Editors) /\ access'.cache = A
       /\ Waiting(access') = Waiting(access) \cup {h} /\ Single(access', Editors)
       /\ Everywhere(access', Numbered(n + 1))
  BY <1>1, <1>2, <1>5, <1>8, <1>9, UpdateFacts
<1>11. EmbedShape'
  <2>1. AwaitFit(h)'
    BY <1>2, <1>3, <1>4, <1>5, <1>10 DEF AwaitFit, OnEmbeds, OnRules
  <2>2. counted.grants <= counted'.grants /\ Everywhere(access', Numbered(counted'.grants))
    BY <1>1, <1>10
  <2>3. \A f \in Editors : f # h => /\ messages'[f] = messages[f]
                                    /\ f \in Waiting(embeds') <=> f \in Waiting(embeds)
                                    /\ f \in Waiting(access') <=> f \in Waiting(access)
    BY <1>2, <1>4, <1>10
  <2> HIDE DEF n
  <2> QED BY <1>1, <1>2, <1>4, <1>10, <2>1, <2>2, <2>3, EmbedShapeStep
<1>12. HomeFit'
  <2> SUFFICES ASSUME NEW f \in EmbedIds, f \notin cut
               PROVE  Backed(embeds, Offers(f), Doing({"creating"}, f)')
    BY <1>2 DEF HomeFit
  <2>1. Backed(embeds, Offers(f), Doing({"creating"}, f))
    BY DEF RulesInv, HomeFit
  <2>2. \A b \in Doing({"creating"}, f) : b \in Doing({"creating"}, f)'
    BY <1>4, <1>5 DEF Doing
  <2> QED BY <1>1, <2>1, <2>2, BackedShift
<1>13. GoneFit'
  <2> SUFFICES ASSUME NEW q \in Entered, q.urlEmbedId \notin cut
               PROVE  Backed(access', Lacks(q), Doing({"unlinking", "rules"}, q.urlEmbedId)')
    BY <1>2 DEF GoneFit
  <2>1. Backed(access, Lacks(q), Doing({"unlinking", "rules"}, q.urlEmbedId))
    BY DEF RulesInv, GoneFit
  <2>2. \A b \in Doing({"unlinking", "rules"}, q.urlEmbedId) : b \in Doing({"unlinking", "rules"}, q.urlEmbedId)'
    BY <1>4, <1>5 DEF Doing
  <2>3. A \in Lacks(q) => access.cache \in Lacks(q)
    BY <1>6, <1>7 DEF Lacks
  <2> QED BY <1>1, <1>2, <1>5, <1>8, <2>1, <2>2, <2>3, BackedUpdate
<1>14. ASSUME NEW b \in Editors PROVE DeletionFit(b)'
  <2>1. DeletionFit(b)
    BY DEF RulesInv
  <2>2. CASE b = h
    BY <1>4, <2>2 DEF DeletionFit
  <2>3. CASE b # h
    <3>1. messages'[b] = messages[b]
      BY <1>4, <2>3
    <3>2. messages[b].left \subseteq 1..n
      BY <1>1 DEF EmbedShape, AwaitFit
    <3>3. n + 1 \notin messages[b].left
      BY <1>1, <3>2
    <3> QED BY <1>2, <1>3, <1>7, <1>10, <2>1, <3>1, <3>3 DEF DeletionFit
  <2> QED BY <2>2, <2>3
<1>15. NoOrphanRule'
  <2> SUFFICES ASSUME NEW k \in DOMAIN access'.cache, NEW f, f = access'.cache[k].urlEmbedId
               PROVE  \/ embeds.cache[f] # NoEmbed \/ f \in cut
                      \/ \E b \in Editors : messages'[b].embed = f /\ messages'[b].at \in {"embed", "rules"}
    BY <1>2 DEF NoOrphanRule
  <2>1. CASE k \notin DOMAIN access.cache
    BY <1>2, <1>3, <1>7, <1>10, <2>1
  <2>2. CASE k \in DOMAIN access.cache
    <3>1. f = access.cache[k].urlEmbedId
      BY <1>7, <1>10, <2>2
    <3>2. \/ embeds.cache[f] # NoEmbed \/ f \in cut
          \/ \E b \in Editors : messages[b].embed = f /\ messages[b].at \in {"embed", "rules"}
      BY <2>2, <3>1 DEF RulesInv, NoOrphanRule
    <3> QED BY <1>4, <1>5, <3>2
  <2> QED BY <2>1, <2>2
<1> QED BY <1>11, <1>12, <1>13, <1>14, <1>15 DEF RulesInv

\* A rule is deleted by itself.
LEMMA RuleDeleted ==
    ASSUME RulesInv, NEW h \in Editors, NEW k \in DOMAIN access.cache, DeleteAccessRule(h, k)
    PROVE  RulesInv'
<1> DEFINE n == counted.grants
           e == access.cache[k].urlEmbedId
<1>1. /\ embeds \in Collections(EmbedMaps, Editors) /\ Single(embeds, Editors) /\ EmbedShape
      /\ access \in Collections(RuleLists, Editors) /\ Everywhere(access, Numbered(n)) /\ Single(access, Editors)
      /\ messages \in [Editors -> Message] /\ made \subseteq EmbedIds /\ cut \subseteq EmbedIds /\ AwaitFit(h)
      /\ n \in Nat /\ counted \in [grants : Nat, tunnels : Nat, edits : Nat, mishaps : Nat]
  BY DEF RulesInv, EmbedShape
<1>2. /\ messages[h] = NoMessage
      /\ access' = Update(access, h, RemoveAt(access.cache, k)) /\ AwaitsOn(h, "unlinking", e, {})
      /\ UNCHANGED <<embeds, made, cut, counted>>
  BY DEF DeleteAccessRule
<1>3. e \in EmbedIds
  BY <1>1, VersionFacts, RuleFacts
<1>4. /\ messages' \in [Editors -> Message] /\ \A f \in Editors : f # h => messages'[f] = messages[f]
      /\ messages'[h].at = "unlinking" /\ messages'[h].embed = e /\ messages'[h].left = {}
  <2>1. "unlinking" \in OnEmbeds \cup OnRules
    BY DEF OnRules
  <2> HIDE DEF e
  <2> QED BY <1>1, <1>2, <1>3, <2>1, AwaitFacts
<1>5. messages[h].at = "none" /\ h \notin Waiting(embeds) /\ h \notin Waiting(access)
  BY <1>1, <1>2 DEF AwaitFit, NoMessage, OnEmbeds, OnRules
<1>6. /\ access' \in Collections(RuleLists, Editors) /\ Everywhere(access', Numbered(n)) /\ Single(access', Editors)
      /\ Waiting(access') = Waiting(access) \cup {h}
      /\ \A l \in DOMAIN access'.cache :
            \E m \in DOMAIN access.cache : access'.cache[l] = access.cache[m] /\ access.cache[m].id # access.cache[k].id
      /\ RestStays(access, access', access.cache[k].urlEmbedId, h)
  <2>1. Ruled(access, n) /\ h \notin Waiting(access) /\ n \in Nat
    BY <1>1, <1>5 DEF Ruled
  <2>2. k \in DOMAIN access.cache /\ access' = Update(access, h, RemoveAt(access.cache, k))
    BY <1>2
  <2> HIDE DEF n, e
  <2>3. Shortened(access, access', n, h, k)
    BY <2>1, <2>2, RuleRemoved
  <2> QED BY <2>3 DEF Shortened, Ruled
<1> HIDE DEF n
<1>7. EmbedShape'
  <2>1. AwaitFit(h)'
    BY <1>2, <1>3, <1>4, <1>5, <1>6 DEF AwaitFit, OnEmbeds, OnRules
  <2>2. counted.grants <= counted'.grants /\ Everywhere(access', Numbered(counted'.grants))
        /\ counted' \in [grants : Nat, tunnels : Nat, edits : Nat, mishaps : Nat]
    BY <1>1, <1>2, <1>6 DEF n
  <2>3. \A f \in Editors : f # h => /\ messages'[f] = messages[f]
                                    /\ f \in Waiting(embeds') <=> f \in Waiting(embeds)
                                    /\ f \in Waiting(access') <=> f \in Waiting(access)
    BY <1>2, <1>4, <1>6
  <2> QED BY <1>1, <1>2, <1>4, <1>6, <2>1, <2>2, <2>3, EmbedShapeStep
<1>8. HomeFit'
  <2> SUFFICES ASSUME NEW f \in EmbedIds, f \notin cut
               PROVE  Backed(embeds, Offers(f), Doing({"creating"}, f)')
    BY <1>2 DEF HomeFit
  <2>1. Backed(embeds, Offers(f), Doing({"creating"}, f))
    BY DEF RulesInv, HomeFit
  <2>2. \A b \in Doing({"creating"}, f) : b \in Doing({"creating"}, f)'
    BY <1>4, <1>5 DEF Doing
  <2> QED BY <1>1, <2>1, <2>2, BackedShift
<1>9. GoneFit'
  <2> SUFFICES ASSUME NEW q \in Entered, q.urlEmbedId \notin cut
               PROVE  Backed(access', Lacks(q), Doing({"unlinking", "rules"}, q.urlEmbedId)')
    BY <1>2 DEF GoneFit
  <2>1. Backed(access, Lacks(q), Doing({"unlinking", "rules"}, q.urlEmbedId))
    BY DEF RulesInv, GoneFit
  <2>2. \A b \in Doing({"unlinking", "rules"}, q.urlEmbedId) : b \in Doing({"unlinking", "rules"}, q.urlEmbedId)'
    BY <1>4, <1>5 DEF Doing
  <2>3. q.urlEmbedId = access.cache[k].urlEmbedId => h \in Doing({"unlinking", "rules"}, q.urlEmbedId)'
    BY <1>4 DEF Doing
  <2> QED BY <1>6, <2>1, <2>2, <2>3 DEF RestStays
<1>10. ASSUME NEW b \in Editors PROVE DeletionFit(b)'
  <2>1. DeletionFit(b)
    BY DEF RulesInv
  <2>2. CASE b = h
    BY <1>4, <2>2 DEF DeletionFit
  <2>3. CASE b # h
    <3>1. messages'[b] = messages[b]
      BY <1>4, <2>3
    <3> HIDE DEF e
    <3> QED BY <1>2, <1>6, <2>1, <3>1 DEF DeletionFit
  <2> QED BY <2>2, <2>3
<1>11. NoOrphanRule'
  <2> SUFFICES ASSUME NEW l \in DOMAIN access'.cache, NEW f, f = access'.cache[l].urlEmbedId
               PROVE  \/ embeds.cache[f] # NoEmbed \/ f \in cut
                      \/ \E b \in Editors : messages'[b].embed = f /\ messages'[b].at \in {"embed", "rules"}
    BY <1>2 DEF NoOrphanRule
  <2>1. PICK m \in DOMAIN access.cache : access'.cache[l] = access.cache[m]
    BY <1>6
  <2>2. \/ embeds.cache[f] # NoEmbed \/ f \in cut
        \/ \E b \in Editors : messages[b].embed = f /\ messages[b].at \in {"embed", "rules"}
    BY <2>1 DEF RulesInv, NoOrphanRule
  <2> QED BY <1>4, <1>5, <2>2
<1> QED BY <1>7, <1>8, <1>9, <1>10, <1>11 DEF RulesInv

\* The adapter starts with what is saved: where no message was cut short, an
\* embed that was there is there, and a rule that was gone is gone.
LEMMA RulesReload ==
    ASSUME RulesInv, EmbedRestarts,
           counted' \in [grants : Nat, tunnels : Nat, edits : Nat, mishaps : Nat],
           counted'.grants = counted.grants
    PROVE  RulesInv'
<1> DEFINE n == counted.grants
           broken == UNION {CutShort(h) : h \in Editors}
<1>1. /\ embeds \in Collections(EmbedMaps, Editors) /\ EmbedShape
      /\ access \in Collections(RuleLists, Editors) /\ Everywhere(access, Numbered(n))
      /\ made \subseteq EmbedIds /\ cut \subseteq EmbedIds /\ n \in Nat
  BY DEF RulesInv, EmbedShape
<1>2. /\ embeds' = Reloaded(embeds) /\ access' = Reloaded(access) /\ cut' = cut \cup broken
      /\ messages' = [h \in Editors |-> NoMessage] /\ UNCHANGED made
  BY DEF EmbedRestarts
<1>3. /\ embeds' \in Collections(EmbedMaps, Editors) /\ embeds'.cache = embeds.disk
      /\ Waiting(embeds') = {} /\ Single(embeds', Editors)
  BY <1>1, <1>2, ReloadedFacts
<1>4. /\ access' \in Collections(RuleLists, Editors) /\ access'.cache = access.disk
      /\ Waiting(access') = {} /\ Single(access', Editors) /\ Everywhere(access', Numbered(n))
  BY <1>1, <1>2, ReloadedFacts
<1>5. broken \subseteq EmbedIds
  <2> SUFFICES ASSUME NEW h \in Editors PROVE CutShort(h) \subseteq EmbedIds
    OBVIOUS
  <2>1. messages[h].at # "none" => messages[h].embed \in EmbedIds
    BY <1>1 DEF EmbedShape, AwaitFit
  <2> QED BY <2>1 DEF CutShort
<1>6. EmbedShape'
  <2>1. messages' \in [Editors -> Message] /\ \A h \in Editors : messages'[h] = NoMessage
    BY <1>2 DEF Message, NoMessage
  <2>2. ASSUME NEW h \in Editors PROVE AwaitFit(h)'
    BY <1>3, <1>4, <2>1 DEF AwaitFit, NoMessage, OnEmbeds, OnRules
  <2>3. cut' \subseteq EmbedIds /\ made' \subseteq EmbedIds
    BY <1>1, <1>2, <1>5
  <2> QED BY <1>3, <1>4, <2>1, <2>2, <2>3 DEF EmbedShape
\* What is not cut short is in every version, or in none of the latest.
<1>7. \A S : embeds'.cache \in S => Everywhere(embeds', S)
  BY <1>1, <1>2, LoadedFacts, VersionFacts DEF Reloaded
<1>8. \A S : access'.cache \in S => Everywhere(access', S)
  BY <1>1, <1>2, LoadedFacts, VersionFacts DEF Reloaded
<1>9. HomeFit' /\ GoneFit'
  BY <1>7, <1>8 DEF HomeFit, GoneFit, Backed
<1>10. ASSUME NEW h \in Editors PROVE DeletionFit(h)'
  BY <1>2 DEF DeletionFit, NoMessage
<1>11. NoOrphanRule'
  <2> SUFFICES ASSUME NEW k \in DOMAIN access.disk, NEW f, f = access.disk[k].urlEmbedId, f \notin cut'
               PROVE  embeds.disk[f] # NoEmbed
    BY <1>3, <1>4 DEF NoOrphanRule
  <2>1. f \in EmbedIds /\ access.disk[k] \in Entered
    BY <1>1, VersionFacts, RuleFacts
  <2>2. f \notin cut /\ \A h \in Editors : f \notin CutShort(h)
    BY <1>2
  <2>3. Doing({"creating"}, f) = {} /\ Doing({"unlinking", "rules"}, f) = {}
    BY <2>2 DEF Doing, CutShort
  <2>4. access.disk \notin Lacks(access.disk[k])
    BY DEF Lacks
  <2>5. access.cache \notin Lacks(access.disk[k])
    <3>1. Backed(access, Lacks(access.disk[k]), {})
      BY <2>1, <2>2, <2>3 DEF RulesInv, GoneFit
    <3> QED BY <1>1, <2>4, <3>1, VersionFacts DEF Backed
  <2>6. PICK l \in DOMAIN access.cache : access.cache[l] = access.disk[k]
    BY <1>1, <2>5, VersionFacts DEF Lacks
  <2>7. \A h \in Editors : ~(messages[h].embed = f /\ messages[h].at \in {"embed", "rules"})
    BY <2>2 DEF CutShort
  <2>8. embeds.cache[f] # NoEmbed
    BY <2>2, <2>6, <2>7 DEF RulesInv, NoOrphanRule
  <2>9. embeds.cache \in Offers(f)
    BY <1>1, <2>8, VersionFacts DEF Offers
  <2>10. Backed(embeds, Offers(f), {})
    BY <2>1, <2>2, <2>3 DEF RulesInv, HomeFit
  <2>11. embeds.disk \in Offers(f)
    BY <1>1, <2>9, <2>10, VersionFacts DEF Backed
  <2> QED BY <2>11 DEF Offers
<1> QED BY <1>6, <1>9, <1>10, <1>11 DEF RulesInv

\* No embed, no rule, no deletion.
LEMMA RulesInit == EmbedInit => RulesInv
<1> SUFFICES ASSUME EmbedInit PROVE RulesInv
  OBVIOUS
<1>1. /\ embeds = Loaded([e \in EmbedIds |-> NoEmbed]) /\ access = Loaded(<<>>)
      /\ messages = [h \in Editors |-> NoMessage] /\ made = {} /\ cut = {}
      /\ counted = [grants |-> 0, tunnels |-> 0, edits |-> 0, mishaps |-> 0]
  BY DEF EmbedInit
<1>2. /\ embeds \in Collections(EmbedMaps, Editors) /\ embeds.cache = [e \in EmbedIds |-> NoEmbed]
      /\ Waiting(embeds) = {} /\ Single(embeds, Editors)
  <2>1. [e \in EmbedIds |-> NoEmbed] \in EmbedMaps
    BY DEF EmbedMaps
  <2> QED BY <1>1, <2>1, LoadedFacts
<1>3. /\ access \in Collections(RuleLists, Editors) /\ access.cache = <<>>
      /\ Waiting(access) = {} /\ Single(access, Editors) /\ Everywhere(access, Numbered(0))
      /\ \A r \in Entered : Everywhere(access, Lacks(r))
  <2>1. <<>> \in RuleLists /\ DOMAIN <<>> = {}
    BY DEF RuleLists
  <2>2. <<>> \in Numbered(0) /\ \A r \in Entered : <<>> \in Lacks(r)
    BY <2>1 DEF Numbered, Lacks
  <2> QED BY <1>1, <2>1, <2>2, LoadedFacts
<1>4. EmbedShape
  <2>1. messages \in [Editors -> Message] /\ \A h \in Editors : messages[h] = NoMessage
    BY <1>1 DEF Message, NoMessage
  <2>2. \A h \in Editors : AwaitFit(h)
    BY <1>2, <1>3, <2>1 DEF AwaitFit, NoMessage, OnEmbeds, OnRules
  <2>3. counted.grants = 0 /\ counted \in [grants : Nat, tunnels : Nat, edits : Nat, mishaps : Nat]
    BY <1>1
  <2> QED BY <1>1, <1>2, <1>3, <2>1, <2>2, <2>3 DEF EmbedShape
<1>5. HomeFit
  BY <1>2 DEF HomeFit, Backed, Offers
<1>6. GoneFit
  BY <1>3 DEF GoneFit, Backed
<1>7. \A h \in Editors : DeletionFit(h)
  BY <1>1 DEF DeletionFit, NoMessage
<1>8. NoOrphanRule
  BY <1>3 DEF NoOrphanRule
<1> QED BY <1>4, <1>5, <1>6, <1>7, <1>8 DEF RulesInv

\* What a bounded count does to the counts.
LEMMA CountFacts ==
    ASSUME counted \in [grants : Nat, tunnels : Nat, edits : Nat, mishaps : Nat],
           NEW what \in {"grants", "tunnels", "edits", "mishaps"}, NEW limit, Count(what, limit)
    PROVE  /\ counted' \in [grants : Nat, tunnels : Nat, edits : Nat, mishaps : Nat]
           /\ counted'.grants = IF what = "grants" THEN counted.grants + 1 ELSE counted.grants
<1>1. counted' = [counted EXCEPT ![what] = counted[what] + 1]
  BY DEF Count
<1>2. CASE what = "grants"
  BY <1>1, <1>2
<1>3. CASE what = "tunnels"
  BY <1>1, <1>3
<1>4. CASE what = "edits"
  BY <1>1, <1>4
<1>5. CASE what = "mishaps"
  BY <1>1, <1>5
<1> QED BY <1>2, <1>3, <1>4, <1>5

\* The invariant goes through every step of the embeds.
LEMMA RulesStep == RulesInv /\ [EmbedNext]_embedVars => RulesInv'
<1> SUFFICES ASSUME RulesInv, [EmbedNext]_embedVars PROVE RulesInv'
  OBVIOUS
<1>1. counted \in [grants : Nat, tunnels : Nat, edits : Nat, mishaps : Nat]
  BY DEF RulesInv, EmbedShape
<1>2. ASSUME UNCHANGED <<embeds, access, messages, made, cut>>, counted'.grants = counted.grants,
             counted' \in [grants : Nat, tunnels : Nat, edits : Nat, mishaps : Nat]
      PROVE  RulesInv'
  BY <1>2 DEF RulesInv, EmbedShape, AwaitFit, HomeFit, GoneFit, DeletionFit, NoOrphanRule, Doing
<1>3. ASSUME UNCHANGED <<embeds, access, messages, made, cut, counted>> PROVE RulesInv'
  BY <1>1, <1>2, <1>3
<1>4. ASSUME NEW h \in Editors, NEW e \in EmbedIds, NEW o \in Origins, CreateEmbed(h, e, o) PROVE RulesInv'
  <2>1. /\ messages[h] = NoMessage /\ e \notin made /\ Count("edits", MaxEmbedEdits) /\ PutEmbed(h, e, o)
        /\ AwaitsOn(h, "creating", e, {}) /\ made' = made \cup {e} /\ UNCHANGED <<access, cut>>
    BY <1>4 DEF CreateEmbed
  <2>2. o # NoEmbed /\ o \in Origins \cup {NoEmbed} /\ "creating" \in OnEmbeds
    BY EmbedAssumption DEF OnEmbeds
  <2>3. counted' \in [grants : Nat, tunnels : Nat, edits : Nat, mishaps : Nat] /\ counted'.grants = counted.grants
    BY <1>1, <2>1, CountFacts
  <2>4. made' = IF "creating" = "creating" THEN made \cup {e} ELSE made
    BY <2>1
  <2> QED BY <2>1, <2>2, <2>3, <2>4, EmbedWrite
<1>5. ASSUME NEW h \in Editors, NEW e \in EmbedIds, NEW o \in Origins, UpdateEmbed(h, e, o) PROVE RulesInv'
  <2>1. /\ messages[h] = NoMessage /\ embeds.cache[e] # NoEmbed /\ Count("edits", MaxEmbedEdits)
        /\ PutEmbed(h, e, o) /\ AwaitsOn(h, "updating", e, {}) /\ UNCHANGED <<access, cut, made>>
    BY <1>5 DEF UpdateEmbed
  <2>2. o # NoEmbed /\ o \in Origins \cup {NoEmbed} /\ "updating" \in OnEmbeds
    BY EmbedAssumption DEF OnEmbeds
  <2>3. counted' \in [grants : Nat, tunnels : Nat, edits : Nat, mishaps : Nat] /\ counted'.grants = counted.grants
    BY <1>1, <2>1, CountFacts
  <2>4. made' = IF "updating" = "creating" THEN made \cup {e} ELSE made
    BY <2>1
  <2> QED BY <2>1, <2>2, <2>3, <2>4, EmbedWrite
<1>6. ASSUME NEW h \in Editors, NEW g \in Grants, CreateAccessRule(h, g) PROVE RulesInv'
  <2>1. Count("grants", MaxGrants)
    BY <1>6 DEF CreateAccessRule
  <2>2. counted' \in [grants : Nat, tunnels : Nat, edits : Nat, mishaps : Nat] /\ counted'.grants = counted.grants + 1
    BY <1>1, <2>1, CountFacts
  <2> QED BY <1>6, <2>2, RuleAdded
<1>7. ASSUME NEW h \in Editors, NEW k \in DOMAIN access.cache, DeleteAccessRule(h, k) PROVE RulesInv'
  BY <1>7, RuleDeleted
<1>8. ASSUME NEW h \in Editors, NEW e \in EmbedIds, DeleteEmbed(h, e) PROVE RulesInv'
  <2>1. /\ messages[h] = NoMessage /\ e \in made /\ Count("edits", MaxEmbedEdits) /\ UNCHANGED <<made, cut>>
    BY <1>8 DEF DeleteEmbed
  <2>2. counted' \in [grants : Nat, tunnels : Nat, edits : Nat, mishaps : Nat] /\ counted'.grants = counted.grants
    BY <1>1, <2>1, CountFacts
  <2>3. CASE PutEmbed(h, e, NoEmbed) /\ AwaitsOn(h, "embed", e, {}) /\ UNCHANGED access
    <3>1. NoEmbed \in Origins \cup {NoEmbed} /\ "embed" \in OnEmbeds
      BY DEF OnEmbeds
    <3>2. made' = IF "embed" = "creating" THEN made \cup {e} ELSE made
      BY <2>1
    <3> QED BY <2>1, <2>2, <2>3, <3>1, <3>2, EmbedWrite
  <2>4. CASE embeds.cache[e] = NoEmbed /\ DeleteNextRule(h, e, RulesOf(e), access) /\ UNCHANGED embeds
    BY <2>1, <2>2, <2>4, RulesGoOn
  <2> QED BY <1>8, <2>3, <2>4 DEF DeleteEmbed
<1>9. ASSUME NEW h \in Editors, DeleteGoesOn(h) PROVE RulesInv'
  <2> DEFINE m == messages[h]
  <2>1. UNCHANGED <<made, cut, counted>>
    BY <1>9 DEF DeleteGoesOn
  <2>2. m.at \in {"embed", "rules"} => embeds.cache[m.embed] = NoEmbed /\ m.embed \in made
    BY DEF RulesInv, DeletionFit
  <2>3. CASE /\ m.at = "embed" /\ Settles(embeds, h) /\ embeds' = Landed(embeds)
             /\ DeleteNextRule(h, m.embed, RulesOf(m.embed), access)
    BY <1>1, <2>1, <2>2, <2>3, RulesGoOn
  <2>4. CASE /\ m.at = "rules" /\ Settles(access, h) /\ UNCHANGED embeds
             /\ DeleteNextRule(h, m.embed, m.left, Landed(access))
    BY <1>1, <2>1, <2>2, <2>4, RulesGoOn
  <2> QED BY <1>9, <2>3, <2>4 DEF DeleteGoesOn
<1>10. ASSUME NEW h \in Editors, EditSaved(h) PROVE RulesInv'
  <2>1. Served(h) /\ UNCHANGED <<made, cut, counted>>
    BY <1>10 DEF EditSaved
  <2>2. CASE /\ messages[h].at \in {"creating", "updating"} /\ Settles(embeds, h)
             /\ embeds' = Landed(embeds) /\ UNCHANGED access
    BY <1>1, <2>1, <2>2, EmbedsSettle
  <2>3. CASE /\ messages[h].at \in {"granting", "unlinking"} /\ Settles(access, h)
             /\ access' = Landed(access) /\ UNCHANGED embeds
    BY <1>1, <2>1, <2>3, AccessSettles
  <2> QED BY <1>10, <2>2, <2>3 DEF EditSaved
<1>11. ASSUME NEW h \in Editors, EditRejected(h) PROVE RulesInv'
  <2>1. Served(h) /\ cut' = cut \cup CutShort(h) /\ UNCHANGED made /\ Count("mishaps", MaxMishaps)
    BY <1>11 DEF EditRejected
  <2>2. counted' \in [grants : Nat, tunnels : Nat, edits : Nat, mishaps : Nat] /\ counted'.grants = counted.grants
    BY <1>1, <2>1, CountFacts
  <2>3. CASE Settles(embeds, h) /\ embeds' = Rejected(embeds) /\ UNCHANGED access
    BY <2>1, <2>2, <2>3, EmbedsSettle
  <2>4. CASE Settles(access, h) /\ access' = Rejected(access) /\ UNCHANGED embeds
    BY <2>1, <2>2, <2>4, AccessSettles
  <2> QED BY <1>11, <2>3, <2>4 DEF EditRejected
<1>12. CASE EmbedRestarts
  <2>1. Count("mishaps", MaxMishaps)
    BY <1>12 DEF EmbedRestarts
  <2>2. counted' \in [grants : Nat, tunnels : Nat, edits : Nat, mishaps : Nat] /\ counted'.grants = counted.grants
    BY <1>1, <2>1, CountFacts
  <2> QED BY <1>12, <2>2, RulesReload
<1>13. ASSUME NEW e \in EmbedIds, NEW ctx \in Contexts, Issue(e, ctx) PROVE RulesInv'
  <2>1. Count("tunnels", MaxTunnels) /\ UNCHANGED <<embeds, access, messages, made, cut>>
    BY <1>13 DEF Issue, embedStores
  <2>2. counted' \in [grants : Nat, tunnels : Nat, edits : Nat, mishaps : Nat] /\ counted'.grants = counted.grants
    BY <1>1, <2>1, CountFacts
  <2> QED BY <1>2, <2>1, <2>2
<1>14. ASSUME NEW k, ProxyRefused(k) \/ ProxyKept(k) PROVE RulesInv'
  BY <1>3, <1>14 DEF ProxyRefused, ProxyKept, embedStores
<1>15. ASSUME NEW k, NEW path, Forward(k, path) PROVE RulesInv'
  BY <1>3, <1>15 DEF Forward, embedStores
<1>16. ASSUME NEW d, RevokeAllForDevice(d) PROVE RulesInv'
  BY <1>3, <1>16 DEF RevokeAllForDevice, embedStores
<1>17. CASE MinutePasses
  BY <1>3, <1>17 DEF MinutePasses, embedStores
<1>18. CASE UNCHANGED embedVars
  BY <1>3, <1>18 DEF embedVars, embedStores
<1>19. ASSUME NEW h \in Editors, Edit(h) PROVE RulesInv'
  BY <1>4, <1>5, <1>6, <1>7, <1>8, <1>9, <1>10, <1>11, <1>19 DEF Edit
<1> QED
  BY <1>12, <1>13, <1>14, <1>15, <1>16, <1>17, <1>18, <1>19 DEF EmbedNext

\* NoOrphanRule, for any embeds, rules, messages at a time, rejected writes and
\* stops: deleting an embed takes all of its rules along, whatever is created
\* and deleted meanwhile, and they stay away when the adapter starts with what
\* was saved; but for the embeds of messages that were cut short
\* (src/urlEmbeds/index.ts createAccessRule and delete).
THEOREM NoRuleIsOrphaned == EmbedSpec => []NoOrphanRule
<1>1. RulesInv => NoOrphanRule
  BY DEF RulesInv
<1> QED BY <1>1, RulesInit, RulesStep, PTL DEF EmbedSpec

----------------------------------------------------------------------------
(* The types of what EmbedAccess keeps: any embeds, rules and tokens      *)

Counts == [grants : 0..MaxGrants, tunnels : 0..MaxTunnels, edits : 0..MaxEmbedEdits, mishaps : 0..MaxMishaps]

\* What RulesInv leaves to be said.
TokensTyped ==
    /\ minute \in 0..MaxMinute /\ counted \in Counts
    /\ \A t \in tokens : t.token \in 1..counted.tunnels /\ t.embed \in EmbedIds /\ t.ctx \in Contexts

\* A bound is not passed, and the others stay as they are.
LEMMA CountStep ==
    ASSUME counted \in Counts
    PROVE  /\ Count("grants", MaxGrants) => counted' \in Counts /\ counted'.tunnels = counted.tunnels
           /\ Count("tunnels", MaxTunnels) => counted' \in Counts /\ counted'.tunnels = counted.tunnels + 1
           /\ Count("edits", MaxEmbedEdits) => counted' \in Counts /\ counted'.tunnels = counted.tunnels
           /\ Count("mishaps", MaxMishaps) => counted' \in Counts /\ counted'.tunnels = counted.tunnels
<1>1. {MaxGrants, MaxTunnels, MaxEmbedEdits, MaxMishaps} \subseteq Nat
  BY EmbedAssumption
<1>2. CASE Count("grants", MaxGrants)
  BY <1>1, <1>2 DEF Count, Counts
<1>3. CASE Count("tunnels", MaxTunnels)
  BY <1>1, <1>3 DEF Count, Counts
<1>4. CASE Count("edits", MaxEmbedEdits)
  BY <1>1, <1>4 DEF Count, Counts
<1>5. CASE Count("mishaps", MaxMishaps)
  BY <1>1, <1>5 DEF Count, Counts
<1> QED BY <1>2, <1>3, <1>4, <1>5

\* Nothing is counted yet.
LEMMA TokensTypedInit == EmbedInit => TokensTyped
  BY EmbedAssumption DEF EmbedInit, TokensTyped, Counts

\* Every step keeps the types.
LEMMA TokensTypedStep == TokensTyped /\ [EmbedNext]_embedVars => TokensTyped'
<1> SUFFICES ASSUME TokensTyped, [EmbedNext]_embedVars PROVE TokensTyped'
  OBVIOUS
<1>1. counted \in Counts /\ counted.tunnels \in Nat
  BY DEF TokensTyped, Counts
<1>2. ASSUME minute' = minute, tokens' \subseteq tokens, counted' \in Counts, counted'.tunnels = counted.tunnels
      PROVE  TokensTyped'
  BY <1>1, <1>2 DEF TokensTyped
<1>3. ASSUME NEW h \in Editors, Edit(h) PROVE TokensTyped'
  <2>1. UNCHANGED <<minute, tokens>>
    BY <1>3 DEF Edit, CreateEmbed, UpdateEmbed, CreateAccessRule, DeleteAccessRule, DeleteEmbed,
                EditSaved, DeleteGoesOn, EditRejected
  <2>2. \/ counted' = counted \/ Count("edits", MaxEmbedEdits)
        \/ Count("grants", MaxGrants) \/ Count("mishaps", MaxMishaps)
    BY <1>3 DEF Edit, CreateEmbed, UpdateEmbed, CreateAccessRule, DeleteAccessRule, DeleteEmbed,
                EditSaved, DeleteGoesOn, EditRejected
  <2> QED BY <1>1, <1>2, <2>1, <2>2, CountStep
<1>4. CASE EmbedRestarts
  <2>1. minute' = minute /\ tokens' = {} /\ Count("mishaps", MaxMishaps)
    BY <1>4 DEF EmbedRestarts
  <2> QED BY <1>1, <1>2, <2>1, CountStep
<1>5. ASSUME NEW e \in EmbedIds, NEW ctx \in Contexts, Issue(e, ctx) PROVE TokensTyped'
  <2> DEFINE new == [token |-> counted.tunnels + 1, embed |-> e, ctx |-> ctx, expiresAt |-> minute + TokenTTL]
  <2>1. /\ minute' = minute /\ Count("tunnels", MaxTunnels)
        /\ \A t \in tokens' : t \in tokens \/ t = new
    BY <1>5 DEF Issue, Live
  <2>2. new.token = counted.tunnels + 1 /\ new.embed \in EmbedIds /\ new.ctx \in Contexts
    OBVIOUS
  <2> HIDE DEF new
  <2>3. counted' \in Counts /\ counted'.tunnels = counted.tunnels + 1
    BY <1>1, <2>1, CountStep
  <2>4. \A t \in tokens' : t.token \in 1..counted'.tunnels /\ t.embed \in EmbedIds /\ t.ctx \in Contexts
    BY <1>1, <2>1, <2>2, <2>3 DEF TokensTyped
  <2> QED BY <2>1, <2>3, <2>4 DEF TokensTyped
<1>6. CASE \/ \E k \in 1..MaxTunnels : ProxyRefused(k) \/ ProxyKept(k)
           \/ \E k \in 1..MaxTunnels, path \in Origins \cup {"relative"} : Forward(k, path)
           \/ \E d \in {ctx.deviceId : ctx \in Contexts} : RevokeAllForDevice(d)
           \/ UNCHANGED embedVars
  <2>1. tokens' \subseteq tokens /\ UNCHANGED <<minute, counted>>
    BY <1>6 DEF ProxyRefused, ProxyKept, Forward, RevokeAllForDevice, Live, embedVars
  <2> QED BY <1>1, <1>2, <2>1
<1>7. CASE MinutePasses
  BY <1>7, EmbedAssumption DEF MinutePasses, TokensTyped
<1> QED BY <1>3, <1>4, <1>5, <1>6, <1>7 DEF EmbedNext

\* Embeds, rules, tokens and the messages under way have their types: every
\* rule, in memory and on disk, has one owner and names an embed, and what is
\* left of a deletion are rules that were created.
THEOREM EmbedTyped == EmbedSpec => []EmbedTypeOK
<1>1. ASSUME RulesInv, TokensTyped PROVE EmbedTypeOK
  <2>1. /\ EmbedShape /\ embeds \in Collections(EmbedMaps, Editors) /\ access \in Collections(RuleLists, Editors)
    BY <1>1 DEF RulesInv, EmbedShape
  <2>2. {embeds.cache, embeds.disk} \subseteq [EmbedIds -> Origins \cup {NoEmbed}]
    BY <2>1, VersionFacts DEF EmbedMaps
  <2>3. \A V \in {access.cache, access.disk} : \A k \in DOMAIN V :
           ValidSingleOwner(V[k]) /\ V[k].urlEmbedId \in EmbedIds
    <3>1. access.cache \in RuleLists /\ access.disk \in RuleLists
      BY <2>1, VersionFacts
    <3> QED BY <3>1, RuleFacts
  <2>4. messages \in [Editors -> [at : {"none"} \cup OnEmbeds \cup OnRules,
                                  embed : EmbedIds \cup {NoEmbed}, left : SUBSET (1..counted.grants)]]
    <3>1. messages \in [Editors -> Message] /\ \A h \in Editors : messages[h].left \subseteq 1..counted.grants
      BY <2>1 DEF EmbedShape, AwaitFit
    <3>2. \A h \in Editors : messages[h] \in [at : {"none"} \cup OnEmbeds \cup OnRules,
                                  embed : EmbedIds \cup {NoEmbed}, left : SUBSET (1..counted.grants)]
      BY <3>1 DEF Message
    <3> QED BY <3>1, <3>2
  <2> QED BY <1>1, <2>1, <2>2, <2>3, <2>4 DEF TokensTyped, EmbedTypeOK, Counts, EmbedShape
<1> QED BY <1>1, RulesInit, RulesStep, TokensTypedInit, TokensTypedStep, PTL DEF EmbedSpec

----------------------------------------------------------------------------
(* The composition: what a request meets before and behind the routes     *)

\* A step of one part is a step of that part, and nothing to the others.
LEMMA FrontStep ==
    [FrontNext]_<<part, vars, pairingVars, accessVars, gatesVars, embedVars>> =>
        /\ [Next]_vars /\ [PairingNext]_pairingVars /\ [AccessNext]_accessVars
        /\ [GatesNext]_gatesVars /\ [EmbedNext]_embedVars
<1>1. CASE Of("replay", Next /\ UNCHANGED <<pairingVars, accessVars, gatesVars, embedVars>>)
  BY <1>1 DEF Of
<1>2. CASE Of("pairing", PairingNext /\ UNCHANGED <<vars, accessVars, gatesVars, embedVars>>)
  BY <1>2 DEF Of
<1>3. CASE Of("devices", AccessNext /\ UNCHANGED <<vars, pairingVars, gatesVars, embedVars>>)
  BY <1>3 DEF Of
<1>4. CASE Of("gates", GatesNext /\ UNCHANGED <<vars, pairingVars, accessVars, embedVars>>)
  BY <1>4 DEF Of
<1>5. CASE Of("embeds", /\ EmbedNext /\ NoTunnels
                        /\ UNCHANGED <<vars, pairingVars, accessVars, gatesVars>>)
  BY <1>5 DEF Of
<1>6. CASE Of("tunnels", /\ EmbedNext /\ OneEditor
                         /\ UNCHANGED <<vars, pairingVars, accessVars, gatesVars>>)
  BY <1>6 DEF Of
<1>7. CASE UNCHANGED <<part, vars, pairingVars, accessVars, gatesVars, embedVars>>
  BY <1>7
<1> QED BY <1>1, <1>2, <1>3, <1>4, <1>5, <1>6, <1>7 DEF FrontNext

\* The composition implements every one of its parts, so that whatever is
\* proved of a part holds in it.
THEOREM FrontImplementsParts ==
    FrontSpec => Spec /\ PairingSpec /\ AccessSpec /\ GatesSpec /\ EmbedSpec
<1>1. FrontInit => Init /\ PairingInit /\ AccessInit /\ GatesInit /\ EmbedInit
  BY DEF FrontInit
<1> QED BY <1>1, FrontStep, PTL DEF FrontSpec, Spec, PairingSpec, AccessSpec, GatesSpec, EmbedSpec

\* Every variable of every part has its type, and no bound is passed: for any
\* requests, servers, devices, handlers, embeds and limits, however their steps
\* follow each other.
THEOREM FrontTyped == FrontSpec => []FrontTypeOK
BY FrontImplementsParts, TypeCorrect, PairingTyped, AccessTyped, GatesTyped, EmbedTyped, PTL DEF FrontTypeOK

\* What the parts promise, all at once, of the composition: with a memory for
\* nonces of at least twice the skew, as the shipped one is.
THEOREM FrontIsSafe ==
    ASSUME TTL >= 2 * Skew
    PROVE  FrontSpec => [](/\ AcceptedOnce /\ NoFalseReplay
                           /\ InviteSingleUse /\ DiskFitsTogether /\ VerdictsAgree
                           /\ RevokedStaysOut /\ EndedSessionStaysEnded /\ RefreshTokenUsedOnce
                           /\ BlockHolds /\ FixedWindowsHold
                           /\ NoOrphanRule /\ TunnelsAreEntitled)
<1>1. Spec => []AcceptedOnce
  BY RequestAcceptedOnce
<1> QED
  BY <1>1, FrontImplementsParts, ReplayWasUsed, OneDevicePerInvite, SavedFitsTogether, VerdictsAgreed,
     RevocationHolds, EndedSessionsHold, TokensBoughtOnce, BlocksHold, WindowsHold, NoRuleIsOrphaned,
     TunnelsStayEntitled, PTL

=============================================================================
