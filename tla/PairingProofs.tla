----------------------------- MODULE PairingProofs -----------------------------
(* That an invite registers one device, that devices, claims and invites fit  *)
(* together wherever the adapter stops, and that overlapping verdicts leave   *)
(* claim and device agreed: for any servers, invites and devices, any number  *)
(* of claims and verdicts, and any number of rejected writes and restarts.    *)
EXTENDS Pairing, CollectionProofs, FiniteSetTheorems

InviteMap == [Invites -> {NoOne, "open", "used"}]
DeviceMap == [NewDevices -> PairedStatus \cup {NoOne}]
ClaimMap  == [NewDevices -> Claim \cup {NoOne}]
CountMap  == [NewDevices -> Nat]

\* The steps in which a handler awaits a write, by the store it is for.
InviteSteps == {"inviting", "consuming"}
DeviceSteps == {"registering", "approving", "deciding"}
ClaimSteps  == {"filing", "expiring", "marking", "decided"}
FirstSteps  == {"issuing"}

\* A handler awaits the store of its step, once, and no other.
Awaited(store, jobs, steps) ==
    /\ \A h \in Servers : h \in Waiting(store) <=> jobs[h].at \in steps
    /\ Single(store, Servers)

\* What a handler is about is there.
JobShape(j) ==
    /\ j.at \in InviteSteps => j.i \in Invites
    /\ j.at \in DeviceSteps \cup ClaimSteps \cup FirstSteps => j.d \in NewDevices
    /\ j.at \in {"deciding", "decided"} => j.verdict \in {"approved", "rejected"}
    /\ j.at = "deciding" => j.seen \in Claim
    /\ j.at \in {"free"} \cup InviteSteps => j.d = NoOne

Stored ==
    /\ invites \in Collections(InviteMap, Servers)
    /\ newDevices \in Collections(DeviceMap, Servers)
    /\ claims \in Collections(ClaimMap, Servers)
    /\ firstSessions \in Collections(CountMap, Servers)

Waits ==
    /\ Awaited(invites, handling, InviteSteps) /\ Awaited(newDevices, handling, DeviceSteps)
    /\ Awaited(claims, handling, ClaimSteps) /\ Awaited(firstSessions, handling, FirstSteps)

Onboarding ==
    /\ app \in [phase : Phase, claim : NewDevices \cup {NoOne}, waits : Servers \cup {NoOne}]
    /\ app.waits # NoOne => app.phase \in {"claiming", "asking"}
    /\ app.phase \in {"polling", "asking"} => app.claim \in NewDevices

History ==
    /\ requireAdminApproval \in ApprovalModes /\ due \subseteq NewDevices
    /\ origin \in [NewDevices -> Invites \cup {NoOne}] /\ approvers \subseteq NewDevices
    /\ handed \in [NewDevices -> Nat]
    /\ pairingSpent \in [decisions : Nat, tries : Nat, lost : Nat, faults : Nat]

Shape ==
    /\ Stored /\ Waits /\ Onboarding /\ History
    /\ handling \in [Servers -> PairingJob] /\ \A h \in Servers : JobShape(handling[h])

----------------------------------------------------------------------------
Used(i)       == Having(InviteMap, i, {"used"})
Unknown(d)    == Having(DeviceMap, d, {NoOne})
Registered(d) == Having(DeviceMap, d, PairedStatus)
Settled(d)    == Having(DeviceMap, d, {"approved", "rejected"})
Unfiled(d)    == Having(ClaimMap, d, {NoOne})
Filed(d)      == Having(ClaimMap, d, Claim)
Unapproved(d) == Having(ClaimMap, d, {NoOne} \cup {c \in Claim : c.status # "approved"})
NoSession(d)  == Having(CountMap, d, {0})

\* The invite of a claim under way is used from its write on; no device has
\* come of it, and no other claim is under way for it.  The invite of a device
\* is used in every version, and the device is the only one of it.
InvitesFit ==
    /\ \A h \in Servers : handling[h].at = "consuming" =>
          /\ Since(invites, h, Used(handling[h].i))
          /\ \A d \in NewDevices : origin[d] # handling[h].i
          /\ \A g \in Servers : handling[g].at = "consuming" /\ handling[g].i = handling[h].i => g = h
    /\ \A d \in NewDevices : origin[d] # NoOne =>
          /\ Everywhere(invites, Used(origin[d]))
          /\ \A e \in NewDevices : origin[e] = origin[d] => e = d

\* In every two versions of claims and devices, those that are written and
\* those on their way: a claim has its device, and an approved one has a
\* decided device.
DeviceFits(d) ==
    /\ origin[d] = NoOne => Everywhere(newDevices, Unknown(d)) /\ Everywhere(claims, Unfiled(d))
    /\ Everywhere(claims, Unfiled(d)) \/ Everywhere(newDevices, Registered(d))
    /\ Everywhere(claims, Unapproved(d)) \/ Everywhere(newDevices, Settled(d))
    /\ requireAdminApproval /\ d \notin approvers =>
          Everywhere(claims, Unapproved(d)) /\ Everywhere(firstSessions, NoSession(d))

\* What a suspended handler relies on.
JobFits(h) ==
    LET j == handling[h] IN
    /\ j.d # NoOne => origin[j.d] # NoOne
    /\ j.at = "registering" => /\ Since(newDevices, h, Registered(j.d))
                               /\ newDevices.cache[j.d] = "pending"
    /\ j.at = "approving" => /\ Since(newDevices, h, Settled(j.d)) /\ ~requireAdminApproval
                             /\ newDevices.cache[j.d] = "approved"
    /\ j.at \in {"registering", "approving"} => claims.cache[j.d] = NoOne
    /\ j.at = "deciding" => /\ Since(newDevices, h, Settled(j.d)) /\ claims.cache[j.d] # NoOne
                            /\ j.verdict = "approved" => j.d \in approvers
    /\ j.at = "filing" => Since(claims, h, Filed(j.d))
    /\ j.at \in {"expiring", "issuing", "marking"} => Everywhere(claims, Filed(j.d))

Enrols(h, d) == handling[h].at \in {"registering", "approving"} /\ handling[h].d = d

\* A device is enrolled by one handler.
EnrolledOnce ==
    \A h, g \in Servers, d \in NewDevices : Enrols(h, d) /\ Enrols(g, d) => h = g

PolledIsFiled == app.phase \in {"polling", "asking"} => Everywhere(claims, Filed(app.claim))

Decides(h, d) == handling[h].at = "deciding" /\ handling[h].d = d

\* While no write has failed: the device has the verdict of whoever decides
\* last about it, and where nobody is deciding, so has the claim.
VerdictFits(d) ==
    /\ \A h \in Servers : Decides(h, d) =>
          \/ newDevices.cache[d] = handling[h].verdict
          \/ \E g \in Servers : Decides(g, d) /\ Precedes(newDevices, h, g)
    /\ claims.cache[d] # NoOne /\ (\A h \in Servers : ~Decides(h, d)) =>
          \A v \in {"approved", "rejected"} :
              claims.cache[d].status = v <=> newDevices.cache[d] = v

VerdictsFit == pairingSpent.faults = 0 => \A d \in NewDevices : VerdictFits(d)

PairingInv ==
    /\ Shape /\ InvitesFit /\ EnrolledOnce /\ PolledIsFiled /\ VerdictsFit
    /\ \A d \in NewDevices : DeviceFits(d)
    /\ \A h \in Servers : JobFits(h)

----------------------------------------------------------------------------
(* The shape of the state                                                  *)

\* A handler that comes from step `was` and goes on to `now`, as the store that
\* is awaited in `steps` sees it: it writes, its write settles, both or neither.
Acts(store, to, T, h, was, now, steps) ==
    \/ was \notin steps /\ now \notin steps /\ to = store
    \/ was \notin steps /\ now \in steps /\ \E C \in T : to = Update(store, h, C)
    \/ was \in steps /\ now \notin steps /\ Settles(store, h) /\ to \in {Landed(store), Rejected(store)}
    \/ was \in steps /\ now \in steps /\ Settles(store, h) /\ \E C \in T : to = Update(Landed(store), h, C)

\* Who acts so awaits what its step says, and so do the others.
LEMMA ActsAwaited ==
    ASSUME NEW T, NEW store \in Collections(T, Servers), NEW to, NEW steps, NEW h \in Servers,
           NEW jobs, NEW then, Awaited(store, jobs, steps),
           \A g \in Servers : g # h => then[g] = jobs[g],
           Acts(store, to, T, h, jobs[h].at, then[h].at, steps)
    PROVE  to \in Collections(T, Servers) /\ Awaited(to, then, steps)
<1>1. /\ \A g \in Servers : g \in Waiting(store) <=> jobs[g].at \in steps
      /\ Single(store, Servers)
  BY DEF Awaited
<1>2. CASE jobs[h].at \notin steps /\ then[h].at \notin steps /\ to = store
  BY <1>1, <1>2 DEF Awaited
<1>3. CASE /\ jobs[h].at \notin steps /\ then[h].at \in steps
           /\ \E C \in T : to = Update(store, h, C)
  <2>1. PICK C \in T : to = Update(store, h, C)
    BY <1>3
  <2>2. /\ to \in Collections(T, Servers) /\ Waiting(to) = Waiting(store) \cup {h}
        /\ Single(to, Servers)
    BY <1>1, <1>3, <2>1, UpdateFacts
  <2> QED BY <1>1, <1>3, <2>2 DEF Awaited
<1>4. CASE /\ jobs[h].at \in steps /\ then[h].at \notin steps
           /\ Settles(store, h) /\ to \in {Landed(store), Rejected(store)}
  <2>1. /\ to \in Collections(T, Servers) /\ Waiting(to) \subseteq Waiting(store)
        /\ \A b \in Waiting(store) : b # h => b \in Waiting(to)
        /\ Single(to, Servers) /\ h \notin Waiting(to)
    BY <1>1, <1>4, OldestFacts
  <2> QED BY <1>1, <1>4, <2>1 DEF Awaited
<1>5. CASE /\ jobs[h].at \in steps /\ then[h].at \in steps
           /\ Settles(store, h) /\ \E C \in T : to = Update(Landed(store), h, C)
  <2>1. PICK C \in T : to = Update(Landed(store), h, C)
    BY <1>5
  <2>2. PICK mid : mid = Landed(store)
    OBVIOUS
  <2>3. /\ mid \in Collections(T, Servers) /\ Waiting(mid) \subseteq Waiting(store)
        /\ \A b \in Waiting(store) : b # h => b \in Waiting(mid)
        /\ Single(mid, Servers) /\ h \notin Waiting(mid)
    BY <1>1, <1>5, <2>2, OldestFacts
  <2>4. to = Update(mid, h, C)
    BY <2>1, <2>2
  <2>5. /\ to \in Collections(T, Servers) /\ Waiting(to) = Waiting(mid) \cup {h}
        /\ Single(to, Servers)
    BY <2>3, <2>4, UpdateFacts
  <2> QED BY <1>1, <1>5, <2>3, <2>5 DEF Awaited
<1> QED BY <1>2, <1>3, <1>4, <1>5 DEF Acts

\* One handler goes on with a job; every store sees it.
Turns(h, J) ==
    /\ J \in PairingJob /\ JobShape(J) /\ handling' = [handling EXCEPT ![h] = J]
    /\ Acts(invites, invites', InviteMap, h, handling[h].at, J.at, InviteSteps)
    /\ Acts(newDevices, newDevices', DeviceMap, h, handling[h].at, J.at, DeviceSteps)
    /\ Acts(claims, claims', ClaimMap, h, handling[h].at, J.at, ClaimSteps)
    /\ Acts(firstSessions, firstSessions', CountMap, h, handling[h].at, J.at, FirstSteps)

\* A store that is not concerned, and one whose write was awaited.
LEMMA ActsIdle ==
    ASSUME NEW store, NEW to, to = store, NEW T, NEW h, NEW was, NEW now, NEW steps,
           was \notin steps, now \notin steps
    PROVE  Acts(store, to, T, h, was, now, steps)
BY DEF Acts

\* Its oldest write settles.
LEMMA ActsSettled ==
    ASSUME NEW store, NEW to, NEW T, NEW h, NEW was, NEW now, NEW steps,
           was \in steps, now \notin steps, Settles(store, h), to \in {Landed(store), Rejected(store)}
    PROVE  Acts(store, to, T, h, was, now, steps)
BY DEF Acts

\* The shape is kept by whoever goes on so.
LEMMA ShapeStep ==
    ASSUME Shape, NEW h \in Servers, NEW J, Turns(h, J), Onboarding', History'
    PROVE  Shape' /\ handling'[h] = J /\ \A g \in Servers : g # h => handling'[g] = handling[g]
<1>1. /\ handling \in [Servers -> PairingJob] /\ \A g \in Servers : JobShape(handling[g])
      /\ J \in PairingJob /\ JobShape(J) /\ handling' = [handling EXCEPT ![h] = J]
  BY DEF Shape, Turns
<1>2. /\ handling' \in [Servers -> PairingJob] /\ handling'[h] = J
      /\ \A g \in Servers : g # h => handling'[g] = handling[g]
  BY <1>1
<1>3. \A g \in Servers : JobShape(handling'[g])
  BY <1>1, <1>2
<1>4. Stored' /\ Waits'
  <2>1. invites' \in Collections(InviteMap, Servers) /\ Awaited(invites', handling', InviteSteps)
    <3>1. /\ invites \in Collections(InviteMap, Servers) /\ Awaited(invites, handling, InviteSteps)
          /\ Acts(invites, invites', InviteMap, h, handling[h].at, handling'[h].at, InviteSteps)
      BY <1>2 DEF Shape, Stored, Waits, Turns
    <3> QED BY <1>2, <3>1, ActsAwaited
  <2>2. newDevices' \in Collections(DeviceMap, Servers) /\ Awaited(newDevices', handling', DeviceSteps)
    <3>1. /\ newDevices \in Collections(DeviceMap, Servers) /\ Awaited(newDevices, handling, DeviceSteps)
          /\ Acts(newDevices, newDevices', DeviceMap, h, handling[h].at, handling'[h].at, DeviceSteps)
      BY <1>2 DEF Shape, Stored, Waits, Turns
    <3> QED BY <1>2, <3>1, ActsAwaited
  <2>3. claims' \in Collections(ClaimMap, Servers) /\ Awaited(claims', handling', ClaimSteps)
    <3>1. /\ claims \in Collections(ClaimMap, Servers) /\ Awaited(claims, handling, ClaimSteps)
          /\ Acts(claims, claims', ClaimMap, h, handling[h].at, handling'[h].at, ClaimSteps)
      BY <1>2 DEF Shape, Stored, Waits, Turns
    <3> QED BY <1>2, <3>1, ActsAwaited
  <2>4. firstSessions' \in Collections(CountMap, Servers) /\ Awaited(firstSessions', handling', FirstSteps)
    <3>1. /\ firstSessions \in Collections(CountMap, Servers) /\ Awaited(firstSessions, handling, FirstSteps)
          /\ Acts(firstSessions, firstSessions', CountMap, h, handling[h].at, handling'[h].at, FirstSteps)
      BY <1>2 DEF Shape, Stored, Waits, Turns
    <3> QED BY <1>2, <3>1, ActsAwaited
  <2>5. /\ InviteMap' = InviteMap /\ DeviceMap' = DeviceMap /\ ClaimMap' = ClaimMap /\ CountMap' = CountMap
    BY DEF InviteMap, DeviceMap, ClaimMap, CountMap, Claim, ClaimStatus, PairedStatus
  <2> QED BY <2>1, <2>2, <2>3, <2>4, <2>5 DEF Stored, Waits, Awaited
<1>5. \A g \in Servers : JobShape(handling[g])'
  BY <1>3 DEF JobShape
<1> QED BY <1>2, <1>4, <1>5 DEF Shape

----------------------------------------------------------------------------
(* A step of one handler, which touches one device at most                 *)

\* Only entry d of the devices changes, and there what is registered and what
\* is settled stays so; likewise for claims and what is filed.
DevicesMove(d) ==
    \A e \in NewDevices :
        /\ e # d => newDevices'.cache[e] = newDevices.cache[e]
        /\ \A X : e # d \/ X = PairedStatus \/ X = {"approved", "rejected"} =>
              Keeps(DeviceMap, newDevices, newDevices', e, X)

ClaimsMove(d) ==
    \A e \in NewDevices :
        /\ e # d => claims'.cache[e] = claims.cache[e]
        /\ \A X : e # d \/ X = Claim => Keeps(ClaimMap, claims, claims', e, X)

FirstMove(d) ==
    \A e \in NewDevices : e # d /\ Everywhere(firstSessions, NoSession(e))
                              => Everywhere(firstSessions', NoSession(e))

HistoryMoves(d) ==
    /\ requireAdminApproval' = requireAdminApproval /\ approvers \subseteq approvers'
    /\ \A e \in NewDevices :
          /\ e # d => origin'[e] = origin[e] /\ (e \in approvers' => e \in approvers)
          /\ origin[e] # NoOne => origin'[e] # NoOne

\* Nobody but h is concerned, in particular nobody who enrols d.
Moves(h, d) ==
    /\ DevicesMove(d) /\ ClaimsMove(d) /\ FirstMove(d) /\ HistoryMoves(d)
    /\ \A g \in Servers : g # h => handling'[g] = handling[g] /\ ~Enrols(g, d)

\* A device that is not touched fits as before.
LEMMA OtherDevicesFit ==
    ASSUME PairingInv, NEW h, NEW d, Moves(h, d), NEW e \in NewDevices, e # d
    PROVE  DeviceFits(e)'
<1>1. DeviceFits(e)
  BY DEF PairingInv
<1>2. /\ origin'[e] = origin[e] /\ requireAdminApproval' = requireAdminApproval
      /\ (e \in approvers' => e \in approvers) /\ approvers \subseteq approvers'
      /\ Everywhere(firstSessions, NoSession(e)) => Everywhere(firstSessions', NoSession(e))
  BY DEF Moves, HistoryMoves, FirstMove
<1>3. /\ Everywhere(newDevices, Unknown(e)) => Everywhere(newDevices', Unknown(e))
      /\ Everywhere(newDevices, Registered(e)) => Everywhere(newDevices', Registered(e))
      /\ Everywhere(newDevices, Settled(e)) => Everywhere(newDevices', Settled(e))
  BY DEF Moves, DevicesMove, Keeps, Unknown, Registered, Settled
<1>4. /\ Everywhere(claims, Unfiled(e)) => Everywhere(claims', Unfiled(e))
      /\ Everywhere(claims, Unapproved(e)) => Everywhere(claims', Unapproved(e))
  BY DEF Moves, ClaimsMove, Keeps, Unfiled, Unapproved
<1>5. /\ Unknown(e)' = Unknown(e) /\ Registered(e)' = Registered(e) /\ Settled(e)' = Settled(e)
      /\ Unfiled(e)' = Unfiled(e) /\ Unapproved(e)' = Unapproved(e) /\ NoSession(e)' = NoSession(e)
  OBVIOUS
<1> QED BY <1>1, <1>2, <1>3, <1>4 DEF DeviceFits

\* What a job relies on is so after another handler's step.
LEMMA OtherJobsFit ==
    ASSUME PairingInv, NEW h \in Servers, NEW d, Moves(h, d), NEW g \in Servers, g # h
    PROVE  JobFits(g)'
<1>1. JobFits(g) /\ Shape /\ JobShape(handling[g])
  BY DEF PairingInv, Shape
<1>2. handling'[g] = handling[g] /\ ~Enrols(g, d)
  BY DEF Moves
<1>3. PICK j : j = handling[g] /\ handling'[g] = j
  BY <1>2
<1>4. /\ j.at \in DeviceSteps => g \in Waiting(newDevices) /\ j.d \in NewDevices
      /\ j.at \in ClaimSteps => g \in Waiting(claims) /\ j.d \in NewDevices
      /\ j.at = "issuing" => j.d \in NewDevices
      /\ j.d # NoOne => j.d \in NewDevices
  <2>1. j \in PairingJob
    BY <1>1, <1>3 DEF Shape
  <2> QED BY <1>1, <1>3, <2>1 DEF Shape, Waits, Awaited, JobShape, FirstSteps, PairingJob
<1>5. j.d # NoOne => origin'[j.d] # NoOne
  BY <1>1, <1>3, <1>4 DEF JobFits, Moves, HistoryMoves
<1>6. ASSUME j.at = "registering"
      PROVE  Since(newDevices', g, Registered(j.d)) /\ newDevices'.cache[j.d] = "pending"
  <2>1. j.d # d /\ j.d \in NewDevices /\ g \in Waiting(newDevices)
    BY <1>2, <1>3, <1>4, <1>6 DEF Enrols, DeviceSteps
  <2>2. Since(newDevices, g, Registered(j.d)) /\ newDevices.cache[j.d] = "pending"
    BY <1>1, <1>3, <1>6 DEF JobFits
  <2> QED BY <2>1, <2>2 DEF Moves, DevicesMove, Keeps, Registered
<1>7. ASSUME j.at = "approving"
      PROVE  /\ Since(newDevices', g, Settled(j.d)) /\ ~requireAdminApproval'
             /\ newDevices'.cache[j.d] = "approved"
  <2>1. j.d # d /\ j.d \in NewDevices /\ g \in Waiting(newDevices)
    BY <1>2, <1>3, <1>4, <1>7 DEF Enrols, DeviceSteps
  <2>2. /\ Since(newDevices, g, Settled(j.d)) /\ ~requireAdminApproval
        /\ newDevices.cache[j.d] = "approved"
    BY <1>1, <1>3, <1>7 DEF JobFits
  <2> QED BY <2>1, <2>2 DEF Moves, DevicesMove, HistoryMoves, Keeps, Settled
<1>8. ASSUME j.at \in {"registering", "approving"} PROVE claims'.cache[j.d] = NoOne
  <2>1. j.d # d /\ j.d \in NewDevices
    BY <1>2, <1>3, <1>4, <1>8 DEF Enrols, DeviceSteps
  <2> QED BY <1>1, <1>3, <1>8, <2>1 DEF JobFits, Moves, ClaimsMove
<1>9. ASSUME j.at = "deciding"
      PROVE  /\ Since(newDevices', g, Settled(j.d)) /\ claims'.cache[j.d] # NoOne
             /\ j.verdict = "approved" => j.d \in approvers'
  <2>1. j.d \in NewDevices /\ g \in Waiting(newDevices)
    BY <1>4, <1>9 DEF DeviceSteps
  <2>2. /\ Since(newDevices, g, Settled(j.d)) /\ claims.cache[j.d] # NoOne
        /\ j.verdict = "approved" => j.d \in approvers
    BY <1>1, <1>3, <1>9 DEF JobFits
  <2>3. claims.cache[j.d] \in Claim
    BY <1>1, <2>1, <2>2 DEF Shape, Stored, Collections, ClaimMap
  <2>4. claims'.cache[j.d] \in Claim
    BY <2>1, <2>3 DEF Moves, ClaimsMove, Keeps
  <2>5. claims'.cache[j.d] # NoOne
    BY <2>4, NoOneAssumption
  <2> QED BY <2>1, <2>2, <2>5 DEF Moves, DevicesMove, HistoryMoves, Keeps, Settled
<1>10. ASSUME j.at = "filing" PROVE Since(claims', g, Filed(j.d))
  <2>1. j.d \in NewDevices /\ g \in Waiting(claims)
    BY <1>4, <1>10 DEF ClaimSteps
  <2> QED BY <1>1, <1>3, <1>10, <2>1 DEF JobFits, Moves, ClaimsMove, Keeps, Filed
<1>11. ASSUME j.at \in {"expiring", "issuing", "marking"} PROVE Everywhere(claims', Filed(j.d))
  <2>1. j.d \in NewDevices
    BY <1>4, <1>11 DEF ClaimSteps
  <2> QED BY <1>1, <1>3, <1>11, <2>1 DEF JobFits, Moves, ClaimsMove, Keeps, Filed
<1> QED BY <1>3, <1>5, <1>6, <1>7, <1>8, <1>9, <1>10, <1>11 DEF JobFits

\* h does not come to decide, or stop deciding, about another device, and nobody
\* overtakes on the way to the devices.
Orderly(h, d) ==
    /\ pairingSpent.faults = 0
    /\ \A e \in NewDevices : e # d => ~Decides(h, e) /\ ~Decides(h, e)'
    /\ \A a, b \in Servers : a # h /\ Precedes(newDevices, a, b) => Precedes(newDevices', a, b)

\* Claim and device of another entry agree as before.
LEMMA OthersAgree ==
    ASSUME PairingInv, NEW h \in Servers, NEW d, Moves(h, d), Orderly(h, d),
           NEW e \in NewDevices, e # d
    PROVE  VerdictFits(e)'
<1>1. VerdictFits(e)
  BY DEF PairingInv, VerdictsFit, Orderly
<1>2. newDevices'.cache[e] = newDevices.cache[e] /\ claims'.cache[e] = claims.cache[e]
  BY DEF Moves, DevicesMove, ClaimsMove
<1>3. \A g \in Servers : Decides(g, e)' <=> Decides(g, e)
  BY DEF Moves, Orderly, Decides
<1>4. \A g \in Servers : Decides(g, e) => g # h /\ handling'[g] = handling[g]
  BY DEF Moves, Orderly
<1>5. ASSUME NEW g \in Servers, Decides(g, e)'
      PROVE  \/ newDevices'.cache[e] = handling'[g].verdict
             \/ \E k \in Servers : Decides(k, e)' /\ Precedes(newDevices', g, k)
  <2>1. Decides(g, e) /\ g # h /\ handling'[g] = handling[g]
    BY <1>3, <1>4, <1>5
  <2>2. CASE newDevices.cache[e] = handling[g].verdict
    BY <1>2, <2>1, <2>2
  <2>3. CASE \E k \in Servers : Decides(k, e) /\ Precedes(newDevices, g, k)
    BY <1>3, <2>1, <2>3 DEF Orderly
  <2> QED BY <1>1, <2>1, <2>2, <2>3 DEF VerdictFits
<1>6. claims'.cache[e] # NoOne /\ (\A g \in Servers : ~Decides(g, e)') =>
          \A v \in {"approved", "rejected"} :
              claims'.cache[e].status = v <=> newDevices'.cache[e] = v
  BY <1>1, <1>2, <1>3 DEF VerdictFits
<1> QED BY <1>5, <1>6 DEF VerdictFits

\* What is left to show of a step of handler h that touches device d.
LEMMA Advance ==
    ASSUME PairingInv, Shape', InvitesFit', PolledIsFiled', NEW h \in Servers, NEW d, Moves(h, d),
           JobFits(h)', \A e \in NewDevices : Enrols(h, e)' => Enrols(h, e) \/ e = d,
           d \in NewDevices => DeviceFits(d)',
           pairingSpent'.faults = 0 => Orderly(h, d) /\ (d \in NewDevices => VerdictFits(d)')
    PROVE  PairingInv'
<1>1. \A e \in NewDevices : DeviceFits(e)'
  BY OtherDevicesFit
<1>2. \A g \in Servers : JobFits(g)'
  BY OtherJobsFit
<1>3. VerdictsFit'
  BY OthersAgree DEF VerdictsFit
<1>4. EnrolledOnce'
  <2>1. \A g \in Servers, e \in NewDevices : g # h /\ Enrols(g, e)' => Enrols(g, e) /\ e # d
    BY DEF Moves, Enrols
  <2>2. \A g \in Servers, e \in NewDevices : g # h /\ Enrols(g, e)' => ~Enrols(h, e)'
    BY <2>1 DEF PairingInv, EnrolledOnce
  <2> QED BY <2>1, <2>2 DEF PairingInv, EnrolledOnce
<1> QED BY <1>1, <1>2, <1>3, <1>4 DEF PairingInv

----------------------------------------------------------------------------
(* Writes of each store                                                    *)

\* Stores that are left alone, or where the oldest write settles.
LEMMA DevicesRest ==
    ASSUME Shape, NEW d,
           \/ newDevices' = newDevices
           \/ \E h : Settles(newDevices, h) /\ newDevices' \in {Landed(newDevices), Rejected(newDevices)}
    PROVE  DevicesMove(d) /\ newDevices'.cache = newDevices.cache
<1>1. \A e, X : Keeps(DeviceMap, newDevices, newDevices, e, X)
  BY DEF Keeps
<1>2. /\ newDevices'.cache = newDevices.cache
      /\ \A e, X : Keeps(DeviceMap, newDevices, newDevices', e, X)
  <2>1. CASE newDevices' = newDevices
    BY <1>1, <2>1
  <2>2. ASSUME NEW h, Settles(newDevices, h), newDevices' \in {Landed(newDevices), Rejected(newDevices)}
        PROVE  /\ newDevices'.cache = newDevices.cache
               /\ \A e, X : Keeps(DeviceMap, newDevices, newDevices', e, X)
    <3>1. newDevices \in Collections(DeviceMap, Servers)
      BY DEF Shape, Stored
    <3> QED BY <2>2, <3>1, OldestFacts
  <2> QED BY <2>1, <2>2
<1> QED BY <1>2 DEF DevicesMove

\* Likewise for the claims,
LEMMA ClaimsRest ==
    ASSUME Shape, NEW d,
           \/ claims' = claims
           \/ \E h : Settles(claims, h) /\ claims' \in {Landed(claims), Rejected(claims)}
    PROVE  ClaimsMove(d) /\ claims'.cache = claims.cache
<1>1. \A e, X : Keeps(ClaimMap, claims, claims, e, X)
  BY DEF Keeps
<1>2. /\ claims'.cache = claims.cache
      /\ \A e, X : Keeps(ClaimMap, claims, claims', e, X)
  <2>1. CASE claims' = claims
    BY <1>1, <2>1
  <2>2. ASSUME NEW h, Settles(claims, h), claims' \in {Landed(claims), Rejected(claims)}
        PROVE  /\ claims'.cache = claims.cache
               /\ \A e, X : Keeps(ClaimMap, claims, claims', e, X)
    <3>1. claims \in Collections(ClaimMap, Servers)
      BY DEF Shape, Stored
    <3> QED BY <2>2, <3>1, OldestFacts
  <2> QED BY <2>1, <2>2
<1> QED BY <1>2 DEF ClaimsMove

\* and for the sessions.
LEMMA FirstRest ==
    ASSUME Shape, NEW d,
           \/ firstSessions' = firstSessions
           \/ \E h : /\ Settles(firstSessions, h)
                     /\ firstSessions' \in {Landed(firstSessions), Rejected(firstSessions)}
    PROVE  FirstMove(d)
<1>1. ASSUME NEW e \in NewDevices, Everywhere(firstSessions, NoSession(e))
      PROVE  Everywhere(firstSessions', NoSession(e))
  <2>1. CASE firstSessions' = firstSessions
    BY <1>1, <2>1
  <2>2. ASSUME NEW h, Settles(firstSessions, h),
               firstSessions' \in {Landed(firstSessions), Rejected(firstSessions)}
        PROVE  Everywhere(firstSessions', NoSession(e))
    <3>1. firstSessions \in Collections(CountMap, Servers)
      BY DEF Shape, Stored
    <3>2. Keeps(CountMap, firstSessions, firstSessions', e, {0})
      BY <2>2, <3>1, OldestFacts
    <3> QED BY <1>1, <3>2 DEF Keeps, NoSession
  <2> QED BY <2>1, <2>2
<1> QED BY <1>1 DEF FirstMove

\* What a device's write does, from its own to the last version.
DeviceWritten(h, d, v) ==
    /\ newDevices'.cache[d] = v
    /\ v \in PairedStatus => Since(newDevices', h, Registered(d))
    /\ v \in {"approved", "rejected"} => Since(newDevices', h, Settled(d))
    /\ (newDevices.cache[d] \in {"approved", "rejected"} => v \in {"approved", "rejected"}) => DevicesMove(d)

\* A device's entry is put.
LEMMA PutDevice ==
    ASSUME NEW h, NEW d \in NewDevices, NEW C, C[d] \in PairedStatus,
           EntryPut(DeviceMap, NewDevices, newDevices, h, d, C, newDevices')
    PROVE  DeviceWritten(h, d, C[d])
<1>1. /\ newDevices'.cache = C
      /\ \A e \in NewDevices : e # d => C[e] = newDevices.cache[e]
  BY DEF EntryPut, OnlyAt
<1>2. C[d] \in PairedStatus => Since(newDevices', h, Registered(d))
  BY DEF EntryPut, Registered
<1>3. C[d] \in {"approved", "rejected"} => Since(newDevices', h, Settled(d))
  BY DEF EntryPut, Settled
<1>4. ASSUME newDevices.cache[d] \in {"approved", "rejected"} => C[d] \in {"approved", "rejected"}
      PROVE  DevicesMove(d)
  <2>1. \A e \in NewDevices : \A X :
           (e = d /\ newDevices.cache[d] \in X => C[d] \in X) => Keeps(DeviceMap, newDevices, newDevices', e, X)
    BY DEF EntryPut
  <2> QED BY <1>1, <1>4, <2>1 DEF DevicesMove
<1> QED BY <1>1, <1>2, <1>3, <1>4 DEF DeviceWritten

\* A device is registered or decided.
LEMMA DeviceWrite ==
    ASSUME Shape, NEW h \in Servers, NEW d \in NewDevices, NEW C \in DeviceMap, C[d] \in PairedStatus,
           OnlyAt(d, NewDevices, newDevices.cache, C), newDevices' = Update(newDevices, h, C),
           NEW now \in DeviceSteps, handling[h].at \notin DeviceSteps
    PROVE  /\ Acts(newDevices, newDevices', DeviceMap, h, handling[h].at, now, DeviceSteps)
           /\ DeviceWritten(h, d, C[d])
           /\ \A a, b \in Servers : Precedes(newDevices, a, b) => Precedes(newDevices', a, b)
           /\ \A a \in Waiting(newDevices) : Precedes(newDevices', a, h)
<1>1. newDevices \in Collections(DeviceMap, Servers) /\ h \notin Waiting(newDevices)
  BY DEF Shape, Stored, Waits, Awaited
<1>2. EntryPut(DeviceMap, NewDevices, newDevices, h, d, C, newDevices')
  BY <1>1, PutFacts
<1>3. DeviceWritten(h, d, C[d])
  BY <1>2, PutDevice
<1>4. /\ \A a, b : Precedes(newDevices, a, b) => Precedes(Update(newDevices, h, C), a, b)
      /\ \A a \in Waiting(newDevices) : Precedes(Update(newDevices, h, C), a, h)
  BY <1>1, OrderFacts
<1>5. Acts(newDevices, newDevices', DeviceMap, h, handling[h].at, now, DeviceSteps)
  BY DEF Acts
<1> QED BY <1>3, <1>4, <1>5

\* A device is approved by the handler that has just registered it.
LEMMA DeviceRewrite ==
    ASSUME Shape, NEW h \in Servers, NEW d \in NewDevices, NEW C \in DeviceMap, C[d] \in PairedStatus,
           OnlyAt(d, NewDevices, newDevices.cache, C), newDevices' = Update(Landed(newDevices), h, C),
           NEW now \in DeviceSteps, handling[h].at \in DeviceSteps, Settles(newDevices, h)
    PROVE  /\ Acts(newDevices, newDevices', DeviceMap, h, handling[h].at, now, DeviceSteps)
           /\ DeviceWritten(h, d, C[d])
           /\ \A a, b \in Servers : a # h /\ Precedes(newDevices, a, b) => Precedes(newDevices', a, b)
<1>1. newDevices \in Collections(DeviceMap, Servers) /\ Single(newDevices, Servers)
  BY DEF Shape, Stored, Waits, Awaited
<1>2. EntryPut(DeviceMap, NewDevices, newDevices, h, d, C, newDevices')
  BY <1>1, RewrittenFacts
<1>3. DeviceWritten(h, d, C[d])
  BY <1>2, PutDevice
<1>4. PICK mid : mid = Landed(newDevices)
  OBVIOUS
<1>5. mid \in Collections(DeviceMap, Servers) /\ newDevices' = Update(mid, h, C)
  BY <1>1, <1>4, OldestFacts
<1>6. \A a, b \in Servers : a # h /\ Precedes(newDevices, a, b) => Precedes(mid, a, b)
  BY <1>1, <1>4, OrderFacts
<1>7. \A a, b \in Servers : Precedes(mid, a, b) => Precedes(newDevices', a, b)
  BY <1>5, OrderFacts
<1>8. Acts(newDevices, newDevices', DeviceMap, h, handling[h].at, now, DeviceSteps)
  BY DEF Acts
<1> QED BY <1>3, <1>6, <1>7, <1>8

\* The oldest write of the devices lands: nobody is overtaken, and who awaited
\* it finds that all versions are what they were from it on.
LEMMA DeviceLands ==
    ASSUME Shape, NEW h \in Servers, Settles(newDevices, h), newDevices' = Landed(newDevices)
    PROVE  /\ newDevices'.cache = newDevices.cache
           /\ \A S : Since(newDevices, h, S) => Everywhere(newDevices', S)
           /\ \A a, b \in Servers : a # h /\ Precedes(newDevices, a, b) => Precedes(newDevices', a, b)
           /\ \A a : ~Precedes(newDevices, a, h)
<1>1. newDevices \in Collections(DeviceMap, Servers) /\ Single(newDevices, Servers)
  BY DEF Shape, Stored, Waits, Awaited
<1>2. /\ newDevices'.cache = newDevices.cache
      /\ \A S : Since(newDevices, h, S) => Everywhere(newDevices', S)
  BY <1>1, OldestFacts
<1>3. /\ \A a, b \in Servers : a # h /\ Precedes(newDevices, a, b) => Precedes(newDevices', a, b)
      /\ \A a : ~Precedes(newDevices, a, h)
  BY <1>1, OrderFacts
<1> QED BY <1>2, <1>3

\* A claim is filed or changed.
LEMMA ClaimWrite ==
    ASSUME Shape, NEW h \in Servers, NEW d \in NewDevices, NEW C \in ClaimMap, C[d] \in Claim,
           OnlyAt(d, NewDevices, claims.cache, C), claims' = Update(claims, h, C),
           NEW now \in ClaimSteps, handling[h].at \notin ClaimSteps
    PROVE  /\ Acts(claims, claims', ClaimMap, h, handling[h].at, now, ClaimSteps)
           /\ claims'.cache = C /\ ClaimsMove(d) /\ Since(claims', h, Filed(d))
           /\ C[d].status # "approved" /\ Everywhere(claims, Unapproved(d))
                 => Everywhere(claims', Unapproved(d))
<1>1. claims \in Collections(ClaimMap, Servers) /\ h \notin Waiting(claims)
  BY DEF Shape, Stored, Waits, Awaited
<1>2. EntryPut(ClaimMap, NewDevices, claims, h, d, C, claims')
  BY <1>1, PutFacts
<1>3. claims'.cache = C /\ Since(claims', h, Filed(d))
  BY <1>2 DEF EntryPut, Filed
<1>4. ClaimsMove(d)
  <2>1. \A e \in NewDevices : \A X :
           (e = d /\ claims.cache[d] \in X => C[d] \in X) => Keeps(ClaimMap, claims, claims', e, X)
    BY <1>2 DEF EntryPut
  <2> QED BY <1>3, <2>1 DEF ClaimsMove, OnlyAt
<1>5. C[d].status # "approved" /\ Everywhere(claims, Unapproved(d)) => Everywhere(claims', Unapproved(d))
  BY <1>2 DEF EntryPut, Unapproved
<1>6. Acts(claims, claims', ClaimMap, h, handling[h].at, now, ClaimSteps)
  BY DEF Acts
<1> QED BY <1>3, <1>4, <1>5, <1>6

\* The claims' oldest write lands.
LEMMA ClaimLands ==
    ASSUME Shape, NEW h \in Servers, Settles(claims, h), claims' = Landed(claims)
    PROVE  \A S : Since(claims, h, S) => Everywhere(claims', S)
<1>1. claims \in Collections(ClaimMap, Servers)
  BY DEF Shape, Stored
<1> QED BY <1>1, OldestFacts

\* A session is created for one device.
LEMMA FirstWrite ==
    ASSUME Shape, NEW h \in Servers, NEW d \in NewDevices, NEW C \in CountMap,
           OnlyAt(d, NewDevices, firstSessions.cache, C), firstSessions' = Update(firstSessions, h, C),
           NEW now \in FirstSteps, handling[h].at \notin FirstSteps
    PROVE  /\ Acts(firstSessions, firstSessions', CountMap, h, handling[h].at, now, FirstSteps)
           /\ FirstMove(d)
<1>1. firstSessions \in Collections(CountMap, Servers) /\ h \notin Waiting(firstSessions)
  BY DEF Shape, Stored, Waits, Awaited
<1>2. EntryPut(CountMap, NewDevices, firstSessions, h, d, C, firstSessions')
  BY <1>1, PutFacts
<1>3. \A e \in NewDevices : e # d => Keeps(CountMap, firstSessions, firstSessions', e, {0})
  BY <1>2 DEF EntryPut
<1>4. Acts(firstSessions, firstSessions', CountMap, h, handling[h].at, now, FirstSteps)
  BY DEF Acts
<1> QED BY <1>3, <1>4 DEF FirstMove, Keeps, NoSession

----------------------------------------------------------------------------
(* What the steps have in common                                           *)

\* A suspended handler.
LEMMA JobFacts ==
    ASSUME PairingInv, NEW h \in Servers
    PROVE  /\ Shape /\ handling[h] \in PairingJob /\ JobShape(handling[h]) /\ JobFits(h)
           /\ handling[h].d \in NewDevices \cup {NoOne}
           /\ handling[h].d \in NewDevices => origin[handling[h].d] # NoOne /\ DeviceFits(handling[h].d)
           /\ ~Enrols(h, NoOne) /\ NoOne \notin NewDevices
<1>1. Shape /\ handling[h] \in PairingJob /\ JobShape(handling[h]) /\ JobFits(h)
  BY DEF PairingInv, Shape
<1>2. NoOne \notin NewDevices /\ handling[h].d \in NewDevices \cup {NoOne}
  BY <1>1, NoOneAssumption DEF PairingJob
<1>3. handling[h].d \in NewDevices => origin[handling[h].d] # NoOne /\ DeviceFits(handling[h].d)
  BY <1>1, <1>2 DEF JobFits, PairingInv
<1>4. ~Enrols(h, NoOne)
  BY <1>1, <1>2 DEF Enrols, JobShape, DeviceSteps
<1> QED BY <1>1, <1>2, <1>3, <1>4

\* Nothing is awaited, and nothing relied on, without a job.
LEMMA NoJob ==
    /\ NoHandling \in PairingJob /\ JobShape(NoHandling)
    /\ NoHandling.at = "free" /\ NoHandling.i = NoOne /\ NoHandling.d = NoOne
BY DEF PairingJob, NoHandling, PairingStep, JobShape, InviteSteps, DeviceSteps, ClaimSteps, FirstSteps

\* Whoever is free is in no step.
LEMMA FreeSteps ==
    ASSUME NEW h, CanServe(h)
    PROVE  /\ handling[h].at = "free" /\ handling[h].d = NoOne
           /\ handling[h].at \notin InviteSteps /\ handling[h].at \notin DeviceSteps
           /\ handling[h].at \notin ClaimSteps /\ handling[h].at \notin FirstSteps
BY NoJob DEF CanServe, InviteSteps, DeviceSteps, ClaimSteps, FirstSteps

\* A handler awaits one store at a time.
LEMMA StepsApart ==
    /\ "free" \notin InviteSteps \cup DeviceSteps \cup ClaimSteps \cup FirstSteps
    /\ InviteSteps \cap DeviceSteps = {} /\ InviteSteps \cap ClaimSteps = {}
    /\ InviteSteps \cap FirstSteps = {} /\ DeviceSteps \cap ClaimSteps = {}
    /\ DeviceSteps \cap FirstSteps = {} /\ ClaimSteps \cap FirstSteps = {}
BY DEF InviteSteps, DeviceSteps, ClaimSteps, FirstSteps

\* A bound is used up by one.
LEMMA Spending ==
    ASSUME Shape, NEW what \in {"decisions", "tries", "lost", "faults"}, SpendOne(what)
    PROVE  /\ pairingSpent' \in [decisions : Nat, tries : Nat, lost : Nat, faults : Nat]
           /\ what = "faults" => pairingSpent'.faults # 0
           /\ what # "faults" => pairingSpent'.faults = pairingSpent.faults
<1>1. pairingSpent \in [decisions : Nat, tries : Nat, lost : Nat, faults : Nat]
  BY DEF Shape, History
<1> QED BY <1>1 DEF SpendOne

\* The history of a step that neither registers nor approves.
LEMMA HistoryRests ==
    ASSUME UNCHANGED <<requireAdminApproval, origin, approvers>>, NEW d
    PROVE  HistoryMoves(d)
BY DEF HistoryMoves

\* Whoever is about a device that is filed enrols nobody, and nobody decides
\* about one that is not.
LEMMA FiledOrNot ==
    ASSUME PairingInv, NEW d \in NewDevices
    PROVE  /\ claims.cache[d] # NoOne => \A g \in Servers : ~Enrols(g, d)
           /\ claims.cache[d] = NoOne => \A g \in Servers : ~Decides(g, d)
BY DEF PairingInv, JobFits, Enrols, Decides

\* A device nobody has registered concerns nobody.
LEMMA NotYetRegistered ==
    ASSUME PairingInv, NEW d \in NewDevices, origin[d] = NoOne
    PROVE  /\ newDevices.cache[d] = NoOne /\ claims.cache[d] = NoOne
           /\ \A g \in Servers : handling[g].d # d
<1>1. Everywhere(newDevices, Unknown(d)) /\ Everywhere(claims, Unfiled(d))
  BY DEF PairingInv, DeviceFits
<1>2. newDevices.cache \in Unknown(d) /\ claims.cache \in Unfiled(d)
  BY <1>1, VersionFacts DEF PairingInv, Shape, Stored
<1>3. \A g \in Servers : handling[g].d # d
  BY JobFacts
<1> QED BY <1>2, <1>3 DEF Unknown, Unfiled, Having

\* The claim the app polls stays filed.
LEMMA PolledStays ==
    ASSUME PairingInv, NEW d, ClaimsMove(d),
           app'.phase \in {"polling", "asking"} =>
               app.phase \in {"polling", "asking"} /\ app'.claim = app.claim
    PROVE  PolledIsFiled'
<1> SUFFICES ASSUME app'.phase \in {"polling", "asking"} PROVE Everywhere(claims', Filed(app'.claim))
  BY DEF PolledIsFiled, Filed, ClaimMap, Claim, ClaimStatus
<1>1. app.claim \in NewDevices /\ Everywhere(claims, Filed(app.claim)) /\ app'.claim = app.claim
  BY DEF PairingInv, Shape, Onboarding, PolledIsFiled
<1> QED BY <1>1 DEF ClaimsMove, Keeps, Filed

----------------------------------------------------------------------------
(* Invites                                                                 *)

\* What is used stays so.
InvitesMove == \A i \in Invites : Keeps(InviteMap, invites, invites', i, {"used"})

\* When no invite is written they are kept,
LEMMA InvitesRest ==
    ASSUME Shape,
           \/ invites' = invites
           \/ \E h : Settles(invites, h) /\ invites' \in {Landed(invites), Rejected(invites)}
    PROVE  InvitesMove
<1>1. CASE invites' = invites
  BY <1>1 DEF InvitesMove, Keeps
<1>2. ASSUME NEW h, Settles(invites, h), invites' \in {Landed(invites), Rejected(invites)}
      PROVE  InvitesMove
  <2>1. invites \in Collections(InviteMap, Servers)
    BY DEF Shape, Stored
  <2> QED BY <1>2, <2>1, OldestFacts DEF InvitesMove
<1> QED BY <1>1, <1>2

\* An invite is created or consumed.
LEMMA InviteWrite ==
    ASSUME Shape, NEW h \in Servers, NEW i \in Invites, NEW C \in InviteMap,
           OnlyAt(i, Invites, invites.cache, C), invites' = Update(invites, h, C),
           NEW now \in InviteSteps, handling[h].at \notin InviteSteps, invites.cache[i] # "used"
    PROVE  /\ Acts(invites, invites', InviteMap, h, handling[h].at, now, InviteSteps)
           /\ InvitesMove
           /\ C[i] = "used" => Since(invites', h, Used(i))
<1>1. invites \in Collections(InviteMap, Servers) /\ h \notin Waiting(invites)
  BY DEF Shape, Stored, Waits, Awaited
<1>2. EntryPut(InviteMap, Invites, invites, h, i, C, invites')
  BY <1>1, PutFacts
<1>3. InvitesMove /\ (C[i] = "used" => Since(invites', h, Used(i)))
  BY <1>2 DEF EntryPut, InvitesMove, Used
<1>4. Acts(invites, invites', InviteMap, h, handling[h].at, now, InviteSteps)
  BY DEF Acts
<1> QED BY <1>3, <1>4

\* A claim under way relies on the same, and so do the devices.
LEMMA ConsumingStays ==
    ASSUME PairingInv, InvitesMove, NEW g \in Servers, handling[g].at = "consuming"
    PROVE  handling[g].i \in Invites /\ Since(invites', g, Used(handling[g].i))
<1>1. g \in Waiting(invites) /\ handling[g].i \in Invites
  BY DEF PairingInv, Shape, Waits, Awaited, JobShape, InviteSteps
<1>2. Since(invites, g, Used(handling[g].i))
  BY DEF PairingInv, InvitesFit
<1> QED BY <1>1, <1>2 DEF InvitesMove, Keeps, Used

\* The invite of a device stays used.
LEMMA OriginStays ==
    ASSUME PairingInv, InvitesMove, NEW d \in NewDevices, origin[d] # NoOne
    PROVE  Everywhere(invites', Used(origin[d])) /\ origin[d] \in Invites
<1>1. origin[d] \in Invites /\ Everywhere(invites, Used(origin[d]))
  BY DEF PairingInv, Shape, History, InvitesFit
<1> QED BY <1>1 DEF InvitesMove, Keeps, Used

\* Steps that neither consume an invite nor register a device.
LEMMA InvitesStay ==
    ASSUME PairingInv, InvitesMove, origin' = origin,
           \A g \in Servers : handling'[g].at = "consuming" => handling'[g] = handling[g]
    PROVE  InvitesFit'
<1>1. ASSUME NEW g \in Servers, handling'[g].at = "consuming"
      PROVE  /\ Since(invites', g, Used(handling'[g].i))
             /\ \A d \in NewDevices : origin'[d] # handling'[g].i
             /\ \A k \in Servers : handling'[k].at = "consuming" /\ handling'[k].i = handling'[g].i => k = g
  BY <1>1, ConsumingStays DEF PairingInv, InvitesFit
<1>2. ASSUME NEW d \in NewDevices, origin'[d] # NoOne
      PROVE  /\ Everywhere(invites', Used(origin'[d]))
             /\ \A e \in NewDevices : origin'[e] = origin'[d] => e = d
  BY <1>2, OriginStays DEF PairingInv, InvitesFit
<1>3. \A i : Used(i)' = Used(i)
  BY DEF Used, InviteMap
<1> QED BY <1>1, <1>2, <1>3 DEF InvitesFit

----------------------------------------------------------------------------
(* Steps that leave devices, claims and invites what they are              *)

\* A handler goes on, while in the stores at most the oldest writes settle, and
\* none of the devices unless it is rejected.
Quiet(h, J) ==
    /\ Turns(h, J) /\ J.at \notin {"consuming", "registering", "approving", "deciding"}
    /\ InvitesMove /\ DevicesMove(NoOne) /\ ClaimsMove(NoOne) /\ FirstMove(NoOne)
    /\ UNCHANGED <<requireAdminApproval, origin, approvers>>
    /\ pairingSpent'.faults = 0 =>
          pairingSpent.faults = 0 /\ newDevices' = newDevices /\ handling[h].at # "deciding"

\* Such a step keeps the invariant.
LEMMA QuietStep ==
    ASSUME PairingInv, NEW h \in Servers, NEW J, Quiet(h, J), Onboarding', History',
           PolledIsFiled', JobFits(h)'
    PROVE  PairingInv'
<1>1. /\ Shape' /\ handling'[h] = J
      /\ \A g \in Servers : g # h => handling'[g] = handling[g]
  BY ShapeStep DEF PairingInv, Quiet
<1>2. \A g \in Servers : ~Enrols(g, NoOne)
  BY JobFacts
<1>3. NoOne \notin NewDevices
  BY NoOneAssumption
<1>4. InvitesFit'
  BY <1>1, InvitesStay DEF Quiet
<1>5. Moves(h, NoOne)
  BY <1>1, <1>2, HistoryRests DEF Quiet, Moves
<1>6. \A e \in NewDevices : ~Enrols(h, e)'
  BY <1>1 DEF Enrols, Quiet
<1>7. pairingSpent'.faults = 0 => Orderly(h, NoOne)
  BY <1>1 DEF Orderly, Decides, Quiet
<1> QED BY <1>1, <1>3, <1>4, <1>5, <1>6, <1>7, Advance

\* A handler that is done relies on nothing.
LEMMA DoneFits ==
    ASSUME NEW h, handling'[h] = NoHandling
    PROVE  JobFits(h)'
BY NoJob DEF JobFits

\* createInvite() begins, and is done when its write settles.
LEMMA CreateInviteInv ==
    ASSUME PairingInv, NEW h \in Servers, NEW i \in Invites, CreateInvite(h, i)
    PROVE  PairingInv'
<1>1. /\ Shape /\ Onboarding /\ History /\ PolledIsFiled
      /\ handling[h].at = "free" /\ handling[h].d = NoOne
      /\ handling[h].at \notin InviteSteps /\ handling[h].at \notin DeviceSteps
      /\ handling[h].at \notin ClaimSteps /\ handling[h].at \notin FirstSteps
  BY FreeSteps DEF CreateInvite, PairingInv, Shape
<1>2. /\ newDevices' = newDevices /\ claims' = claims /\ firstSessions' = firstSessions
      /\ UNCHANGED <<requireAdminApproval, due, app, origin, approvers, handed, pairingSpent>>
      /\ invites' = Update(invites, h, [invites.cache EXCEPT ![i] = "open"])
      /\ invites.cache[i] # "used"
  BY NoOneAssumption DEF CreateInvite, pairingHistory
<1>3. PICK J : J = [NoHandling EXCEPT !.at = "inviting", !.i = i]
  OBVIOUS
<1>4. J \in PairingJob /\ J.at = "inviting" /\ J.i = i /\ J.d = NoOne
  BY <1>3 DEF NoHandling, PairingJob, PairingStep
<1>5. handling' = [handling EXCEPT ![h] = J]
  BY <1>3 DEF CreateInvite, Await
<1>6. /\ J.at \in InviteSteps /\ J.at \notin DeviceSteps /\ J.at \notin ClaimSteps
      /\ J.at \notin FirstSteps /\ JobShape(J)
  BY <1>4 DEF JobShape, InviteSteps, DeviceSteps, ClaimSteps, FirstSteps
<1>7. /\ InvitesMove /\ DevicesMove(NoOne) /\ ClaimsMove(NoOne) /\ FirstMove(NoOne)
      /\ Acts(invites, invites', InviteMap, h, handling[h].at, J.at, InviteSteps)
  <2>1. /\ InvitesMove
        /\ Acts(invites, invites', InviteMap, h, handling[h].at, J.at, InviteSteps)
    <3>1. PICK C : C = [invites.cache EXCEPT ![i] = "open"]
      OBVIOUS
    <3>2. C \in InviteMap /\ OnlyAt(i, Invites, invites.cache, C)
      BY <1>1, <3>1 DEF Shape, Stored, Collections, InviteMap, OnlyAt
    <3>3. invites' = Update(invites, h, C)
      BY <1>2, <3>1
    <3> QED BY <1>1, <1>2, <1>6, <3>2, <3>3, InviteWrite
  <2>2. DevicesMove(NoOne)
    BY <1>1, <1>2, DevicesRest
  <2>3. ClaimsMove(NoOne)
    BY <1>1, <1>2, ClaimsRest
  <2>4. FirstMove(NoOne)
    BY <1>1, <1>2, FirstRest
  <2> QED BY <2>1, <2>2, <2>3, <2>4
<1>8. Turns(h, J)
  <2>2. Acts(newDevices, newDevices', DeviceMap, h, handling[h].at, J.at, DeviceSteps)
    BY <1>1, <1>2, <1>6, ActsIdle
  <2>3. Acts(claims, claims', ClaimMap, h, handling[h].at, J.at, ClaimSteps)
    BY <1>1, <1>2, <1>6, ActsIdle
  <2>4. Acts(firstSessions, firstSessions', CountMap, h, handling[h].at, J.at, FirstSteps)
    BY <1>1, <1>2, <1>6, ActsIdle
  <2> QED BY <1>4, <1>5, <1>6, <1>7, <2>2, <2>3, <2>4 DEF Turns
<1>9. Quiet(h, J)
  BY <1>1, <1>2, <1>4, <1>7, <1>8 DEF Quiet
<1>10. Onboarding' /\ History' /\ PolledIsFiled'
  BY <1>1, <1>2 DEF Onboarding, History, PolledIsFiled
<1>11. JobFits(h)'
  <2>1. handling'[h] = J
    BY <1>1, <1>5 DEF Shape
  <2> QED BY <1>4, <2>1 DEF JobFits
<1> QED BY <1>9, <1>10, <1>11, QuietStep

\* The write that h awaits settles, and no other store is touched.
SettledFor(h) ==
    \/ /\ handling[h].at \in InviteSteps /\ Settles(invites, h) /\ invites' \in {Landed(invites), Rejected(invites)}
       /\ UNCHANGED <<newDevices, claims, firstSessions>>
    \/ /\ handling[h].at \in DeviceSteps /\ Settles(newDevices, h)
       /\ newDevices' \in {Landed(newDevices), Rejected(newDevices)}
       /\ UNCHANGED <<invites, claims, firstSessions>>
    \/ /\ handling[h].at \in ClaimSteps /\ Settles(claims, h) /\ claims' \in {Landed(claims), Rejected(claims)}
       /\ UNCHANGED <<invites, newDevices, firstSessions>>
    \/ /\ handling[h].at \in FirstSteps /\ Settles(firstSessions, h)
       /\ firstSessions' \in {Landed(firstSessions), Rejected(firstSessions)}
       /\ UNCHANGED <<invites, newDevices, claims>>

\* Whoever awaited it is free then, and every store sees it.
LEMMA SettledTurns ==
    ASSUME Shape, NEW h \in Servers, SettledFor(h), handling' = [handling EXCEPT ![h] = NoHandling]
    PROVE  /\ Turns(h, NoHandling)
           /\ InvitesMove /\ DevicesMove(NoOne) /\ ClaimsMove(NoOne) /\ FirstMove(NoOne)
<1>1. /\ NoHandling \in PairingJob /\ JobShape(NoHandling)
      /\ NoHandling.at \notin InviteSteps /\ NoHandling.at \notin DeviceSteps
      /\ NoHandling.at \notin ClaimSteps /\ NoHandling.at \notin FirstSteps
  BY NoJob, StepsApart
<1>2. \A s : /\ s \in InviteSteps => s \notin DeviceSteps /\ s \notin ClaimSteps /\ s \notin FirstSteps
             /\ s \in DeviceSteps => s \notin ClaimSteps /\ s \notin FirstSteps
             /\ s \in ClaimSteps => s \notin FirstSteps
  BY StepsApart
<1>3. Acts(invites, invites', InviteMap, h, handling[h].at, NoHandling.at, InviteSteps)
  BY <1>1, <1>2 DEF Acts, SettledFor
<1>4. Acts(newDevices, newDevices', DeviceMap, h, handling[h].at, NoHandling.at, DeviceSteps)
  BY <1>1, <1>2 DEF Acts, SettledFor
<1>5. Acts(claims, claims', ClaimMap, h, handling[h].at, NoHandling.at, ClaimSteps)
  BY <1>1, <1>2 DEF Acts, SettledFor
<1>6. Acts(firstSessions, firstSessions', CountMap, h, handling[h].at, NoHandling.at, FirstSteps)
  BY <1>1, <1>2 DEF Acts, SettledFor
<1>7. InvitesMove
  BY InvitesRest DEF SettledFor
<1>8. DevicesMove(NoOne)
  BY DevicesRest DEF SettledFor
<1>9. ClaimsMove(NoOne)
  BY ClaimsRest DEF SettledFor
<1>10. FirstMove(NoOne)
  BY FirstRest DEF SettledFor
<1> QED BY <1>1, <1>3, <1>4, <1>5, <1>6, <1>7, <1>8, <1>9, <1>10 DEF Turns

\* A handler is done with what it does, or its write was rejected.
LEMMA DoneStep ==
    ASSUME PairingInv, NEW h \in Servers, Done(h), SettledFor(h),
           UNCHANGED <<requireAdminApproval, origin, approvers>>,
           pairingSpent'.faults = 0 =>
               pairingSpent.faults = 0 /\ newDevices' = newDevices /\ handling[h].at # "deciding",
           Onboarding', History', PolledIsFiled'
    PROVE  PairingInv'
<1>1. Shape /\ NoHandling.at = "free" /\ handling' = [handling EXCEPT ![h] = NoHandling]
  BY NoJob DEF PairingInv, Done
<1>2. Quiet(h, NoHandling)
  BY <1>1, SettledTurns DEF Quiet
<1>3. JobFits(h)'
  <2>1. handling'[h] = NoHandling
    BY <1>1 DEF Shape
  <2> QED BY <2>1, DoneFits
<1> QED BY <1>2, <1>3, QuietStep

\* Steps of no handler.
LEMMA StillStep ==
    ASSUME PairingInv, UNCHANGED <<invites, newDevices, claims, firstSessions, handling>>,
           UNCHANGED <<requireAdminApproval, origin, approvers>>,
           pairingSpent'.faults = pairingSpent.faults, Onboarding', History', PolledIsFiled'
    PROVE  PairingInv'
<1>1. Shape'
  BY DEF PairingInv, Shape, Stored, Waits, Awaited, InviteMap, DeviceMap, ClaimMap, CountMap, JobShape
<1>2. InvitesFit'
  BY DEF PairingInv, InvitesFit, Used, InviteMap
<1>3. EnrolledOnce' /\ VerdictsFit'
  BY DEF PairingInv, EnrolledOnce, Enrols, VerdictsFit, VerdictFits, Decides
<1>4. \A d \in NewDevices : DeviceFits(d)'
  BY DEF PairingInv, DeviceFits, Unknown, Registered, Settled, Unfiled, Unapproved, NoSession,
         DeviceMap, ClaimMap, CountMap
<1>5. \A h \in Servers : JobFits(h)'
  BY DEF PairingInv, JobFits, Registered, Settled, Filed, DeviceMap, ClaimMap
<1> QED BY <1>1, <1>2, <1>3, <1>4, <1>5 DEF PairingInv

\* createInvite() is done when its write settles.
LEMMA InviteCreatedInv ==
    ASSUME PairingInv, NEW h \in Servers, InviteCreated(h)
    PROVE  PairingInv'
<1>1. /\ handling[h].at = "inviting" /\ Settles(invites, h) /\ invites' = Landed(invites) /\ Done(h)
      /\ UNCHANGED <<newDevices, claims, firstSessions, requireAdminApproval, origin, approvers, handed,
                     due, app, pairingSpent>>
  BY DEF InviteCreated, pairingHistory
<1>2. SettledFor(h)
  BY <1>1 DEF SettledFor, InviteSteps
<1>3. Onboarding' /\ History'
  BY <1>1 DEF PairingInv, Shape, Onboarding, History
<1>4. PolledIsFiled'
  BY <1>1 DEF PairingInv, PolledIsFiled, Filed, ClaimMap
<1> QED BY <1>1, <1>2, <1>3, <1>4, DoneStep

\* The answer of a claim: what the app polls from now on is filed.
LEMMA AnswerClaimInv ==
    ASSUME PairingInv, NEW h \in Servers, AnswerClaim(h)
    PROVE  PairingInv'
<1>1. /\ handling[h].at = "filing" /\ Settles(claims, h) /\ claims' = Landed(claims) /\ Done(h)
      /\ UNCHANGED <<invites, newDevices, firstSessions, requireAdminApproval, origin, approvers, handed,
                     due, pairingSpent>>
      /\ app' = IF app.waits = h
                THEN [phase |-> "polling", claim |-> handling[h].d, waits |-> NoOne] ELSE app
  BY DEF AnswerClaim, pairingHistory
<1>2. SettledFor(h)
  BY <1>1 DEF SettledFor, ClaimSteps
<1>3. Shape /\ handling[h].d \in NewDevices /\ JobFits(h)
  BY <1>1, JobFacts DEF JobShape, ClaimSteps
<1>4. Everywhere(claims', Filed(handling[h].d))
  BY <1>1, <1>3, ClaimLands DEF JobFits
<1>5. ClaimsMove(NoOne)
  BY <1>1, <1>3, ClaimsRest
<1>6. History'
  BY <1>1, <1>3 DEF Shape, History
<1>7. CASE app.waits = h
  <2>1. app'.phase = "polling" /\ app'.claim = handling[h].d /\ app'.waits = NoOne
        /\ app' \in [phase : Phase, claim : NewDevices \cup {NoOne}, waits : Servers \cup {NoOne}]
    BY <1>1, <1>3, <1>7 DEF Phase
  <2>2. Onboarding'
    BY <1>3, <2>1 DEF Onboarding
  <2>3. PolledIsFiled'
    <3>1. Everywhere(claims', Having(ClaimMap, app'.claim, Claim))
      BY <1>4, <2>1 DEF Filed
    <3> QED BY <3>1 DEF PolledIsFiled, Filed, ClaimMap
  <2> QED BY <1>1, <1>2, <1>6, <2>2, <2>3, DoneStep DEF ClaimSteps
<1>8. CASE app.waits # h
  <2>1. app' = app
    BY <1>1, <1>8
  <2>2. Onboarding'
    BY <1>3, <2>1 DEF Shape, Onboarding
  <2>3. PolledIsFiled'
    BY <1>5, <2>1, PolledStays
  <2> QED BY <1>1, <1>2, <1>6, <2>2, <2>3, DoneStep
<1> QED BY <1>7, <1>8

\* The answers of polls, with which the onboarding ends.
LEMMA AnswersInv ==
    ASSUME PairingInv, NEW h \in Servers, AnswerExpired(h) \/ AnswerTokens(h)
    PROVE  PairingInv'
<1>1. Shape
  BY DEF PairingInv
<1>2. /\ handling[h].at \in {"expiring", "marking"} /\ Settles(claims, h) /\ claims' = Landed(claims)
      /\ Done(h)
      /\ UNCHANGED <<invites, newDevices, firstSessions, requireAdminApproval, origin, approvers,
                     due, pairingSpent>>
      /\ \/ app' = app
         \/ app' = [app EXCEPT !.phase = "failed", !.waits = NoOne]
         \/ app' = [app EXCEPT !.phase = "paired", !.waits = NoOne]
  BY DEF AnswerExpired, AnswerTokens, pairingHistory
<1>3. handed' \in [NewDevices -> Nat]
  <2>1. handed \in [NewDevices -> Nat]
    BY <1>1 DEF Shape, History
  <2> QED BY <2>1 DEF AnswerExpired, AnswerTokens, pairingHistory
<1>4. SettledFor(h)
  BY <1>2 DEF SettledFor, ClaimSteps
<1>5. ClaimsMove(NoOne)
  BY <1>1, <1>2, ClaimsRest
<1>6. History'
  BY <1>1, <1>2, <1>3 DEF Shape, History
<1>7. Onboarding' /\ (app'.phase \in {"polling", "asking"} => app' = app)
  BY <1>1, <1>2 DEF Shape, Onboarding, Phase
<1>8. PolledIsFiled'
  BY <1>5, <1>7, PolledStays
<1> QED BY <1>2, <1>4, <1>6, <1>7, <1>8, DoneStep

\* A decision is done.
LEMMA DecidedInv ==
    ASSUME PairingInv, NEW h \in Servers, Decided(h)
    PROVE  PairingInv'
<1>1. /\ handling[h].at = "decided" /\ Settles(claims, h) /\ claims' = Landed(claims) /\ Done(h)
      /\ UNCHANGED <<invites, newDevices, firstSessions, requireAdminApproval, origin, approvers, handed,
                     due, app, pairingSpent>>
  BY DEF Decided, pairingHistory
<1>2. SettledFor(h) /\ Shape
  BY <1>1 DEF SettledFor, ClaimSteps, PairingInv
<1>3. Onboarding' /\ History'
  BY <1>1, <1>2 DEF Shape, Onboarding, History
<1>4. ClaimsMove(NoOne)
  BY <1>1, <1>2, ClaimsRest
<1>5. PolledIsFiled'
  BY <1>1, <1>4, PolledStays
<1> QED BY <1>1, <1>2, <1>3, <1>5, DoneStep

\* A write is rejected.
LEMMA WriteFailsInv ==
    ASSUME PairingInv, NEW h \in Servers, PairingWriteFails(h)
    PROVE  PairingInv'
<1>1. Shape
  BY DEF PairingInv
<1>2. /\ \A b : Settles(invites, b) => b \in Waiting(invites)
      /\ \A b : Settles(newDevices, b) => b \in Waiting(newDevices)
      /\ \A b : Settles(claims, b) => b \in Waiting(claims)
      /\ \A b : Settles(firstSessions, b) => b \in Waiting(firstSessions)
  <2>1. \A b : Settles(invites, b) => b \in Waiting(invites)
    BY <1>1, OldestFacts DEF Shape, Stored
  <2>2. \A b : Settles(newDevices, b) => b \in Waiting(newDevices)
    BY <1>1, OldestFacts DEF Shape, Stored
  <2>3. \A b : Settles(claims, b) => b \in Waiting(claims)
    BY <1>1, OldestFacts DEF Shape, Stored
  <2>4. \A b : Settles(firstSessions, b) => b \in Waiting(firstSessions)
    BY <1>1, OldestFacts DEF Shape, Stored
  <2> QED BY <2>1, <2>2, <2>3, <2>4
<1>3. SettledFor(h)
  <2>1. /\ Settles(invites, h) => handling[h].at \in InviteSteps
        /\ Settles(newDevices, h) => handling[h].at \in DeviceSteps
        /\ Settles(claims, h) => handling[h].at \in ClaimSteps
        /\ Settles(firstSessions, h) => handling[h].at \in FirstSteps
    BY <1>1, <1>2 DEF Shape, Waits, Awaited
  <2> QED BY <2>1 DEF PairingWriteFails, SettledFor
<1>4. /\ Done(h) /\ UNCHANGED <<requireAdminApproval, origin, approvers, handed, due>>
      /\ app' = AppAfterError(h) /\ SpendOne("faults")
  BY DEF PairingWriteFails, pairingHistory
<1>5. pairingSpent'.faults # 0
      /\ pairingSpent' \in [decisions : Nat, tries : Nat, lost : Nat, faults : Nat]
  BY <1>1, <1>4, Spending
<1>6. History'
  BY <1>1, <1>4, <1>5 DEF Shape, History
<1>7. /\ Onboarding'
      /\ app'.phase \in {"polling", "asking"} => app.phase \in {"polling", "asking"} /\ app'.claim = app.claim
  <2>1. app' = app \/ /\ app.waits = h
                      /\ app' = [app EXCEPT !.phase = IF @ = "claiming" THEN "scanning" ELSE "polling",
                                            !.waits = NoOne]
    BY <1>4 DEF AppAfterError
  <2>2. h # NoOne
    BY NoOneAssumption
  <2> QED BY <1>1, <2>1, <2>2 DEF Shape, Onboarding, Phase
<1>8. ClaimsMove(NoOne)
  BY <1>1, <1>3, <1>4, SettledTurns DEF Done
<1>9. PolledIsFiled'
  BY <1>7, <1>8, PolledStays
<1> QED BY <1>3, <1>4, <1>5, <1>6, <1>7, <1>9, DoneStep

\* What happens around the handlers, and nothing at all.
LEMMA AroundInv ==
    ASSUME PairingInv,
           \/ \E h \in Servers : PollEnds(h)
           \/ \E d \in NewDevices : ClaimFallsDue(d)
           \/ AppLosesAnswer
           \/ UNCHANGED pairingVars
    PROVE  PairingInv'
<1>1. Shape
  BY DEF PairingInv
<1>2. UNCHANGED <<invites, newDevices, claims, firstSessions, handling, requireAdminApproval, origin,
                  approvers, handed>>
  BY DEF PollEnds, ClaimFallsDue, AppLosesAnswer, pairingVars, pairingStores, pairingHistory
<1>3. due' \subseteq NewDevices
  BY <1>1 DEF PollEnds, ClaimFallsDue, AppLosesAnswer, pairingVars, Shape, History
<1>4. /\ pairingSpent' \in [decisions : Nat, tries : Nat, lost : Nat, faults : Nat]
      /\ pairingSpent'.faults = pairingSpent.faults
  <2>1. pairingSpent' = pairingSpent \/ SpendOne("lost")
    BY DEF PollEnds, ClaimFallsDue, AppLosesAnswer, pairingVars
  <2>2. pairingSpent \in [decisions : Nat, tries : Nat, lost : Nat, faults : Nat]
    BY <1>1 DEF Shape, History
  <2> QED BY <1>1, <2>1, <2>2, Spending
<1>5. History'
  BY <1>1, <1>2, <1>3, <1>4 DEF Shape, History
<1>6. /\ Onboarding'
      /\ app'.phase \in {"polling", "asking"} => app.phase \in {"polling", "asking"} /\ app'.claim = app.claim
  <2>1. \/ app' = app
        \/ app.phase = "polling" /\ app' = [app EXCEPT !.phase = "failed"]
        \/ /\ app.waits # NoOne
           /\ app' = [app EXCEPT !.phase = IF @ = "claiming" THEN "scanning" ELSE "polling",
                                 !.waits = NoOne]
    BY DEF PollEnds, Polls, ClaimFallsDue, AppLosesAnswer, pairingVars
  <2> QED BY <1>1, <2>1 DEF Shape, Onboarding, Phase
<1>7. PolledIsFiled'
  <2>1. ClaimsMove(NoOne)
    BY <1>1, <1>2, ClaimsRest
  <2> QED BY <1>6, <2>1, PolledStays
<1> QED BY <1>2, <1>4, <1>5, <1>6, <1>7, StillStep

\* A restart keeps what is so in every version, and every handler is gone.
LEMMA RestartInv ==
    ASSUME PairingInv, PairingRestarts
    PROVE  PairingInv'
<1>1. Shape
  BY DEF PairingInv
<1>2. /\ UNCHANGED <<requireAdminApproval, origin, approvers, handed, due>> /\ SpendOne("faults")
      /\ app' = IF app.waits # NoOne THEN AppAfterError(app.waits) ELSE app
      /\ handling' = [h \in Servers |-> NoHandling]
  BY DEF PairingRestarts, pairingHistory
<1>3. /\ invites' \in Collections(InviteMap, Servers) /\ Waiting(invites') = {} /\ Single(invites', Servers)
      /\ \A S : Everywhere(invites, S) => Everywhere(invites', S)
  BY <1>1, ReloadedFacts DEF Shape, Stored, PairingRestarts
<1>4. /\ newDevices' \in Collections(DeviceMap, Servers) /\ Waiting(newDevices') = {}
      /\ Single(newDevices', Servers)
      /\ \A S : Everywhere(newDevices, S) => Everywhere(newDevices', S)
  BY <1>1, ReloadedFacts DEF Shape, Stored, PairingRestarts
<1>5. /\ claims' \in Collections(ClaimMap, Servers) /\ Waiting(claims') = {} /\ Single(claims', Servers)
      /\ \A S : Everywhere(claims, S) => Everywhere(claims', S)
  BY <1>1, ReloadedFacts DEF Shape, Stored, PairingRestarts
<1>6. /\ firstSessions' \in Collections(CountMap, Servers) /\ Waiting(firstSessions') = {}
      /\ Single(firstSessions', Servers)
      /\ \A S : Everywhere(firstSessions, S) => Everywhere(firstSessions', S)
  BY <1>1, ReloadedFacts DEF Shape, Stored, PairingRestarts
<1>7. /\ NoHandling \in PairingJob /\ JobShape(NoHandling) /\ NoHandling.d = NoOne
      /\ NoHandling.at = "free"
      /\ NoHandling.at \notin InviteSteps /\ NoHandling.at \notin DeviceSteps
      /\ NoHandling.at \notin ClaimSteps /\ NoHandling.at \notin FirstSteps
  BY NoJob, StepsApart
<1>8. \A h \in Servers : handling'[h] = NoHandling
  BY <1>2
<1>9. pairingSpent'.faults # 0
      /\ pairingSpent' \in [decisions : Nat, tries : Nat, lost : Nat, faults : Nat]
  BY <1>1, <1>2, Spending
<1>10. History'
  BY <1>1, <1>2, <1>9 DEF Shape, History
<1>11. /\ Onboarding'
       /\ app'.phase \in {"polling", "asking"} => app.phase \in {"polling", "asking"} /\ app'.claim = app.claim
  <2>1. app' = app \/ app' = [app EXCEPT !.phase = IF @ = "claiming" THEN "scanning" ELSE "polling",
                                         !.waits = NoOne]
    BY <1>2 DEF AppAfterError
  <2>2. app' = app => app.waits = NoOne
    BY <1>1, <1>2 DEF AppAfterError, Shape, Onboarding
  <2> QED BY <1>1, <1>2, <2>1, <2>2 DEF Shape, Onboarding, Phase, AppAfterError
<1>12. Shape'
  <2>1. Stored'
    BY <1>3, <1>4, <1>5, <1>6 DEF Stored, InviteMap, DeviceMap, ClaimMap, CountMap
  <2>2. Waits'
    BY <1>3, <1>4, <1>5, <1>6, <1>7, <1>8 DEF Waits, Awaited
  <2>3. handling' \in [Servers -> PairingJob] /\ \A h \in Servers : JobShape(handling[h])'
    BY <1>2, <1>7, <1>8 DEF JobShape
  <2> QED BY <1>10, <1>11, <2>1, <2>2, <2>3 DEF Shape
<1>13. InvitesFit'
  BY <1>2, <1>3, <1>7, <1>8 DEF PairingInv, InvitesFit, Used, InviteMap
<1>14. EnrolledOnce'
  BY <1>7, <1>8 DEF EnrolledOnce, Enrols
<1>15. PolledIsFiled'
  BY <1>5, <1>11 DEF PairingInv, PolledIsFiled, Filed, ClaimMap
<1>16. VerdictsFit'
  BY <1>9 DEF VerdictsFit
<1>17. \A d \in NewDevices : DeviceFits(d)'
  BY <1>2, <1>4, <1>5, <1>6 DEF PairingInv, DeviceFits, Unknown, Registered, Settled, Unfiled, Unapproved,
     NoSession, DeviceMap, ClaimMap, CountMap
<1>18. \A h \in Servers : JobFits(h)'
  BY <1>8, DoneFits
<1> QED BY <1>12, <1>13, <1>14, <1>15, <1>16, <1>17, <1>18 DEF PairingInv

\* Nothing is there at first.
LEMMA InitInv ==
    ASSUME PairingInit
    PROVE  PairingInv
<1>1. /\ [i \in Invites |-> NoOne] \in InviteMap /\ [d \in NewDevices |-> NoOne] \in DeviceMap
      /\ [d \in NewDevices |-> NoOne] \in ClaimMap /\ [d \in NewDevices |-> 0] \in CountMap
  BY DEF InviteMap, DeviceMap, ClaimMap, CountMap
<1>2. /\ invites \in Collections(InviteMap, Servers) /\ Waiting(invites) = {} /\ Single(invites, Servers)
  BY <1>1, LoadedFacts DEF PairingInit
<1>3. /\ newDevices \in Collections(DeviceMap, Servers) /\ Waiting(newDevices) = {}
      /\ Single(newDevices, Servers)
      /\ \A S : [d \in NewDevices |-> NoOne] \in S => Everywhere(newDevices, S)
  BY <1>1, LoadedFacts DEF PairingInit
<1>4. /\ claims \in Collections(ClaimMap, Servers) /\ Waiting(claims) = {} /\ Single(claims, Servers)
      /\ \A S : [d \in NewDevices |-> NoOne] \in S => Everywhere(claims, S)
      /\ claims.cache = [d \in NewDevices |-> NoOne]
  BY <1>1, LoadedFacts DEF PairingInit
<1>5. /\ firstSessions \in Collections(CountMap, Servers) /\ Waiting(firstSessions) = {}
      /\ Single(firstSessions, Servers)
      /\ \A S : [d \in NewDevices |-> 0] \in S => Everywhere(firstSessions, S)
  BY <1>1, LoadedFacts DEF PairingInit
<1>6. /\ NoHandling \in PairingJob /\ JobShape(NoHandling) /\ NoHandling.d = NoOne
      /\ NoHandling.at = "free"
      /\ NoHandling.at \notin InviteSteps /\ NoHandling.at \notin DeviceSteps
      /\ NoHandling.at \notin ClaimSteps /\ NoHandling.at \notin FirstSteps
  BY NoJob, StepsApart
<1>7. handling = [h \in Servers |-> NoHandling] /\ \A h \in Servers : handling[h] = NoHandling
  BY DEF PairingInit
<1>8. History /\ Onboarding /\ app.phase = "scanning"
  BY DEF PairingInit, History, Onboarding, Phase
<1>9. Shape
  <2>1. Stored
    BY <1>2, <1>3, <1>4, <1>5 DEF Stored
  <2>2. Waits
    BY <1>2, <1>3, <1>4, <1>5, <1>6, <1>7 DEF Waits, Awaited
  <2> QED BY <1>6, <1>7, <1>8, <2>1, <2>2 DEF Shape
<1>10. \A d \in NewDevices : origin[d] = NoOne /\ claims.cache[d] = NoOne
  BY <1>4 DEF PairingInit
<1>11. InvitesFit /\ EnrolledOnce /\ PolledIsFiled
  BY <1>6, <1>7, <1>8, <1>10 DEF InvitesFit, EnrolledOnce, Enrols, PolledIsFiled
<1>12. VerdictsFit
  BY <1>6, <1>7, <1>10 DEF VerdictsFit, VerdictFits, Decides
<1>13. ASSUME NEW d \in NewDevices PROVE DeviceFits(d)
  <2>1. Everywhere(newDevices, Unknown(d))
    BY <1>1, <1>3 DEF Unknown, Having
  <2>2. Everywhere(claims, Unfiled(d)) /\ Everywhere(claims, Unapproved(d))
    BY <1>1, <1>4 DEF Unfiled, Unapproved, Having
  <2>3. Everywhere(firstSessions, NoSession(d))
    BY <1>1, <1>5 DEF NoSession, Having
  <2> QED BY <2>1, <2>2, <2>3 DEF DeviceFits
<1>14. \A h \in Servers : JobFits(h)
  BY <1>6, <1>7 DEF JobFits
<1> QED BY <1>9, <1>11, <1>12, <1>13, <1>14 DEF PairingInv

----------------------------------------------------------------------------
(* Steps that concern one device                                           *)

\* A step of h that touches device d and no invite.
LEMMA DeviceStep ==
    ASSUME PairingInv, NEW h \in Servers, NEW J, Turns(h, J), J.at # "consuming",
           NEW d \in NewDevices, J.at \in {"registering", "approving"} => J.d = d,
           InvitesMove, DevicesMove(d), ClaimsMove(d), FirstMove(d), HistoryMoves(d), origin' = origin,
           \A g \in Servers : g # h => ~Enrols(g, d),
           Onboarding', History', PolledIsFiled', JobFits(h)', DeviceFits(d)',
           pairingSpent'.faults = 0 => Orderly(h, d) /\ VerdictFits(d)'
    PROVE  PairingInv'
<1>1. /\ Shape' /\ handling'[h] = J
      /\ \A g \in Servers : g # h => handling'[g] = handling[g]
  BY ShapeStep DEF PairingInv
<1>2. InvitesFit'
  BY <1>1, InvitesStay
<1>3. Moves(h, d)
  BY <1>1 DEF Moves
<1>4. \A e \in NewDevices : Enrols(h, e)' => e = d
  BY <1>1 DEF Enrols
<1> QED BY <1>1, <1>2, <1>3, <1>4, Advance

\* A device with a claim is registered.
LEMMA ClaimedFacts ==
    ASSUME PairingInv, NEW d \in NewDevices, claims.cache[d] # NoOne
    PROVE  /\ claims.cache[d] \in Claim /\ origin[d] # NoOne /\ Everywhere(newDevices, Registered(d))
           /\ \A g \in Servers : ~Enrols(g, d)
           /\ claims.cache[d].status = "approved" =>
                 Everywhere(newDevices, Settled(d)) /\ (requireAdminApproval => d \in approvers)
<1>1. DeviceFits(d) /\ claims \in Collections(ClaimMap, Servers)
  BY DEF PairingInv, Shape, Stored
<1>2. /\ Everywhere(claims, Unfiled(d)) => claims.cache \in Unfiled(d)
      /\ Everywhere(claims, Unapproved(d)) => claims.cache \in Unapproved(d)
      /\ claims.cache \in ClaimMap
  BY <1>1, VersionFacts
<1>3. claims.cache[d] \in Claim
  BY <1>2 DEF ClaimMap
<1>4. ~Everywhere(claims, Unfiled(d))
  BY <1>2 DEF Unfiled, Having
<1>5. claims.cache[d].status = "approved" => ~Everywhere(claims, Unapproved(d))
  BY <1>2 DEF Unapproved, Having
<1>6. \A g \in Servers : ~Enrols(g, d)
  BY FiledOrNot
<1> QED BY <1>1, <1>3, <1>4, <1>5, <1>6 DEF DeviceFits

\* The claim the app polls.
LEMMA PolledFacts ==
    ASSUME PairingInv, app.phase = "polling"
    PROVE  /\ app.claim \in NewDevices /\ claims.cache[app.claim] # NoOne
           /\ Everywhere(claims, Filed(app.claim))
<1>1. /\ app.claim \in NewDevices /\ Everywhere(claims, Filed(app.claim))
      /\ claims \in Collections(ClaimMap, Servers)
  BY DEF PairingInv, Shape, Stored, Onboarding, PolledIsFiled
<1>2. claims.cache \in Filed(app.claim)
  BY <1>1, VersionFacts
<1> QED BY <1>1, <1>2, NoOneAssumption DEF Filed, Having

\* Claim and device agree as before when neither the device nor who decides
\* about it changes, and the claim's verdict does not.
LEMMA VerdictStays ==
    ASSUME PairingInv, NEW h \in Servers, NEW d \in NewDevices, newDevices' = newDevices,
           handling[h].at # "deciding", handling'[h].at # "deciding",
           \A g \in Servers : g # h => handling'[g] = handling[g],
           pairingSpent'.faults = pairingSpent.faults, claims.cache[d] # NoOne,
           \A v \in {"approved", "rejected"} : claims'.cache[d].status = v <=> claims.cache[d].status = v
    PROVE  pairingSpent'.faults = 0 => Orderly(h, d) /\ VerdictFits(d)'
<1> SUFFICES ASSUME pairingSpent'.faults = 0 PROVE Orderly(h, d) /\ VerdictFits(d)'
  OBVIOUS
<1>1. VerdictFits(d) /\ pairingSpent.faults = 0
  BY DEF PairingInv, VerdictsFit
<1>2. \A g \in Servers : \A e : Decides(g, e)' <=> Decides(g, e)
  BY DEF Decides
<1>3. \A g \in Servers : \A e : Decides(g, e) => g # h /\ handling'[g] = handling[g]
  BY DEF Decides
<1>4. Orderly(h, d)
  BY <1>1, <1>2, <1>3 DEF Orderly
<1>5. ASSUME NEW g \in Servers, Decides(g, d)'
      PROVE  \/ newDevices'.cache[d] = handling'[g].verdict
             \/ \E k \in Servers : Decides(k, d)' /\ Precedes(newDevices', g, k)
  BY <1>1, <1>2, <1>3, <1>5 DEF VerdictFits
<1>6. (\A g \in Servers : ~Decides(g, d)') =>
          \A v \in {"approved", "rejected"} : claims'.cache[d].status = v <=> newDevices'.cache[d] = v
  BY <1>1, <1>2 DEF VerdictFits
<1>7. VerdictFits(d)'
  BY <1>5, <1>6 DEF VerdictFits
<1> QED BY <1>4, <1>7

\* A claim is put back while it is polled, as expired or with its tokens issued.
LEMMA ClaimChanges ==
    ASSUME PairingInv, NEW h \in Servers, NEW d \in NewDevices, NEW J \in PairingJob, NEW C \in ClaimMap,
           J.at \in {"expiring", "marking"}, J.d = d, handling' = [handling EXCEPT ![h] = J],
           claims' = Update(claims, h, C), OnlyAt(d, NewDevices, claims.cache, C), C[d] \in Claim,
           claims.cache[d] # NoOne, Everywhere(claims, Filed(d)),
           \A v \in {"approved", "rejected"} : C[d].status = v <=> claims.cache[d].status = v,
           newDevices' = newDevices, invites' = invites,
           \/ handling[h].at = "free" /\ firstSessions' = firstSessions
           \/ handling[h].at = "issuing" /\ Settles(firstSessions, h) /\ firstSessions' = Landed(firstSessions),
           UNCHANGED <<requireAdminApproval, origin, approvers>>,
           pairingSpent'.faults = pairingSpent.faults, Onboarding', History',
           app'.phase \in {"polling", "asking"} => app.phase \in {"polling", "asking"} /\ app'.claim = app.claim
    PROVE  PairingInv'
<1>1. Shape
  BY DEF PairingInv
<1>2. /\ J.at \in ClaimSteps /\ J.at \notin DeviceSteps /\ J.at \notin InviteSteps /\ J.at \notin FirstSteps
      /\ handling[h].at \notin ClaimSteps /\ handling[h].at \notin DeviceSteps
      /\ handling[h].at \notin InviteSteps /\ JobShape(J)
  BY DEF ClaimSteps, DeviceSteps, InviteSteps, FirstSteps, JobShape
<1>3. /\ Acts(claims, claims', ClaimMap, h, handling[h].at, J.at, ClaimSteps)
      /\ claims'.cache = C /\ ClaimsMove(d)
      /\ C[d].status # "approved" /\ Everywhere(claims, Unapproved(d)) => Everywhere(claims', Unapproved(d))
  BY <1>1, <1>2, ClaimWrite
<1>4. Acts(newDevices, newDevices', DeviceMap, h, handling[h].at, J.at, DeviceSteps)
  BY <1>2, ActsIdle
<1>5. Acts(invites, invites', InviteMap, h, handling[h].at, J.at, InviteSteps)
  BY <1>2, ActsIdle
<1>6. Acts(firstSessions, firstSessions', CountMap, h, handling[h].at, J.at, FirstSteps)
  BY <1>2 DEF Acts, FirstSteps
<1>7. Turns(h, J)
  BY <1>2, <1>3, <1>4, <1>5, <1>6 DEF Turns
<1>8. /\ handling'[h] = J /\ \A g \in Servers : g # h => handling'[g] = handling[g]
  BY <1>1 DEF Shape
<1>9. DevicesMove(d)
  BY <1>1, DevicesRest
<1>10. FirstMove(d)
  BY <1>1, FirstRest
<1>11. InvitesMove
  BY <1>1, InvitesRest
<1>12. HistoryMoves(d)
  BY HistoryRests
<1>13. /\ origin[d] # NoOne /\ Everywhere(newDevices, Registered(d)) /\ \A g \in Servers : ~Enrols(g, d)
       /\ claims.cache[d].status = "approved" =>
             Everywhere(newDevices, Settled(d)) /\ (requireAdminApproval => d \in approvers)
  BY ClaimedFacts
<1>14. PolledIsFiled'
  BY <1>3, PolledStays
<1>15. JobFits(h)'
  <2>1. Everywhere(claims', Filed(d))
    BY <1>3 DEF ClaimsMove, Keeps, Filed
  <2>2. Everywhere(claims', Having(ClaimMap, handling'[h].d, Claim))
    BY <1>8, <2>1 DEF Filed
  <2> QED BY <1>8, <1>13, <2>2 DEF JobFits, Filed, ClaimMap
<1>16. DeviceFits(d)'
  <2>1. Everywhere(newDevices', Registered(d)) /\ Registered(d)' = Registered(d) /\ Settled(d)' = Settled(d)
        /\ Unapproved(d)' = Unapproved(d) /\ NoSession(d)' = NoSession(d)
    BY <1>13
  <2>2. Everywhere(claims', Unapproved(d)) \/ Everywhere(newDevices', Settled(d))
    BY <1>3, <1>13 DEF PairingInv, DeviceFits
  <2>3. ASSUME requireAdminApproval', d \notin approvers'
        PROVE  Everywhere(claims', Unapproved(d)) /\ Everywhere(firstSessions', NoSession(d))
    <3>1. Everywhere(claims, Unapproved(d)) /\ Everywhere(firstSessions, NoSession(d))
      BY <2>3 DEF PairingInv, DeviceFits
    <3>2. Everywhere(firstSessions', NoSession(d))
      <4>1. CASE firstSessions' = firstSessions
        BY <3>1, <4>1
      <4>2. CASE Settles(firstSessions, h) /\ firstSessions' = Landed(firstSessions)
        <5>1. Keeps(CountMap, firstSessions, firstSessions', d, {0})
          BY <1>1, <4>2, OldestFacts DEF Shape, Stored
        <5> QED BY <3>1, <5>1 DEF Keeps, NoSession
      <4> QED BY <4>1, <4>2
    <3> QED BY <1>3, <1>13, <2>3, <3>1, <3>2
  <2> QED BY <1>13, <2>1, <2>2, <2>3 DEF DeviceFits
<1>17. pairingSpent'.faults = 0 => Orderly(h, d) /\ VerdictFits(d)'
  BY <1>3, <1>8, VerdictStays
<1> QED BY <1>7, <1>9, <1>3, <1>10, <1>11, <1>12, <1>13, <1>14, <1>15, <1>16, <1>17, DeviceStep

\* status() lets a claim expire.
LEMMA PollExpiresInv ==
    ASSUME PairingInv, NEW h \in Servers, PollExpires(h)
    PROVE  PairingInv'
<1>1. PICK d : d = app.claim
  OBVIOUS
<1>2. PICK C : C = [claims.cache EXCEPT ![d].status = "expired"]
  OBVIOUS
<1>3. PICK J : J = [NoHandling EXCEPT !.at = "expiring", !.d = d]
  OBVIOUS
<1>4. /\ CanServe(h) /\ app.phase = "polling" /\ claims.cache[d].status = "waiting_for_approval"
      /\ claims' = Update(claims, h, C) /\ handling' = [handling EXCEPT ![h] = J]
      /\ app' = [app EXCEPT !.phase = "asking", !.waits = h]
      /\ UNCHANGED <<invites, newDevices, firstSessions, requireAdminApproval, origin, approvers, handed,
                     due, pairingSpent>>
  BY <1>1, <1>2, <1>3 DEF PollExpires, Polls, Await, pairingHistory
<1>5. handling[h].at = "free" /\ Shape
  BY <1>4, FreeSteps DEF PairingInv
<1>6. d \in NewDevices /\ claims.cache[d] # NoOne /\ Everywhere(claims, Filed(d))
  BY <1>1, <1>4, PolledFacts
<1>7. claims.cache \in [NewDevices -> Claim \cup {NoOne}] /\ claims.cache[d] \in Claim
  BY <1>5, <1>6 DEF Shape, Stored, Collections, ClaimMap
<1>8. C \in ClaimMap /\ C[d] \in Claim /\ C[d].status = "expired" /\ OnlyAt(d, NewDevices, claims.cache, C)
  BY <1>2, <1>6, <1>7 DEF ClaimMap, OnlyAt, Claim, ClaimStatus
<1>9. J \in PairingJob /\ J.at = "expiring" /\ J.d = d
  BY <1>3, <1>6 DEF NoHandling, PairingJob, PairingStep
<1>10. History' /\ Onboarding'
  BY <1>1, <1>4, <1>5, <1>6 DEF Shape, History, Onboarding, Phase
<1>11. app.phase \in {"polling", "asking"} /\ app'.claim = app.claim
  BY <1>4, <1>5 DEF Shape, Onboarding
<1>12. \A v \in {"approved", "rejected"} : C[d].status = v <=> claims.cache[d].status = v
  BY <1>4, <1>8
<1> QED BY <1>4, <1>5, <1>6, <1>8, <1>9, <1>10, <1>11, <1>12, ClaimChanges

\* markTokensIssued(): the claim is there, since it was polled.
LEMMA MarkIssuedInv ==
    ASSUME PairingInv, NEW h \in Servers, MarkIssued(h)
    PROVE  PairingInv'
<1>1. PICK d : d = handling[h].d
  OBVIOUS
<1>2. PICK C : C = [claims.cache EXCEPT ![d].tokensIssued = TRUE]
  OBVIOUS
<1>3. PICK J : J = [handling[h] EXCEPT !.at = "marking"]
  OBVIOUS
<1>4. handling[h] \in PairingJob /\ JobShape(handling[h]) /\ JobFits(h) /\ Shape
  BY JobFacts
<1>5. /\ handling[h].at = "issuing" /\ Settles(firstSessions, h) /\ firstSessions' = Landed(firstSessions)
      /\ claims' = Update(claims, h, C)
      /\ UNCHANGED <<invites, newDevices, requireAdminApproval, origin, approvers, handed, due, app,
                     pairingSpent>>
  BY <1>1, <1>2 DEF MarkIssued, pairingHistory
<1>6. handling' = [handling EXCEPT ![h] = J]
  BY <1>3, <1>4 DEF MarkIssued, GoOn
<1>7. d \in NewDevices /\ Everywhere(claims, Filed(d))
  <2>1. d \in NewDevices
    BY <1>1, <1>4, <1>5 DEF JobShape, FirstSteps
  <2> QED BY <1>1, <1>4, <1>5, <2>1 DEF JobFits
<1>8. claims.cache \in [NewDevices -> Claim \cup {NoOne}] /\ claims.cache[d] \in Claim /\ claims.cache[d] # NoOne
  <2>1. claims \in Collections(ClaimMap, Servers)
    BY <1>4 DEF Shape, Stored
  <2>2. claims.cache \in Filed(d)
    BY <1>7, <2>1, VersionFacts
  <2> QED BY <2>1, <2>2, NoOneAssumption DEF Filed, Having, ClaimMap
<1>9. C \in ClaimMap /\ C[d] \in Claim /\ C[d].status = claims.cache[d].status
      /\ OnlyAt(d, NewDevices, claims.cache, C)
  BY <1>2, <1>7, <1>8 DEF ClaimMap, OnlyAt, Claim
<1>10. J \in PairingJob /\ J.at = "marking" /\ J.d = d
  BY <1>1, <1>3, <1>4 DEF PairingJob, PairingStep
<1>11. History' /\ Onboarding'
  BY <1>4, <1>5 DEF Shape, History, Onboarding
<1>12. \A v \in {"approved", "rejected"} : C[d].status = v <=> claims.cache[d].status = v
  BY <1>9
<1> QED BY <1>5, <1>6, <1>7, <1>8, <1>9, <1>10, <1>11, <1>12, ClaimChanges

\* A poll creates a session: only the approved get that far.
LEMMA PollIssuesInv ==
    ASSUME PairingInv, NEW h \in Servers, PollIssues(h)
    PROVE  PairingInv'
<1>1. PICK d : d = app.claim
  OBVIOUS
<1>2. PICK C : C = [firstSessions.cache EXCEPT ![d] = @ + 1]
  OBVIOUS
<1>3. PICK J : J = [NoHandling EXCEPT !.at = "issuing", !.d = d]
  OBVIOUS
<1>4. /\ CanServe(h) /\ app.phase = "polling" /\ claims.cache[d].status = "approved"
      /\ firstSessions' = Update(firstSessions, h, C) /\ handling' = [handling EXCEPT ![h] = J]
      /\ app' = [app EXCEPT !.phase = "asking", !.waits = h]
      /\ UNCHANGED <<invites, newDevices, claims, requireAdminApproval, origin, approvers, handed,
                     due, pairingSpent>>
  BY <1>1, <1>2, <1>3 DEF PollIssues, Polls, Await, pairingHistory
<1>5. /\ Shape /\ handling[h].at = "free"
      /\ handling[h].at \notin InviteSteps /\ handling[h].at \notin DeviceSteps
      /\ handling[h].at \notin ClaimSteps /\ handling[h].at \notin FirstSteps
  BY <1>4, FreeSteps DEF PairingInv
<1>6. d \in NewDevices /\ claims.cache[d] # NoOne /\ Everywhere(claims, Filed(d))
  BY <1>1, <1>4, PolledFacts
<1>7. C \in CountMap /\ OnlyAt(d, NewDevices, firstSessions.cache, C)
  <2>1. firstSessions.cache \in [NewDevices -> Nat]
    BY <1>5 DEF Shape, Stored, Collections, CountMap
  <2> QED BY <1>2, <1>6, <2>1 DEF CountMap, OnlyAt
<1>8. J \in PairingJob /\ J.at = "issuing" /\ J.d = d
  BY <1>3, <1>6 DEF NoHandling, PairingJob, PairingStep
<1>9. /\ J.at \in FirstSteps /\ J.at \notin DeviceSteps /\ J.at \notin InviteSteps /\ J.at \notin ClaimSteps
      /\ JobShape(J)
  BY <1>6, <1>8 DEF ClaimSteps, DeviceSteps, InviteSteps, FirstSteps, JobShape
<1>10. Acts(firstSessions, firstSessions', CountMap, h, handling[h].at, J.at, FirstSteps) /\ FirstMove(d)
  BY <1>4, <1>5, <1>6, <1>7, <1>9, FirstWrite
<1>11. Acts(newDevices, newDevices', DeviceMap, h, handling[h].at, J.at, DeviceSteps)
  BY <1>4, <1>5, <1>9, ActsIdle
<1>12. Acts(invites, invites', InviteMap, h, handling[h].at, J.at, InviteSteps)
  BY <1>4, <1>5, <1>9, ActsIdle
<1>13. Acts(claims, claims', ClaimMap, h, handling[h].at, J.at, ClaimSteps)
  BY <1>4, <1>5, <1>9, ActsIdle
<1>14. Turns(h, J)
  BY <1>4, <1>8, <1>9, <1>10, <1>11, <1>12, <1>13 DEF Turns
<1>15. /\ handling'[h] = J /\ \A g \in Servers : g # h => handling'[g] = handling[g]
  BY <1>4, <1>5 DEF Shape
<1>16. DevicesMove(d)
  BY <1>4, <1>5, DevicesRest
<1>17. ClaimsMove(d)
  BY <1>4, <1>5, ClaimsRest
<1>18. InvitesMove
  BY <1>4, <1>5, InvitesRest
<1>19. HistoryMoves(d)
  BY <1>4, HistoryRests
<1>20. /\ origin[d] # NoOne /\ Everywhere(newDevices, Registered(d)) /\ \A g \in Servers : ~Enrols(g, d)
       /\ Everywhere(newDevices, Settled(d)) /\ (requireAdminApproval => d \in approvers)
  BY <1>4, <1>6, ClaimedFacts
<1>21. History' /\ Onboarding'
  BY <1>1, <1>4, <1>5, <1>6 DEF Shape, History, Onboarding, Phase
<1>22. PolledIsFiled'
  <2>1. app.phase \in {"polling", "asking"} /\ app'.claim = app.claim
    BY <1>4, <1>5 DEF Shape, Onboarding
  <2> QED BY <1>17, <2>1, PolledStays
<1>23. JobFits(h)'
  <2>1. Everywhere(claims', Having(ClaimMap, handling'[h].d, Claim))
    BY <1>4, <1>6, <1>8, <1>15 DEF Filed
  <2> QED BY <1>4, <1>8, <1>15, <1>20, <2>1 DEF JobFits, Filed, ClaimMap
<1>24. DeviceFits(d)'
  <2>1. Everywhere(newDevices', Registered(d)) /\ Everywhere(newDevices', Settled(d))
        /\ Registered(d)' = Registered(d) /\ Settled(d)' = Settled(d)
    BY <1>4, <1>20
  <2> QED BY <1>4, <1>20, <2>1 DEF DeviceFits
<1>25. pairingSpent'.faults = 0 => Orderly(h, d) /\ VerdictFits(d)'
  BY <1>4, <1>5, <1>6, <1>8, <1>15, VerdictStays
<1> QED BY <1>6, <1>8, <1>10, <1>14, <1>16, <1>17, <1>18, <1>19, <1>20, <1>21, <1>22, <1>23, <1>24, <1>25,
           <1>4, DeviceStep

\* An administrator decides: the device first.
LEMMA DecideInv ==
    ASSUME PairingInv, NEW h \in Servers, NEW d \in NewDevices, NEW v \in {"approved", "rejected"},
           Decide(h, d, v)
    PROVE  PairingInv'
<1>1. PICK C : C = [newDevices.cache EXCEPT ![d] = v]
  OBVIOUS
<1>2. PICK J : J = [at |-> "deciding", i |-> NoOne, d |-> d, verdict |-> v, seen |-> claims.cache[d]]
  OBVIOUS
<1>3. /\ CanServe(h) /\ claims.cache[d] # NoOne
      /\ newDevices' = Update(newDevices, h, C) /\ handling' = [handling EXCEPT ![h] = J]
      /\ approvers' = IF v = "approved" THEN approvers \cup {d} ELSE approvers
      /\ SpendOne("decisions")
      /\ UNCHANGED <<requireAdminApproval, invites, claims, firstSessions, due, app, origin, handed>>
  BY <1>1, <1>2 DEF Decide, Await
<1>4. /\ Shape /\ handling[h].at = "free"
      /\ handling[h].at \notin InviteSteps /\ handling[h].at \notin DeviceSteps
      /\ handling[h].at \notin ClaimSteps /\ handling[h].at \notin FirstSteps
  BY <1>3, FreeSteps DEF PairingInv
<1>5. /\ claims.cache[d] \in Claim /\ origin[d] # NoOne /\ Everywhere(newDevices, Registered(d))
      /\ \A g \in Servers : ~Enrols(g, d)
  BY <1>3, ClaimedFacts
<1>6. C \in DeviceMap /\ C[d] = v /\ C[d] \in PairedStatus /\ OnlyAt(d, NewDevices, newDevices.cache, C)
  <2>1. newDevices.cache \in [NewDevices -> PairedStatus \cup {NoOne}]
    BY <1>4 DEF Shape, Stored, Collections, DeviceMap
  <2> QED BY <1>1, <2>1 DEF DeviceMap, OnlyAt, PairedStatus
<1>7. J \in PairingJob /\ J.at = "deciding" /\ J.d = d /\ J.verdict = v /\ J.seen \in Claim
  BY <1>2, <1>5 DEF PairingJob, PairingStep
<1>8. /\ J.at \in DeviceSteps /\ J.at \notin FirstSteps /\ J.at \notin InviteSteps /\ J.at \notin ClaimSteps
      /\ JobShape(J)
  BY <1>7 DEF ClaimSteps, DeviceSteps, InviteSteps, FirstSteps, JobShape
<1>9. /\ Acts(newDevices, newDevices', DeviceMap, h, handling[h].at, J.at, DeviceSteps)
      /\ DeviceWritten(h, d, C[d])
      /\ \A a, b \in Servers : Precedes(newDevices, a, b) => Precedes(newDevices', a, b)
      /\ \A a \in Waiting(newDevices) : Precedes(newDevices', a, h)
  BY <1>3, <1>4, <1>6, <1>8, DeviceWrite
<1>10. /\ newDevices'.cache[d] = v /\ Since(newDevices', h, Settled(d)) /\ DevicesMove(d)
  BY <1>6, <1>9 DEF DeviceWritten
<1>11. Turns(h, J)
  <2>1. Acts(firstSessions, firstSessions', CountMap, h, handling[h].at, J.at, FirstSteps)
    BY <1>3, <1>4, <1>8, ActsIdle
  <2>2. Acts(invites, invites', InviteMap, h, handling[h].at, J.at, InviteSteps)
    BY <1>3, <1>4, <1>8, ActsIdle
  <2>3. Acts(claims, claims', ClaimMap, h, handling[h].at, J.at, ClaimSteps)
    BY <1>3, <1>4, <1>8, ActsIdle
  <2> QED BY <1>3, <1>7, <1>8, <1>9, <2>1, <2>2, <2>3 DEF Turns
<1>12. /\ handling'[h] = J /\ \A g \in Servers : g # h => handling'[g] = handling[g]
  BY <1>3, <1>4 DEF Shape
<1>13. ClaimsMove(d)
  BY <1>3, <1>4, ClaimsRest
<1>14. InvitesMove
  BY <1>3, <1>4, InvitesRest
<1>15. FirstMove(d)
  BY <1>3, <1>4, FirstRest
<1>16. HistoryMoves(d)
  BY <1>3 DEF HistoryMoves
<1>17. History' /\ Onboarding' /\ pairingSpent'.faults = pairingSpent.faults
  <2>1. /\ pairingSpent' \in [decisions : Nat, tries : Nat, lost : Nat, faults : Nat]
        /\ pairingSpent'.faults = pairingSpent.faults
    BY <1>3, <1>4, Spending
  <2>2. approvers' \subseteq NewDevices
    BY <1>3, <1>4 DEF Shape, History
  <2> QED BY <1>3, <1>4, <2>1, <2>2 DEF Shape, History, Onboarding
<1>18. PolledIsFiled'
  BY <1>3, <1>13, PolledStays
<1>19. JobFits(h)'
  <2>1. Since(newDevices', h, Having(DeviceMap, handling'[h].d, {"approved", "rejected"}))
    BY <1>7, <1>10, <1>12 DEF Settled
  <2> QED BY <1>3, <1>5, <1>7, <1>12, <2>1 DEF JobFits, Settled, DeviceMap, PairedStatus
<1>20. DeviceFits(d)'
  <2>1. /\ Everywhere(newDevices, Registered(d)) => Everywhere(newDevices', Registered(d))
        /\ Everywhere(newDevices, Settled(d)) => Everywhere(newDevices', Settled(d))
    BY <1>10 DEF DevicesMove, Keeps, Registered, Settled
  <2>2. Registered(d)' = Registered(d) /\ Settled(d)' = Settled(d) /\ Unapproved(d)' = Unapproved(d)
        /\ NoSession(d)' = NoSession(d)
    OBVIOUS
  <2>3. d \notin approvers' => d \notin approvers
    BY <1>3
  <2> QED BY <1>3, <1>5, <2>1, <2>2, <2>3 DEF DeviceFits, PairingInv
<1>21. ASSUME pairingSpent'.faults = 0 PROVE Orderly(h, d) /\ VerdictFits(d)'
  <2>1. \A g \in Servers : \A e : g # h => (Decides(g, e)' <=> Decides(g, e))
    BY <1>12 DEF Decides
  <2>2. Decides(h, d)' /\ \A e : ~Decides(h, e) /\ (e # d => ~Decides(h, e)')
    BY <1>4, <1>7, <1>12 DEF Decides
  <2>3. Orderly(h, d)
    BY <1>9, <1>17, <1>21, <2>2 DEF Orderly
  <2>4. ASSUME NEW g \in Servers, Decides(g, d)', g # h PROVE Precedes(newDevices', g, h)
    <3>1. handling[g].at = "deciding"
      BY <2>1, <2>4 DEF Decides
    <3>2. g \in Waiting(newDevices)
      BY <1>4, <3>1 DEF Shape, Waits, Awaited, DeviceSteps
    <3> QED BY <1>9, <3>2
  <2>5. newDevices'.cache[d] = handling'[h].verdict
    BY <1>7, <1>10, <1>12
  <2>6. VerdictFits(d)'
    BY <2>2, <2>4, <2>5 DEF VerdictFits
  <2> QED BY <2>3, <2>6
<1> QED BY <1>7, <1>10, <1>11, <1>13, <1>14, <1>15, <1>16, <1>5, <1>17, <1>18, <1>19, <1>20, <1>21,
           <1>3, DeviceStep

\* The device is written, and the claim follows, as it was read before.
LEMMA ApplyVerdictInv ==
    ASSUME PairingInv, NEW h \in Servers, ApplyVerdict(h)
    PROVE  PairingInv'
<1>1. PICK d : d = handling[h].d
  OBVIOUS
<1>2. PICK c : c = [handling[h].seen EXCEPT !.status = handling[h].verdict]
  OBVIOUS
<1>3. PICK C : C = [claims.cache EXCEPT ![d] = c]
  OBVIOUS
<1>4. PICK J : J = [handling[h] EXCEPT !.at = "decided"]
  OBVIOUS
<1>5. handling[h] \in PairingJob /\ JobShape(handling[h]) /\ JobFits(h) /\ Shape
  BY JobFacts
<1>6. /\ handling[h].at = "deciding" /\ Settles(newDevices, h) /\ newDevices' = Landed(newDevices)
      /\ claims' = Update(claims, h, C)
      /\ UNCHANGED <<requireAdminApproval, invites, firstSessions, due, app, origin, approvers, handed,
                     pairingSpent>>
  BY <1>1, <1>2, <1>3 DEF ApplyVerdict, pairingHistory
<1>7. handling' = [handling EXCEPT ![h] = J]
  BY <1>4, <1>5 DEF ApplyVerdict, GoOn
<1>8. /\ d \in NewDevices /\ handling[h].seen \in Claim /\ handling[h].verdict \in {"approved", "rejected"}
      /\ Since(newDevices, h, Settled(d)) /\ claims.cache[d] # NoOne
      /\ handling[h].verdict = "approved" => d \in approvers
  BY <1>1, <1>5, <1>6 DEF JobShape, JobFits, DeviceSteps
<1>9. /\ claims.cache[d] \in Claim /\ origin[d] # NoOne
      /\ \A g \in Servers : ~Enrols(g, d)
  BY <1>8, ClaimedFacts
<1>10. /\ C \in ClaimMap /\ C[d] \in Claim /\ C[d].status = handling[h].verdict
       /\ OnlyAt(d, NewDevices, claims.cache, C)
  <2>1. claims.cache \in [NewDevices -> Claim \cup {NoOne}]
    BY <1>5 DEF Shape, Stored, Collections, ClaimMap
  <2>2. c \in Claim /\ c.status = handling[h].verdict
    BY <1>2, <1>8 DEF Claim, ClaimStatus
  <2> QED BY <1>3, <1>8, <2>1, <2>2 DEF ClaimMap, OnlyAt
<1>11. J \in PairingJob /\ J.at = "decided" /\ J.d = d /\ J.verdict = handling[h].verdict
  BY <1>1, <1>4, <1>5 DEF PairingJob, PairingStep
<1>12. /\ J.at \in ClaimSteps /\ J.at \notin FirstSteps /\ J.at \notin InviteSteps /\ J.at \notin DeviceSteps
       /\ handling[h].at \in DeviceSteps /\ handling[h].at \notin ClaimSteps
       /\ handling[h].at \notin InviteSteps /\ handling[h].at \notin FirstSteps
       /\ JobShape(J)
  BY <1>6, <1>8, <1>11 DEF ClaimSteps, DeviceSteps, InviteSteps, FirstSteps, JobShape
<1>13. /\ Acts(claims, claims', ClaimMap, h, handling[h].at, J.at, ClaimSteps)
       /\ claims'.cache = C /\ ClaimsMove(d)
       /\ C[d].status # "approved" /\ Everywhere(claims, Unapproved(d)) => Everywhere(claims', Unapproved(d))
  BY <1>5, <1>6, <1>8, <1>10, <1>12, ClaimWrite
<1>14. Turns(h, J)
  <2>1. Acts(firstSessions, firstSessions', CountMap, h, handling[h].at, J.at, FirstSteps)
    BY <1>6, <1>12, ActsIdle
  <2>2. Acts(invites, invites', InviteMap, h, handling[h].at, J.at, InviteSteps)
    BY <1>6, <1>12, ActsIdle
  <2>3. Acts(newDevices, newDevices', DeviceMap, h, handling[h].at, J.at, DeviceSteps)
    BY <1>6, <1>12, ActsSettled
  <2> QED BY <1>7, <1>11, <1>12, <1>13, <2>1, <2>2, <2>3 DEF Turns
<1>15. /\ handling'[h] = J /\ \A g \in Servers : g # h => handling'[g] = handling[g]
  BY <1>5, <1>7 DEF Shape
<1>16. DevicesMove(d) /\ newDevices'.cache = newDevices.cache
  BY <1>5, <1>6, DevicesRest
<1>17. InvitesMove
  BY <1>5, <1>6, InvitesRest
<1>18. FirstMove(d)
  BY <1>5, <1>6, FirstRest
<1>19. HistoryMoves(d)
  BY <1>6, HistoryRests
<1>20. History' /\ Onboarding'
  BY <1>5, <1>6 DEF Shape, History, Onboarding
<1>21. PolledIsFiled'
  BY <1>6, <1>13, PolledStays
<1>22. JobFits(h)'
  BY <1>6, <1>9, <1>11, <1>15 DEF JobFits
<1>23. /\ Everywhere(newDevices', Settled(d))
       /\ \A a, b \in Servers : a # h /\ Precedes(newDevices, a, b) => Precedes(newDevices', a, b)
       /\ \A a : ~Precedes(newDevices, a, h)
  BY <1>5, <1>6, <1>8, DeviceLands
<1>24. DeviceFits(d)'
  <2>1. Shape'
    BY <1>5, <1>14, <1>20, ShapeStep
  <2>2. newDevices' \in Collections(DeviceMap, Servers)
    BY <2>1 DEF Shape, Stored, DeviceMap
  <2>3. Settled(d) \subseteq Registered(d)
    BY DEF Settled, Registered, Having, PairedStatus
  <2>4. Everywhere(newDevices', Registered(d))
    BY <1>23, <2>2, <2>3, VersionFacts
  <2>5. Registered(d)' = Registered(d) /\ Settled(d)' = Settled(d) /\ Unapproved(d)' = Unapproved(d)
        /\ NoSession(d)' = NoSession(d)
    OBVIOUS
  <2>6. ASSUME requireAdminApproval', d \notin approvers'
        PROVE  Everywhere(claims', Unapproved(d)) /\ Everywhere(firstSessions', NoSession(d))
    <3>1. Everywhere(claims, Unapproved(d)) /\ Everywhere(firstSessions, NoSession(d))
      BY <1>6, <1>8, <2>6 DEF PairingInv, DeviceFits
    <3>2. C[d].status # "approved"
      BY <1>6, <1>8, <1>10, <2>6
    <3> QED BY <1>6, <1>13, <3>1, <3>2
  <2> QED BY <1>6, <1>9, <1>23, <2>4, <2>5, <2>6 DEF DeviceFits
<1>25. ASSUME pairingSpent'.faults = 0 PROVE Orderly(h, d) /\ VerdictFits(d)'
  <2>1. \A g \in Servers : \A e : g # h => (Decides(g, e)' <=> Decides(g, e))
    BY <1>15 DEF Decides
  <2>2. /\ \A e : ~Decides(h, e)'
        /\ Decides(h, d) /\ \A e : e # d => ~Decides(h, e)
    BY <1>1, <1>6, <1>11, <1>15 DEF Decides
  <2>3. Orderly(h, d)
    BY <1>6, <1>23, <1>25, <2>2 DEF Orderly
  <2>4. VerdictFits(d)
    BY <1>6, <1>8, <1>25 DEF PairingInv, VerdictsFit
  <2>5. ASSUME NEW g \in Servers, Decides(g, d)'
        PROVE  \/ newDevices'.cache[d] = handling'[g].verdict
               \/ \E k \in Servers : Decides(k, d)' /\ Precedes(newDevices', g, k)
    <3>1. g # h /\ Decides(g, d) /\ handling'[g] = handling[g]
      BY <1>15, <2>1, <2>2, <2>5
    <3>2. CASE newDevices.cache[d] = handling[g].verdict
      BY <1>16, <3>1, <3>2
    <3>3. ASSUME NEW k \in Servers, Decides(k, d), Precedes(newDevices, g, k)
          PROVE  Decides(k, d)' /\ Precedes(newDevices', g, k)
      BY <1>23, <2>1, <3>1, <3>3
    <3> QED BY <2>4, <3>1, <3>2, <3>3 DEF VerdictFits
  <2>6. ASSUME \A g \in Servers : ~Decides(g, d)'
        PROVE  \A v \in {"approved", "rejected"} : claims'.cache[d].status = v <=> newDevices'.cache[d] = v
    <3>1. \A g \in Servers : Decides(g, d) => g = h
      BY <2>1, <2>6
    <3>2. newDevices.cache[d] = handling[h].verdict
      BY <1>23, <2>2, <2>4, <3>1 DEF VerdictFits
    <3> QED BY <1>10, <1>13, <1>16, <3>2
  <2>7. VerdictFits(d)'
    BY <2>5, <2>6 DEF VerdictFits
  <2> QED BY <2>3, <2>7
<1> QED BY <1>6, <1>8, <1>9, <1>11, <1>13, <1>14, <1>16, <1>17, <1>18, <1>19, <1>20, <1>21, <1>22, <1>24,
           <1>25, DeviceStep

\* A claim begins: its invite was open, so nobody has used it.
LEMMA BeginClaimInv ==
    ASSUME PairingInv, NEW h \in Servers, NEW i \in Invites, BeginClaim(h, i)
    PROVE  PairingInv'
<1>1. PICK C : C = [invites.cache EXCEPT ![i] = "used"]
  OBVIOUS
<1>2. PICK J : J = [NoHandling EXCEPT !.at = "consuming", !.i = i]
  OBVIOUS
<1>3. /\ CanServe(h) /\ invites.cache[i] = "open"
      /\ invites' = Update(invites, h, C) /\ handling' = [handling EXCEPT ![h] = J]
      /\ app' = [app EXCEPT !.phase = "claiming", !.waits = h] /\ SpendOne("tries")
      /\ UNCHANGED <<newDevices, claims, firstSessions, requireAdminApproval, origin, approvers, handed, due>>
  BY <1>1, <1>2 DEF BeginClaim, Await, pairingHistory
<1>4. /\ Shape /\ handling[h].at = "free"
      /\ handling[h].at \notin InviteSteps /\ handling[h].at \notin DeviceSteps
      /\ handling[h].at \notin ClaimSteps /\ handling[h].at \notin FirstSteps
  BY <1>3, FreeSteps DEF PairingInv
<1>5. C \in InviteMap /\ C[i] = "used" /\ OnlyAt(i, Invites, invites.cache, C)
  BY <1>1, <1>4 DEF Shape, Stored, Collections, InviteMap, OnlyAt
<1>6. J \in PairingJob /\ J.at = "consuming" /\ J.i = i /\ J.d = NoOne
  BY <1>2 DEF NoHandling, PairingJob, PairingStep
<1>7. /\ J.at \in InviteSteps /\ J.at \notin FirstSteps /\ J.at \notin DeviceSteps /\ J.at \notin ClaimSteps
      /\ JobShape(J)
  BY <1>6 DEF ClaimSteps, DeviceSteps, InviteSteps, FirstSteps, JobShape
<1>8. /\ Acts(invites, invites', InviteMap, h, handling[h].at, J.at, InviteSteps)
      /\ InvitesMove /\ Since(invites', h, Used(i))
  BY <1>3, <1>4, <1>5, <1>7, InviteWrite
<1>9. Turns(h, J)
  <2>1. Acts(firstSessions, firstSessions', CountMap, h, handling[h].at, J.at, FirstSteps)
    BY <1>3, <1>4, <1>7, ActsIdle
  <2>2. Acts(newDevices, newDevices', DeviceMap, h, handling[h].at, J.at, DeviceSteps)
    BY <1>3, <1>4, <1>7, ActsIdle
  <2>3. Acts(claims, claims', ClaimMap, h, handling[h].at, J.at, ClaimSteps)
    BY <1>3, <1>4, <1>7, ActsIdle
  <2> QED BY <1>3, <1>6, <1>7, <1>8, <2>1, <2>2, <2>3 DEF Turns
<1>10. History' /\ Onboarding' /\ pairingSpent'.faults = pairingSpent.faults
  <2>1. /\ pairingSpent' \in [decisions : Nat, tries : Nat, lost : Nat, faults : Nat]
        /\ pairingSpent'.faults = pairingSpent.faults
    BY <1>3, <1>4, Spending
  <2>2. Onboarding'
    BY <1>3, <1>4 DEF Shape, Onboarding, Phase
  <2> QED BY <1>3, <1>4, <2>1, <2>2 DEF Shape, History
<1>11. /\ Shape' /\ handling'[h] = J /\ \A g \in Servers : g # h => handling'[g] = handling[g]
  BY <1>4, <1>9, <1>10, ShapeStep
<1>12. PolledIsFiled'
  BY <1>3, <1>4 DEF PolledIsFiled, Shape, Onboarding
<1>13. invites.cache \notin Used(i) /\ invites \in Collections(InviteMap, Servers)
  BY <1>3, <1>4 DEF Used, Having, Shape, Stored
<1>14. \A d \in NewDevices : origin[d] # i
  <2>1. ~Everywhere(invites, Used(i))
    BY <1>13, VersionFacts
  <2> QED BY <2>1, NoOneAssumption DEF PairingInv, InvitesFit
<1>15. \A g \in Servers : handling[g].at = "consuming" => handling[g].i # i
  <2>1. ASSUME NEW g \in Servers, handling[g].at = "consuming", handling[g].i = i PROVE FALSE
    <3>1. g \in Waiting(invites)
      BY <1>4, <2>1 DEF Shape, Waits, Awaited, InviteSteps
    <3>2. Since(invites, g, Used(i))
      BY <2>1 DEF PairingInv, InvitesFit
    <3> QED BY <1>13, <3>1, <3>2, VersionFacts
  <2> QED BY <2>1
<1>16. InvitesFit'
  <2>1. ASSUME NEW g \in Servers, handling'[g].at = "consuming"
        PROVE  /\ Since(invites', g, Used(handling'[g].i))
               /\ \A d \in NewDevices : origin'[d] # handling'[g].i
               /\ \A k \in Servers : handling'[k].at = "consuming" /\ handling'[k].i = handling'[g].i => k = g
    <3>1. CASE g = h
      BY <1>3, <1>6, <1>8, <1>11, <1>14, <1>15, <3>1
    <3>2. CASE g # h
      <4>1. handling'[g] = handling[g] /\ handling[g].i # i
        BY <1>11, <1>15, <2>1, <3>2
      <4>2. Since(invites', g, Used(handling[g].i))
        BY <1>8, <2>1, <4>1, ConsumingStays
      <4> QED BY <1>3, <1>6, <1>11, <2>1, <4>1, <4>2 DEF PairingInv, InvitesFit
    <3> QED BY <3>1, <3>2
  <2>2. ASSUME NEW d \in NewDevices, origin'[d] # NoOne
        PROVE  /\ Everywhere(invites', Used(origin'[d]))
               /\ \A e \in NewDevices : origin'[e] = origin'[d] => e = d
    BY <1>3, <1>8, <2>2, OriginStays DEF PairingInv, InvitesFit
  <2>3. \A k : Used(k)' = Used(k)
    BY DEF Used, InviteMap
  <2> QED BY <2>1, <2>2, <2>3 DEF InvitesFit
<1>17. Moves(h, NoOne)
  <2>1. DevicesMove(NoOne)
    BY <1>3, <1>4, DevicesRest
  <2>2. ClaimsMove(NoOne)
    BY <1>3, <1>4, ClaimsRest
  <2>3. FirstMove(NoOne)
    BY <1>3, <1>4, FirstRest
  <2>4. HistoryMoves(NoOne)
    BY <1>3, HistoryRests
  <2>5. \A g \in Servers : ~Enrols(g, NoOne)
    BY JobFacts
  <2> QED BY <1>11, <2>1, <2>2, <2>3, <2>4, <2>5 DEF Moves
<1>18. JobFits(h)'
  BY <1>6, <1>11 DEF JobFits
<1>19. \A e \in NewDevices : ~Enrols(h, e)'
  BY <1>6, <1>11 DEF Enrols
<1>20. pairingSpent'.faults = 0 => Orderly(h, NoOne)
  BY <1>3, <1>4, <1>6, <1>10, <1>11 DEF Orderly, Decides
<1>21. NoOne \notin NewDevices
  BY NoOneAssumption
<1> QED BY <1>11, <1>12, <1>16, <1>17, <1>18, <1>19, <1>20, <1>21, Advance

\* The invite is saved as used, and a device registered for it.
LEMMA RegisterDeviceInv ==
    ASSUME PairingInv, NEW h \in Servers, NEW d \in NewDevices, RegisterDevice(h, d)
    PROVE  PairingInv'
<1>1. PICK C : C = [newDevices.cache EXCEPT ![d] = "pending"]
  OBVIOUS
<1>2. PICK J : J = [handling[h] EXCEPT !.at = "registering", !.d = d]
  OBVIOUS
<1>3. PICK i : i = handling[h].i
  OBVIOUS
<1>4. handling[h] \in PairingJob /\ JobShape(handling[h]) /\ Shape
  BY JobFacts
<1>5. /\ handling[h].at = "consuming" /\ Settles(invites, h) /\ origin[d] = NoOne
      /\ invites' = Landed(invites) /\ newDevices' = Update(newDevices, h, C)
      /\ handling' = [handling EXCEPT ![h] = J] /\ origin' = [origin EXCEPT ![d] = i]
      /\ UNCHANGED <<requireAdminApproval, claims, firstSessions, due, app, approvers, handed, pairingSpent>>
  BY <1>1, <1>2, <1>3 DEF RegisterDevice, Await
<1>6. /\ i \in Invites /\ Since(invites, h, Used(i)) /\ \A e \in NewDevices : origin[e] # i
      /\ \A g \in Servers : handling[g].at = "consuming" /\ handling[g].i = i => g = h
  BY <1>3, <1>4, <1>5 DEF JobShape, InviteSteps, PairingInv, InvitesFit
<1>7. i # NoOne
  BY <1>6, NoOneAssumption
<1>8. /\ newDevices.cache[d] = NoOne /\ claims.cache[d] = NoOne /\ \A g \in Servers : handling[g].d # d
  BY <1>5, NotYetRegistered
<1>9. C \in DeviceMap /\ C[d] = "pending" /\ C[d] \in PairedStatus /\ OnlyAt(d, NewDevices, newDevices.cache, C)
  <2>1. newDevices.cache \in [NewDevices -> PairedStatus \cup {NoOne}]
    BY <1>4 DEF Shape, Stored, Collections, DeviceMap
  <2> QED BY <1>1, <2>1 DEF DeviceMap, OnlyAt, PairedStatus
<1>10. J \in PairingJob /\ J.at = "registering" /\ J.d = d
  BY <1>2, <1>4 DEF PairingJob, PairingStep
<1>11. /\ J.at \in DeviceSteps /\ J.at \notin FirstSteps /\ J.at \notin InviteSteps /\ J.at \notin ClaimSteps
       /\ handling[h].at \in InviteSteps /\ handling[h].at \notin DeviceSteps
       /\ handling[h].at \notin ClaimSteps /\ handling[h].at \notin FirstSteps
       /\ JobShape(J)
  BY <1>5, <1>10 DEF ClaimSteps, DeviceSteps, InviteSteps, FirstSteps, JobShape
<1>12. /\ Acts(newDevices, newDevices', DeviceMap, h, handling[h].at, J.at, DeviceSteps)
       /\ DeviceWritten(h, d, C[d])
       /\ \A a, b \in Servers : Precedes(newDevices, a, b) => Precedes(newDevices', a, b)
  BY <1>4, <1>5, <1>9, <1>11, DeviceWrite
<1>13. newDevices'.cache[d] = "pending" /\ Since(newDevices', h, Registered(d)) /\ DevicesMove(d)
  <2>1. "pending" \notin {"approved", "rejected"} /\ newDevices.cache[d] \notin {"approved", "rejected"}
    BY <1>8, NoOneAssumption DEF PairedStatus
  <2> QED BY <1>9, <1>12, <2>1 DEF DeviceWritten
<1>14. Turns(h, J)
  <2>1. Acts(firstSessions, firstSessions', CountMap, h, handling[h].at, J.at, FirstSteps)
    BY <1>5, <1>11, ActsIdle
  <2>2. Acts(invites, invites', InviteMap, h, handling[h].at, J.at, InviteSteps)
    BY <1>5, <1>11, ActsSettled
  <2>3. Acts(claims, claims', ClaimMap, h, handling[h].at, J.at, ClaimSteps)
    BY <1>5, <1>11, ActsIdle
  <2> QED BY <1>5, <1>10, <1>11, <1>12, <2>1, <2>2, <2>3 DEF Turns
<1>15. origin' \in [NewDevices -> Invites \cup {NoOne}] /\ origin'[d] = i
       /\ \A e \in NewDevices : e # d => origin'[e] = origin[e]
  BY <1>4, <1>5, <1>6 DEF Shape, History
<1>16. History' /\ Onboarding'
  BY <1>4, <1>5, <1>15 DEF Shape, History, Onboarding
<1>17. /\ Shape' /\ handling'[h] = J /\ \A g \in Servers : g # h => handling'[g] = handling[g]
  BY <1>4, <1>14, <1>16, ShapeStep
<1>18. ClaimsMove(d)
  BY <1>4, <1>5, ClaimsRest
<1>19. Moves(h, d)
  <2>1. FirstMove(d)
    BY <1>4, <1>5, FirstRest
  <2>2. HistoryMoves(d)
    BY <1>5, <1>15 DEF HistoryMoves
  <2>3. \A g \in Servers : ~Enrols(g, d)
    BY <1>8 DEF Enrols
  <2> QED BY <1>13, <1>17, <1>18, <2>1, <2>2, <2>3 DEF Moves
<1>20. PolledIsFiled'
  BY <1>5, <1>18, PolledStays
<1>21. InvitesFit'
  <2>1. InvitesMove /\ Everywhere(invites', Used(i))
    <3>1. InvitesMove
      BY <1>4, <1>5, InvitesRest
    <3>2. invites \in Collections(InviteMap, Servers)
      BY <1>4 DEF Shape, Stored
    <3> QED BY <1>5, <1>6, <3>1, <3>2, OldestFacts
  <2>2. ASSUME NEW g \in Servers, handling'[g].at = "consuming"
        PROVE  /\ Since(invites', g, Used(handling'[g].i))
               /\ \A e \in NewDevices : origin'[e] # handling'[g].i
               /\ \A k \in Servers : handling'[k].at = "consuming" /\ handling'[k].i = handling'[g].i => k = g
    <3>1. g # h /\ handling'[g] = handling[g] /\ handling[g].i # i
      BY <1>6, <1>10, <1>17, <2>2
    <3>2. Since(invites', g, Used(handling[g].i))
      BY <2>1, <2>2, <3>1, ConsumingStays
    <3>3. \A e \in NewDevices : origin[e] # handling[g].i
      BY <2>2, <3>1 DEF PairingInv, InvitesFit
    <3>4. \A k \in Servers : k # h => handling'[k] = handling[k]
      BY <1>17
    <3> QED BY <1>10, <1>15, <1>17, <2>2, <3>1, <3>2, <3>3, <3>4 DEF PairingInv, InvitesFit
  <2>3. ASSUME NEW e \in NewDevices, origin'[e] # NoOne
        PROVE  /\ Everywhere(invites', Used(origin'[e]))
               /\ \A f \in NewDevices : origin'[f] = origin'[e] => f = e
    <3>1. CASE e = d
      BY <1>6, <1>15, <2>1, <3>1
    <3>2. CASE e # d
      <4>1. origin'[e] = origin[e] /\ origin[e] # i
        BY <1>6, <1>15, <3>2
      <4>2. Everywhere(invites', Used(origin[e]))
        BY <2>1, <2>3, <4>1, OriginStays
      <4> QED BY <1>15, <2>3, <4>1, <4>2 DEF PairingInv, InvitesFit
    <3> QED BY <3>1, <3>2
  <2>4. \A k : Used(k)' = Used(k)
    BY DEF Used, InviteMap
  <2> QED BY <2>2, <2>3, <2>4 DEF InvitesFit
<1>22. JobFits(h)'
  <2>1. Since(newDevices', h, Having(DeviceMap, handling'[h].d, PairedStatus))
    BY <1>10, <1>13, <1>17 DEF Registered
  <2> QED BY <1>5, <1>7, <1>8, <1>10, <1>13, <1>15, <1>17, <2>1 DEF JobFits, Registered, DeviceMap, PairedStatus
<1>23. DeviceFits(d)'
  <2>1. Everywhere(claims, Unfiled(d)) /\ claims \in Collections(ClaimMap, Servers)
    BY <1>4, <1>5 DEF PairingInv, DeviceFits, Shape, Stored
  <2>2. Unfiled(d) \subseteq Unapproved(d)
    BY DEF Unfiled, Unapproved, Having
  <2>3. Everywhere(claims, Unapproved(d))
    BY <2>1, <2>2, VersionFacts
  <2>4. Unfiled(d)' = Unfiled(d) /\ Unapproved(d)' = Unapproved(d) /\ NoSession(d)' = NoSession(d)
    OBVIOUS
  <2> QED BY <1>5, <1>7, <1>15, <2>1, <2>3, <2>4 DEF DeviceFits, PairingInv
<1>24. pairingSpent'.faults = 0 => Orderly(h, d) /\ VerdictFits(d)'
  <2>1. \A e : ~Decides(h, e) /\ ~Decides(h, e)'
    BY <1>5, <1>10, <1>17 DEF Decides
  <2>2. pairingSpent'.faults = 0 => Orderly(h, d)
    BY <1>5, <1>12, <2>1 DEF Orderly
  <2>3. \A g \in Servers : ~Decides(g, d)'
    BY <1>8, <1>17, <2>1 DEF Decides
  <2>4. claims'.cache[d] = NoOne
    BY <1>5, <1>8
  <2> QED BY <2>2, <2>3, <2>4 DEF VerdictFits
<1>25. \A e \in NewDevices : Enrols(h, e)' => e = d
  BY <1>10, <1>17 DEF Enrols
<1> QED BY <1>17, <1>19, <1>20, <1>21, <1>22, <1>23, <1>24, <1>25, Advance

\* The device is there when its claim is filed: waiting, or approved with it.
LEMMA FileInv ==
    ASSUME PairingInv, NEW h \in Servers, NEW status \in {"waiting_for_approval", "approved"},
           Settles(newDevices, h), newDevices' = Landed(newDevices), FileClaim(h, status),
           \/ handling[h].at = "registering" /\ status = "waiting_for_approval"
           \/ handling[h].at = "approving" /\ status = "approved",
           UNCHANGED <<requireAdminApproval, invites, firstSessions, due, app, origin, approvers, handed,
                       pairingSpent>>
    PROVE  PairingInv'
<1>1. PICK d : d = handling[h].d
  OBVIOUS
<1>2. PICK c : c = [status |-> status, tokensIssued |-> FALSE]
  OBVIOUS
<1>3. PICK C : C = [claims.cache EXCEPT ![d] = c]
  OBVIOUS
<1>4. PICK J : J = [handling[h] EXCEPT !.at = "filing"]
  OBVIOUS
<1>5. handling[h] \in PairingJob /\ JobShape(handling[h]) /\ JobFits(h) /\ Shape
  BY JobFacts
<1>6. claims' = Update(claims, h, C) /\ handling' = [handling EXCEPT ![h] = J]
  BY <1>1, <1>2, <1>3, <1>4, <1>5 DEF FileClaim, GoOn
<1>7. /\ d \in NewDevices /\ origin[d] # NoOne /\ claims.cache[d] = NoOne /\ Enrols(h, d)
      /\ handling[h].at = "registering" =>
            Since(newDevices, h, Registered(d)) /\ newDevices.cache[d] = "pending"
      /\ handling[h].at = "approving" =>
            /\ Since(newDevices, h, Settled(d)) /\ newDevices.cache[d] = "approved"
            /\ ~requireAdminApproval
  <2>1. d \in NewDevices
    BY <1>1, <1>5 DEF JobShape, DeviceSteps
  <2>2. d # NoOne
    BY <2>1, NoOneAssumption
  <2> QED BY <1>1, <1>5, <2>1, <2>2 DEF JobFits, Enrols
<1>8. \A g \in Servers : g # h => ~Enrols(g, d)
  BY <1>7 DEF PairingInv, EnrolledOnce
<1>9. C \in ClaimMap /\ C[d] = c /\ c \in Claim /\ c.status = status /\ OnlyAt(d, NewDevices, claims.cache, C)
  <2>1. claims.cache \in [NewDevices -> Claim \cup {NoOne}]
    BY <1>5 DEF Shape, Stored, Collections, ClaimMap
  <2>2. c \in Claim /\ c.status = status
    BY <1>2 DEF Claim, ClaimStatus
  <2> QED BY <1>3, <1>7, <2>1, <2>2 DEF ClaimMap, OnlyAt
<1>10. J \in PairingJob /\ J.at = "filing" /\ J.d = d
  BY <1>1, <1>4, <1>5 DEF PairingJob, PairingStep
<1>11. /\ J.at \in ClaimSteps /\ J.at \notin FirstSteps /\ J.at \notin InviteSteps /\ J.at \notin DeviceSteps
       /\ handling[h].at \in DeviceSteps /\ handling[h].at \notin ClaimSteps
       /\ handling[h].at \notin InviteSteps /\ handling[h].at \notin FirstSteps
       /\ JobShape(J)
  BY <1>7, <1>10 DEF ClaimSteps, DeviceSteps, InviteSteps, FirstSteps, JobShape
<1>12. /\ Acts(claims, claims', ClaimMap, h, handling[h].at, J.at, ClaimSteps)
       /\ claims'.cache = C /\ ClaimsMove(d) /\ Since(claims', h, Filed(d))
       /\ C[d].status # "approved" /\ Everywhere(claims, Unapproved(d)) => Everywhere(claims', Unapproved(d))
  <2>1. C[d] \in Claim
    BY <1>9
  <2> QED BY <1>5, <1>6, <1>7, <1>9, <1>11, <2>1, ClaimWrite
<1>13. Turns(h, J)
  <2>1. Acts(firstSessions, firstSessions', CountMap, h, handling[h].at, J.at, FirstSteps)
    BY <1>11, ActsIdle
  <2>2. Acts(invites, invites', InviteMap, h, handling[h].at, J.at, InviteSteps)
    BY <1>11, ActsIdle
  <2>3. Acts(newDevices, newDevices', DeviceMap, h, handling[h].at, J.at, DeviceSteps)
    BY <1>11, ActsSettled
  <2> QED BY <1>6, <1>10, <1>11, <1>12, <2>1, <2>2, <2>3 DEF Turns
<1>14. /\ handling'[h] = J /\ \A g \in Servers : g # h => handling'[g] = handling[g]
  BY <1>5, <1>6 DEF Shape
<1>15. DevicesMove(d) /\ newDevices'.cache = newDevices.cache
  BY <1>5, DevicesRest
<1>16. InvitesMove
  BY <1>5, InvitesRest
<1>17. FirstMove(d)
  BY <1>5, FirstRest
<1>18. HistoryMoves(d)
  BY HistoryRests
<1>19. History' /\ Onboarding'
  BY <1>5 DEF Shape, History, Onboarding
<1>20. PolledIsFiled'
  BY <1>12, PolledStays
<1>21. JobFits(h)'
  <2>1. Since(claims', h, Having(ClaimMap, handling'[h].d, Claim))
    BY <1>10, <1>12, <1>14 DEF Filed
  <2> QED BY <1>7, <1>10, <1>14, <2>1 DEF JobFits, Filed, ClaimMap
<1>22. /\ \A S : Since(newDevices, h, S) => Everywhere(newDevices', S)
       /\ \A a, b \in Servers : a # h /\ Precedes(newDevices, a, b) => Precedes(newDevices', a, b)
  BY <1>5, DeviceLands
<1>23. DeviceFits(d)'
  <2>1. newDevices' \in Collections(DeviceMap, Servers)
    <3>1. Shape'
      BY <1>5, <1>13, <1>19, ShapeStep
    <3> QED BY <3>1 DEF Shape, Stored, DeviceMap
  <2>2. Settled(d) \subseteq Registered(d)
    BY DEF Settled, Registered, Having, PairedStatus
  <2>3. Everywhere(newDevices', Registered(d))
    BY <1>7, <1>22, <2>1, <2>2, VersionFacts
  <2>4. Registered(d)' = Registered(d) /\ Settled(d)' = Settled(d) /\ Unapproved(d)' = Unapproved(d)
        /\ NoSession(d)' = NoSession(d)
    OBVIOUS
  <2>5. Everywhere(claims', Unapproved(d)) \/ Everywhere(newDevices', Settled(d))
    <3>1. CASE status = "approved"
      BY <1>7, <1>22, <3>1
    <3>2. CASE status = "waiting_for_approval"
      <4>1. Everywhere(newDevices, Settled(d)) => Everywhere(newDevices', Settled(d))
        BY <1>7, <1>15 DEF DevicesMove, Keeps, Settled
      <4> QED BY <1>7, <1>9, <1>12, <3>2, <4>1 DEF PairingInv, DeviceFits
    <3> QED BY <3>1, <3>2
  <2>6. ASSUME requireAdminApproval', d \notin approvers'
        PROVE  Everywhere(claims', Unapproved(d)) /\ Everywhere(firstSessions', NoSession(d))
    <3>1. Everywhere(claims, Unapproved(d)) /\ Everywhere(firstSessions, NoSession(d))
      BY <1>7, <2>6 DEF PairingInv, DeviceFits
    <3>2. C[d].status # "approved"
      BY <1>7, <1>9, <2>6
    <3> QED BY <1>12, <3>1, <3>2
  <2> QED BY <1>7, <2>3, <2>4, <2>5, <2>6 DEF DeviceFits
<1>24. ASSUME pairingSpent'.faults = 0 PROVE Orderly(h, d) /\ VerdictFits(d)'
  <2>1. \A e : ~Decides(h, e) /\ ~Decides(h, e)'
    BY <1>10, <1>14 DEF Decides
  <2>2. Orderly(h, d)
    BY <1>22, <1>24, <2>1 DEF Orderly
  <2>3. \A g \in Servers : ~Decides(g, d)
    BY <1>7, FiledOrNot
  <2>4. \A g \in Servers : ~Decides(g, d)'
    BY <1>14, <2>1, <2>3 DEF Decides
  <2>5. \A v \in {"approved", "rejected"} : claims'.cache[d].status = v <=> newDevices'.cache[d] = v
    BY <1>7, <1>9, <1>12, <1>15
  <2> QED BY <2>2, <2>4, <2>5 DEF VerdictFits
<1> QED BY <1>7, <1>8, <1>10, <1>12, <1>13, <1>15, <1>16, <1>17, <1>18, <1>19, <1>20, <1>21, <1>23, <1>24,
           DeviceStep

\* The device is there; where no approval is required it is approved first.
LEMMA DeviceRegisteredInv ==
    ASSUME PairingInv, NEW h \in Servers, DeviceRegistered(h)
    PROVE  PairingInv'
<1>1. CASE requireAdminApproval
  <2>1. /\ handling[h].at = "registering" /\ Settles(newDevices, h) /\ newDevices' = Landed(newDevices)
        /\ FileClaim(h, "waiting_for_approval")
        /\ UNCHANGED <<requireAdminApproval, invites, firstSessions, due, app, origin, approvers, handed,
                       pairingSpent>>
    BY <1>1 DEF DeviceRegistered, pairingHistory
  <2> QED BY <2>1, FileInv
<1>2. CASE ~requireAdminApproval
  <2>1. PICK d : d = handling[h].d
    OBVIOUS
  <2>2. PICK C : C = [newDevices.cache EXCEPT ![d] = "approved"]
    OBVIOUS
  <2>3. PICK J : J = [handling[h] EXCEPT !.at = "approving"]
    OBVIOUS
  <2>4. handling[h] \in PairingJob /\ JobShape(handling[h]) /\ JobFits(h) /\ Shape
    BY JobFacts
  <2>5. /\ handling[h].at = "registering" /\ Settles(newDevices, h)
        /\ newDevices' = Update(Landed(newDevices), h, C)
        /\ UNCHANGED <<requireAdminApproval, invites, claims, firstSessions, due, app, origin, approvers,
                       handed, pairingSpent>>
    BY <1>2, <2>1, <2>2 DEF DeviceRegistered, pairingHistory
  <2>6. handling' = [handling EXCEPT ![h] = J]
    BY <1>2, <2>3, <2>4 DEF DeviceRegistered, GoOn
  <2>7. d \in NewDevices /\ origin[d] # NoOne /\ claims.cache[d] = NoOne /\ Enrols(h, d)
    <3>1. d \in NewDevices
      BY <2>1, <2>4, <2>5 DEF JobShape, DeviceSteps
    <3>2. d # NoOne
      BY <3>1, NoOneAssumption
    <3> QED BY <2>1, <2>4, <2>5, <3>1, <3>2 DEF JobFits, Enrols
  <2>8. \A g \in Servers : g # h => ~Enrols(g, d)
    BY <2>7 DEF PairingInv, EnrolledOnce
  <2>9. /\ C \in DeviceMap /\ C[d] = "approved" /\ C[d] \in PairedStatus
        /\ OnlyAt(d, NewDevices, newDevices.cache, C)
    <3>1. newDevices.cache \in [NewDevices -> PairedStatus \cup {NoOne}]
      BY <2>4 DEF Shape, Stored, Collections, DeviceMap
    <3> QED BY <2>2, <2>7, <3>1 DEF DeviceMap, OnlyAt, PairedStatus
  <2>10. J \in PairingJob /\ J.at = "approving" /\ J.d = d
    BY <2>1, <2>3, <2>4 DEF PairingJob, PairingStep
  <2>11. /\ J.at \in DeviceSteps /\ J.at \notin FirstSteps /\ J.at \notin InviteSteps /\ J.at \notin ClaimSteps
         /\ handling[h].at \in DeviceSteps /\ handling[h].at \notin ClaimSteps
         /\ handling[h].at \notin InviteSteps /\ handling[h].at \notin FirstSteps
         /\ JobShape(J)
    BY <2>5, <2>7, <2>10 DEF ClaimSteps, DeviceSteps, InviteSteps, FirstSteps, JobShape
  <2>12. /\ Acts(newDevices, newDevices', DeviceMap, h, handling[h].at, J.at, DeviceSteps)
         /\ DeviceWritten(h, d, C[d])
         /\ \A a, b \in Servers : a # h /\ Precedes(newDevices, a, b) => Precedes(newDevices', a, b)
    BY <2>4, <2>5, <2>7, <2>9, <2>11, DeviceRewrite
  <2>13. newDevices'.cache[d] = "approved" /\ Since(newDevices', h, Settled(d)) /\ DevicesMove(d)
    BY <2>9, <2>12 DEF DeviceWritten
  <2>14. Turns(h, J)
    <3>1. Acts(firstSessions, firstSessions', CountMap, h, handling[h].at, J.at, FirstSteps)
      BY <2>5, <2>11, ActsIdle
    <3>2. Acts(invites, invites', InviteMap, h, handling[h].at, J.at, InviteSteps)
      BY <2>5, <2>11, ActsIdle
    <3>3. Acts(claims, claims', ClaimMap, h, handling[h].at, J.at, ClaimSteps)
      BY <2>5, <2>11, ActsIdle
    <3> QED BY <2>6, <2>10, <2>11, <2>12, <3>1, <3>2, <3>3 DEF Turns
  <2>15. /\ handling'[h] = J /\ \A g \in Servers : g # h => handling'[g] = handling[g]
    BY <2>4, <2>6 DEF Shape
  <2>16. ClaimsMove(d)
    BY <2>4, <2>5, ClaimsRest
  <2>17. InvitesMove
    BY <2>4, <2>5, InvitesRest
  <2>18. FirstMove(d)
    BY <2>4, <2>5, FirstRest
  <2>19. HistoryMoves(d)
    BY <2>5, HistoryRests
  <2>20. History' /\ Onboarding'
    BY <2>4, <2>5 DEF Shape, History, Onboarding
  <2>21. PolledIsFiled'
    BY <2>5, <2>16, PolledStays
  <2>22. JobFits(h)'
    <3>1. Since(newDevices', h, Having(DeviceMap, handling'[h].d, {"approved", "rejected"}))
      BY <2>10, <2>13, <2>15 DEF Settled
    <3> QED BY <1>2, <2>5, <2>7, <2>10, <2>13, <2>15, <3>1 DEF JobFits, Settled, DeviceMap, PairedStatus
  <2>23. DeviceFits(d)'
    <3>1. /\ Everywhere(newDevices, Registered(d)) => Everywhere(newDevices', Registered(d))
          /\ Everywhere(newDevices, Settled(d)) => Everywhere(newDevices', Settled(d))
      BY <2>7, <2>13 DEF DevicesMove, Keeps, Registered, Settled
    <3>2. Registered(d)' = Registered(d) /\ Settled(d)' = Settled(d) /\ Unapproved(d)' = Unapproved(d)
          /\ Unfiled(d)' = Unfiled(d)
      OBVIOUS
    <3> QED BY <1>2, <2>5, <2>7, <3>1, <3>2 DEF DeviceFits, PairingInv
  <2>24. ASSUME pairingSpent'.faults = 0 PROVE Orderly(h, d) /\ VerdictFits(d)'
    <3>1. \A e : ~Decides(h, e) /\ ~Decides(h, e)'
      BY <2>5, <2>10, <2>15 DEF Decides
    <3>2. Orderly(h, d)
      BY <2>5, <2>12, <2>24, <3>1 DEF Orderly
    <3>3. \A g \in Servers : ~Decides(g, d)
      BY <2>7, FiledOrNot
    <3>4. \A g \in Servers : ~Decides(g, d)'
      BY <2>15, <3>1, <3>3 DEF Decides
    <3>5. claims'.cache[d] = NoOne
      BY <2>5, <2>7
    <3> QED BY <3>2, <3>4, <3>5 DEF VerdictFits
  <2> QED BY <2>5, <2>7, <2>8, <2>10, <2>13, <2>14, <2>16, <2>17, <2>18, <2>19, <2>20, <2>21, <2>22, <2>23,
             <2>24, DeviceStep
<1> QED BY <1>1, <1>2

\* The approved device gets its claim.
LEMMA DeviceApprovedInv ==
    ASSUME PairingInv, NEW h \in Servers, DeviceApproved(h)
    PROVE  PairingInv'
<1>1. /\ handling[h].at = "approving" /\ Settles(newDevices, h) /\ newDevices' = Landed(newDevices)
      /\ FileClaim(h, "approved")
      /\ UNCHANGED <<requireAdminApproval, invites, firstSessions, due, app, origin, approvers, handed,
                     pairingSpent>>
  BY DEF DeviceApproved, pairingHistory
<1> QED BY <1>1, FileInv

----------------------------------------------------------------------------
(* The invariant, and what follows from it                                 *)

\* Every step keeps the invariant.
LEMMA StepInv ==
    ASSUME PairingInv, [PairingNext]_pairingVars
    PROVE  PairingInv'
<1>1. CASE \E h \in Servers : Serve(h)
  <2>1. PICK h \in Servers : Serve(h)
    BY <1>1
  <2>2. CASE InviteCreated(h)
    BY <2>2, InviteCreatedInv
  <2>3. CASE DeviceRegistered(h)
    BY <2>3, DeviceRegisteredInv
  <2>4. CASE DeviceApproved(h)
    BY <2>4, DeviceApprovedInv
  <2>5. CASE AnswerClaim(h)
    BY <2>5, AnswerClaimInv
  <2>6. ASSUME NEW d \in NewDevices, RegisterDevice(h, d) PROVE PairingInv'
    BY <2>6, RegisterDeviceInv
  <2>7. CASE AnswerExpired(h) \/ AnswerTokens(h)
    BY <2>7, AnswersInv
  <2>8. CASE MarkIssued(h)
    BY <2>8, MarkIssuedInv
  <2>9. CASE ApplyVerdict(h)
    BY <2>9, ApplyVerdictInv
  <2>10. CASE Decided(h)
    BY <2>10, DecidedInv
  <2> QED BY <2>1, <2>2, <2>3, <2>4, <2>5, <2>6, <2>7, <2>8, <2>9, <2>10 DEF Serve
<1>2. ASSUME NEW h \in Servers, PollExpires(h) PROVE PairingInv'
  BY <1>2, PollExpiresInv
<1>3. ASSUME NEW h \in Servers, PollIssues(h) PROVE PairingInv'
  BY <1>3, PollIssuesInv
<1>4. ASSUME NEW h \in Servers, PairingWriteFails(h) PROVE PairingInv'
  BY <1>4, WriteFailsInv
<1>5. ASSUME NEW h \in Servers, NEW i \in Invites, CreateInvite(h, i) PROVE PairingInv'
  BY <1>5, CreateInviteInv
<1>6. ASSUME NEW h \in Servers, NEW i \in Invites, BeginClaim(h, i) PROVE PairingInv'
  BY <1>6, BeginClaimInv
<1>7. ASSUME NEW h \in Servers, NEW d \in NewDevices, NEW v \in {"approved", "rejected"}, Decide(h, d, v)
      PROVE  PairingInv'
  BY <1>7, DecideInv
<1>8. CASE \/ \E h \in Servers : PollEnds(h)
           \/ \E d \in NewDevices : ClaimFallsDue(d)
           \/ AppLosesAnswer \/ UNCHANGED pairingVars
  BY <1>8, AroundInv
<1>9. CASE PairingRestarts
  BY <1>9, RestartInv
<1> QED BY <1>1, <1>2, <1>3, <1>4, <1>5, <1>6, <1>7, <1>8, <1>9 DEF PairingNext, Poll

\* The inductive invariant of pairing.
THEOREM PairingInvariant == PairingSpec => []PairingInv
<1>1. PairingInit => PairingInv
  BY InitInv
<1>2. PairingInv /\ [PairingNext]_pairingVars => PairingInv'
  BY StepInv
<1> QED BY <1>1, <1>2, PTL DEF PairingSpec

\* The declared types: every store, handler and history variable.
THEOREM PairingTyped == PairingSpec => []PairingTypeOK
<1>1. PairingInv => PairingTypeOK
  BY DEF PairingInv, Shape, Stored, Collections, Onboarding, History, PairingTypeOK, PairingStoreOf,
         InviteMap, DeviceMap, ClaimMap, CountMap
<1> QED BY <1>1, PairingInvariant, PTL

\* One invite registers at most one device (src/pairing/index.ts:124), however
\* claims overlap or are repeated and wherever the adapter restarts.
THEOREM OneDevicePerInvite == PairingSpec => []InviteSingleUse
<1>1. ASSUME PairingInv, NEW i \in Invites PROVE Cardinality({d \in NewDevices : origin[d] = i}) <= 1
  <2>1. \A d, e \in NewDevices : origin[d] = i /\ origin[e] = i => d = e
    BY <1>1, NoOneAssumption DEF PairingInv, InvitesFit
  <2>2. CASE \A d \in NewDevices : origin[d] # i
    <3>1. {d \in NewDevices : origin[d] = i} = {}
      BY <2>2
    <3> QED BY <3>1, FS_EmptySet
  <2>3. ASSUME NEW d \in NewDevices, origin[d] = i
        PROVE  Cardinality({e \in NewDevices : origin[e] = i}) <= 1
    <3>1. PICK S : S = {e \in NewDevices : origin[e] = i}
      OBVIOUS
    <3>2. S = {d}
      BY <2>1, <2>3, <3>1
    <3>3. Cardinality({d}) = 1
      BY FS_Singleton
    <3> QED BY <3>1, <3>2, <3>3
  <2> QED BY <2>2, <2>3
<1>2. PairingInv => InviteSingleUse
  BY <1>1 DEF InviteSingleUse
<1> QED BY <1>2, PairingInvariant, PTL

\* Whenever the adapter stops, what it saved fits together: claims have their
\* devices, devices their used invites, and an approved claim a decided device.
THEOREM SavedFitsTogether == PairingSpec => []DiskFitsTogether
<1>1. ASSUME PairingInv, NEW d \in NewDevices
      PROVE  /\ claims.disk[d] # NoOne => newDevices.disk[d] # NoOne
             /\ newDevices.disk[d] # NoOne => invites.disk[origin[d]] = "used"
             /\ claims.disk[d] # NoOne /\ claims.disk[d].status = "approved"
                   => newDevices.disk[d] # "pending"
  <2>1. /\ DeviceFits(d) /\ invites \in Collections(InviteMap, Servers)
        /\ newDevices \in Collections(DeviceMap, Servers) /\ claims \in Collections(ClaimMap, Servers)
    BY <1>1 DEF PairingInv, Shape, Stored
  <2>2. claims.disk \in ClaimMap
    BY <2>1, VersionFacts
  <2>3. /\ Everywhere(claims, Unfiled(d)) => claims.disk[d] = NoOne
        /\ Everywhere(claims, Unapproved(d)) => claims.disk[d] \in {NoOne} \cup {c \in Claim : c.status # "approved"}
    BY <2>1, VersionFacts DEF Unfiled, Unapproved, Having
  <2>4. /\ Everywhere(newDevices, Unknown(d)) => newDevices.disk[d] = NoOne
        /\ Everywhere(newDevices, Registered(d)) => newDevices.disk[d] \in PairedStatus
        /\ Everywhere(newDevices, Settled(d)) => newDevices.disk[d] \in {"approved", "rejected"}
    BY <2>1, VersionFacts DEF Unknown, Registered, Settled, Having
  <2>5. claims.disk[d] # NoOne => newDevices.disk[d] # NoOne
    BY <2>1, <2>3, <2>4, NoOneAssumption DEF DeviceFits
  <2>6. claims.disk[d] # NoOne /\ claims.disk[d].status = "approved" => newDevices.disk[d] # "pending"
    BY <2>1, <2>3, <2>4 DEF DeviceFits
  <2>7. ASSUME newDevices.disk[d] # NoOne PROVE invites.disk[origin[d]] = "used"
    <3>1. Everywhere(invites, Used(origin[d]))
      BY <1>1, <2>1, <2>4, <2>7 DEF DeviceFits, PairingInv, InvitesFit
    <3>2. invites.disk \in Used(origin[d])
      BY <2>1, <3>1, VersionFacts
    <3> QED BY <3>2 DEF Used, Having
  <2> QED BY <2>5, <2>6, <2>7
<1>2. PairingInv => DiskFitsTogether
  BY <1>1 DEF DiskFitsTogether
<1> QED BY <1>2, PairingInvariant, PTL

\* Overlapping verdicts leave claim and device agreed while no write fails, and
\* where approval is required only the approved get a session.
THEOREM VerdictsAgreed == PairingSpec => []VerdictsAgree
<1>1. ASSUME PairingInv, NEW d \in NewDevices, pairingSpent.faults = 0, claims.cache[d] # NoOne,
             \A h \in Servers : handling[h].d # d
      PROVE  /\ claims.cache[d].status = "approved" <=> newDevices.cache[d] = "approved"
             /\ claims.cache[d].status = "rejected" <=> newDevices.cache[d] = "rejected"
  <2>1. VerdictFits(d) /\ \A h \in Servers : ~Decides(h, d)
    BY <1>1 DEF PairingInv, VerdictsFit, Decides
  <2> QED BY <1>1, <2>1 DEF VerdictFits
<1>2. ASSUME PairingInv, NEW d \in NewDevices, requireAdminApproval, firstSessions.cache[d] > 0
      PROVE  d \in approvers
  <2>1. firstSessions \in Collections(CountMap, Servers)
    BY <1>2 DEF PairingInv, Shape, Stored
  <2>2. d \notin approvers => Everywhere(firstSessions, NoSession(d))
    BY <1>2 DEF PairingInv, DeviceFits
  <2>3. Everywhere(firstSessions, NoSession(d)) => firstSessions.cache \in NoSession(d)
    BY <2>1, VersionFacts
  <2>4. Everywhere(firstSessions, NoSession(d)) => firstSessions.cache[d] = 0
    BY <2>3 DEF NoSession, Having
  <2> QED BY <1>2, <2>2, <2>4
<1>3. PairingInv => VerdictsAgree
  BY <1>1, <1>2 DEF VerdictsAgree
<1> QED BY <1>3, PairingInvariant, PTL
=============================================================================
