-------------------------- MODULE DeviceAccessProofs --------------------------
(* That revoked devices and sessions stay out, and that a refresh token buys  *)
(* one new token: for any handlers, devices and sessions, however many tokens *)
(* are minted, and with any number of rejected writes and restarts.           *)
EXTENDS DeviceAccess, CollectionProofs

Callers    == Handlers \cup {Background}
StatusMap  == [Devices -> DeviceStatus \cup {Nobody}]
SessionMap == [Sessions -> Session \cup {Nobody}]
RuleMap    == [Devices -> BOOLEAN]

SessionSteps == {"login", "refresh", "reuse", "looping", "session"}
StatusSteps  == {"approving", "revoking", "removing"}

\* What a job is about is there, and a handler waits for the store its step
\* says, once, and for no other.
AccessJob(j) ==
    /\ j.at \in {"login", "refresh"} => j.t \in Tokens
    /\ j.at \in {"login", "refresh", "reuse", "session"} => j.s \in Sessions
    /\ j.at \in {"approving", "revoking", "rules", "removing"} => j.d \in Devices
    /\ j.at \in {"next", "looping"} /\ j.for \in {"revoke", "delete"} => j.d \in Devices
    /\ j.at \in {"rules", "removing"} => j.todo = {}

AccessWaits ==
    /\ \A h \in Handlers :
          /\ AccessJob(jobs[h])
          /\ h \in Waiting(sessions) <=> jobs[h].at \in SessionSteps
          /\ h \in Waiting(devices) <=> jobs[h].at \in StatusSteps
          /\ h \in Waiting(rules) <=> jobs[h].at = "rules"
    /\ Single(sessions, Handlers) /\ Single(devices, Handlers) /\ Single(rules, Handlers)

AccessStores ==
    /\ devices \in Collections(StatusMap, Callers)
    /\ sessions \in Collections(SessionMap, Callers)
    /\ rules \in Collections(RuleMap, Callers)

----------------------------------------------------------------------------
\* Sessions that are ended, or known; a token that is nobody's current one; no
\* two sessions with one current token, and none from the future.
EndedIn(s)   == {V \in SessionMap : V[s] # Nobody /\ V[s].revoked}
Lacking(t)   == {V \in SessionMap : \A r \in Sessions : V[r] # Nobody => V[r].now # t}
Apart        == {V \in SessionMap : \A r, q \in Sessions :
                    V[r] # Nobody /\ V[q] # Nobody /\ V[r].now = V[q].now => r = q}
MintedBy(m)  == {V \in SessionMap : \A r \in Sessions : V[r] # Nobody => V[r].now <= m}

Present(s)   == {V \in SessionMap : V[s] # Nobody}

\* What no later content takes back, with m tokens minted.
Ratchets(m) ==
    {EndedIn(s) : s \in Sessions} \cup {Present(s) : s \in Sessions} \cup {Lacking(t) : t \in 1 .. m}

\* A content that follows another one: what is ended stays ended, what is
\* known stays the session of its device, and no token comes back.
Follows(V, m, C, k) ==
    /\ C \in SessionMap /\ C \in Apart /\ C \in MintedBy(k) /\ m <= k
    /\ \A S \in Ratchets(m) : V \in S => C \in S
    /\ \A s \in Sessions : V[s] # Nobody => C[s] # Nobody /\ C[s].device = V[s].device

\* A store of sessions moves on, and the tokens minted from m to k.
Onward(store, to, m, k) ==
    /\ m <= k
    /\ Everywhere(to, Apart) /\ Everywhere(to, MintedBy(k))
    /\ \A S \in Ratchets(m) : Everywhere(store, S) => Everywhere(to, S)
    /\ \A S \in Ratchets(m), b \in Waiting(store) : Since(store, b, S) => Since(to, b, S)

\* A session's record is replaced or a new one added, with its token or with a
\* new one.
LEMMA ChangeFollows ==
    ASSUME NEW m \in Nat, NEW k \in Nat, m <= k,
           NEW V \in SessionMap, V \in Apart, V \in MintedBy(m),
           NEW s \in Sessions, NEW new \in Session,
           V[s] # Nobody => new.device = V[s].device /\ (V[s].revoked => new.revoked),
           \/ new.now = k /\ m < k
           \/ V[s] # Nobody /\ new.now = V[s].now,
           NEW C \in SessionMap, C[s] = new, \A r \in Sessions \ {s} : C[r] = V[r]
    PROVE  Follows(V, m, C, k)
<1>1. new # Nobody
  BY NobodyAssumption
<1>2. ASSUME NEW r \in Sessions, V[r] # Nobody
      PROVE  V[r].now \in Nat /\ V[r].now <= m
  <2>1. V[r] \in Session
    BY <1>2 DEF SessionMap
  <2>2. MaxTokens \in Nat
    BY AccessAssumption
  <2>3. V[r].now \in 1 .. MaxTokens
    BY <2>1 DEF Session, Tokens
  <2> QED BY <1>2, <2>2, <2>3 DEF MintedBy
<1>3. ASSUME NEW r \in Sessions, NEW q \in Sessions, C[r] # Nobody, C[q] # Nobody, C[r].now = C[q].now
      PROVE  r = q
  <2>1. CASE r # s /\ q # s
    BY <1>3, <2>1 DEF Apart
  <2>2. CASE r = s /\ q # s
    BY <1>2, <1>3, <2>2 DEF Apart
  <2>3. CASE r # s /\ q = s
    BY <1>2, <1>3, <2>3 DEF Apart
  <2> QED BY <2>1, <2>2, <2>3
<1>4. ASSUME NEW r \in Sessions, C[r] # Nobody PROVE C[r].now <= k
  <2>1. CASE r = s
    BY <1>2, <2>1
  <2>2. CASE r # s
    <3>1. V[r] # Nobody /\ C[r] = V[r]
      BY <1>4, <2>2
    <3> QED BY <1>2, <3>1
  <2> QED BY <2>1, <2>2
<1>5. ASSUME NEW r \in Sessions, V \in EndedIn(r) PROVE C \in EndedIn(r)
  BY <1>1, <1>5 DEF EndedIn
<1>6. ASSUME NEW r \in Sessions, V[r] # Nobody PROVE C[r] # Nobody /\ C[r].device = V[r].device
  BY <1>1, <1>6
<1>7. ASSUME NEW t \in 1 .. m, V \in Lacking(t), NEW r \in Sessions, C[r] # Nobody PROVE C[r].now # t
  BY <1>7 DEF Lacking
<1>8. C \in Apart /\ C \in MintedBy(k)
  BY <1>3, <1>4 DEF Apart, MintedBy
<1>9. ASSUME NEW r \in Sessions, V \in Present(r) PROVE C \in Present(r)
  BY <1>6, <1>9 DEF Present
<1>10. ASSUME NEW t \in 1 .. m, V \in Lacking(t) PROVE C \in Lacking(t)
  BY <1>7, <1>10 DEF Lacking
<1>11. ASSUME NEW S \in Ratchets(m), V \in S PROVE C \in S
  BY <1>5, <1>9, <1>10, <1>11 DEF Ratchets
<1> QED BY <1>6, <1>8, <1>11 DEF Follows

\* A new session, with a token of its own.
LEMMA LoginFollows ==
    ASSUME NEW m \in Nat, m + 1 \in Tokens,
           NEW V \in SessionMap, V \in Apart, V \in MintedBy(m),
           NEW s \in Sessions, V[s] = Nobody, NEW d \in Devices,
           NEW C, C = [V EXCEPT ![s] = [device |-> d, now |-> m + 1, before |-> Nobody, revoked |-> FALSE]]
    PROVE  Follows(V, m, C, m + 1)
<1> DEFINE new == [device |-> d, now |-> m + 1, before |-> Nobody, revoked |-> FALSE]
<1>1. new \in Session /\ new.now = m + 1
  BY DEF Session
<1>2. /\ C \in SessionMap /\ C[s] = new /\ \A r \in Sessions \ {s} : C[r] = V[r]
  BY <1>1 DEF SessionMap
<1>3. m + 1 \in Nat /\ m < m + 1 /\ m <= m + 1
  OBVIOUS
<1> HIDE DEF new
<1> DEFINE k == m + 1
<1> HIDE DEF k
<1>4. k \in Nat /\ m < k /\ m <= k /\ new.now = k
  BY <1>1, <1>3 DEF k
<1>5. Follows(V, m, C, k)
  BY <1>1, <1>2, <1>4, ChangeFollows
<1> QED BY <1>5 DEF k

\* The current token of a session is replaced by a new one.
LEMMA RefreshFollows ==
    ASSUME NEW m \in Nat, m + 1 \in Tokens,
           NEW V \in SessionMap, V \in Apart, V \in MintedBy(m),
           NEW s \in Sessions, V[s] # Nobody, ~V[s].revoked, NEW t, t = V[s].now,
           NEW C, C = [V EXCEPT ![s].now = m + 1, ![s].before = t]
    PROVE  Follows(V, m, C, m + 1) /\ C \in Lacking(t) /\ t \in Tokens /\ t \in 1 .. m
<1> DEFINE new == [V[s] EXCEPT !.now = m + 1, !.before = t]
<1>1. V[s] \in Session
  BY DEF SessionMap
<1>2. t \in Tokens
  BY <1>1 DEF Session
<1>3. t \in 1 .. m
  <2>1. MaxTokens \in Nat
    BY AccessAssumption
  <2>2. t <= m
    BY DEF MintedBy
  <2> QED BY <1>2, <2>1, <2>2 DEF Tokens
<1>4. /\ new \in Session /\ new.now = m + 1 /\ new.device = V[s].device
      /\ new.revoked = V[s].revoked
  BY <1>1, <1>2 DEF Session
<1>5. C \in SessionMap /\ C[s] = new /\ \A r \in Sessions \ {s} : C[r] = V[r]
  BY <1>4 DEF SessionMap
<1> HIDE DEF new
<1>6. Follows(V, m, C, m + 1)
  <2>1. m + 1 \in Nat /\ m < m + 1 /\ m <= m + 1
    OBVIOUS
  <2> DEFINE k == m + 1
  <2> HIDE DEF k
  <2>2. k \in Nat /\ m < k /\ m <= k /\ new.now = k
    BY <1>4, <2>1 DEF k
  <2>3. V[s] # Nobody => new.device = V[s].device /\ (V[s].revoked => new.revoked)
    BY <1>4
  <2>4. Follows(V, m, C, k)
    BY <1>4, <1>5, <2>2, <2>3, ChangeFollows
  <2> QED BY <2>4 DEF k
<1>7. ASSUME NEW r \in Sessions, C[r] # Nobody PROVE C[r].now # t
  <2>1. CASE r = s
    BY <1>3, <1>4, <1>5, <2>1
  <2>2. CASE r # s
    BY <1>5, <1>7, <2>2 DEF Apart
  <2> QED BY <2>1, <2>2
<1>8. C \in Lacking(t)
  BY <1>5, <1>7 DEF Lacking
<1> QED BY <1>2, <1>3, <1>6, <1>8

\* A session that is known is revoked.
LEMMA RevokeFollows ==
    ASSUME NEW m \in Nat, NEW V \in SessionMap, V \in Apart, V \in MintedBy(m),
           NEW s \in Sessions, V[s] # Nobody,
           NEW C, C = [V EXCEPT ![s].revoked = TRUE]
    PROVE  Follows(V, m, C, m) /\ C \in EndedIn(s)
<1> DEFINE new == [V[s] EXCEPT !.revoked = TRUE]
<1>1. V[s] \in Session
  BY DEF SessionMap
<1>2. new \in Session
  BY <1>1 DEF Session
<1>3. new.now = V[s].now /\ new.device = V[s].device /\ new.revoked = TRUE /\ new.before = V[s].before
  BY <1>1 DEF Session
<1>4. C \in SessionMap /\ C[s] = new /\ \A r \in Sessions \ {s} : C[r] = V[r]
  BY <1>2 DEF SessionMap
<1> HIDE DEF new
<1>5. Follows(V, m, C, m)
  <2>1. m <= m
    OBVIOUS
  <2>2. V[s] # Nobody => new.device = V[s].device /\ (V[s].revoked => new.revoked)
    BY <1>3
  <2>3. V[s] # Nobody /\ new.now = V[s].now
    BY <1>3
  <2> QED BY <1>2, <1>4, <2>1, <2>2, <2>3, ChangeFollows
<1>6. C[s] # Nobody
  BY <1>2, <1>4, NobodyAssumption
<1> QED BY <1>3, <1>4, <1>5, <1>6 DEF EndedIn
----------------------------------------------------------------------------
(* Steps of the stores                                                     *)

\* What an update makes of the sessions ...
LEMMA OnwardUpdate ==
    ASSUME NEW store \in Collections(SessionMap, Callers), NEW m \in Nat, NEW k \in Nat,
           Everywhere(store, Apart), Everywhere(store, MintedBy(m)),
           NEW by \in Callers, NEW C, Follows(store.cache, m, C, k),
           NEW to, to = Update(store, by, C)
    PROVE  Onward(store, to, m, k)
<1>1. C \in SessionMap /\ C \in Apart /\ C \in MintedBy(k) /\ m <= k
  BY DEF Follows
<1>2. MintedBy(m) \subseteq MintedBy(k)
  <2>1. SUFFICES ASSUME NEW V \in MintedBy(m), NEW r \in Sessions, V[r] # Nobody
                 PROVE  V[r].now <= k
    BY DEF MintedBy
  <2>2. V[r] \in Session /\ V[r].now <= m
    BY <2>1 DEF MintedBy, SessionMap
  <2>3. MaxTokens \in Nat
    BY AccessAssumption
  <2>4. V[r].now \in 1 .. MaxTokens
    BY <2>2 DEF Session, Tokens
  <2> QED BY <1>1, <2>2, <2>3, <2>4
<1>3. Everywhere(store, MintedBy(k))
  BY <1>2, VersionFacts
<1>4. /\ \A S : Everywhere(store, S) /\ C \in S => Everywhere(to, S)
      /\ \A S, b : /\ Since(store, b, S)
                   /\ b = by => C \in S
                   /\ store.cache \in S => C \in S
                   => Since(to, b, S)
  BY <1>1, UpdateFacts
<1>5. /\ \A S : Everywhere(store, S) => store.cache \in S
      /\ \A S, b : b \in Waiting(store) /\ Since(store, b, S) => store.cache \in S
  BY VersionFacts
<1>6. \A S \in Ratchets(m) : store.cache \in S => C \in S
  BY DEF Follows
<1> QED BY <1>1, <1>3, <1>4, <1>5, <1>6 DEF Onward

\* ... and what a write that lands or is rejected, and a start.
LEMMA OnwardKept ==
    ASSUME NEW store \in Collections(SessionMap, Callers), NEW m \in Nat,
           Everywhere(store, Apart), Everywhere(store, MintedBy(m)),
           NEW to, \/ to = store
                   \/ store.writes # <<>> /\ to = Landed(store)
                   \/ store.writes # <<>> /\ to = Rejected(store)
                   \/ to = Reloaded(store)
    PROVE  Onward(store, to, m, m)
<1>1. /\ \A S : Everywhere(store, S) => Everywhere(to, S)
      /\ \A S, b : Since(store, b, S) => Since(to, b, S)
  BY LandedFacts, RejectedFacts, ReloadedFacts
<1> QED BY <1>1 DEF Onward

\* A collection after a step of h: the others wait as before.
Steady(store, to, T, h) ==
    /\ to \in Collections(T, Callers) /\ Single(to, Handlers)
    /\ \A g \in Handlers : g # h => (g \in Waiting(to) <=> g \in Waiting(store))

\* h leaves it alone ...
LEMMA SteadySame ==
    ASSUME NEW T, NEW store \in Collections(T, Callers), Single(store, Handlers), NEW h
    PROVE  Steady(store, store, T, h)
BY DEF Steady

\* ... or writes ...
LEMMA SteadyUpdate ==
    ASSUME NEW T, NEW store \in Collections(T, Callers), Single(store, Handlers),
           NEW h \in Handlers, h \notin Waiting(store), NEW C \in T,
           NEW to, to = Update(store, h, C)
    PROVE  Steady(store, to, T, h) /\ h \in Waiting(to)
<1>1. h \in Callers
  BY DEF Callers
<1>2. /\ to \in Collections(T, Callers) /\ Waiting(to) = Waiting(store) \cup {h}
      /\ \A H : Single(store, H) /\ (h \in H => h \notin Waiting(store)) => Single(to, H)
  BY <1>1, UpdateFacts
<1> QED BY <1>2 DEF Steady

\* ... or what it wrote lands.
LEMMA SteadyLanded ==
    ASSUME NEW T, NEW store \in Collections(T, Callers), Single(store, Handlers),
           NEW h \in Handlers, Settles(store, h), NEW to, to = Landed(store)
    PROVE  Steady(store, to, T, h) /\ h \notin Waiting(to)
<1>1. store.writes # <<>> /\ Head(store.writes).by = h
  BY DEF Settles
<1>2. /\ to \in Collections(T, Callers)
      /\ Waiting(to) \subseteq Waiting(store)
      /\ \A b \in Waiting(store) : b # h => b \in Waiting(to)
      /\ \A H : Single(store, H) => Single(to, H)
      /\ \A H : Single(store, H) /\ h \in H => h \notin Waiting(to)
  BY <1>1, LandedFacts
<1> QED BY <1>2 DEF Steady

----------------------------------------------------------------------------
(* The inductive invariant                                                 *)

Bounded ==
    /\ tunnels \subseteq Devices /\ sockets \subseteq Sessions
    /\ minted \in 0 .. MaxTokens
    /\ exchanged \in [Tokens -> Nat]
    /\ out \subseteq Devices /\ ended \subseteq Sessions
    /\ spent \in [decisions : Nat, requests : Nat, faults : Nat]

AccessShape == AccessStores /\ AccessWaits /\ jobs \in [Handlers -> Job] /\ Bounded

\* A token that was exchanged, or that a handler is about to exchange, is
\* nobody's current one any more.
TokensFit ==
    /\ Everywhere(sessions, Apart) /\ Everywhere(sessions, MintedBy(minted))
    /\ known \subseteq 1 .. minted
    /\ \A t \in Tokens : exchanged[t] <= 1
    /\ \A t \in Tokens : exchanged[t] > 0 => t <= minted /\ Everywhere(sessions, Lacking(t))
    /\ \A h \in Handlers : jobs[h].at = "login" => jobs[h].t <= minted
    /\ \A h \in Handlers : jobs[h].at = "refresh" =>
          /\ jobs[h].t <= minted /\ exchanged[jobs[h].t] = 0
          /\ Since(sessions, h, Lacking(jobs[h].t)) /\ Since(sessions, h, Present(jobs[h].s))
    /\ \A g, h \in Handlers :
          jobs[g].at = "refresh" /\ jobs[h].at = "refresh" /\ jobs[g].t = jobs[h].t => g = h

\* What is ended is ended in every version, what a handler ends from its write
\* on; a loop has ended what it is done with, and what it has left is known.
EndedFit ==
    /\ \A s \in ended : Everywhere(sessions, EndedIn(s))
    /\ \A s \in sockets : sessions.cache[s] # Nobody
    /\ \A h \in Handlers :
          /\ jobs[h].at \in {"reuse", "session"} => Since(sessions, h, EndedIn(jobs[h].s))
          /\ jobs[h].at = "looping" =>
                \A s \in jobs[h].all \ jobs[h].todo : Since(sessions, h, EndedIn(s))
          /\ jobs[h].at \in {"next", "rules", "removing"} =>
                \A s \in jobs[h].all \ jobs[h].todo : Everywhere(sessions, EndedIn(s))
          /\ jobs[h].at \in {"next", "looping"} =>
                \A s \in jobs[h].todo : sessions.cache[s] # Nobody

NotApproved(d) == {V \in StatusMap : V[d] # "approved"}
Gone(d)        == {V \in StatusMap : V[d] = Nobody}

\* A device that is out is approved in no version; while a handler revokes it
\* and nobody approves it, in none from its write on.
OutFit ==
    /\ \A d \in out :
          /\ Everywhere(devices, NotApproved(d))
          /\ devices.cache[d] # Nobody =>
                d \notin tunnels /\ \A s \in sockets : sessions.cache[s].device # d
    /\ \A h \in Handlers :
          /\ jobs[h].at = "revoking" /\ ~jobs[h].overruled => Since(devices, h, NotApproved(jobs[h].d))
          /\ jobs[h].at \in {"next", "looping"} /\ jobs[h].for = "revoke" /\ ~jobs[h].overruled
                => Everywhere(devices, NotApproved(jobs[h].d))
          /\ jobs[h].at = "removing" => Since(devices, h, Gone(jobs[h].d))

AccessInv == AccessShape /\ TokensFit /\ EndedFit /\ OutFit

\* What was answered for because the device had just gone.
HearsayFit == hearsay \subseteq Devices /\ \A d \in hearsay : devices.cache[d] = Nobody

----------------------------------------------------------------------------
(* What the steps of a handler do to the shape                             *)

\* h goes on with the job J, and waits for the store that J says.
LEMMA Switch ==
    ASSUME AccessShape, NEW h \in Handlers, NEW J \in Job, AccessJob(J), Suspend(h, J),
           Steady(sessions, sessions', SessionMap, h), h \in Waiting(sessions') <=> J.at \in SessionSteps,
           Steady(devices, devices', StatusMap, h), h \in Waiting(devices') <=> J.at \in StatusSteps,
           Steady(rules, rules', RuleMap, h), h \in Waiting(rules') <=> J.at = "rules"
    PROVE  /\ AccessStores' /\ AccessWaits' /\ jobs' \in [Handlers -> Job]
           /\ jobs'[h] = J /\ \A g \in Handlers : g # h => jobs'[g] = jobs[g]
<1>1. jobs \in [Handlers -> Job] /\ AccessWaits /\ AccessStores
  BY DEF AccessShape
<1>2. jobs' \in [Handlers -> Job] /\ jobs'[h] = J /\ \A g \in Handlers : g # h => jobs'[g] = jobs[g]
  BY <1>1 DEF Suspend
<1>3. AccessStores'
  BY DEF AccessStores, Steady
<1>4. ASSUME NEW g \in Handlers
      PROVE  /\ AccessJob(jobs'[g])
             /\ g \in Waiting(sessions') <=> jobs'[g].at \in SessionSteps
             /\ g \in Waiting(devices') <=> jobs'[g].at \in StatusSteps
             /\ g \in Waiting(rules') <=> jobs'[g].at = "rules"
  <2>1. CASE g = h
    BY <1>2, <2>1
  <2>2. CASE g # h
    BY <1>1, <1>2, <2>2 DEF AccessWaits, Steady
  <2> QED BY <2>1, <2>2
<1>5. AccessWaits'
  BY <1>4 DEF AccessWaits, Steady
<1> QED BY <1>2, <1>3, <1>5

\* Whoever waits for one store waits for no other.
LEMMA ShapeFacts ==
    ASSUME AccessShape, NEW h \in Handlers
    PROVE  /\ sessions \in Collections(SessionMap, Callers) /\ Single(sessions, Handlers)
           /\ devices \in Collections(StatusMap, Callers) /\ Single(devices, Handlers)
           /\ rules \in Collections(RuleMap, Callers) /\ Single(rules, Handlers)
           /\ sessions.cache \in SessionMap /\ devices.cache \in StatusMap /\ rules.cache \in RuleMap
           /\ minted \in Nat /\ jobs[h] \in Job /\ AccessJob(jobs[h])
           /\ h \in Waiting(sessions) <=> jobs[h].at \in SessionSteps
           /\ h \in Waiting(devices) <=> jobs[h].at \in StatusSteps
           /\ h \in Waiting(rules) <=> jobs[h].at = "rules"
           /\ Steady(sessions, sessions, SessionMap, h)
           /\ Steady(devices, devices, StatusMap, h)
           /\ Steady(rules, rules, RuleMap, h)
           /\ Free \in Job /\ AccessJob(Free) /\ Free.at = "free"
<1>1. MaxTokens \in Nat
  BY AccessAssumption
<1>2. /\ sessions \in Collections(SessionMap, Callers) /\ Single(sessions, Handlers)
      /\ devices \in Collections(StatusMap, Callers) /\ Single(devices, Handlers)
      /\ rules \in Collections(RuleMap, Callers) /\ Single(rules, Handlers)
  BY DEF AccessShape, AccessStores, AccessWaits
<1>3. sessions.cache \in SessionMap /\ devices.cache \in StatusMap /\ rules.cache \in RuleMap
  BY <1>2, VersionFacts
<1>4. minted \in Nat /\ jobs[h] \in Job
  BY <1>1 DEF AccessShape, Bounded
<1>5. Free \in Job /\ Free.at = "free" /\ AccessJob(Free)
  BY DEF Free, Job, Step, AccessJob
<1>6. /\ Steady(sessions, sessions, SessionMap, h) /\ Steady(devices, devices, StatusMap, h)
      /\ Steady(rules, rules, RuleMap, h)
  BY <1>2, SteadySame
<1> QED BY <1>2, <1>3, <1>4, <1>5, <1>6 DEF AccessShape, AccessWaits

----------------------------------------------------------------------------
(* What every step does to the versions                                    *)

SessionsMove == Onward(sessions, sessions', minted, minted')

\* What no later content of the devices takes back but an approval of one in A.
DeviceRatchets(A) == {NotApproved(d) : d \in Devices \ A} \cup {Gone(d) : d \in Devices}

StatusMoves(A) ==
    \A S \in DeviceRatchets(A) :
        /\ Everywhere(devices, S) => Everywhere(devices', S)
        /\ \A b \in Waiting(devices) : Since(devices, b, S) => Since(devices', b, S)

\* But for a start, nothing known is forgotten, and no device comes back.
CacheMoves ==
    /\ \A s \in Sessions : sessions.cache[s] # Nobody =>
          sessions'.cache[s] # Nobody /\ sessions'.cache[s].device = sessions.cache[s].device
    /\ \A d \in Devices : devices.cache[d] = Nobody => devices'.cache[d] = Nobody

\* A write of the sessions whose content follows the cache.
LEMMA SessionsWritten ==
    ASSUME AccessShape, TokensFit, NEW by \in Callers, NEW C, NEW k \in Nat, minted' = k,
           Follows(sessions.cache, minted, C, k), sessions' = Update(sessions, by, C)
    PROVE  /\ SessionsMove /\ C \in SessionMap /\ sessions'.cache = C
           /\ \A s \in Sessions : sessions.cache[s] # Nobody =>
                 sessions'.cache[s] # Nobody /\ sessions'.cache[s].device = sessions.cache[s].device
<1>1. sessions \in Collections(SessionMap, Callers) /\ minted \in Nat
  <2>1. MaxTokens \in Nat
    BY AccessAssumption
  <2> QED BY <2>1 DEF AccessShape, AccessStores, Bounded
<1>2. Everywhere(sessions, Apart) /\ Everywhere(sessions, MintedBy(minted))
  BY DEF TokensFit
<1>3. Onward(sessions, sessions', minted, k)
  BY <1>1, <1>2, OnwardUpdate
<1>4. C \in SessionMap
  BY DEF Follows
<1>5. sessions'.cache = C
  BY <1>1, <1>4, UpdateFacts
<1> QED BY <1>3, <1>4, <1>5 DEF SessionsMove, Follows

\* A step in which no session changes.
LEMMA SessionsKept ==
    ASSUME AccessShape, TokensFit, minted' = minted,
           \/ sessions' = sessions
           \/ sessions.writes # <<>> /\ sessions' = Landed(sessions)
           \/ sessions.writes # <<>> /\ sessions' = Rejected(sessions)
    PROVE  SessionsMove /\ sessions'.cache = sessions.cache
<1>1. sessions \in Collections(SessionMap, Callers) /\ minted \in Nat
  <2>1. MaxTokens \in Nat
    BY AccessAssumption
  <2> QED BY <2>1 DEF AccessShape, AccessStores, Bounded
<1>2. Everywhere(sessions, Apart) /\ Everywhere(sessions, MintedBy(minted))
  BY DEF TokensFit
<1>3. Onward(sessions, sessions', minted, minted)
  BY <1>1, <1>2, OnwardKept
<1> QED BY <1>1, <1>3, LandedFacts, RejectedFacts DEF SessionsMove

\* A write of the devices.
LEMMA DevicesWritten ==
    ASSUME AccessShape, NEW by \in Callers, NEW C \in StatusMap, NEW A,
           \A S \in DeviceRatchets(A) : devices.cache \in S => C \in S,
           devices' = Update(devices, by, C)
    PROVE  StatusMoves(A) /\ devices'.cache = C
<1>1. devices \in Collections(StatusMap, Callers)
  BY DEF AccessShape, AccessStores, Bounded
<1>2. /\ devices'.cache = C
      /\ \A S : Everywhere(devices, S) /\ C \in S => Everywhere(devices', S)
      /\ \A S, b : /\ Since(devices, b, S)
                   /\ b = by => C \in S
                   /\ devices.cache \in S => C \in S
                   => Since(devices', b, S)
  BY <1>1, UpdateFacts
<1>3. /\ \A S : Everywhere(devices, S) => devices.cache \in S
      /\ \A S, b : b \in Waiting(devices) /\ Since(devices, b, S) => devices.cache \in S
  BY <1>1, VersionFacts
<1> QED BY <1>2, <1>3 DEF StatusMoves

\* The devices after a decision about d, that none or d is approved by.
Decision(d, x, A, C) ==
    /\ C = [devices.cache EXCEPT ![d] = x] /\ C \in StatusMap /\ C[d] = x
    /\ \A e \in Devices : devices.cache[e] = Nobody => C[e] = Nobody
    /\ \A S \in DeviceRatchets(A) : devices.cache \in S => C \in S

\* Approving takes one thing back; any other decision nothing.
LEMMA DecisionFacts ==
    ASSUME AccessShape, NEW d \in Devices, NEW x \in DeviceStatus \cup {Nobody},
           devices.cache[d] # Nobody \/ x = Nobody
    PROVE  /\ \E C : Decision(d, x, {d}, C)
           /\ x # "approved" => \E C : Decision(d, x, {}, C)
<1> DEFINE C == [devices.cache EXCEPT ![d] = x]
<1>1. devices.cache \in StatusMap
  BY VersionFacts DEF AccessShape, AccessStores
<1>2. C \in StatusMap /\ C[d] = x /\ \A e \in Devices \ {d} : C[e] = devices.cache[e]
  BY <1>1 DEF StatusMap
<1> HIDE DEF C
<1>3. ASSUME NEW e \in Devices, devices.cache \in Gone(e) PROVE C \in Gone(e)
  BY <1>2, <1>3 DEF Gone
<1>4. ASSUME NEW e \in Devices, devices.cache \in NotApproved(e), e # d \/ x # "approved"
      PROVE  C \in NotApproved(e)
  BY <1>2, <1>4 DEF NotApproved
<1>5. \A S \in DeviceRatchets({d}) : devices.cache \in S => C \in S
  BY <1>3, <1>4 DEF DeviceRatchets
<1>6. x # "approved" => \A S \in DeviceRatchets({}) : devices.cache \in S => C \in S
  BY <1>3, <1>4 DEF DeviceRatchets
<1>7. \A e \in Devices : devices.cache[e] = Nobody => C[e] = Nobody
  BY <1>2
<1>8. C = [devices.cache EXCEPT ![d] = x]
  BY DEF C
<1>9. Decision(d, x, {d}, C)
  BY <1>2, <1>5, <1>7, <1>8 DEF Decision
<1>10. x # "approved" => Decision(d, x, {}, C)
  BY <1>2, <1>6, <1>7, <1>8 DEF Decision
<1> QED BY <1>9, <1>10

\* A step in which no device changes.
LEMMA DevicesKept ==
    ASSUME AccessShape, NEW A,
           \/ devices' = devices
           \/ devices.writes # <<>> /\ devices' = Landed(devices)
           \/ devices.writes # <<>> /\ devices' = Rejected(devices)
    PROVE  StatusMoves(A) /\ devices'.cache = devices.cache
<1>1. devices \in Collections(StatusMap, Callers)
  BY DEF AccessShape, AccessStores, Bounded
<1> QED BY <1>1, LandedFacts, RejectedFacts DEF StatusMoves

----------------------------------------------------------------------------
(* The steps of a handler                                                  *)

StoresMove(A) == SessionsMove /\ StatusMoves(A) /\ CacheMoves

Awaits(at) == at \in SessionSteps \cup StatusSteps \cup {"rules"}

\* h writes the sessions and waits ...
LEMMA SessionWrites ==
    ASSUME AccessShape, TokensFit, Bounded', NEW h \in Handlers, ~Awaits(jobs[h].at),
           NEW J \in Job, AccessJob(J), J.at \in SessionSteps, Suspend(h, J),
           NEW C, NEW k \in Nat, minted' = k, Follows(sessions.cache, minted, C, k),
           sessions' = Update(sessions, h, C), UNCHANGED <<devices, rules>>
    PROVE  AccessShape' /\ StoresMove({}) /\ sessions'.cache = C
<1>1. h \in Callers
  BY DEF Callers
<1>2. /\ SessionsMove /\ C \in SessionMap /\ StatusMoves({}) /\ CacheMoves
      /\ sessions'.cache = C
  BY <1>1, SessionsWritten, DevicesKept DEF CacheMoves
<1>3. h \notin Waiting(sessions)
  BY ShapeFacts DEF Awaits
<1>4. Steady(sessions, sessions', SessionMap, h) /\ h \in Waiting(sessions')
  BY <1>2, <1>3, ShapeFacts, SteadyUpdate
<1>5. J.at \notin StatusSteps /\ J.at # "rules"
  BY DEF SessionSteps, StatusSteps
<1>6. AccessStores' /\ AccessWaits' /\ jobs' \in [Handlers -> Job]
  BY <1>4, <1>5, ShapeFacts, Switch DEF Awaits
<1> QED BY <1>2, <1>6 DEF AccessShape, StoresMove

\* ... until the write has landed.
LEMMA SessionSettles ==
    ASSUME AccessShape, TokensFit, Bounded', NEW h \in Handlers, Settles(sessions, h),
           NEW J \in Job, AccessJob(J), ~Awaits(J.at), Suspend(h, J), jobs[h].at \in SessionSteps,
           sessions' = Landed(sessions), UNCHANGED <<devices, rules, minted>>
    PROVE  AccessShape' /\ StoresMove({}) /\ sessions'.cache = sessions.cache
<1>1. /\ SessionsMove /\ StatusMoves({}) /\ CacheMoves
      /\ sessions'.cache = sessions.cache
  BY SessionsKept, DevicesKept DEF CacheMoves, Settles
<1>2. Steady(sessions, sessions', SessionMap, h) /\ h \notin Waiting(sessions')
  BY ShapeFacts, SteadyLanded
<1>3. jobs[h].at \notin StatusSteps /\ jobs[h].at # "rules"
  BY DEF SessionSteps, StatusSteps
<1>4. AccessStores' /\ AccessWaits' /\ jobs' \in [Handlers -> Job]
  BY <1>2, <1>3, ShapeFacts, Switch DEF Awaits
<1> QED BY <1>1, <1>4 DEF AccessShape, StoresMove

\* h writes the devices and waits ...
LEMMA DeviceWrites ==
    ASSUME AccessShape, TokensFit, Bounded', NEW h \in Handlers, ~Awaits(jobs[h].at),
           NEW J \in Job, AccessJob(J), J.at \in StatusSteps, Suspend(h, J),
           NEW C \in StatusMap, NEW A,
           \A S \in DeviceRatchets(A) : devices.cache \in S => C \in S,
           \A e \in Devices : devices.cache[e] = Nobody => C[e] = Nobody,
           devices' = Update(devices, h, C), UNCHANGED <<sessions, rules, minted>>
    PROVE  AccessShape' /\ StoresMove(A) /\ devices'.cache = C
<1>1. h \in Callers
  BY DEF Callers
<1>2. SessionsMove /\ StatusMoves(A) /\ CacheMoves /\ devices'.cache = C
  BY <1>1, SessionsKept, DevicesWritten DEF CacheMoves
<1>3. h \notin Waiting(devices)
  BY ShapeFacts DEF Awaits
<1>4. Steady(devices, devices', StatusMap, h) /\ h \in Waiting(devices')
  BY <1>3, ShapeFacts, SteadyUpdate
<1>5. J.at \notin SessionSteps /\ J.at # "rules"
  BY DEF SessionSteps, StatusSteps
<1>6. AccessStores' /\ AccessWaits' /\ jobs' \in [Handlers -> Job]
  BY <1>4, <1>5, ShapeFacts, Switch DEF Awaits
<1> QED BY <1>2, <1>6 DEF AccessShape, StoresMove

\* ... until the write has landed.
LEMMA DeviceSettles ==
    ASSUME AccessShape, TokensFit, Bounded', NEW h \in Handlers, Settles(devices, h),
           NEW J \in Job, AccessJob(J), ~Awaits(J.at), Suspend(h, J), jobs[h].at \in StatusSteps,
           devices' = Landed(devices), UNCHANGED <<sessions, rules, minted>>
    PROVE  AccessShape' /\ StoresMove({}) /\ devices'.cache = devices.cache
<1>1. /\ SessionsMove /\ StatusMoves({}) /\ CacheMoves
      /\ devices'.cache = devices.cache
  BY SessionsKept, DevicesKept DEF CacheMoves, Settles
<1>2. Steady(devices, devices', StatusMap, h) /\ h \notin Waiting(devices')
  BY ShapeFacts, SteadyLanded
<1>3. jobs[h].at \notin SessionSteps /\ jobs[h].at # "rules"
  BY DEF SessionSteps, StatusSteps
<1>4. AccessStores' /\ AccessWaits' /\ jobs' \in [Handlers -> Job]
  BY <1>2, <1>3, ShapeFacts, Switch DEF Awaits
<1> QED BY <1>1, <1>4 DEF AccessShape, StoresMove

\* h goes on without either.
LEMMA StoresStill ==
    ASSUME AccessShape, TokensFit, Bounded', NEW h \in Handlers, ~Awaits(jobs[h].at),
           NEW J \in Job, AccessJob(J), ~Awaits(J.at), Suspend(h, J),
           UNCHANGED <<devices, sessions, rules, minted>>
    PROVE  AccessShape' /\ StoresMove({})
<1>1. SessionsMove /\ StatusMoves({}) /\ CacheMoves
  BY SessionsKept, DevicesKept DEF CacheMoves
<1>2. AccessStores' /\ AccessWaits' /\ jobs' \in [Handlers -> Job]
  BY ShapeFacts, Switch DEF Awaits
<1> QED BY <1>1, <1>2 DEF AccessShape, StoresMove

\* A login ...
LEMMA LoginStep ==
    ASSUME AccessInv, NEW h \in Handlers, NEW d \in Devices, NEW s \in Sessions, Login(h, d, s)
    PROVE  AccessShape' /\ StoresMove({})
<1> DEFINE J == [Free EXCEPT !.at = "login", !.s = s, !.t = minted + 1]
           C == [sessions.cache EXCEPT ![s] =
                    [device |-> d, now |-> minted + 1, before |-> Nobody, revoked |-> FALSE]]
<1>1. AccessShape /\ TokensFit /\ MaxTokens \in Nat
  BY AccessAssumption DEF AccessInv
<1>2. /\ minted \in 0 .. MaxTokens /\ minted + 1 \in Tokens /\ minted + 1 \in Nat
      /\ minted + 1 \in 0 .. MaxTokens
  BY <1>1 DEF Login, AccessShape, Bounded, Tokens
<1>3. J \in Job /\ J.at = "login" /\ J.s = s /\ J.t = minted + 1
  BY <1>2 DEF Job, Free, Step
<1>4. AccessJob(J)
  BY <1>2, <1>3 DEF AccessJob
<1>5. /\ jobs[h].at = "free" /\ sessions' = Update(sessions, h, C) /\ Suspend(h, J)
      /\ minted' = minted + 1 /\ sessions.cache[s] = Nobody
      /\ UNCHANGED <<devices, rules, tunnels, sockets, exchanged, out, ended, spent>>
  BY <1>1, ShapeFacts DEF Login, IsFree, Known, stores, history
<1>6. Follows(sessions.cache, minted, C, minted + 1)
  <2>1. sessions.cache \in Apart /\ sessions.cache \in MintedBy(minted)
    BY <1>1, VersionFacts DEF TokensFit, AccessShape, AccessStores
  <2> QED BY <1>1, <1>2, <1>5, <2>1, ShapeFacts, LoginFollows
<1> HIDE DEF J, C
<1>7. Bounded'
  BY <1>1, <1>2, <1>5 DEF AccessShape, Bounded
<1> QED BY <1>1, <1>2, <1>3, <1>4, <1>5, <1>6, <1>7, SessionWrites DEF SessionSteps, StatusSteps, Awaits

\* ... a refresh, each with a new token ...
LEMMA RefreshStep ==
    ASSUME AccessInv, NEW h \in Handlers, NEW s \in Sessions, NEW t, Refresh(h, s, t)
    PROVE  /\ AccessShape' /\ StoresMove({}) /\ t \in Tokens /\ t \in 1 .. minted
           /\ minted' = minted + 1 /\ sessions.cache \notin Lacking(t)
           /\ sessions'.cache \in Lacking(t) /\ sessions'.cache \in Present(s)
<1> DEFINE J == [Free EXCEPT !.at = "refresh", !.s = s, !.t = t]
           C == [sessions.cache EXCEPT ![s].now = minted + 1, ![s].before = t]
<1>1. AccessShape /\ TokensFit /\ MaxTokens \in Nat
  BY AccessAssumption DEF AccessInv
<1>2. /\ minted \in 0 .. MaxTokens /\ minted + 1 \in Tokens /\ minted + 1 \in Nat
      /\ minted + 1 \in 0 .. MaxTokens
  BY <1>1 DEF Refresh, AccessShape, Bounded, Tokens
<1>3. /\ jobs[h].at = "free" /\ sessions' = Update(sessions, h, C) /\ Suspend(h, J)
      /\ minted' = minted + 1
      /\ UNCHANGED <<devices, rules, tunnels, sockets, exchanged, out, ended, spent>>
  BY <1>1, ShapeFacts DEF Refresh, IsFree, stores, history
<1>4. /\ sessions.cache[s] # Nobody /\ ~sessions.cache[s].revoked
      /\ t = sessions.cache[s].now
  BY DEF Refresh, Finds, IsActive, Known
<1>5. /\ Follows(sessions.cache, minted, C, minted + 1) /\ C \in Lacking(t)
      /\ t \in Tokens /\ t \in 1 .. minted
  <2>1. sessions.cache \in Apart /\ sessions.cache \in MintedBy(minted)
    BY <1>1, VersionFacts DEF TokensFit, AccessShape, AccessStores
  <2> QED BY <1>1, <1>2, <1>4, <2>1, ShapeFacts, RefreshFollows
<1>6. J \in Job /\ J.at = "refresh" /\ J.s = s /\ J.t = t
  BY <1>5 DEF Job, Free, Step
<1>7. AccessJob(J)
  BY <1>5, <1>6 DEF AccessJob
<1> HIDE DEF J, C
<1>8. Bounded'
  BY <1>1, <1>2, <1>3 DEF AccessShape, Bounded
<1>9. AccessShape' /\ StoresMove({}) /\ sessions'.cache = C
  BY <1>1, <1>2, <1>3, <1>5, <1>6, <1>7, <1>8, SessionWrites DEF SessionSteps, StatusSteps, Awaits
<1>10. sessions.cache \notin Lacking(t) /\ C \in Present(s)
  BY <1>4, <1>5 DEF Lacking, Present, Follows
<1> QED BY <1>3, <1>5, <1>9, <1>10

\* ... and a token that was used before.
LEMMA ReuseStep ==
    ASSUME AccessInv, NEW h \in Handlers, NEW s \in Sessions, NEW t, DetectReuse(h, s, t)
    PROVE  AccessShape' /\ StoresMove({}) /\ sessions'.cache \in EndedIn(s)
<1> DEFINE J == [Free EXCEPT !.at = "reuse", !.s = s]
           C == [sessions.cache EXCEPT ![s].revoked = TRUE]
<1>1. AccessShape /\ TokensFit
  BY DEF AccessInv
<1>2. /\ jobs[h].at = "free" /\ sessions' = Update(sessions, h, C) /\ Suspend(h, J)
      /\ UNCHANGED <<devices, rules, tunnels, sockets, minted, exchanged, out, ended, spent>>
  BY <1>1, ShapeFacts DEF DetectReuse, IsFree, RevokedIn, stores, history
<1>3. sessions.cache[s] # Nobody
  BY DEF DetectReuse, Finds, IsActive, Known
<1>4. Follows(sessions.cache, minted, C, minted) /\ C \in EndedIn(s)
  <2>1. sessions.cache \in Apart /\ sessions.cache \in MintedBy(minted)
    BY <1>1, VersionFacts DEF TokensFit, AccessShape, AccessStores
  <2> QED BY <1>1, <1>3, <2>1, ShapeFacts, RevokeFollows
<1>5. J \in Job /\ J.at = "reuse" /\ J.s = s
  BY DEF Job, Free, Step
<1>6. AccessJob(J)
  BY <1>5 DEF AccessJob
<1> HIDE DEF J, C
<1>7. Bounded'
  BY <1>1, <1>2 DEF AccessShape, Bounded
<1>8. minted \in Nat
  BY <1>1, ShapeFacts
<1> QED BY <1>1, <1>2, <1>4, <1>5, <1>6, <1>7, <1>8, SessionWrites DEF SessionSteps, StatusSteps, Awaits

\* What is answered when the write of the sessions has landed, and a loop that
\* goes on.
LEMMA AnswerStep ==
    ASSUME AccessInv, NEW h \in Handlers,
           AnswerLogin(h) \/ AnswerRefresh(h) \/ AnswerReuse(h) \/ NextRevoked(h) \/ SessionRevoked(h)
    PROVE  AccessShape' /\ StoresMove({}) /\ sessions'.cache = sessions.cache
<1>1. AccessShape /\ TokensFit
  BY DEF AccessInv
<1>2. /\ Settles(sessions, h) /\ sessions' = Landed(sessions)
      /\ UNCHANGED <<devices, rules, tunnels, minted, out, spent>>
      /\ sockets' \subseteq sockets /\ jobs[h].at \in SessionSteps
  BY DEF AnswerLogin, AnswerRefresh, AnswerReuse, NextRevoked, SessionRevoked, history, SessionSteps
<1>3. ended' \subseteq Sessions
  <2>1. jobs[h].at \in {"reuse", "session"} => jobs[h].s \in Sessions
    BY <1>1, ShapeFacts DEF AccessJob
  <2> QED BY <1>1, <2>1 DEF AnswerLogin, AnswerRefresh, AnswerReuse, NextRevoked, SessionRevoked,
                            history, AccessShape, Bounded
<1>4. exchanged' \in [Tokens -> Nat]
  <2>1. jobs[h].at = "refresh" => jobs[h].t \in Tokens
    BY <1>1, ShapeFacts DEF AccessJob
  <2>2. exchanged \in [Tokens -> Nat]
    BY <1>1 DEF AccessShape, Bounded
  <2>3. CASE AnswerRefresh(h)
    <3>1. exchanged[jobs[h].t] + 1 \in Nat /\ exchanged' = [exchanged EXCEPT ![jobs[h].t] = @ + 1]
      BY <2>1, <2>2, <2>3 DEF AnswerRefresh
    <3> QED BY <2>2, <3>1
  <2>4. CASE ~AnswerRefresh(h)
    BY <2>2, <2>4 DEF AnswerLogin, AnswerReuse, NextRevoked, SessionRevoked, history
  <2> QED BY <2>3, <2>4
<1>5. Bounded'
  BY <1>1, <1>2, <1>3, <1>4 DEF AccessShape, Bounded
<1>6. PICK J \in Job : AccessJob(J) /\ ~Awaits(J.at) /\ Suspend(h, J)
  <2>1. CASE NextRevoked(h)
    <3> DEFINE J == [jobs[h] EXCEPT !.at = "next"]
    <3>1. jobs[h] \in Job /\ AccessJob(jobs[h]) /\ jobs[h].at = "looping"
      BY <1>1, <2>1, ShapeFacts DEF NextRevoked
    <3>2. J \in Job /\ J.at = "next" /\ J.for = jobs[h].for /\ J.d = jobs[h].d
      BY <3>1 DEF Job, Step
    <3>3. Suspend(h, J)
      BY <2>1 DEF NextRevoked
    <3> HIDE DEF J
    <3>4. AccessJob(J) /\ ~Awaits(J.at)
      BY <3>1, <3>2 DEF AccessJob, Awaits, SessionSteps, StatusSteps
    <3> QED BY <3>2, <3>3, <3>4
  <2>2. CASE ~NextRevoked(h)
    <3>1. Suspend(h, Free)
      BY <2>2 DEF AnswerLogin, AnswerRefresh, AnswerReuse, SessionRevoked, Finish, Suspend
    <3> QED BY <1>1, <3>1, ShapeFacts DEF Awaits, SessionSteps, StatusSteps
  <2> QED BY <2>1, <2>2
<1> QED BY <1>1, <1>2, <1>5, <1>6, SessionSettles

\* A session is revoked, in a loop or alone.
LEMMA RevokeSessionStep ==
    ASSUME AccessInv, NEW h \in Handlers, NEW s \in Sessions, RevokeSession(h, s)
    PROVE  AccessShape' /\ StoresMove({}) /\ sessions'.cache \in EndedIn(s)
<1> DEFINE J == [Free EXCEPT !.at = "session", !.s = s]
           C == [sessions.cache EXCEPT ![s].revoked = TRUE]
<1>1. AccessShape /\ TokensFit
  BY DEF AccessInv
<1>2. /\ jobs[h].at = "free" /\ sessions' = Update(sessions, h, C) /\ Suspend(h, J)
      /\ UNCHANGED <<devices, rules, tunnels, sockets, minted, exchanged, out, ended>>
      /\ sessions.cache[s] # Nobody
  BY <1>1, ShapeFacts DEF RevokeSession, IsFree, RevokedIn, history, Known
<1>3. Follows(sessions.cache, minted, C, minted) /\ C \in EndedIn(s)
  <2>1. sessions.cache \in Apart /\ sessions.cache \in MintedBy(minted)
    BY <1>1, VersionFacts DEF TokensFit, AccessShape, AccessStores
  <2> QED BY <1>1, <1>2, <2>1, ShapeFacts, RevokeFollows
<1>4. J \in Job /\ J.at = "session" /\ J.s = s
  BY DEF Job, Free, Step
<1>5. AccessJob(J)
  BY <1>4 DEF AccessJob
<1> HIDE DEF J, C
<1>6. spent' \in [decisions : Nat, requests : Nat, faults : Nat]
  BY <1>1 DEF RevokeSession, Spend, AccessShape, Bounded
<1>7. Bounded'
  BY <1>1, <1>2, <1>6 DEF AccessShape, Bounded
<1>8. minted \in Nat
  BY <1>1, ShapeFacts
<1> QED BY <1>1, <1>2, <1>3, <1>4, <1>5, <1>7, <1>8, SessionWrites DEF SessionSteps, StatusSteps, Awaits

\* The next of the sessions in hand is put back as revoked.
LEMMA RevokeNextStep ==
    ASSUME AccessInv, NEW h \in Handlers, RevokeNext(h)
    PROVE  /\ AccessShape' /\ StoresMove({})
           /\ \E s \in jobs[h].todo :
                 /\ sessions'.cache \in EndedIn(s)
                 /\ jobs' = [jobs EXCEPT ![h] = [jobs[h] EXCEPT !.at = "looping", !.todo = @ \ {s}]]
<1>1. AccessShape /\ TokensFit
  BY DEF AccessInv
<1>2. PICK s \in jobs[h].todo :
        /\ sessions' = Update(sessions, h, RevokedIn(sessions, s))
        /\ Suspend(h, [jobs[h] EXCEPT !.at = "looping", !.todo = @ \ {s}])
  BY DEF RevokeNext
<1> DEFINE J == [jobs[h] EXCEPT !.at = "looping", !.todo = @ \ {s}]
           C == [sessions.cache EXCEPT ![s].revoked = TRUE]
<1>3. /\ jobs[h] \in Job /\ AccessJob(jobs[h]) /\ jobs[h].at = "next" /\ s \in Sessions
      /\ sessions.cache[s] # Nobody
  BY <1>1, <1>2, ShapeFacts DEF RevokeNext, Job, AccessInv, EndedFit
<1>4. J \in Job /\ J.at = "looping" /\ J.for = jobs[h].for /\ J.d = jobs[h].d
  BY <1>3 DEF Job, Step
<1>5. AccessJob(J)
  BY <1>3, <1>4 DEF AccessJob
<1>6. Follows(sessions.cache, minted, C, minted) /\ C \in EndedIn(s)
  <2>1. sessions.cache \in Apart /\ sessions.cache \in MintedBy(minted)
    BY <1>1, VersionFacts DEF TokensFit, AccessShape, AccessStores
  <2> QED BY <1>1, <1>3, <2>1, ShapeFacts, RevokeFollows
<1>7. sessions' = Update(sessions, h, C) /\ Suspend(h, J)
  BY <1>2 DEF RevokedIn
<1>8. jobs' = [jobs EXCEPT ![h] = J]
  BY <1>7 DEF Suspend
<1>9. UNCHANGED <<devices, rules, tunnels, sockets, minted, exchanged, out, ended, spent>>
  BY DEF RevokeNext, history
<1> HIDE DEF C
<1>10. Bounded'
  BY <1>1, <1>9 DEF AccessShape, Bounded
<1>11. minted \in Nat
  BY <1>1, ShapeFacts
<1>12. AccessShape' /\ StoresMove({}) /\ sessions'.cache = C
  <2> HIDE DEF J
  <2> QED BY <1>1, <1>3, <1>4, <1>5, <1>6, <1>7, <1>9, <1>10, <1>11, SessionWrites
             DEF SessionSteps, StatusSteps, Awaits
<1> QED BY <1>6, <1>8, <1>12

\* A device is rejected or revoked.
LEMMA RefuseStep ==
    ASSUME AccessInv, NEW h \in Handlers, NEW d \in Devices, RejectDevice(h, d) \/ RevokeDevice(h, d)
    PROVE  AccessShape' /\ StoresMove({}) /\ devices'.cache \in NotApproved(d) /\ devices.cache[d] # Nobody
<1>1. AccessShape /\ TokensFit
  BY DEF AccessInv
<1>2. PICK x \in {"rejected", "revoked"} : devices' = Update(devices, h, [devices.cache EXCEPT ![d] = x])
  BY DEF RejectDevice, RevokeDevice
<1>3. PICK at \in {"approving", "revoking"} : Suspend(h, [Free EXCEPT !.at = at, !.d = d])
  BY DEF RejectDevice, RevokeDevice
<1> DEFINE J == [Free EXCEPT !.at = at, !.d = d]
<1>4. J \in Job /\ J.at = at /\ J.d = d
  BY DEF Job, Free, Step
<1>5. AccessJob(J)
  BY <1>4 DEF AccessJob
<1>6. /\ jobs[h].at = "free" /\ devices.cache[d] # Nobody
      /\ UNCHANGED <<sessions, rules, tunnels, sockets, minted, exchanged, out, ended>>
  BY <1>1, ShapeFacts DEF RejectDevice, RevokeDevice, IsFree, history
<1>7. spent' \in [decisions : Nat, requests : Nat, faults : Nat]
  BY <1>1 DEF RejectDevice, RevokeDevice, Spend, AccessShape, Bounded
<1>8. Bounded'
  BY <1>1, <1>6, <1>7 DEF AccessShape, Bounded
<1>9. PICK C : Decision(d, x, {}, C)
  <2>1. x \in DeviceStatus \cup {Nobody} /\ x # "approved"
    BY DEF DeviceStatus
  <2>2. devices.cache[d] # Nobody \/ x = Nobody
    BY <1>6
  <2> QED BY <1>1, <2>1, <2>2, DecisionFacts
<1>10. /\ Suspend(h, J) /\ devices' = Update(devices, h, C) /\ C \in StatusMap /\ C[d] = x
       /\ \A e \in Devices : devices.cache[e] = Nobody => C[e] = Nobody
       /\ \A S \in DeviceRatchets({}) : devices.cache \in S => C \in S
  BY <1>2, <1>3, <1>9 DEF Decision
<1> HIDE DEF J
<1>11. AccessShape' /\ StoresMove({}) /\ devices'.cache = C
  BY <1>1, <1>4, <1>5, <1>6, <1>8, <1>10, DeviceWrites
     DEF SessionSteps, StatusSteps, Awaits
<1> QED BY <1>6, <1>10, <1>11 DEF NotApproved

\* A job but for the mark that the device was approved meanwhile.
SameJob(i, j) ==
    /\ i.at = j.at /\ i.for = j.for /\ i.d = j.d /\ i.s = j.s /\ i.t = j.t
    /\ i.todo = j.todo /\ i.all = j.all

\* A device is approved, and whoever revokes it is overruled.
LEMMA ApproveStep ==
    ASSUME AccessInv, NEW h \in Handlers, NEW d \in Devices, ApproveDevice(h, d)
    PROVE  /\ AccessShape' /\ StoresMove({d}) /\ devices.cache[d] # Nobody
           /\ jobs'[h].at = "approving" /\ jobs[h].at = "free"
           /\ \A g \in Handlers : g # h =>
                 /\ SameJob(jobs'[g], jobs[g])
                 /\ jobs[g].overruled => jobs'[g].overruled
                 /\ jobs[g].d = d => jobs'[g].overruled
<1> DEFINE J == [Free EXCEPT !.at = "approving", !.d = d]
<1>1. AccessShape /\ TokensFit /\ jobs \in [Handlers -> Job]
  BY DEF AccessInv, AccessShape
<1>2. J \in Job /\ J.at = "approving" /\ J.d = d
  BY DEF Job, Free, Step
<1>3. AccessJob(J)
  BY <1>2 DEF AccessJob
<1>4. /\ jobs[h].at = "free" /\ devices.cache[d] # Nobody
      /\ UNCHANGED <<sessions, rules, tunnels, sockets, minted, exchanged, ended>>
      /\ out' \subseteq out
  BY <1>1, ShapeFacts DEF ApproveDevice, IsFree
<1>5. spent' \in [decisions : Nat, requests : Nat, faults : Nat]
  BY <1>1 DEF ApproveDevice, Spend, AccessShape, Bounded
<1>6. Bounded'
  BY <1>1, <1>4, <1>5 DEF AccessShape, Bounded
<1>7. PICK C : Decision(d, "approved", {d}, C)
  <2>1. "approved" \in DeviceStatus \cup {Nobody}
    BY DEF DeviceStatus
  <2> QED BY <1>1, <1>4, <2>1, DecisionFacts
<1>8. /\ devices' = Update(devices, h, C) /\ C \in StatusMap
      /\ \A e \in Devices : devices.cache[e] = Nobody => C[e] = Nobody
      /\ \A S \in DeviceRatchets({d}) : devices.cache \in S => C \in S
  BY <1>7 DEF ApproveDevice, Decision
<1>9. jobs' \in [Handlers -> Job] /\ jobs'[h] = J
  <2>1. \A g \in Handlers : [jobs[g] EXCEPT !.overruled = @ \/ jobs[g].d = d] \in Job
    BY <1>1 DEF Job
  <2> QED BY <1>2, <2>1 DEF ApproveDevice
<1>10. ASSUME NEW g \in Handlers, g # h
       PROVE  /\ SameJob(jobs'[g], jobs[g])
              /\ jobs[g].overruled => jobs'[g].overruled
              /\ jobs[g].d = d => jobs'[g].overruled
  <2>1. jobs[g] \in Job /\ jobs'[g] = [jobs[g] EXCEPT !.overruled = @ \/ jobs[g].d = d]
    BY <1>1, <1>10 DEF ApproveDevice
  <2> QED BY <2>1 DEF Job, SameJob
<1> HIDE DEF J
<1>11. /\ SessionsMove /\ StatusMoves({d}) /\ CacheMoves
  <2>1. h \in Callers
    BY DEF Callers
  <2> QED BY <1>1, <1>4, <1>8, <2>1, SessionsKept, DevicesWritten DEF CacheMoves
<1>12. Steady(devices, devices', StatusMap, h) /\ h \in Waiting(devices')
  <2>1. h \notin Waiting(devices)
    BY <1>1, <1>4, ShapeFacts DEF StatusSteps
  <2> QED BY <1>1, <1>8, <2>1, ShapeFacts, SteadyUpdate
<1>13. Steady(sessions, sessions', SessionMap, h) /\ Steady(rules, rules', RuleMap, h)
  BY <1>1, <1>4, ShapeFacts
<1>14. ASSUME NEW g \in Handlers
       PROVE  /\ AccessJob(jobs'[g])
              /\ g \in Waiting(sessions') <=> jobs'[g].at \in SessionSteps
              /\ g \in Waiting(devices') <=> jobs'[g].at \in StatusSteps
              /\ g \in Waiting(rules') <=> jobs'[g].at = "rules"
  <2>1. CASE g = h
    BY <1>1, <1>2, <1>3, <1>4, <1>9, <1>12, <2>1, ShapeFacts DEF SessionSteps, StatusSteps
  <2>2. CASE g # h
    <3>1. SameJob(jobs'[g], jobs[g])
      BY <1>10, <2>2
    <3>2. AccessJob(jobs[g]) => AccessJob(jobs'[g])
      BY <3>1 DEF SameJob, AccessJob
    <3> QED BY <1>1, <1>12, <1>13, <2>2, <3>1, <3>2, ShapeFacts DEF Steady, SameJob
  <2> QED BY <2>1, <2>2
<1>15. AccessStores' /\ AccessWaits'
  BY <1>12, <1>13, <1>14 DEF AccessStores, AccessWaits, Steady
<1> QED BY <1>2, <1>4, <1>6, <1>9, <1>10, <1>11, <1>15 DEF AccessShape, StoresMove

\* The write of the devices has landed: h is done, or goes on with the sessions.
LEMMA DeviceAnswerStep ==
    ASSUME AccessInv, NEW h \in Handlers, DeviceSaved(h) \/ DeviceRevoked(h) \/ DeviceDeleted(h)
    PROVE  AccessShape' /\ StoresMove({}) /\ devices'.cache = devices.cache
<1>1. AccessShape /\ TokensFit
  BY DEF AccessInv
<1>2. /\ Settles(devices, h) /\ devices' = Landed(devices)
      /\ UNCHANGED <<sessions, rules, tunnels, sockets, minted, exchanged, spent>>
      /\ jobs[h].at \in StatusSteps
  BY DEF DeviceSaved, DeviceRevoked, DeviceDeleted, history, StatusSteps
<1>3. out' \subseteq Devices /\ ended' \subseteq Sessions
  <2>1. jobs[h].at = "removing" => jobs[h].d \in Devices
    BY <1>1, ShapeFacts DEF AccessJob
  <2>2. jobs[h].all \subseteq Sessions
    BY <1>1, ShapeFacts DEF Job
  <2> QED BY <1>1, <2>1, <2>2 DEF DeviceSaved, DeviceRevoked, DeviceDeleted, history, AccessShape, Bounded
<1>4. Bounded'
  BY <1>1, <1>2, <1>3 DEF AccessShape, Bounded
<1>5. PICK J \in Job : AccessJob(J) /\ ~Awaits(J.at) /\ Suspend(h, J)
  <2>1. CASE DeviceRevoked(h)
    <3> DEFINE J == [Loop("revoke", jobs[h].d, SessionsOf(jobs[h].d)) EXCEPT !.overruled = jobs[h].overruled]
    <3>1. jobs[h] \in Job /\ jobs[h].d \in Devices
      BY <1>1, <2>1, ShapeFacts DEF DeviceRevoked, AccessJob
    <3>2. J \in Job /\ J.at = "next" /\ J.d = jobs[h].d
      BY <3>1 DEF Job, Step, Loop, Free, SessionsOf
    <3>3. Suspend(h, J)
      BY <2>1 DEF DeviceRevoked
    <3> HIDE DEF J
    <3>4. AccessJob(J) /\ ~Awaits(J.at)
      BY <3>1, <3>2 DEF AccessJob, Awaits, SessionSteps, StatusSteps
    <3> QED BY <3>2, <3>3, <3>4
  <2>2. CASE ~DeviceRevoked(h)
    <3>1. Suspend(h, Free)
      BY <2>2 DEF DeviceSaved, DeviceDeleted, Finish, Suspend
    <3> QED BY <1>1, <3>1, ShapeFacts DEF Awaits, SessionSteps, StatusSteps
  <2> QED BY <2>1, <2>2
<1> QED BY <1>1, <1>2, <1>4, <1>5, DeviceSettles

\* The job of a loop.
LEMMA LoopJob ==
    ASSUME NEW for \in {"revoke", "delete", "all"}, NEW d \in Devices \cup {Nobody},
           NEW ss \in SUBSET Sessions, for \in {"revoke", "delete"} => d \in Devices
    PROVE  /\ Loop(for, d, ss) \in Job /\ AccessJob(Loop(for, d, ss)) /\ ~Awaits(Loop(for, d, ss).at)
           /\ Loop(for, d, ss).at = "next" /\ Loop(for, d, ss).for = for /\ Loop(for, d, ss).d = d
<1> DEFINE J == Loop(for, d, ss)
<1>1. "next" \in Step /\ for \in {"revoke", "delete", "all", Nobody}
  BY DEF Step
<1>2. Free \in Job
  BY DEF Free, Job, Step
<1>3. J \in Job /\ J.at = "next" /\ J.for = for /\ J.d = d
  BY <1>1, <1>2 DEF Loop, Job
<1> HIDE DEF J
<1>4. AccessJob(J)
  BY <1>3 DEF AccessJob
<1>5. ~Awaits(J.at)
  BY <1>3 DEF Awaits, SessionSteps, StatusSteps
<1> QED BY <1>3, <1>4, <1>5 DEF J

\* A loop over sessions begins ...
LEMMA LoopStep ==
    ASSUME AccessInv, NEW h \in Handlers,
           (\E d \in Devices : DeleteDevice(h, d)) \/ RevokeAllSessions(h)
    PROVE  AccessShape' /\ StoresMove({})
<1>1. AccessShape /\ TokensFit
  BY DEF AccessInv
<1>2. /\ jobs[h].at = "free"
      /\ UNCHANGED <<devices, sessions, rules, tunnels, sockets, minted, exchanged, out, ended>>
  BY <1>1, ShapeFacts DEF DeleteDevice, RevokeAllSessions, IsFree, stores, history
<1>3. spent' \in [decisions : Nat, requests : Nat, faults : Nat]
  BY <1>1 DEF DeleteDevice, RevokeAllSessions, Spend, AccessShape, Bounded
<1>4. Bounded'
  BY <1>1, <1>2, <1>3 DEF AccessShape, Bounded
<1>5. PICK J \in Job : AccessJob(J) /\ ~Awaits(J.at) /\ Suspend(h, J)
  <2>1. CASE RevokeAllSessions(h)
    <3>1. {s \in Sessions : Known(s)} \in SUBSET Sessions
      OBVIOUS
    <3>2. Suspend(h, Loop("all", Nobody, {s \in Sessions : Known(s)}))
      BY <2>1 DEF RevokeAllSessions
    <3> QED BY <3>1, <3>2, LoopJob
  <2>2. ASSUME NEW d \in Devices, DeleteDevice(h, d)
        PROVE  \E J \in Job : AccessJob(J) /\ ~Awaits(J.at) /\ Suspend(h, J)
    <3>1. SessionsOf(d) \in SUBSET Sessions
      BY DEF SessionsOf
    <3>2. Suspend(h, Loop("delete", d, SessionsOf(d)))
      BY <2>2 DEF DeleteDevice
    <3> QED BY <3>1, <3>2, LoopJob
  <2> QED BY <2>1, <2>2
<1>6. ~Awaits(jobs[h].at)
  BY <1>2 DEF Awaits, SessionSteps, StatusSteps
<1> QED BY <1>1, <1>2, <1>4, <1>5, <1>6, StoresStill

\* ... or ends.
LEMMA LoopEndsStep ==
    ASSUME AccessInv, NEW h \in Handlers, EndRevokeDevice(h) \/ EndRevokeAll(h)
    PROVE  AccessShape' /\ StoresMove({})
<1>1. AccessShape /\ TokensFit
  BY DEF AccessInv
<1>2. /\ jobs[h].at = "next" /\ UNCHANGED <<devices, sessions, rules, minted, exchanged, spent>>
      /\ tunnels' \subseteq tunnels /\ sockets' \subseteq sockets
      /\ ended' = ended \cup jobs[h].all /\ Suspend(h, Free)
      /\ out' \subseteq out \cup {jobs[h].d}
      /\ out' = out \/ jobs[h].for = "revoke"
  BY DEF EndRevokeDevice, EndRevokeAll, LoopEnds, stores, CutTunnels, CutSockets, Finish, Suspend
<1>3. jobs[h] \in Job /\ AccessJob(jobs[h])
  BY <1>1, ShapeFacts
<1>4. jobs[h].all \subseteq Sessions /\ (jobs[h].for = "revoke" => jobs[h].d \in Devices)
  BY <1>2, <1>3 DEF AccessJob, Job
<1>5. Bounded'
  BY <1>1, <1>2, <1>4 DEF AccessShape, Bounded
<1>6. Free \in Job /\ AccessJob(Free) /\ ~Awaits(Free.at) /\ ~Awaits(jobs[h].at)
  BY <1>1, <1>2, ShapeFacts DEF Awaits, SessionSteps, StatusSteps
<1> QED BY <1>1, <1>2, <1>5, <1>6, StoresStill

\* A deletion goes on with the rules, or with the device when there are none,
\* or after they are deleted; or it ends, when the device is gone already.
LEMMA DeleteStep ==
    ASSUME AccessInv, NEW h \in Handlers, EndDelete(h) \/ RulesDeleted(h)
    PROVE  /\ AccessShape' /\ StoresMove({}) /\ jobs[h].d \in Devices /\ jobs[h].todo = {}
           /\ \/ \E at \in {"rules", "removing"} :
                    /\ jobs' = [jobs EXCEPT ![h] = [jobs[h] EXCEPT !.at = at]]
                    /\ at = "removing" => devices'.cache \in Gone(jobs[h].d)
                    /\ ended' = ended /\ hearsay' = hearsay
              \/ /\ Suspend(h, Free) /\ ended' = ended \cup jobs[h].all
                 /\ hearsay' = hearsay \cup {jobs[h].d} /\ devices' = devices
                 /\ devices.cache[jobs[h].d] = Nobody
<1>1. AccessShape /\ TokensFit
  BY DEF AccessInv
<1>2. /\ UNCHANGED <<sessions, minted, exchanged, out, spent>>
      /\ ended' = ended \/ ended' = ended \cup jobs[h].all
      /\ tunnels' \subseteq tunnels /\ sockets' \subseteq sockets
  BY DEF EndDelete, RulesDeleted, RemoveDevice, history, CutTunnels, CutSockets
<1>3. Bounded'
  <2>1. jobs[h].all \subseteq Sessions
    BY <1>1 DEF AccessShape, Job
  <2> QED BY <1>1, <1>2, <2>1 DEF AccessShape, Bounded
<1>4. /\ jobs[h] \in Job /\ AccessJob(jobs[h]) /\ jobs[h].at \in {"next", "rules"}
      /\ jobs[h].d \in Devices /\ jobs[h].todo = {}
  <2>1. jobs[h] \in Job /\ AccessJob(jobs[h])
    BY <1>1, ShapeFacts
  <2>2. CASE EndDelete(h)
    BY <2>1, <2>2 DEF EndDelete, LoopEnds, AccessJob
  <2>3. CASE RulesDeleted(h)
    BY <2>1, <2>3 DEF RulesDeleted, AccessJob
  <2> QED BY <2>1, <2>2, <2>3
<1>5. ASSUME NEW at \in {"rules", "removing"}, NEW J, J = [jobs[h] EXCEPT !.at = at]
      PROVE  J \in Job /\ J.at = at /\ AccessJob(J)
  <2>1. J \in Job /\ J.at = at /\ J.d = jobs[h].d /\ J.todo = jobs[h].todo
    BY <1>4, <1>5 DEF Job, Step
  <2> QED BY <1>4, <2>1 DEF AccessJob
<1>6. h \in Callers
  BY DEF Callers
<1>7. /\ h \notin Waiting(sessions) /\ h \notin Waiting(devices)
      /\ h \in Waiting(rules) <=> jobs[h].at = "rules"
  BY <1>1, <1>4, ShapeFacts DEF SessionSteps, StatusSteps
<1>8. Steady(sessions, sessions', SessionMap, h) /\ SessionsMove /\ sessions'.cache = sessions.cache
  BY <1>1, <1>2, ShapeFacts, SessionsKept
<1>9. ASSUME RemoveDevice(h), devices.cache[jobs[h].d] # Nobody,
             Steady(rules, rules', RuleMap, h), h \notin Waiting(rules')
      PROVE  /\ AccessShape' /\ StoresMove({})
             /\ jobs' = [jobs EXCEPT ![h] = [jobs[h] EXCEPT !.at = "removing"]]
             /\ devices'.cache \in Gone(jobs[h].d)
             /\ ended' = ended /\ hearsay' = hearsay
  <2>0. ended' = ended /\ hearsay' = hearsay
    BY <1>9 DEF RemoveDevice, history
  <2>1. PICK J : J = [jobs[h] EXCEPT !.at = "removing"]
    OBVIOUS
  <2>2. J \in Job /\ J.at = "removing" /\ AccessJob(J)
    BY <1>5, <2>1
  <2>3. PICK C :
          /\ C = [devices.cache EXCEPT ![jobs[h].d] = Nobody] /\ C \in StatusMap /\ C[jobs[h].d] = Nobody
          /\ \A e \in Devices : devices.cache[e] = Nobody => C[e] = Nobody
          /\ \A S \in DeviceRatchets({}) : devices.cache \in S => C \in S
    <3>1. PICK x \in DeviceStatus \cup {Nobody} : x = Nobody
      OBVIOUS
    <3>2. x # "approved"
      BY <3>1, NobodyAssumption DEF DeviceStatus
    <3>3. PICK d \in Devices : d = jobs[h].d
      BY <1>4
    <3>4. devices.cache[d] # Nobody \/ x = Nobody
      BY <3>1
    <3>5. \E C : Decision(d, x, {}, C)
      BY <1>1, <3>2, <3>4, DecisionFacts
    <3> QED BY <3>1, <3>3, <3>5 DEF Decision
  <2>4. Suspend(h, J) /\ devices' = Update(devices, h, C)
    BY <1>9, <2>1, <2>3 DEF RemoveDevice
  <2>5. StatusMoves({}) /\ devices'.cache = C
    BY <1>1, <1>6, <2>3, <2>4, DevicesWritten
  <2>6. Steady(devices, devices', StatusMap, h) /\ h \in Waiting(devices')
    BY <1>1, <1>7, <2>3, <2>4, ShapeFacts, SteadyUpdate
  <2>7. /\ h \in Waiting(sessions') <=> J.at \in SessionSteps
        /\ h \in Waiting(devices') <=> J.at \in StatusSteps
        /\ h \in Waiting(rules') <=> J.at = "rules"
    BY <1>2, <1>7, <1>9, <2>2, <2>6 DEF SessionSteps, StatusSteps
  <2>8. AccessStores' /\ AccessWaits' /\ jobs' \in [Handlers -> Job]
    BY <1>1, <1>8, <1>9, <2>2, <2>4, <2>6, <2>7, Switch
  <2>9. devices'.cache \in Gone(jobs[h].d)
    BY <2>3, <2>5 DEF Gone
  <2>10. CacheMoves
    BY <1>8, <2>3, <2>5 DEF CacheMoves
  <2> QED BY <1>3, <1>8, <2>0, <2>1, <2>4, <2>5, <2>8, <2>9, <2>10 DEF AccessShape, StoresMove, Suspend
<1>13. ASSUME RemoveDevice(h), devices.cache[jobs[h].d] = Nobody,
              Steady(rules, rules', RuleMap, h), h \notin Waiting(rules')
       PROVE  /\ AccessShape' /\ StoresMove({}) /\ Suspend(h, Free)
              /\ ended' = ended \cup jobs[h].all
              /\ hearsay' = hearsay \cup {jobs[h].d} /\ devices' = devices
  <2>1. /\ Suspend(h, Free) /\ ended' = ended \cup jobs[h].all
        /\ hearsay' = hearsay \cup {jobs[h].d} /\ devices' = devices
    BY <1>13 DEF RemoveDevice, Finish, Suspend
  <2>2. Free \in Job /\ AccessJob(Free) /\ Free.at = "free"
    BY DEF Free, Job, Step, AccessJob
  <2>3. Steady(devices, devices', StatusMap, h) /\ StatusMoves({}) /\ devices'.cache = devices.cache
    BY <1>1, <2>1, ShapeFacts, DevicesKept
  <2>4. h \notin Waiting(sessions') /\ h \notin Waiting(devices')
    BY <1>2, <1>7, <2>1
  <2>5. AccessStores' /\ AccessWaits' /\ jobs' \in [Handlers -> Job]
    BY <1>1, <1>8, <1>13, <2>1, <2>2, <2>3, <2>4, Switch DEF SessionSteps, StatusSteps
  <2>6. CacheMoves
    BY <1>8, <2>3 DEF CacheMoves
  <2> QED BY <1>3, <1>8, <2>1, <2>3, <2>5, <2>6 DEF AccessShape, StoresMove
<1>10. CASE RulesDeleted(h)
  <2>1. Steady(rules, rules', RuleMap, h) /\ h \notin Waiting(rules')
    BY <1>1, <1>10, ShapeFacts, SteadyLanded DEF RulesDeleted
  <2>2. RemoveDevice(h)
    BY <1>10 DEF RulesDeleted
  <2>3. CASE devices.cache[jobs[h].d] = Nobody
    BY <1>4, <1>13, <2>1, <2>2, <2>3
  <2>4. CASE devices.cache[jobs[h].d] # Nobody
    BY <1>4, <1>9, <2>1, <2>2, <2>4
  <2> QED BY <2>3, <2>4
<1>11. CASE EndDelete(h) /\ UNCHANGED rules /\ RemoveDevice(h)
  <2>1. jobs[h].at = "next"
    BY <1>11 DEF EndDelete, LoopEnds
  <2>2. Steady(rules, rules', RuleMap, h) /\ h \notin Waiting(rules')
    BY <1>1, <1>7, <1>11, <2>1, ShapeFacts
  <2>3. CASE devices.cache[jobs[h].d] = Nobody
    BY <1>4, <1>11, <1>13, <2>2, <2>3
  <2>4. CASE devices.cache[jobs[h].d] # Nobody
    BY <1>4, <1>9, <1>11, <2>2, <2>4
  <2> QED BY <2>3, <2>4
<1>12. CASE /\ EndDelete(h) /\ UNCHANGED <<devices, history>>
            /\ rules' = Update(rules, h, [rules.cache EXCEPT ![jobs[h].d] = FALSE])
            /\ Suspend(h, [jobs[h] EXCEPT !.at = "rules"])
  <2>1. jobs[h].at = "next"
    BY <1>12 DEF EndDelete, LoopEnds
  <2>2. PICK J : J = [jobs[h] EXCEPT !.at = "rules"]
    OBVIOUS
  <2>3. J \in Job /\ J.at = "rules" /\ AccessJob(J)
    BY <1>5, <2>2
  <2>4. Steady(devices, devices', StatusMap, h) /\ StatusMoves({}) /\ devices'.cache = devices.cache
    BY <1>1, <1>12, ShapeFacts, DevicesKept
  <2>5. Steady(rules, rules', RuleMap, h) /\ h \in Waiting(rules')
    <3>1. [rules.cache EXCEPT ![jobs[h].d] = FALSE] \in RuleMap
      BY <1>1, ShapeFacts DEF RuleMap
    <3>2. h \notin Waiting(rules)
      BY <1>7, <2>1
    <3> QED BY <1>1, <1>12, <3>1, <3>2, ShapeFacts, SteadyUpdate
  <2>6. /\ h \in Waiting(sessions') <=> J.at \in SessionSteps
        /\ h \in Waiting(devices') <=> J.at \in StatusSteps
        /\ h \in Waiting(rules') <=> J.at = "rules"
    BY <1>2, <1>7, <1>12, <2>3, <2>5 DEF SessionSteps, StatusSteps
  <2>7. Suspend(h, J)
    BY <1>12, <2>2
  <2>8. AccessStores' /\ AccessWaits' /\ jobs' \in [Handlers -> Job]
    BY <1>1, <1>8, <2>3, <2>4, <2>5, <2>6, <2>7, Switch
  <2>9. CacheMoves
    BY <1>8, <2>4 DEF CacheMoves
  <2>10. jobs' = [jobs EXCEPT ![h] = [jobs[h] EXCEPT !.at = "rules"]]
    BY <1>12 DEF Suspend
  <2>11. ended' = ended /\ hearsay' = hearsay
    BY <1>12 DEF history
  <2> QED BY <1>3, <1>4, <1>8, <2>4, <2>8, <2>9, <2>10, <2>11 DEF AccessShape, StoresMove
<1> QED BY <1>10, <1>11, <1>12 DEF EndDelete

----------------------------------------------------------------------------
(* The other steps                                                         *)

\* Tunnels and connections come and go.
LEMMA TrafficStep ==
    ASSUME AccessInv,
           \/ \E s \in Sessions : OpenSocket(s) \/ PeerLeaves(s)
           \/ \E d \in Devices : TunnelExpires(d)
           \/ Heartbeat
    PROVE  AccessShape' /\ StoresMove({}) /\ UNCHANGED <<stores, jobs, minted, known, history>>
<1>1. AccessShape /\ TokensFit
  BY DEF AccessInv
<1>2. UNCHANGED <<stores, jobs, minted, known, history, spent>>
  BY DEF OpenSocket, PeerLeaves, TunnelExpires, Heartbeat
<1>3. tunnels' \subseteq Devices /\ sockets' \subseteq Sessions
  BY <1>1 DEF OpenSocket, PeerLeaves, TunnelExpires, Heartbeat, AccessShape, Bounded
<1>4. AccessShape'
  BY <1>1, <1>2, <1>3 DEF AccessShape, Bounded, AccessStores, AccessWaits, stores, history
<1>5. StoresMove({})
  BY <1>1, <1>2, SessionsKept, DevicesKept DEF stores, CacheMoves, StoresMove
<1> QED BY <1>2, <1>4, <1>5

\* A store that a write nobody waits for is added to, or lands in.
LEMMA SteadyBackground ==
    ASSUME NEW T, NEW store \in Collections(T, Callers), Single(store, Handlers),
           NEW C \in T,
           NEW to, \/ to = Update(store, Background, C)
                   \/ Settles(store, Background) /\ to = Landed(store)
    PROVE  /\ to \in Collections(T, Callers) /\ Single(to, Handlers)
           /\ \A g \in Handlers : g \in Waiting(to) <=> g \in Waiting(store)
<1>1. Background \in Callers /\ Background \notin Handlers
  BY AccessAssumption DEF Callers
<1>2. CASE to = Update(store, Background, C)
  <2>1. /\ to \in Collections(T, Callers) /\ Waiting(to) = Waiting(store) \cup {Background}
        /\ \A H : Single(store, H) /\ (Background \in H => Background \notin Waiting(store)) => Single(to, H)
    BY <1>1, <1>2, UpdateFacts
  <2> QED BY <1>1, <2>1
<1>3. CASE Settles(store, Background) /\ to = Landed(store)
  <2>1. store.writes # <<>> /\ Head(store.writes).by = Background
    BY <1>3 DEF Settles
  <2>2. /\ to \in Collections(T, Callers)
        /\ Waiting(to) \subseteq Waiting(store)
        /\ \A b \in Waiting(store) : b # Background => b \in Waiting(to)
        /\ \A H : Single(store, H) => Single(to, H)
    BY <1>3, <2>1, LandedFacts
  <2> QED BY <1>1, <2>2
<1> QED BY <1>2, <1>3

\* The bookkeeping of the bearer check.
LEMMA BookkeepingStep ==
    ASSUME AccessInv, (\E s \in Sessions : IssueTunnel(s)) \/ BackgroundSettles
    PROVE  /\ AccessShape' /\ StoresMove({}) /\ UNCHANGED <<sockets, jobs, minted, known, history>>
           /\ devices'.cache = devices.cache /\ sessions'.cache = sessions.cache
<1>1. AccessShape /\ TokensFit
  BY DEF AccessInv
<1>2. UNCHANGED <<rules, sockets, jobs, minted, known, history>>
  BY DEF IssueTunnel, BackgroundSettles
<1>3. tunnels' \subseteq Devices /\ spent' \in [decisions : Nat, requests : Nat, faults : Nat]
  <2>1. CASE BackgroundSettles
    BY <1>1, <2>1 DEF BackgroundSettles, AccessShape, Bounded
  <2>2. ASSUME NEW s \in Sessions, IssueTunnel(s) PROVE tunnels' \subseteq Devices
    <3>1. sessions.cache[s] \in Session
      BY <1>1, <2>2, VersionFacts DEF IssueTunnel, Admitted, IsActive, Known, AccessShape, AccessStores, SessionMap
    <3> QED BY <1>1, <2>2, <3>1 DEF IssueTunnel, Session, AccessShape, Bounded
  <2>3. ASSUME NEW s \in Sessions, IssueTunnel(s)
        PROVE  spent' \in [decisions : Nat, requests : Nat, faults : Nat]
    BY <1>1, <2>3 DEF IssueTunnel, Spend, AccessShape, Bounded
  <2> QED BY <2>1, <2>2, <2>3
<1>4. Background \in Callers
  BY DEF Callers
<1>5. /\ devices \in Collections(StatusMap, Callers) /\ Single(devices, Handlers)
      /\ sessions \in Collections(SessionMap, Callers) /\ Single(sessions, Handlers)
      /\ devices.cache \in StatusMap /\ sessions.cache \in SessionMap
  BY <1>1, VersionFacts DEF AccessShape, AccessStores, AccessWaits
<1>6. /\ \/ devices' = devices \/ devices' = Update(devices, Background, devices.cache)
         \/ Settles(devices, Background) /\ devices' = Landed(devices)
      /\ \/ sessions' = sessions \/ sessions' = Update(sessions, Background, sessions.cache)
         \/ Settles(sessions, Background) /\ sessions' = Landed(sessions)
  BY DEF IssueTunnel, BackgroundSettles
<1>7. SessionsMove /\ sessions'.cache = sessions.cache
  <2>1. CASE sessions' = Update(sessions, Background, sessions.cache)
    <3>1. sessions.cache \in Apart /\ sessions.cache \in MintedBy(minted) /\ minted \in Nat
      BY <1>1, <1>5, VersionFacts, AccessAssumption DEF TokensFit, AccessShape, Bounded
    <3>2. minted <= minted
      BY <3>1
    <3>3. Follows(sessions.cache, minted, sessions.cache, minted)
      BY <1>5, <3>1, <3>2 DEF Follows
    <3> QED BY <1>1, <1>2, <1>4, <2>1, <3>1, <3>3, SessionsWritten
  <2>2. CASE ~(sessions' = Update(sessions, Background, sessions.cache))
    BY <1>1, <1>2, <1>6, <2>2, SessionsKept DEF Settles
  <2> QED BY <2>1, <2>2
<1>8. StatusMoves({}) /\ devices'.cache = devices.cache
  <2>1. CASE devices' = Update(devices, Background, devices.cache)
    BY <1>1, <1>4, <1>5, <2>1, DevicesWritten
  <2>2. CASE ~(devices' = Update(devices, Background, devices.cache))
    BY <1>1, <1>6, <2>2, DevicesKept DEF Settles
  <2> QED BY <2>1, <2>2
<1>9. /\ devices' \in Collections(StatusMap, Callers) /\ Single(devices', Handlers)
      /\ \A g \in Handlers : g \in Waiting(devices') <=> g \in Waiting(devices)
  BY <1>5, <1>6, SteadyBackground
<1>10. /\ sessions' \in Collections(SessionMap, Callers) /\ Single(sessions', Handlers)
       /\ \A g \in Handlers : g \in Waiting(sessions') <=> g \in Waiting(sessions)
  BY <1>5, <1>6, SteadyBackground
<1>11. AccessStores' /\ AccessWaits'
  BY <1>1, <1>2, <1>9, <1>10 DEF AccessShape, AccessStores, AccessWaits
<1>12. Bounded'
  BY <1>1, <1>2, <1>3 DEF AccessShape, Bounded, history
<1> QED BY <1>1, <1>2, <1>7, <1>8, <1>11, <1>12 DEF AccessShape, StoresMove, CacheMoves

\* A store of which a write is rejected: whoever awaited it no longer does.
LEMMA SteadyRejected ==
    ASSUME NEW T, NEW store \in Collections(T, Callers), Single(store, Handlers),
           store.writes # <<>>, NEW to, to = Rejected(store)
    PROVE  /\ to \in Collections(T, Callers) /\ Single(to, Handlers)
           /\ \A g \in Handlers : g \in Waiting(to) <=> g \in Waiting(store) /\ ~Settles(store, g)
           /\ \A g \in Handlers : Settles(store, g) => g \in Waiting(store)
<1>1. /\ to \in Collections(T, Callers)
      /\ Head(store.writes).by \in Waiting(store)
      /\ Waiting(to) \subseteq Waiting(store)
      /\ \A b \in Waiting(store) : b # Head(store.writes).by => b \in Waiting(to)
      /\ \A H : Single(store, H) => Single(to, H)
      /\ \A H : Single(store, H) /\ Head(store.writes).by \in H
                    => Head(store.writes).by \notin Waiting(to)
  BY RejectedFacts
<1> QED BY <1>1 DEF Settles

\* A write is rejected.
LEMMA WriteFailsStep ==
    ASSUME AccessInv, WriteFails
    PROVE  /\ AccessShape' /\ StoresMove({}) /\ UNCHANGED <<tunnels, sockets, minted, known, history>>
           /\ devices'.cache = devices.cache /\ sessions'.cache = sessions.cache
           /\ \A g \in Handlers : jobs'[g] = jobs[g] \/ jobs'[g] = Free
<1>1. AccessShape /\ TokensFit /\ jobs \in [Handlers -> Job]
  BY DEF AccessInv, AccessShape
<1>2. UNCHANGED <<tunnels, sockets, minted, known, history>>
  BY DEF WriteFails
<1>3. Bounded'
  BY <1>1, <1>2 DEF WriteFails, Spend, AccessShape, Bounded, history
<1>4. /\ sessions' = sessions \/ (sessions.writes # <<>> /\ sessions' = Rejected(sessions))
      /\ devices' = devices \/ (devices.writes # <<>> /\ devices' = Rejected(devices))
  BY DEF WriteFails
<1>5. /\ SessionsMove /\ StatusMoves({}) /\ CacheMoves
      /\ devices'.cache = devices.cache /\ sessions'.cache = sessions.cache
  BY <1>1, <1>2, <1>4, SessionsKept, DevicesKept DEF CacheMoves
<1>6. Free \in Job /\ AccessJob(Free) /\ Free.at \notin SessionSteps \cup StatusSteps \cup {"rules"}
  BY DEF Free, Job, Step, AccessJob, SessionSteps, StatusSteps
<1>7. /\ devices \in Collections(StatusMap, Callers) /\ Single(devices, Handlers)
      /\ sessions \in Collections(SessionMap, Callers) /\ Single(sessions, Handlers)
      /\ rules \in Collections(RuleMap, Callers) /\ Single(rules, Handlers)
  BY <1>1 DEF AccessShape, AccessStores, AccessWaits
<1>8. AccessStores' /\ AccessWaits' /\ jobs' \in [Handlers -> Job]
      /\ \A g \in Handlers : jobs'[g] = jobs[g] \/ jobs'[g] = Free
  <2>1. CASE /\ devices.writes # <<>> /\ devices' = Rejected(devices)
             /\ jobs' = [h \in Handlers |-> IF Settles(devices, h) THEN Free ELSE jobs[h]]
             /\ UNCHANGED <<sessions, rules>>
    <3>1. /\ devices' \in Collections(StatusMap, Callers) /\ Single(devices', Handlers)
          /\ \A g \in Handlers : g \in Waiting(devices') <=> g \in Waiting(devices) /\ ~Settles(devices, g)
          /\ \A g \in Handlers : Settles(devices, g) => g \in Waiting(devices)
      BY <1>7, <2>1, SteadyRejected
    <3>2. AccessWaits'
      BY <1>1, <1>6, <1>7, <2>1, <3>1 DEF AccessShape, AccessWaits, SessionSteps, StatusSteps
    <3> QED BY <1>1, <1>6, <1>7, <2>1, <3>1, <3>2 DEF AccessStores
  <2>2. CASE /\ sessions.writes # <<>> /\ sessions' = Rejected(sessions)
             /\ jobs' = [h \in Handlers |-> IF Settles(sessions, h) THEN Free ELSE jobs[h]]
             /\ UNCHANGED <<devices, rules>>
    <3>1. /\ sessions' \in Collections(SessionMap, Callers) /\ Single(sessions', Handlers)
          /\ \A g \in Handlers : g \in Waiting(sessions') <=> g \in Waiting(sessions) /\ ~Settles(sessions, g)
          /\ \A g \in Handlers : Settles(sessions, g) => g \in Waiting(sessions)
      BY <1>7, <2>2, SteadyRejected
    <3>2. AccessWaits'
      BY <1>1, <1>6, <1>7, <2>2, <3>1 DEF AccessShape, AccessWaits, SessionSteps, StatusSteps
    <3> QED BY <1>1, <1>6, <1>7, <2>2, <3>1, <3>2 DEF AccessStores
  <2>3. CASE /\ rules.writes # <<>> /\ rules' = Rejected(rules)
             /\ jobs' = [h \in Handlers |-> IF Settles(rules, h) THEN Free ELSE jobs[h]]
             /\ UNCHANGED <<devices, sessions>>
    <3>1. /\ rules' \in Collections(RuleMap, Callers) /\ Single(rules', Handlers)
          /\ \A g \in Handlers : g \in Waiting(rules') <=> g \in Waiting(rules) /\ ~Settles(rules, g)
          /\ \A g \in Handlers : Settles(rules, g) => g \in Waiting(rules)
      BY <1>7, <2>3, SteadyRejected
    <3>2. AccessWaits'
      BY <1>1, <1>6, <1>7, <2>3, <3>1 DEF AccessShape, AccessWaits, SessionSteps, StatusSteps
    <3> QED BY <1>1, <1>6, <1>7, <2>3, <3>1, <3>2 DEF AccessStores
  <2> QED BY <2>1, <2>2, <2>3 DEF WriteFails
<1> QED BY <1>2, <1>3, <1>5, <1>8 DEF AccessShape, StoresMove

\* The adapter dies and starts again.
LEMMA RestartStep ==
    ASSUME AccessInv, AccessRestarts
    PROVE  /\ AccessShape' /\ SessionsMove /\ StatusMoves({}) /\ UNCHANGED <<minted, known, exchanged, out, ended>>
           /\ tunnels' = {} /\ sockets' = {} /\ jobs' = [h \in Handlers |-> Free]
<1>1. AccessShape /\ TokensFit
  BY DEF AccessInv
<1>2. /\ UNCHANGED <<minted, known, exchanged, out, ended>>
      /\ tunnels' = {} /\ sockets' = {} /\ jobs' = [h \in Handlers |-> Free]
      /\ devices' = Reloaded(devices) /\ sessions' = Reloaded(sessions) /\ rules' = Reloaded(rules)
  BY DEF AccessRestarts
<1>3. /\ devices \in Collections(StatusMap, Callers) /\ sessions \in Collections(SessionMap, Callers)
      /\ rules \in Collections(RuleMap, Callers) /\ minted \in Nat
  BY <1>1, AccessAssumption DEF AccessShape, AccessStores, Bounded
<1>4. /\ AccessStores' /\ Waiting(devices') = {} /\ Waiting(sessions') = {} /\ Waiting(rules') = {}
      /\ Single(sessions', Handlers) /\ Single(devices', Handlers) /\ Single(rules', Handlers)
  BY <1>2, <1>3, ReloadedFacts DEF AccessStores
<1>5. Free \in Job /\ AccessJob(Free) /\ Free.at \notin SessionSteps \cup StatusSteps \cup {"rules"}
  BY DEF Free, Job, Step, AccessJob, SessionSteps, StatusSteps
<1>6. AccessWaits' /\ jobs' \in [Handlers -> Job]
  BY <1>2, <1>4, <1>5 DEF AccessWaits
<1>7. Bounded'
  BY <1>1, <1>2 DEF AccessRestarts, Spend, AccessShape, Bounded, history
<1>8. SessionsMove
  <2>1. Everywhere(sessions, Apart) /\ Everywhere(sessions, MintedBy(minted))
    BY <1>1 DEF TokensFit
  <2> QED BY <1>2, <1>3, <2>1, OnwardKept DEF SessionsMove
<1>9. StatusMoves({})
  BY <1>2, <1>3, ReloadedFacts DEF StatusMoves
<1> QED BY <1>2, <1>4, <1>6, <1>7, <1>8, <1>9 DEF AccessShape

----------------------------------------------------------------------------
(* Tokens                                                                  *)

\* A handler that begins to wait has its content in every version from its
\* write on.
LEMMA SinceWritten ==
    ASSUME NEW T, NEW B, NEW store \in Collections(T, B), NEW by \in B, by \notin Waiting(store),
           NEW C \in T, NEW S, C \in S, NEW to, to = Update(store, by, C)
    PROVE  Since(to, by, S)
<1>1. Since(store, by, S)
  BY VersionFacts
<1>2. /\ Since(store, by, S)
      /\ by = by => C \in S
      /\ store.cache \in S => C \in S
      => Since(to, by, S)
  BY UpdateFacts
<1>3. (by = by => C \in S) /\ (store.cache \in S => C \in S)
  OBVIOUS
<1> QED BY <1>1, <1>2, <1>3

\* h is at the same refresh as before or at none, and its login is no later
\* than the tokens.
SameExchange(h) ==
    /\ jobs'[h].at = "login" => jobs'[h].t <= minted'
    /\ jobs'[h].at = "refresh" =>
          jobs[h].at = "refresh" /\ jobs'[h].t = jobs[h].t /\ jobs'[h].s = jobs[h].s

\* A handler that is where it was, or at neither.
LEMMA SameJobExchange ==
    ASSUME AccessShape, Bounded', TokensFit, SessionsMove, NEW h \in Handlers,
           jobs'[h].at \in {"login", "refresh"} =>
               jobs'[h].at = jobs[h].at /\ jobs'[h].t = jobs[h].t /\ jobs'[h].s = jobs[h].s
    PROVE  SameExchange(h)
<1>1. MaxTokens \in Nat /\ minted \in 0 .. MaxTokens /\ minted' \in 0 .. MaxTokens /\ minted <= minted'
  BY AccessAssumption DEF AccessShape, Bounded, SessionsMove, Onward
<1>2. ASSUME jobs'[h].at = "login" PROVE jobs'[h].t <= minted'
  <2>1. jobs[h].at = "login" /\ jobs'[h].t = jobs[h].t
    BY <1>2
  <2>2. jobs[h].t <= minted /\ jobs[h].t \in Tokens
    BY <2>1, ShapeFacts DEF TokensFit, AccessJob
  <2> QED BY <1>1, <2>1, <2>2 DEF Tokens
<1> QED BY <1>2 DEF SameExchange

\* A refresh that is under way keeps its token from coming back.
LEMMA RefreshKept ==
    ASSUME AccessShape, Bounded', TokensFit, SessionsMove, NEW h \in Handlers, jobs[h].at = "refresh"
    PROVE  /\ Since(sessions', h, Lacking(jobs[h].t)) /\ Since(sessions', h, Present(jobs[h].s))
           /\ jobs[h].t <= minted' /\ jobs[h].t \in 1 .. minted
           /\ sessions.cache \in Lacking(jobs[h].t)
<1>1. /\ jobs[h].t \in Tokens /\ jobs[h].s \in Sessions /\ h \in Waiting(sessions)
      /\ minted \in Nat /\ MaxTokens \in Nat
  BY ShapeFacts, AccessAssumption DEF AccessJob, SessionSteps
<1>2. /\ jobs[h].t <= minted
      /\ Since(sessions, h, Lacking(jobs[h].t)) /\ Since(sessions, h, Present(jobs[h].s))
  BY DEF TokensFit
<1>3. jobs[h].t \in 1 .. minted
  BY <1>1, <1>2 DEF Tokens
<1>4. Lacking(jobs[h].t) \in Ratchets(minted) /\ Present(jobs[h].s) \in Ratchets(minted)
  BY <1>1, <1>3 DEF Ratchets
<1>5. jobs[h].t <= minted'
  <2>1. minted' \in Nat /\ minted <= minted'
    BY <1>1 DEF Bounded, SessionsMove, Onward
  <2> QED BY <1>1, <1>3, <2>1
<1>6. sessions.cache \in Lacking(jobs[h].t)
  BY <1>1, <1>2, ShapeFacts, VersionFacts
<1>7. /\ Since(sessions', h, Lacking(jobs[h].t)) /\ Since(sessions', h, Present(jobs[h].s))
  BY <1>1, <1>2, <1>4 DEF SessionsMove, Onward
<1> QED BY <1>3, <1>5, <1>6, <1>7

\* A step that exchanges nothing.
LEMMA TokensQuiet ==
    ASSUME AccessInv, AccessShape', SessionsMove, known' \subseteq 1 .. minted', exchanged' = exchanged,
           \A h \in Handlers : SameExchange(h)
    PROVE  TokensFit'
<1>1. AccessShape /\ TokensFit /\ MaxTokens \in Nat
  BY AccessAssumption DEF AccessInv
<1>2. minted \in 0 .. MaxTokens /\ minted' \in 0 .. MaxTokens /\ minted <= minted'
  BY <1>1 DEF AccessShape, Bounded, SessionsMove, Onward
<1>3. Everywhere(sessions', Apart) /\ Everywhere(sessions', MintedBy(minted'))
  BY DEF SessionsMove, Onward
<1>4. ASSUME NEW t \in Tokens, exchanged[t] > 0
      PROVE  t <= minted' /\ Everywhere(sessions', Lacking(t))
  <2>1. t <= minted /\ Everywhere(sessions, Lacking(t))
    BY <1>1, <1>4 DEF TokensFit
  <2>2. t \in 1 .. minted
    BY <1>1, <1>2, <2>1 DEF Tokens
  <2>3. Lacking(t) \in Ratchets(minted)
    BY <2>2 DEF Ratchets
  <2> QED BY <1>1, <1>2, <2>1, <2>2, <2>3 DEF SessionsMove, Onward
<1>5. \A h \in Handlers : jobs'[h].at = "login" => jobs'[h].t <= minted'
  BY DEF SameExchange
<1>6. ASSUME NEW h \in Handlers, jobs'[h].at = "refresh"
      PROVE  /\ jobs'[h].t <= minted' /\ exchanged[jobs'[h].t] = 0
             /\ Since(sessions', h, Lacking(jobs'[h].t)) /\ Since(sessions', h, Present(jobs'[h].s))
             /\ jobs[h].at = "refresh" /\ jobs'[h].t = jobs[h].t
  <2>1. jobs[h].at = "refresh" /\ jobs'[h].t = jobs[h].t /\ jobs'[h].s = jobs[h].s
    BY <1>6 DEF SameExchange
  <2>2. Bounded'
    BY DEF AccessShape
  <2> QED BY <1>1, <2>1, <2>2, RefreshKept DEF TokensFit
<1>7. ASSUME NEW g \in Handlers, NEW h \in Handlers,
             jobs'[g].at = "refresh", jobs'[h].at = "refresh", jobs'[g].t = jobs'[h].t
      PROVE  g = h
  BY <1>1, <1>6, <1>7 DEF TokensFit
<1>8. \A t \in Tokens : exchanged[t] <= 1
  BY <1>1 DEF TokensFit
<1> QED BY <1>3, <1>4, <1>5, <1>6, <1>7, <1>8 DEF TokensFit

\* A login.
LEMMA TokensLogin ==
    ASSUME AccessInv, AccessShape', SessionsMove,
           NEW h \in Handlers, NEW d \in Devices, NEW s \in Sessions, Login(h, d, s)
    PROVE  TokensFit'
<1> DEFINE J == [Free EXCEPT !.at = "login", !.s = s, !.t = minted + 1]
<1>1. AccessShape /\ TokensFit /\ MaxTokens \in Nat /\ Bounded'
  BY AccessAssumption DEF AccessInv, AccessShape
<1>2. minted \in 0 .. MaxTokens /\ minted' = minted + 1 /\ exchanged' = exchanged /\ known' = known
  BY <1>1 DEF AccessShape, Bounded, Login, history
<1>3. minted' \in 0 .. MaxTokens /\ minted <= minted' /\ minted' <= minted'
  BY <1>1, <1>2 DEF Login
<1>4. J.at = "login" /\ J.t = minted'
  BY <1>2 DEF Free
<1>5. jobs' = [jobs EXCEPT ![h] = J] /\ jobs \in [Handlers -> Job]
  BY <1>1, <1>2 DEF Login, Suspend, AccessShape
<1> HIDE DEF J
<1>6. jobs'[h] = J /\ \A g \in Handlers : g # h => jobs'[g] = jobs[g]
  BY <1>5
<1>7. known' \subseteq 1 .. minted'
  BY <1>1, <1>2, <1>3 DEF TokensFit
<1>8. SameExchange(h)
  BY <1>3, <1>4, <1>6 DEF SameExchange
<1>9. \A g \in Handlers : SameExchange(g)
  BY <1>1, <1>6, <1>8, SameJobExchange
<1> QED BY <1>2, <1>7, <1>9, TokensQuiet

\* A refresh: its token was current, so that nobody exchanged it or is about to.
LEMMA TokensRefresh ==
    ASSUME AccessInv, AccessShape', SessionsMove, NEW h \in Handlers, NEW s \in Sessions, NEW t, Refresh(h, s, t),
           t \in Tokens, t \in 1 .. minted, minted' = minted + 1, sessions.cache \notin Lacking(t),
           sessions'.cache \in Lacking(t), sessions'.cache \in Present(s)
    PROVE  TokensFit'
<1> DEFINE J == [Free EXCEPT !.at = "refresh", !.s = s, !.t = t]
<1>1. AccessShape /\ TokensFit /\ MaxTokens \in Nat /\ Bounded' /\ minted \in 0 .. MaxTokens
  BY AccessAssumption DEF AccessInv, AccessShape, Bounded
<1>2. exchanged' = exchanged /\ known' = known
  BY DEF Refresh, history
<1>3. J.at = "refresh" /\ J.t = t /\ J.s = s
  BY DEF Free
<1>4. jobs' = [jobs EXCEPT ![h] = J] /\ jobs \in [Handlers -> Job]
  BY <1>1 DEF Refresh, Suspend, AccessShape
<1> HIDE DEF J
<1>5. jobs'[h] = J /\ \A g \in Handlers : g # h => jobs'[g] = jobs[g]
  BY <1>4
<1>6. known' \subseteq 1 .. minted'
  BY <1>1, <1>2 DEF TokensFit
<1>7. sessions \in Collections(SessionMap, Callers) /\ h \notin Waiting(sessions)
  BY <1>1, ShapeFacts DEF Refresh, IsFree, SessionSteps
<1>8. exchanged[t] = 0
  <2>1. exchanged[t] \in Nat
    BY <1>1 DEF AccessShape, Bounded
  <2>2. ~Everywhere(sessions, Lacking(t))
    BY <1>7, VersionFacts
  <2> QED BY <1>1, <2>1, <2>2 DEF TokensFit
<1>9. Since(sessions', h, Lacking(t)) /\ Since(sessions', h, Present(s))
  <2>1. PICK C : sessions' = Update(sessions, h, C)
    BY DEF Refresh
  <2>2. sessions'.cache = C
    BY <2>1 DEF Update
  <2>3. C \in SessionMap /\ h \in Callers
    BY <2>2 DEF Lacking, Callers
  <2> QED BY <1>7, <2>1, <2>2, <2>3, SinceWritten
<1>10. Everywhere(sessions', Apart) /\ Everywhere(sessions', MintedBy(minted'))
  BY DEF SessionsMove, Onward
<1>11. ASSUME NEW u \in Tokens, exchanged[u] > 0
       PROVE  u <= minted' /\ Everywhere(sessions', Lacking(u))
  <2>1. u <= minted /\ Everywhere(sessions, Lacking(u))
    BY <1>1, <1>11 DEF TokensFit
  <2>2. u \in 1 .. minted
    BY <1>1, <2>1 DEF Tokens
  <2>3. Lacking(u) \in Ratchets(minted)
    BY <2>2 DEF Ratchets
  <2>4. Everywhere(sessions', Lacking(u))
    BY <2>1, <2>3 DEF SessionsMove, Onward
  <2> QED BY <1>1, <2>2, <2>4
<1>12. \A g \in Handlers : g # h => SameExchange(g)
  BY <1>1, <1>5, SameJobExchange
<1>13. \A g \in Handlers : jobs'[g].at = "login" => jobs'[g].t <= minted'
  BY <1>3, <1>5, <1>12 DEF SameExchange
<1>14. ASSUME NEW g \in Handlers, jobs'[g].at = "refresh"
       PROVE  /\ jobs'[g].t <= minted' /\ exchanged[jobs'[g].t] = 0
              /\ Since(sessions', g, Lacking(jobs'[g].t)) /\ Since(sessions', g, Present(jobs'[g].s))
              /\ g # h => jobs'[g] = jobs[g] /\ jobs'[g].t # t
  <2>1. CASE g = h
    <3>1. t <= minted'
      BY <1>1
    <3> QED BY <1>3, <1>5, <1>8, <1>9, <2>1, <3>1
  <2>2. CASE g # h
    <3>1. jobs'[g] = jobs[g] /\ jobs[g].at = "refresh"
      BY <1>5, <1>14, <2>2
    <3>2. exchanged[jobs[g].t] = 0
      BY <1>1, <3>1 DEF TokensFit
    <3>3. /\ Since(sessions', g, Lacking(jobs[g].t)) /\ Since(sessions', g, Present(jobs[g].s))
          /\ jobs[g].t <= minted' /\ sessions.cache \in Lacking(jobs[g].t)
      BY <1>1, <3>1, RefreshKept
    <3>4. jobs[g].t # t
      BY <3>3
    <3> QED BY <3>1, <3>2, <3>3, <3>4
  <2> QED BY <2>1, <2>2
<1>15. ASSUME NEW g \in Handlers, NEW f \in Handlers,
              jobs'[g].at = "refresh", jobs'[f].at = "refresh", jobs'[g].t = jobs'[f].t
       PROVE  g = f
  <2>1. CASE g = h \/ f = h
    BY <1>3, <1>5, <1>14, <1>15, <2>1
  <2>2. CASE g # h /\ f # h
    BY <1>1, <1>5, <1>15, <2>2 DEF TokensFit
  <2> QED BY <2>1, <2>2
<1>16. \A u \in Tokens : exchanged[u] <= 1
  BY <1>1 DEF TokensFit
<1> QED BY <1>2, <1>6, <1>10, <1>11, <1>13, <1>14, <1>15, <1>16 DEF TokensFit

\* The answer to a refresh: its token is exchanged, once.
LEMMA TokensAnswer ==
    ASSUME AccessInv, AccessShape', SessionsMove, NEW h \in Handlers, AnswerRefresh(h)
    PROVE  TokensFit'
<1> DEFINE t == jobs[h].t
           s == jobs[h].s
           json == Head(sessions.writes).json
<1>1. AccessShape /\ TokensFit /\ MaxTokens \in Nat /\ Bounded' /\ minted \in 0 .. MaxTokens
  BY AccessAssumption DEF AccessInv, AccessShape, Bounded
<1>2. /\ Settles(sessions, h) /\ sessions' = Landed(sessions) /\ minted' = minted
      /\ known' = known \cup {json[s].now} /\ jobs[h].at = "refresh"
      /\ exchanged' = [exchanged EXCEPT ![t] = @ + 1]
      /\ jobs' = [jobs EXCEPT ![h] = Free] /\ jobs \in [Handlers -> Job]
  BY <1>1 DEF AnswerRefresh, Finish, AccessShape
<1>3. t \in Tokens /\ s \in Sessions /\ sessions \in Collections(SessionMap, Callers)
  BY <1>1, <1>2, ShapeFacts DEF AccessJob
<1>4. t \in 1 .. minted /\ exchanged[t] = 0 /\ exchanged \in [Tokens -> Nat]
  BY <1>1, <1>2, RefreshKept DEF TokensFit, AccessShape, Bounded
<1>5. Since(sessions, h, Lacking(t)) /\ Since(sessions, h, Present(s))
  BY <1>1, <1>2 DEF TokensFit
<1>6. sessions.writes # <<>> /\ Head(sessions.writes).by = h
  BY <1>2 DEF Settles
<1> HIDE DEF t, s, json
<1>7. Everywhere(sessions', Lacking(t)) /\ Everywhere(sessions', Present(s))
  BY <1>2, <1>3, <1>5, <1>6, LandedFacts
<1>8. Everywhere(sessions', Apart) /\ Everywhere(sessions', MintedBy(minted))
  BY <1>2 DEF SessionsMove, Onward
<1>9. json[s].now \in 1 .. minted
  <2>1. sessions'.disk = json
    BY <1>2 DEF Landed, json
  <2>2. json \in Present(s) /\ json \in MintedBy(minted)
    BY <1>7, <1>8, <2>1, VersionFacts DEF AccessShape, AccessStores
  <2>3. json[s] \in Session /\ json[s].now <= minted
    BY <1>3, <2>2 DEF Present, MintedBy, SessionMap
  <2> QED BY <1>1, <2>3 DEF Session, Tokens
<1>10. known' \subseteq 1 .. minted'
  BY <1>1, <1>2, <1>9 DEF TokensFit
<1>11. exchanged'[t] = 1 /\ \A u \in Tokens : u # t => exchanged'[u] = exchanged[u]
  BY <1>2, <1>3, <1>4
<1>12. Free.at = "free"
  BY DEF Free
<1>13. jobs'[h].at = "free" /\ \A g \in Handlers : g # h => jobs'[g] = jobs[g]
  BY <1>2, <1>12
<1>14. \A u \in Tokens : exchanged'[u] <= 1
  BY <1>1, <1>11 DEF TokensFit
<1>15. ASSUME NEW u \in Tokens, exchanged'[u] > 0
       PROVE  u <= minted' /\ Everywhere(sessions', Lacking(u))
  <2>1. CASE u = t
    BY <1>1, <1>2, <1>4, <1>7, <2>1
  <2>2. CASE u # t
    <3>1. u <= minted /\ Everywhere(sessions, Lacking(u))
      BY <1>1, <1>11, <1>15, <2>2 DEF TokensFit
    <3>2. u \in 1 .. minted
      BY <1>1, <3>1 DEF Tokens
    <3>3. Lacking(u) \in Ratchets(minted)
      BY <3>2 DEF Ratchets
    <3> QED BY <1>2, <3>1, <3>3 DEF SessionsMove, Onward
  <2> QED BY <2>1, <2>2
<1>16. \A g \in Handlers : jobs'[g].at = "login" => jobs'[g].t <= minted'
  BY <1>1, <1>2, <1>13 DEF TokensFit
<1>17. ASSUME NEW g \in Handlers, jobs'[g].at = "refresh"
       PROVE  /\ jobs'[g].t <= minted' /\ exchanged'[jobs'[g].t] = 0
              /\ Since(sessions', g, Lacking(jobs'[g].t)) /\ Since(sessions', g, Present(jobs'[g].s))
              /\ jobs'[g] = jobs[g]
  <2>1. g # h /\ jobs'[g] = jobs[g] /\ jobs[g].at = "refresh"
    BY <1>13, <1>17
  <2>2. jobs[g].t \in Tokens /\ exchanged[jobs[g].t] = 0 /\ jobs[g].t # t
    BY <1>1, <1>2, <2>1, ShapeFacts DEF TokensFit, AccessJob, t
  <2>3. /\ Since(sessions', g, Lacking(jobs[g].t)) /\ Since(sessions', g, Present(jobs[g].s))
        /\ jobs[g].t <= minted'
    BY <1>1, <2>1, RefreshKept
  <2> QED BY <1>11, <2>1, <2>2, <2>3
<1>18. ASSUME NEW g \in Handlers, NEW f \in Handlers,
              jobs'[g].at = "refresh", jobs'[f].at = "refresh", jobs'[g].t = jobs'[f].t
       PROVE  g = f
  BY <1>1, <1>17, <1>18 DEF TokensFit
<1> QED BY <1>2, <1>8, <1>10, <1>14, <1>15, <1>16, <1>17, <1>18 DEF TokensFit

----------------------------------------------------------------------------
(* Sessions that are ended                                                 *)

\* h ends what it ended before, and has as much left.
SameEnding(h) ==
    jobs'[h].at \in {"reuse", "session", "looping", "next", "rules", "removing"} =>
        /\ jobs'[h].at = jobs[h].at /\ jobs'[h].s = jobs[h].s
        /\ jobs'[h].all = jobs[h].all /\ jobs'[h].todo = jobs[h].todo

\* What EndedFit says of one handler.
EndsFit(h) ==
    /\ jobs[h].at \in {"reuse", "session"} => Since(sessions, h, EndedIn(jobs[h].s))
    /\ jobs[h].at = "looping" =>
          \A s \in jobs[h].all \ jobs[h].todo : Since(sessions, h, EndedIn(s))
    /\ jobs[h].at \in {"next", "rules", "removing"} =>
          \A s \in jobs[h].all \ jobs[h].todo : Everywhere(sessions, EndedIn(s))
    /\ jobs[h].at \in {"next", "looping"} =>
          \A s \in jobs[h].todo : sessions.cache[s] # Nobody

\* A handler that goes on with the same sessions keeps what it knows of them.
LEMMA EndsKept ==
    ASSUME AccessInv, SessionsMove, CacheMoves, NEW h \in Handlers, SameEnding(h)
    PROVE  EndsFit(h)'
<1>1. AccessShape /\ EndsFit(h)
  BY DEF AccessInv, EndedFit, EndsFit
<1>2. jobs[h] \in Job /\ AccessJob(jobs[h]) /\ (h \in Waiting(sessions) <=> jobs[h].at \in SessionSteps)
  BY <1>1, ShapeFacts
<1>3. jobs[h].all \subseteq Sessions /\ jobs[h].todo \subseteq Sessions
  BY <1>2 DEF Job
<1>4. \A s \in Sessions : EndedIn(s) \in Ratchets(minted)
  BY DEF Ratchets
<1>5. ASSUME jobs'[h].at \in {"reuse", "session"} PROVE Since(sessions', h, EndedIn(jobs'[h].s))
  <2>1. jobs'[h].s = jobs[h].s /\ jobs[h].at \in {"reuse", "session"}
    BY <1>5 DEF SameEnding
  <2>2. h \in Waiting(sessions) /\ jobs[h].s \in Sessions
    BY <1>2, <2>1 DEF AccessJob, SessionSteps
  <2> QED BY <1>1, <1>4, <2>1, <2>2 DEF EndsFit, SessionsMove, Onward
<1>6. ASSUME jobs'[h].at = "looping", NEW s \in jobs'[h].all \ jobs'[h].todo
      PROVE  Since(sessions', h, EndedIn(s))
  <2>1. jobs[h].at = "looping" /\ s \in jobs[h].all \ jobs[h].todo
    BY <1>6 DEF SameEnding
  <2>2. h \in Waiting(sessions) /\ s \in Sessions
    BY <1>2, <1>3, <2>1 DEF SessionSteps
  <2> QED BY <1>1, <1>4, <2>1, <2>2 DEF EndsFit, SessionsMove, Onward
<1>7. ASSUME jobs'[h].at \in {"next", "rules", "removing"}, NEW s \in jobs'[h].all \ jobs'[h].todo
      PROVE  Everywhere(sessions', EndedIn(s))
  <2>1. jobs[h].at \in {"next", "rules", "removing"} /\ s \in jobs[h].all \ jobs[h].todo
    BY <1>7 DEF SameEnding
  <2> QED BY <1>1, <1>3, <1>4, <2>1 DEF EndsFit, SessionsMove, Onward
<1>8. ASSUME jobs'[h].at \in {"next", "looping"}, NEW s \in jobs'[h].todo
      PROVE  sessions'.cache[s] # Nobody
  <2>1. jobs[h].at \in {"next", "looping"} /\ s \in jobs[h].todo
    BY <1>8 DEF SameEnding
  <2> QED BY <1>1, <1>3, <2>1 DEF EndsFit, CacheMoves
<1> QED BY <1>5, <1>6, <1>7, <1>8 DEF EndsFit

\* What is ended anew is ended in every version, and a new connection belongs to
\* a known session.
LEMMA EndedStep ==
    ASSUME AccessInv, SessionsMove, CacheMoves,
           \A h \in Handlers : EndsFit(h)',
           \A s \in ended' : s \in ended \/ Everywhere(sessions', EndedIn(s)),
           \A s \in sockets' : s \in sockets \/ (s \in Sessions /\ Known(s))
    PROVE  EndedFit'
<1>1. AccessShape /\ EndedFit /\ ended \subseteq Sessions /\ sockets \subseteq Sessions
  BY DEF AccessInv, AccessShape, Bounded
<1>2. \A s \in ended' : Everywhere(sessions', EndedIn(s))
  BY <1>1 DEF EndedFit, Ratchets, SessionsMove, Onward
<1>3. \A s \in sockets' : sessions'.cache[s] # Nobody
  BY <1>1 DEF EndedFit, CacheMoves, Known
<1> QED BY <1>2, <1>3 DEF EndedFit, EndsFit

----------------------------------------------------------------------------
(* Devices that are out                                                    *)

\* h takes the device out that it took out before, and nobody approved it.
SameRevoking(h, A) ==
    /\ jobs'[h].at = "revoking" /\ ~jobs'[h].overruled =>
          /\ jobs[h].at = "revoking" /\ ~jobs[h].overruled
          /\ jobs'[h].d = jobs[h].d /\ jobs[h].d \notin A
    /\ jobs'[h].at \in {"next", "looping"} /\ jobs'[h].for = "revoke" /\ ~jobs'[h].overruled =>
          /\ jobs[h].at \in {"next", "looping"} /\ jobs[h].for = "revoke" /\ ~jobs[h].overruled
          /\ jobs'[h].d = jobs[h].d /\ jobs[h].d \notin A
    /\ jobs'[h].at = "removing" => jobs[h].at = "removing" /\ jobs'[h].d = jobs[h].d

\* What OutFit says of one handler, and of one device.
RevokesFit(h) ==
    /\ jobs[h].at = "revoking" /\ ~jobs[h].overruled => Since(devices, h, NotApproved(jobs[h].d))
    /\ jobs[h].at \in {"next", "looping"} /\ jobs[h].for = "revoke" /\ ~jobs[h].overruled
          => Everywhere(devices, NotApproved(jobs[h].d))
    /\ jobs[h].at = "removing" => Since(devices, h, Gone(jobs[h].d))

IsOut(d) ==
    /\ Everywhere(devices, NotApproved(d))
    /\ devices.cache[d] # Nobody =>
          d \notin tunnels /\ \A s \in sockets : sessions.cache[s].device # d

\* So does one that goes on with the same device, if that is not approved meanwhile.
LEMMA RevokesKept ==
    ASSUME AccessInv, NEW A, StatusMoves(A), NEW h \in Handlers, SameRevoking(h, A)
    PROVE  RevokesFit(h)'
<1>1. AccessShape /\ RevokesFit(h)
  BY DEF AccessInv, OutFit, RevokesFit
<1>2. AccessJob(jobs[h]) /\ (h \in Waiting(devices) <=> jobs[h].at \in StatusSteps)
  BY <1>1, ShapeFacts
<1>3. ASSUME jobs'[h].at = "revoking", ~jobs'[h].overruled
      PROVE  Since(devices', h, NotApproved(jobs'[h].d))
  <2>1. /\ jobs[h].at = "revoking" /\ ~jobs[h].overruled
        /\ jobs'[h].d = jobs[h].d /\ jobs[h].d \notin A
    BY <1>3 DEF SameRevoking
  <2>2. h \in Waiting(devices) /\ jobs[h].d \in Devices
    BY <1>2, <2>1 DEF AccessJob, StatusSteps
  <2>3. NotApproved(jobs[h].d) \in DeviceRatchets(A)
    BY <2>1, <2>2 DEF DeviceRatchets
  <2> QED BY <1>1, <2>1, <2>2, <2>3 DEF RevokesFit, StatusMoves
<1>4. ASSUME jobs'[h].at \in {"next", "looping"}, jobs'[h].for = "revoke", ~jobs'[h].overruled
      PROVE  Everywhere(devices', NotApproved(jobs'[h].d))
  <2>1. /\ jobs[h].at \in {"next", "looping"} /\ jobs[h].for = "revoke" /\ ~jobs[h].overruled
        /\ jobs'[h].d = jobs[h].d /\ jobs[h].d \notin A
    BY <1>4 DEF SameRevoking
  <2>2. jobs[h].d \in Devices
    BY <1>2, <2>1 DEF AccessJob
  <2>3. NotApproved(jobs[h].d) \in DeviceRatchets(A)
    BY <2>1, <2>2 DEF DeviceRatchets
  <2> QED BY <1>1, <2>1, <2>3 DEF RevokesFit, StatusMoves
<1>5. ASSUME jobs'[h].at = "removing" PROVE Since(devices', h, Gone(jobs'[h].d))
  <2>1. jobs[h].at = "removing" /\ jobs'[h].d = jobs[h].d
    BY <1>5 DEF SameRevoking
  <2>2. h \in Waiting(devices) /\ jobs[h].d \in Devices
    BY <1>2, <2>1 DEF AccessJob, StatusSteps
  <2>3. Gone(jobs[h].d) \in DeviceRatchets(A)
    BY <2>2 DEF DeviceRatchets
  <2> QED BY <1>1, <2>1, <2>2, <2>3 DEF RevokesFit, StatusMoves
<1> QED BY <1>3, <1>4, <1>5 DEF RevokesFit

\* Only a device that can be used gets a tunnel or a connection.
LEMMA OutStep ==
    ASSUME AccessInv, AccessShape', NEW A, StatusMoves(A), CacheMoves,
           \A h \in Handlers : RevokesFit(h)',
           \A d \in out' : (d \in out /\ d \notin A) \/ IsOut(d)',
           \A d \in tunnels' : d \in tunnels \/ IsUsable(d),
           \A s \in sockets' : s \in sockets \/ (Known(s) /\ IsUsable(sessions.cache[s].device))
    PROVE  OutFit'
<1>1. AccessShape /\ OutFit /\ EndedFit /\ out \subseteq Devices /\ sockets \subseteq Sessions /\ sockets' \subseteq Sessions
  BY DEF AccessInv, AccessShape, Bounded
<1>2. ASSUME NEW d \in out', d \in out, d \notin A PROVE IsOut(d)'
  <2>1. d \in Devices /\ NotApproved(d) \in DeviceRatchets(A)
    BY <1>1, <1>2 DEF DeviceRatchets
  <2>2. Everywhere(devices, NotApproved(d))
    BY <1>1, <1>2 DEF OutFit
  <2>3. Everywhere(devices', NotApproved(d))
    BY <2>1, <2>2 DEF StatusMoves
  <2>4. ~IsUsable(d)
    BY <1>1, <2>2, VersionFacts DEF AccessShape, AccessStores, NotApproved, IsUsable
  <2>5. ASSUME devices'.cache[d] # Nobody
        PROVE  d \notin tunnels' /\ \A s \in sockets' : sessions'.cache[s].device # d
    <3>1. devices.cache[d] # Nobody
      BY <2>1, <2>5 DEF CacheMoves
    <3>2. d \notin tunnels /\ \A s \in sockets : sessions.cache[s].device # d
      BY <1>1, <1>2, <3>1 DEF OutFit
    <3>3. ASSUME NEW s \in sockets' PROVE sessions'.cache[s].device # d
      <4>1. Known(s) /\ s \in Sessions
        BY <1>1, <3>3 DEF EndedFit, Known
      <4>2. sessions'.cache[s].device = sessions.cache[s].device
        BY <4>1 DEF CacheMoves, Known
      <4> QED BY <2>4, <3>2, <4>2
    <3> QED BY <2>4, <3>2, <3>3
  <2> QED BY <2>3, <2>5 DEF IsOut
<1>3. \A d \in out' : IsOut(d)'
  BY <1>2
<1> QED BY <1>3 DEF OutFit, IsOut, RevokesFit

----------------------------------------------------------------------------
(* The invariant holds after every step                                    *)

\* Whoever does nothing in a step still fits.
LEMMA OthersFit ==
    ASSUME AccessInv, AccessShape', StoresMove({}), NEW g \in Handlers, jobs'[g] = jobs[g] \/ jobs'[g] = Free
    PROVE  SameExchange(g) /\ EndsFit(g)' /\ RevokesFit(g)'
<1>1. AccessShape /\ TokensFit /\ Bounded' /\ SessionsMove /\ StatusMoves({}) /\ CacheMoves
  BY DEF AccessInv, AccessShape, StoresMove
<1>2. Free.at = "free"
  BY DEF Free
<1>3. SameExchange(g)
  BY <1>1, <1>2, SameJobExchange
<1>4. SameEnding(g) /\ SameRevoking(g, {})
  BY <1>2 DEF SameEnding, SameRevoking
<1> QED BY <1>1, <1>3, <1>4, EndsKept, RevokesKept

\* A step of h, from what it leaves of h and of the histories.
LEMMA AccessAdvance ==
    ASSUME AccessInv, AccessShape', StoresMove({}), NEW h \in Handlers, NEW J, Suspend(h, J),
           EndsFit(h)', RevokesFit(h)',
           known' = known, exchanged' = exchanged, SameExchange(h),
           \A s \in ended' : s \in ended \/ Everywhere(sessions', EndedIn(s)),
           \A d \in out' : d \in out \/ IsOut(d)',
           tunnels' \subseteq tunnels, sockets' \subseteq sockets
    PROVE  AccessInv'
<1>1. SessionsMove /\ StatusMoves({}) /\ CacheMoves /\ TokensFit /\ AccessShape
  BY DEF StoresMove, AccessInv
<1>2. \A g \in Handlers : g # h => jobs'[g] = jobs[g]
  BY <1>1 DEF Suspend, AccessShape
<1>3. \A g \in Handlers : SameExchange(g) /\ EndsFit(g)' /\ RevokesFit(g)'
  BY <1>2, OthersFit
<1>4. known' \subseteq 1 .. minted'
  <2>1. minted <= minted' /\ minted \in Nat /\ minted' \in Nat
    BY <1>1, AccessAssumption DEF SessionsMove, Onward, AccessShape, Bounded
  <2> QED BY <1>1, <2>1 DEF TokensFit
<1>5. TokensFit'
  BY <1>1, <1>3, <1>4, TokensQuiet
<1>6. EndedFit'
  BY <1>1, <1>3, EndedStep
<1>7. OutFit'
  BY <1>1, <1>3, OutStep
<1> QED BY <1>5, <1>6, <1>7 DEF AccessInv

\* The same for a step that changes the tokens.
LEMMA AdvanceTokens ==
    ASSUME AccessInv, AccessShape', StoresMove({}), NEW h \in Handlers, NEW J, Suspend(h, J),
           J.at \in {"free", "login", "refresh"}, TokensFit',
           UNCHANGED <<ended, out, tunnels, sockets>>
    PROVE  AccessInv'
<1>1. SessionsMove /\ StatusMoves({}) /\ CacheMoves /\ AccessShape
  BY DEF StoresMove, AccessInv
<1>2. jobs'[h] = J /\ \A g \in Handlers : g # h => jobs'[g] = jobs[g]
  BY <1>1 DEF Suspend, AccessShape
<1>3. EndsFit(h)' /\ RevokesFit(h)'
  BY <1>2 DEF EndsFit, RevokesFit
<1>4. \A g \in Handlers : EndsFit(g)' /\ RevokesFit(g)'
  BY <1>2, <1>3, OthersFit
<1>5. EndedFit'
  BY <1>1, <1>4, EndedStep
<1>6. OutFit'
  BY <1>1, <1>4, OutStep
<1> QED BY <1>5, <1>6 DEF AccessInv

\* A login writes a session with a token that was never given before.
LEMMA LoginInv ==
    ASSUME AccessInv, NEW h \in Handlers, NEW d \in Devices, NEW s \in Sessions, Login(h, d, s)
    PROVE  AccessInv'
<1>1. AccessShape' /\ StoresMove({})
  BY LoginStep
<1>2. TokensFit'
  BY <1>1, TokensLogin DEF StoresMove
<1>3. PICK J : Suspend(h, J) /\ J.at = "login"
  <2> DEFINE J == [Free EXCEPT !.at = "login", !.s = s, !.t = minted']
  <2>1. Suspend(h, J) /\ J.at = "login"
    BY DEF Login, Free
  <2> HIDE DEF J
  <2> QED BY <2>1
<1>4. UNCHANGED <<ended, out, tunnels, sockets>>
  BY DEF Login, history
<1> QED BY <1>1, <1>2, <1>3, <1>4, AdvanceTokens

\* A refresh trades the current token of a session for a new one.
LEMMA RefreshInv ==
    ASSUME AccessInv, NEW h \in Handlers, NEW s \in Sessions, NEW t, Refresh(h, s, t)
    PROVE  AccessInv'
<1>1. /\ AccessShape' /\ StoresMove({}) /\ t \in Tokens /\ t \in 1 .. minted
      /\ minted' = minted + 1 /\ sessions.cache \notin Lacking(t)
      /\ sessions'.cache \in Lacking(t) /\ sessions'.cache \in Present(s)
  BY RefreshStep
<1>2. TokensFit'
  BY <1>1, TokensRefresh DEF StoresMove
<1>3. PICK J : Suspend(h, J) /\ J.at = "refresh"
  <2> DEFINE J == [Free EXCEPT !.at = "refresh", !.s = s, !.t = t]
  <2>1. Suspend(h, J) /\ J.at = "refresh"
    BY DEF Refresh, Free
  <2> HIDE DEF J
  <2> QED BY <2>1
<1>4. UNCHANGED <<ended, out, tunnels, sockets>>
  BY DEF Refresh, history
<1> QED BY <1>1, <1>2, <1>3, <1>4, AdvanceTokens

\* The handlers that go on when their write of the sessions has landed.
LEMMA AnswerInv ==
    ASSUME AccessInv, NEW h \in Handlers,
           AnswerLogin(h) \/ AnswerRefresh(h) \/ AnswerReuse(h) \/ NextRevoked(h) \/ SessionRevoked(h)
    PROVE  AccessInv'
<1>1. AccessShape' /\ StoresMove({}) /\ sessions'.cache = sessions.cache
  BY AnswerStep
<1>2. AccessShape /\ TokensFit /\ EndedFit /\ SessionsMove /\ jobs \in [Handlers -> Job] /\ Bounded'
  BY <1>1 DEF AccessInv, StoresMove, AccessShape
<1>3. Free.at = "free"
  BY DEF Free
<1>4. CASE AnswerLogin(h)
  <2>1. /\ Suspend(h, Free) /\ UNCHANGED <<ended, out, tunnels, sockets, exchanged, minted>>
        /\ known' = known \cup {jobs[h].t} /\ jobs[h].at = "login"
    BY <1>4 DEF AnswerLogin, history, Finish, Suspend
  <2>2. jobs[h].t \in 1 .. minted
    <3>1. jobs[h].t \in Tokens /\ jobs[h].t <= minted /\ MaxTokens \in Nat /\ minted \in Nat
      BY <1>2, <2>1, ShapeFacts, AccessAssumption DEF AccessJob, TokensFit
    <3> QED BY <3>1 DEF Tokens
  <2>3. known' \subseteq 1 .. minted'
    BY <1>2, <2>1, <2>2 DEF TokensFit
  <2>4. \A g \in Handlers : jobs'[g] = jobs[g] \/ jobs'[g] = Free
    BY <1>2, <2>1 DEF Suspend
  <2>5. \A g \in Handlers : SameExchange(g)
    BY <1>1, <2>4, OthersFit
  <2>6. TokensFit'
    BY <1>1, <1>2, <2>1, <2>3, <2>5, TokensQuiet
  <2> QED BY <1>1, <1>3, <2>1, <2>6, AdvanceTokens
<1>5. CASE AnswerRefresh(h)
  <2>1. TokensFit'
    BY <1>1, <1>2, <1>5, TokensAnswer
  <2>2. Suspend(h, Free) /\ UNCHANGED <<ended, out, tunnels, sockets>>
    BY <1>5 DEF AnswerRefresh, Finish, Suspend
  <2> QED BY <1>1, <1>3, <2>1, <2>2, AdvanceTokens
<1>6. CASE AnswerReuse(h) \/ SessionRevoked(h)
  <2>1. /\ Suspend(h, Free) /\ UNCHANGED <<out, tunnels, exchanged, known>>
        /\ ended' = ended \cup {jobs[h].s} /\ sockets' \subseteq sockets
        /\ jobs[h].at \in {"reuse", "session"}
        /\ Settles(sessions, h) /\ sessions' = Landed(sessions)
    BY <1>6 DEF AnswerReuse, SessionRevoked, Finish, Suspend
  <2>2. Since(sessions, h, EndedIn(jobs[h].s))
    BY <1>2, <2>1 DEF EndedFit
  <2>3. Everywhere(sessions', EndedIn(jobs[h].s))
    BY <1>2, <2>1, <2>2, LandedFacts DEF Settles, AccessShape, AccessStores
  <2>4. jobs'[h] = Free
    BY <1>2, <2>1 DEF Suspend
  <2>5. SameExchange(h) /\ EndsFit(h)' /\ RevokesFit(h)'
    BY <1>1, <2>4, OthersFit
  <2> QED BY <1>1, <2>1, <2>3, <2>5, AccessAdvance
<1>7. CASE NextRevoked(h)
  <2> DEFINE J == [jobs[h] EXCEPT !.at = "next"]
  <2>1. /\ Suspend(h, J) /\ UNCHANGED <<out, ended, sockets, tunnels, exchanged, known>>
        /\ jobs[h].at = "looping"
        /\ Settles(sessions, h) /\ sessions' = Landed(sessions)
    BY <1>7 DEF NextRevoked, history
  <2>2. /\ J.at = "next" /\ J.all = jobs[h].all /\ J.todo = jobs[h].todo
        /\ J.for = jobs[h].for /\ J.d = jobs[h].d /\ J.overruled = jobs[h].overruled
    BY <1>2 DEF Job
  <2>3. jobs'[h] = J
    BY <1>2, <2>1 DEF Suspend
  <2> HIDE DEF J
  <2>4. \A s \in jobs[h].all \ jobs[h].todo : Everywhere(sessions', EndedIn(s))
    <3>1. \A s \in jobs[h].all \ jobs[h].todo : Since(sessions, h, EndedIn(s))
      BY <1>2, <2>1 DEF EndedFit
    <3> QED BY <1>2, <2>1, <3>1, LandedFacts DEF Settles, AccessShape, AccessStores
  <2>5. \A s \in jobs[h].todo : sessions'.cache[s] # Nobody
    BY <1>1, <1>2, <2>1 DEF EndedFit
  <2>6. EndsFit(h)'
    BY <2>2, <2>3, <2>4, <2>5 DEF EndsFit
  <2>7. SameRevoking(h, {})
    BY <2>1, <2>2, <2>3 DEF SameRevoking
  <2>8. RevokesFit(h)'
    BY <1>1, <2>7, RevokesKept DEF StoresMove
  <2>9. SameExchange(h)
    BY <2>2, <2>3 DEF SameExchange
  <2> QED BY <1>1, <2>1, <2>6, <2>8, <2>9, AccessAdvance
<1> QED BY <1>4, <1>5, <1>6, <1>7

\* What a session is revoked for, from the write on.
LEMMA EndingWritten ==
    ASSUME AccessShape, NEW h \in Handlers, jobs[h].at \notin SessionSteps, NEW s \in Sessions,
           NEW C, sessions' = Update(sessions, h, C), sessions'.cache \in EndedIn(s)
    PROVE  Since(sessions', h, EndedIn(s))
<1>1. sessions'.cache = C
  BY DEF Update
<1>2. C \in SessionMap /\ h \in Callers
  BY <1>1 DEF EndedIn, Callers
<1>3. h \notin Waiting(sessions) /\ sessions \in Collections(SessionMap, Callers)
  BY ShapeFacts
<1> QED BY <1>1, <1>2, <1>3, SinceWritten

\* One session is ended, by a sign-out or because an old token came back.
LEMMA RevokeSessionInv ==
    ASSUME AccessInv, NEW h \in Handlers, NEW s \in Sessions,
           RevokeSession(h, s) \/ \E t \in known : DetectReuse(h, s, t)
    PROVE  AccessInv'
<1>1. AccessShape' /\ StoresMove({}) /\ sessions'.cache \in EndedIn(s)
  BY RevokeSessionStep, ReuseStep
<1>2. AccessShape /\ jobs \in [Handlers -> Job]
  BY DEF AccessInv, AccessShape
<1>3. /\ sessions' = Update(sessions, h, RevokedIn(sessions, s)) /\ jobs[h].at = "free"
      /\ UNCHANGED <<known, exchanged, ended, out, tunnels, sockets>>
  BY DEF RevokeSession, DetectReuse, IsFree, Free, history
<1>4. Since(sessions', h, EndedIn(s))
  BY <1>1, <1>2, <1>3, EndingWritten DEF SessionSteps
<1>5. PICK at \in {"reuse", "session"} : Suspend(h, [Free EXCEPT !.at = at, !.s = s])
  BY DEF RevokeSession, DetectReuse
<1> DEFINE J == [Free EXCEPT !.at = at, !.s = s]
<1>6. J.at \in {"reuse", "session"} /\ J.s = s
  BY DEF Free
<1>7. Suspend(h, J) /\ jobs'[h] = J
  BY <1>2, <1>5 DEF Suspend
<1> HIDE DEF J
<1>8. SameExchange(h) /\ EndsFit(h)' /\ RevokesFit(h)'
  BY <1>4, <1>6, <1>7 DEF SameExchange, EndsFit, RevokesFit
<1> QED BY <1>1, <1>3, <1>7, <1>8, AccessAdvance

\* A pass over sessions goes on to the next one.
LEMMA RevokeNextInv ==
    ASSUME AccessInv, NEW h \in Handlers, RevokeNext(h)
    PROVE  AccessInv'
<1>1. /\ AccessShape' /\ StoresMove({})
      /\ \E s \in jobs[h].todo :
            /\ sessions'.cache \in EndedIn(s)
            /\ jobs' = [jobs EXCEPT ![h] = [jobs[h] EXCEPT !.at = "looping", !.todo = @ \ {s}]]
  BY RevokeNextStep
<1>2. PICK s \in jobs[h].todo :
        /\ sessions'.cache \in EndedIn(s)
        /\ jobs' = [jobs EXCEPT ![h] = [jobs[h] EXCEPT !.at = "looping", !.todo = @ \ {s}]]
  BY <1>1
<1>3. /\ AccessShape /\ EndedFit /\ jobs \in [Handlers -> Job] /\ jobs[h] \in Job /\ AccessShape'
      /\ SessionsMove /\ StatusMoves({}) /\ CacheMoves
  BY <1>1 DEF AccessInv, AccessShape, StoresMove
<1>4. /\ jobs[h].at = "next" /\ UNCHANGED <<known, exchanged, ended, out, tunnels, sockets>>
      /\ \E C : sessions' = Update(sessions, h, C)
  BY DEF RevokeNext, history
<1>5. jobs[h].all \subseteq Sessions /\ jobs[h].todo \subseteq Sessions
  BY <1>3 DEF Job
<1> DEFINE J == [jobs[h] EXCEPT !.at = "looping", !.todo = @ \ {s}]
<1>6. /\ J.at = "looping" /\ J.all = jobs[h].all /\ J.todo = jobs[h].todo \ {s}
      /\ J.for = jobs[h].for /\ J.d = jobs[h].d /\ J.overruled = jobs[h].overruled
  BY <1>3 DEF Job
<1>7. jobs'[h] = J /\ Suspend(h, J)
  BY <1>2, <1>3 DEF Suspend
<1> HIDE DEF J
<1>8. ASSUME NEW r \in jobs[h].all \ J.todo PROVE Since(sessions', h, EndedIn(r))
  <2>1. CASE r = s
    BY <1>2, <1>3, <1>4, <1>5, <2>1, EndingWritten DEF SessionSteps
  <2>2. CASE r # s
    <3>1. r \in jobs[h].all \ jobs[h].todo /\ r \in Sessions
      BY <1>5, <1>6, <2>2
    <3>2. Everywhere(sessions, EndedIn(r))
      BY <1>3, <1>4, <3>1 DEF EndedFit
    <3>3. Everywhere(sessions', EndedIn(r))
      BY <1>3, <3>1, <3>2 DEF SessionsMove, Onward, Ratchets
    <3> QED BY <1>3, <3>3, VersionFacts DEF AccessShape, AccessStores
  <2> QED BY <2>1, <2>2
<1>9. \A r \in J.todo : sessions'.cache[r] # Nobody
  BY <1>3, <1>4, <1>5, <1>6 DEF EndedFit, CacheMoves
<1>10. EndsFit(h)'
  BY <1>6, <1>7, <1>8, <1>9 DEF EndsFit
<1>11. SameRevoking(h, {})
  BY <1>4, <1>6, <1>7 DEF SameRevoking
<1>12. RevokesFit(h)'
  BY <1>3, <1>11, RevokesKept
<1>13. SameExchange(h)
  BY <1>6, <1>7 DEF SameExchange
<1> QED BY <1>1, <1>4, <1>7, <1>10, <1>12, <1>13, AccessAdvance

\* An approval overrules whoever is revoking the device.
LEMMA ApproveInv ==
    ASSUME AccessInv, NEW h \in Handlers, NEW d \in Devices, ApproveDevice(h, d)
    PROVE  AccessInv'
<1>1. /\ AccessShape' /\ StoresMove({d}) /\ jobs'[h].at = "approving" /\ jobs[h].at = "free"
      /\ \A g \in Handlers : g # h =>
            /\ SameJob(jobs'[g], jobs[g])
            /\ jobs[g].overruled => jobs'[g].overruled
            /\ jobs[g].d = d => jobs'[g].overruled
  BY ApproveStep
<1>2. AccessShape /\ TokensFit /\ Bounded' /\ SessionsMove /\ StatusMoves({d}) /\ CacheMoves
  BY <1>1 DEF AccessInv, AccessShape, StoresMove
<1>3. UNCHANGED <<known, exchanged, ended, tunnels, sockets, minted>> /\ out' = out \ {d}
  BY DEF ApproveDevice
<1>4. ASSUME NEW g \in Handlers PROVE SameExchange(g) /\ SameEnding(g) /\ SameRevoking(g, {d})
  <2>1. CASE g = h
    BY <1>1, <2>1 DEF SameExchange, SameEnding, SameRevoking
  <2>2. CASE g # h
    <3>1. SameExchange(g)
      BY <1>1, <1>2, <2>2, SameJobExchange DEF SameJob
    <3> QED BY <1>1, <2>2, <3>1 DEF SameJob, SameEnding, SameRevoking
  <2> QED BY <2>1, <2>2
<1>5. \A g \in Handlers : EndsFit(g)' /\ RevokesFit(g)'
  BY <1>2, <1>4, EndsKept, RevokesKept
<1>6. known' \subseteq 1 .. minted'
  BY <1>2, <1>3 DEF TokensFit
<1>7. TokensFit'
  BY <1>1, <1>2, <1>3, <1>4, <1>6, TokensQuiet
<1>8. EndedFit'
  BY <1>2, <1>3, <1>5, EndedStep
<1>9. OutFit'
  BY <1>1, <1>2, <1>3, <1>5, OutStep
<1> QED BY <1>1, <1>7, <1>8, <1>9 DEF AccessInv

\* Rejecting and revoking a device.
LEMMA RefuseInv ==
    ASSUME AccessInv, NEW h \in Handlers, NEW d \in Devices, RejectDevice(h, d) \/ RevokeDevice(h, d)
    PROVE  AccessInv'
<1>1. AccessShape' /\ StoresMove({}) /\ devices'.cache \in NotApproved(d)
  BY RefuseStep
<1>2. AccessShape /\ jobs \in [Handlers -> Job]
  BY DEF AccessInv, AccessShape
<1>3. /\ jobs[h].at = "free" /\ UNCHANGED <<known, exchanged, ended, out, tunnels, sockets>>
      /\ \E C : devices' = Update(devices, h, C)
  BY DEF RejectDevice, RevokeDevice, IsFree, Free, history
<1>4. PICK at \in {"approving", "revoking"} : Suspend(h, [Free EXCEPT !.at = at, !.d = d])
  BY DEF RejectDevice, RevokeDevice
<1> DEFINE J == [Free EXCEPT !.at = at, !.d = d]
<1>5. J.at \in {"approving", "revoking"} /\ J.d = d
  BY DEF Free
<1>6. Suspend(h, J) /\ jobs'[h] = J
  BY <1>2, <1>4 DEF Suspend
<1> HIDE DEF J
<1>7. Since(devices', h, NotApproved(d))
  <2>1. PICK C : devices' = Update(devices, h, C)
    BY <1>3
  <2>2. devices'.cache = C /\ h \in Callers /\ C \in StatusMap
    BY <1>1, <2>1 DEF Update, Callers, NotApproved
  <2>3. h \notin Waiting(devices) /\ devices \in Collections(StatusMap, Callers)
    BY <1>2, <1>3, ShapeFacts DEF StatusSteps
  <2> QED BY <1>1, <2>1, <2>2, <2>3, SinceWritten
<1>8. SameExchange(h) /\ EndsFit(h)' /\ RevokesFit(h)'
  BY <1>5, <1>6, <1>7 DEF SameExchange, EndsFit, RevokesFit
<1> QED BY <1>1, <1>3, <1>6, <1>8, AccessAdvance

\* What follows the write of a device.
LEMMA DeviceAnswerInv ==
    ASSUME AccessInv, NEW h \in Handlers, DeviceSaved(h) \/ DeviceRevoked(h) \/ DeviceDeleted(h)
    PROVE  AccessInv'
<1>1. AccessShape' /\ StoresMove({}) /\ devices'.cache = devices.cache
  BY DeviceAnswerStep
<1>2. /\ AccessShape /\ OutFit /\ EndedFit /\ jobs \in [Handlers -> Job]
      /\ devices \in Collections(StatusMap, Callers) /\ jobs[h] \in Job /\ AccessJob(jobs[h])
  BY ShapeFacts DEF AccessInv, AccessShape
<1>3. /\ Settles(devices, h) /\ devices' = Landed(devices)
      /\ UNCHANGED <<sessions, known, exchanged, tunnels, sockets>>
  BY DEF DeviceSaved, DeviceRevoked, DeviceDeleted, history
<1>4. CASE DeviceSaved(h)
  <2>1. Suspend(h, Free) /\ UNCHANGED <<ended, out>>
    BY <1>4 DEF DeviceSaved, Finish, Suspend, history
  <2>2. jobs'[h] = Free
    BY <1>2, <2>1 DEF Suspend
  <2>3. SameExchange(h) /\ EndsFit(h)' /\ RevokesFit(h)'
    BY <1>1, <2>2, OthersFit
  <2> QED BY <1>1, <1>3, <2>1, <2>3, AccessAdvance
<1>5. CASE DeviceDeleted(h)
  <2>1. /\ Suspend(h, Free) /\ jobs[h].at = "removing"
        /\ ended' = ended \cup jobs[h].all /\ out' = out \cup {jobs[h].d}
    BY <1>5 DEF DeviceDeleted, Finish, Suspend
  <2>2. jobs'[h] = Free
    BY <1>2, <2>1 DEF Suspend
  <2>3. SameExchange(h) /\ EndsFit(h)' /\ RevokesFit(h)'
    BY <1>1, <2>2, OthersFit
  <2>4. \A s \in jobs[h].all : Everywhere(sessions', EndedIn(s))
    <3>1. jobs[h].todo = {}
      BY <1>2, <2>1 DEF AccessJob
    <3> QED BY <1>2, <1>3, <2>1, <3>1 DEF EndedFit
  <2>5. Everywhere(devices', Gone(jobs[h].d))
    <3>1. Since(devices, h, Gone(jobs[h].d))
      BY <1>2, <2>1 DEF OutFit
    <3> QED BY <1>2, <1>3, <3>1, LandedFacts DEF Settles
  <2>6. ASSUME NEW d, d = jobs[h].d PROVE IsOut(d)'
    <3>1. Gone(d) \subseteq NotApproved(d)
      BY NobodyAssumption DEF Gone, NotApproved, DeviceStatus
    <3>2. devices' \in Collections(StatusMap, Callers)
      BY <1>1 DEF AccessShape, AccessStores
    <3>3. devices'.cache \in Gone(d) /\ Everywhere(devices', NotApproved(d))
      BY <2>5, <2>6, <3>1, <3>2, VersionFacts
    <3>4. devices'.cache[d] = Nobody
      BY <3>3 DEF Gone
    <3> QED BY <3>3, <3>4 DEF IsOut
  <2> QED BY <1>1, <1>3, <2>1, <2>3, <2>4, <2>6, AccessAdvance
<1>6. CASE DeviceRevoked(h)
  <2> DEFINE d == jobs[h].d
             J == [Loop("revoke", d, SessionsOf(d)) EXCEPT !.overruled = jobs[h].overruled]
  <2>1. Suspend(h, J) /\ jobs[h].at = "revoking" /\ UNCHANGED <<ended, out>>
    BY <1>6 DEF DeviceRevoked, history
  <2>2. /\ J.at = "next" /\ J.for = "revoke" /\ J.d = d /\ J.all = SessionsOf(d)
        /\ J.todo = SessionsOf(d) /\ J.overruled = jobs[h].overruled
    BY DEF Loop, Free
  <2>3. jobs'[h] = J
    BY <1>2, <2>1 DEF Suspend
  <2> HIDE DEF J
  <2>4. \A s \in SessionsOf(d) : sessions'.cache[s] # Nobody
    BY <1>3 DEF SessionsOf, Known
  <2>5. ASSUME ~jobs[h].overruled PROVE Everywhere(devices', NotApproved(d))
    <3>1. Since(devices, h, NotApproved(d))
      BY <1>2, <2>1, <2>5 DEF OutFit
    <3> QED BY <1>2, <1>3, <3>1, LandedFacts DEF Settles
  <2> HIDE DEF d
  <2>6. SameExchange(h) /\ EndsFit(h)' /\ RevokesFit(h)'
    BY <2>2, <2>3, <2>4, <2>5 DEF SameExchange, EndsFit, RevokesFit
  <2> QED BY <1>1, <1>3, <2>1, <2>6, AccessAdvance
<1> QED BY <1>4, <1>5, <1>6

\* The beginning of a loop.
LEMMA LoopInv ==
    ASSUME AccessInv, NEW h \in Handlers,
           (\E d \in Devices : DeleteDevice(h, d)) \/ RevokeAllSessions(h)
    PROVE  AccessInv'
<1>1. AccessShape' /\ StoresMove({})
  BY LoopStep
<1>2. UNCHANGED <<sessions, known, exchanged, ended, out, tunnels, sockets>> /\ jobs \in [Handlers -> Job]
  BY DEF DeleteDevice, RevokeAllSessions, stores, history, AccessInv, AccessShape
<1>3. ASSUME NEW for \in {"delete", "all"}, NEW d, NEW ss, \A s \in ss : Known(s),
             Suspend(h, Loop(for, d, ss))
      PROVE  AccessInv'
  <2> DEFINE J == Loop(for, d, ss)
  <2>1. J.at = "next" /\ J.for = for /\ J.todo = ss /\ J.all = ss
    BY DEF Loop, Free
  <2>2. Suspend(h, J) /\ jobs'[h] = J
    BY <1>2, <1>3 DEF Suspend
  <2> HIDE DEF J
  <2>3. \A s \in ss : sessions'.cache[s] # Nobody
    BY <1>2, <1>3 DEF Known
  <2>4. SameExchange(h) /\ EndsFit(h)' /\ RevokesFit(h)'
    BY <2>1, <2>2, <2>3 DEF SameExchange, EndsFit, RevokesFit
  <2> QED BY <1>1, <1>2, <2>2, <2>4, AccessAdvance
<1>4. CASE RevokeAllSessions(h)
  <2> DEFINE ss == {s \in Sessions : Known(s)}
  <2>1. Suspend(h, Loop("all", Nobody, ss)) /\ \A s \in ss : Known(s)
    BY <1>4 DEF RevokeAllSessions
  <2> HIDE DEF ss
  <2> QED BY <1>3, <2>1
<1>5. ASSUME NEW d \in Devices, DeleteDevice(h, d) PROVE AccessInv'
  <2>1. Suspend(h, Loop("delete", d, SessionsOf(d))) /\ \A s \in SessionsOf(d) : Known(s)
    BY <1>5 DEF DeleteDevice, SessionsOf
  <2> QED BY <1>3, <2>1
<1> QED BY <1>4, <1>5

\* Its end.
LEMMA LoopEndsInv ==
    ASSUME AccessInv, NEW h \in Handlers, EndRevokeDevice(h) \/ EndRevokeAll(h)
    PROVE  AccessInv'
<1>1. AccessShape' /\ StoresMove({})
  BY LoopEndsStep
<1>2. /\ AccessShape /\ OutFit /\ EndedFit /\ jobs \in [Handlers -> Job]
  BY DEF AccessInv, AccessShape
<1>3. /\ Suspend(h, Free) /\ UNCHANGED <<devices, sessions, known, exchanged>>
      /\ jobs[h].at = "next" /\ jobs[h].todo = {} /\ ended' = ended \cup jobs[h].all
      /\ tunnels' \subseteq tunnels /\ sockets' \subseteq sockets
  BY DEF EndRevokeDevice, EndRevokeAll, LoopEnds, Finish, Suspend, stores, CutTunnels, CutSockets
<1>4. jobs'[h] = Free
  BY <1>2, <1>3 DEF Suspend
<1>5. SameExchange(h) /\ EndsFit(h)' /\ RevokesFit(h)'
  BY <1>1, <1>4, OthersFit
<1>6. \A s \in jobs[h].all : Everywhere(sessions', EndedIn(s))
  BY <1>2, <1>3 DEF EndedFit
<1>7. \A d \in out' : d \in out \/ IsOut(d)'
  <2>1. CASE EndRevokeAll(h)
    BY <2>1 DEF EndRevokeAll
  <2>2. ASSUME EndRevokeDevice(h), ~jobs[h].overruled, NEW d, d = jobs[h].d PROVE IsOut(d)'
    <3>1. Everywhere(devices', NotApproved(d))
      BY <1>2, <1>3, <2>2 DEF EndRevokeDevice, LoopEnds, OutFit
    <3>2. d \notin tunnels' /\ \A s \in sockets' : sessions'.cache[s].device # d
      BY <1>3, <2>2 DEF EndRevokeDevice, CutTunnels, CutSockets
    <3> QED BY <3>1, <3>2 DEF IsOut
  <2> QED BY <2>1, <2>2 DEF EndRevokeDevice
<1> QED BY <1>1, <1>3, <1>5, <1>6, <1>7, AccessAdvance

\* The rest of a deletion.
LEMMA DeleteInv ==
    ASSUME AccessInv, NEW h \in Handlers, EndDelete(h) \/ RulesDeleted(h)
    PROVE  AccessInv'
<1>1. /\ AccessShape' /\ StoresMove({}) /\ jobs[h].d \in Devices /\ jobs[h].todo = {}
      /\ \/ \E at \in {"rules", "removing"} :
               /\ jobs' = [jobs EXCEPT ![h] = [jobs[h] EXCEPT !.at = at]]
               /\ at = "removing" => devices'.cache \in Gone(jobs[h].d)
               /\ ended' = ended
         \/ Suspend(h, Free) /\ ended' = ended \cup jobs[h].all
  BY DeleteStep
<1>3. /\ AccessShape /\ EndedFit /\ jobs \in [Handlers -> Job] /\ jobs[h] \in Job
      /\ devices \in Collections(StatusMap, Callers)
  BY ShapeFacts DEF AccessInv, AccessShape
<1>4. /\ UNCHANGED <<sessions, known, exchanged, out>>
      /\ tunnels' \subseteq tunnels /\ sockets' \subseteq sockets
      /\ jobs[h].at \in {"next", "rules"}
  BY DEF EndDelete, RulesDeleted, RemoveDevice, LoopEnds, history, CutTunnels, CutSockets
<1>8. \A s \in jobs[h].all \ jobs[h].todo : Everywhere(sessions', EndedIn(s))
  BY <1>3, <1>4 DEF EndedFit
<1>2. ASSUME NEW at \in {"rules", "removing"},
             jobs' = [jobs EXCEPT ![h] = [jobs[h] EXCEPT !.at = at]],
             at = "removing" => devices'.cache \in Gone(jobs[h].d),
             ended' = ended
      PROVE  AccessInv'
  <2> DEFINE J == [jobs[h] EXCEPT !.at = at]
  <2>1. J.at = at /\ J.all = jobs[h].all /\ J.todo = jobs[h].todo /\ J.d = jobs[h].d
    BY <1>3 DEF Job
  <2>2. jobs'[h] = J /\ Suspend(h, J)
    BY <1>2, <1>3 DEF Suspend
  <2> HIDE DEF J
  <2>3. at = "removing" => Since(devices', h, Gone(jobs[h].d))
    <3>1. SUFFICES ASSUME at = "removing" PROVE Since(devices', h, Gone(jobs[h].d))
      OBVIOUS
    <3>2. PICK C : devices' = Update(devices, h, C)
      <4>1. jobs'[h].at = "removing"
        BY <2>1, <2>2, <3>1
      <4>2. jobs \in [Handlers -> Job] /\ jobs[h] \in Job
        BY <1>3
      <4>3. Suspend(h, [jobs[h] EXCEPT !.at = "rules"]) => jobs'[h].at = "rules"
        BY <4>2 DEF Suspend, Job
      <4>4. Finish(h) => jobs'[h].at = "free"
        BY <4>2 DEF Finish, Free
      <4>5. RemoveDevice(h)
        BY <4>1, <4>3 DEF EndDelete, RulesDeleted
      <4> QED BY <4>1, <4>4, <4>5 DEF RemoveDevice
    <3>3. devices'.cache = C /\ C \in Gone(jobs[h].d)
      BY <1>2, <3>1, <3>2 DEF Update
    <3>4. C \in StatusMap /\ h \in Callers
      BY <3>3 DEF Gone, Callers
    <3>5. h \notin Waiting(devices)
      BY <1>3, <1>4, ShapeFacts DEF StatusSteps
    <3> QED BY <1>3, <3>2, <3>3, <3>4, <3>5, SinceWritten
  <2>4. SameExchange(h) /\ EndsFit(h)' /\ RevokesFit(h)'
    BY <1>8, <2>1, <2>2, <2>3 DEF SameExchange, EndsFit, RevokesFit
  <2> QED BY <1>1, <1>2, <1>4, <2>2, <2>4, AccessAdvance
<1>5. CASE Suspend(h, Free) /\ ended' = ended \cup jobs[h].all
  <2>1. jobs'[h] = Free
    BY <1>3, <1>5 DEF Suspend
  <2>2. SameExchange(h) /\ EndsFit(h)' /\ RevokesFit(h)'
    BY <1>1, <2>1, OthersFit
  <2>3. \A s \in jobs[h].all : Everywhere(sessions', EndedIn(s))
    BY <1>1, <1>8
  <2> QED BY <1>1, <1>4, <1>5, <2>2, <2>3, AccessAdvance
<1> QED BY <1>1, <1>2, <1>5

\* Everything else that goes on without a handler.
LEMMA TrafficInv ==
    ASSUME AccessInv,
           \/ \E s \in Sessions : IssueTunnel(s) \/ OpenSocket(s) \/ PeerLeaves(s)
           \/ \E d \in Devices : TunnelExpires(d)
           \/ Heartbeat \/ BackgroundSettles \/ WriteFails
    PROVE  AccessInv'
<1>1. /\ AccessShape' /\ StoresMove({}) /\ UNCHANGED <<minted, known, exchanged, ended, out>>
      /\ \A g \in Handlers : jobs'[g] = jobs[g] \/ jobs'[g] = Free
  <2>1. CASE (\E s \in Sessions : IssueTunnel(s)) \/ BackgroundSettles
    BY <2>1, BookkeepingStep DEF history
  <2>2. CASE WriteFails
    BY <2>2, WriteFailsStep DEF history
  <2>3. CASE \/ \E s \in Sessions : OpenSocket(s) \/ PeerLeaves(s)
             \/ \E d \in Devices : TunnelExpires(d)
             \/ Heartbeat
    BY <2>3, TrafficStep DEF history
  <2> QED BY <2>1, <2>2, <2>3
<1>2. /\ \A d \in tunnels' : d \in tunnels \/ IsUsable(d)
      /\ \A s \in sockets' : s \in sockets \/ (s \in Sessions /\ Known(s) /\ IsUsable(sessions.cache[s].device))
  BY DEF IssueTunnel, OpenSocket, PeerLeaves, TunnelExpires, Heartbeat, BackgroundSettles, WriteFails,
         Admitted, IsActive
<1>3. SessionsMove /\ StatusMoves({}) /\ CacheMoves /\ TokensFit
  BY <1>1 DEF StoresMove, AccessInv
<1>4. \A g \in Handlers : SameExchange(g) /\ EndsFit(g)' /\ RevokesFit(g)'
  BY <1>1, OthersFit
<1>5. known' \subseteq 1 .. minted'
  BY <1>1, <1>3 DEF TokensFit
<1>6. TokensFit'
  BY <1>1, <1>3, <1>4, <1>5, TokensQuiet
<1>7. EndedFit'
  BY <1>1, <1>2, <1>3, <1>4, EndedStep
<1>8. OutFit'
  BY <1>1, <1>2, <1>3, <1>4, OutStep
<1> QED BY <1>1, <1>6, <1>7, <1>8 DEF AccessInv

\* A message about a device that is gone changes nothing but what was said.
LEMMA DeleteGoneStep ==
    ASSUME AccessInv, NEW d \in Devices, DeleteGoneDevice(d)
    PROVE  AccessInv'
<1>1. /\ UNCHANGED <<devices, sessions, rules, tunnels, sockets, jobs, minted, known, exchanged, out, ended>>
      /\ spent' = [spent EXCEPT !["decisions"] = @ + 1]
  BY DEF DeleteGoneDevice, stores, Spend
<1>2. Bounded'
  BY <1>1 DEF AccessInv, AccessShape, Bounded
<1>3. AccessShape'
  BY <1>1, <1>2 DEF AccessInv, AccessShape, AccessStores, AccessWaits
<1>4. TokensFit' /\ EndedFit' /\ OutFit'
  BY <1>1 DEF AccessInv, TokensFit, EndedFit, OutFit
<1> QED BY <1>3, <1>4 DEF AccessInv

\* A start: nobody waits, and nothing is open.
LEMMA AccessRestart ==
    ASSUME AccessInv, AccessRestarts
    PROVE  AccessInv'
<1>1. /\ AccessShape' /\ SessionsMove /\ StatusMoves({}) /\ UNCHANGED <<minted, known, exchanged, out, ended>>
      /\ tunnels' = {} /\ sockets' = {} /\ jobs' = [h \in Handlers |-> Free]
  BY RestartStep
<1>2. AccessShape /\ TokensFit /\ EndedFit /\ OutFit /\ Bounded' /\ ended \subseteq Sessions /\ out \subseteq Devices
  BY <1>1 DEF AccessInv, AccessShape, Bounded
<1>3. \A g \in Handlers : jobs'[g] = Free /\ jobs'[g].at = "free"
  BY <1>1 DEF Free
<1>4. \A g \in Handlers : SameExchange(g)
  BY <1>3 DEF SameExchange
<1>5. known' \subseteq 1 .. minted'
  BY <1>1, <1>2 DEF TokensFit
<1>6. TokensFit'
  BY <1>1, <1>4, <1>5, TokensQuiet DEF history
<1>7. EndedFit'
  <2>1. \A s \in ended : Everywhere(sessions', EndedIn(s))
    BY <1>1, <1>2 DEF EndedFit, SessionsMove, Onward, Ratchets
  <2>2. ended' = ended
    BY <1>1 DEF history
  <2> QED BY <1>1, <1>3, <2>1, <2>2 DEF EndedFit
<1>8. OutFit'
  <2>1. \A d \in out : Everywhere(devices', NotApproved(d))
    BY <1>1, <1>2 DEF OutFit, StatusMoves, DeviceRatchets
  <2>2. out' = out
    BY <1>1 DEF history
  <2> QED BY <1>1, <1>3, <2>1, <2>2 DEF OutFit
<1> QED BY <1>1, <1>6, <1>7, <1>8 DEF AccessInv

\* The first state.
LEMMA AccessFirst == AccessInit => AccessInv
<1> SUFFICES ASSUME AccessInit PROVE AccessInv
  OBVIOUS
<1>1. PICK owners \in SUBSET Devices : rules = Loaded([d \in Devices |-> d \in owners])
  BY DEF AccessInit
<1> DEFINE ds == [d \in Devices |-> "approved"]
           ss == [s \in Sessions |-> Nobody]
           rs == [d \in Devices |-> d \in owners]
<1>2. ds \in StatusMap /\ ss \in SessionMap /\ rs \in RuleMap /\ \A s \in Sessions : ss[s] = Nobody
  BY DEF StatusMap, SessionMap, RuleMap, DeviceStatus
<1>3. /\ devices = Loaded(ds) /\ sessions = Loaded(ss) /\ rules = Loaded(rs)
      /\ tunnels = {} /\ sockets = {} /\ jobs = [h \in Handlers |-> Free]
      /\ minted = 0 /\ known = {} /\ exchanged = [t \in Tokens |-> 0]
      /\ out = {} /\ ended = {} /\ hearsay = {}
      /\ spent = [decisions |-> 0, requests |-> 0, faults |-> 0]
  BY <1>1 DEF AccessInit
<1> HIDE DEF ds, ss, rs
<1>4. /\ AccessStores /\ Waiting(devices) = {} /\ Waiting(sessions) = {} /\ Waiting(rules) = {}
      /\ Single(sessions, Handlers) /\ Single(devices, Handlers) /\ Single(rules, Handlers)
      /\ \A S : ss \in S => Everywhere(sessions, S)
  BY <1>2, <1>3, LoadedFacts DEF AccessStores
<1>5. Free \in Job /\ AccessJob(Free) /\ Free.at = "free"
  BY DEF Free, Job, Step, AccessJob
<1>6. AccessWaits /\ jobs \in [Handlers -> Job]
  BY <1>3, <1>4, <1>5 DEF AccessWaits, SessionSteps, StatusSteps
<1>7. Bounded
  BY <1>3, AccessAssumption DEF Bounded
<1>8. \A h \in Handlers : jobs[h].at = "free"
  BY <1>3, <1>5
<1>9. TokensFit
  <2>1. ss \in Apart /\ ss \in MintedBy(minted)
    BY <1>2 DEF Apart, MintedBy
  <2>2. \A t \in Tokens : exchanged[t] = 0
    BY <1>3
  <2>3. known \subseteq 1 .. minted
    BY <1>3
  <2> QED BY <1>4, <1>8, <2>1, <2>2, <2>3 DEF TokensFit
<1>10. EndedFit /\ OutFit
  BY <1>3, <1>8 DEF EndedFit, OutFit
<1> QED BY <1>4, <1>6, <1>7, <1>9, <1>10 DEF AccessInv, AccessShape

\* What nothing changes.
LEMMA AccessStutter == AccessInv /\ UNCHANGED accessVars => AccessInv'
BY DEF AccessInv, accessVars, stores, history, AccessShape, Bounded, AccessStores, AccessWaits, TokensFit, EndedFit, OutFit

\* No device comes back into the list while the adapter runs.
LEMMA HearsayStep ==
    ASSUME AccessInv, HearsayFit, [AccessNext]_accessVars
    PROVE  HearsayFit'
<1>1. ASSUME CacheMoves, hearsay' = hearsay
      PROVE  HearsayFit'
  BY <1>1 DEF HearsayFit, CacheMoves
<1>2. ASSUME NEW h \in Handlers, Client(h) PROVE CacheMoves /\ hearsay' = hearsay
  <2>1. CASE \E d \in Devices, s \in Sessions : Login(h, d, s)
    BY <2>1, LoginStep DEF Login, history, StoresMove
  <2>2. CASE \E s \in Sessions, t \in known : Refresh(h, s, t)
    BY <2>2, RefreshStep DEF Refresh, history, StoresMove
  <2>3. CASE \E s \in Sessions, t \in known : DetectReuse(h, s, t)
    BY <2>3, ReuseStep DEF DetectReuse, history, StoresMove
  <2>4. CASE AnswerLogin(h)
    BY <2>4, AnswerStep DEF AnswerLogin, history, StoresMove
  <2>5. CASE AnswerRefresh(h)
    BY <2>5, AnswerStep DEF AnswerRefresh, StoresMove
  <2>6. CASE AnswerReuse(h)
    BY <2>6, AnswerStep DEF AnswerReuse, StoresMove
  <2> QED BY <1>2, <2>1, <2>2, <2>3, <2>4, <2>5, <2>6 DEF Client
<1>3. ASSUME NEW h \in Handlers, Administrator(h) PROVE HearsayFit'
  <2>1. ASSUME NEW d \in Devices, ApproveDevice(h, d) PROVE HearsayFit'
    BY <1>1, <2>1, ApproveStep DEF ApproveDevice, StoresMove
  <2>2. ASSUME NEW d \in Devices, RejectDevice(h, d) PROVE HearsayFit'
    BY <1>1, <2>2, RefuseStep DEF RejectDevice, StoresMove, history
  <2>3. ASSUME NEW d \in Devices, RevokeDevice(h, d) PROVE HearsayFit'
    BY <1>1, <2>3, RefuseStep DEF RevokeDevice, StoresMove, history
  <2>4. ASSUME NEW d \in Devices, DeleteDevice(h, d) PROVE HearsayFit'
    BY <1>1, <2>4, LoopStep DEF DeleteDevice, StoresMove, history
  <2>5. ASSUME NEW s \in Sessions, RevokeSession(h, s) PROVE HearsayFit'
    BY <1>1, <2>5, RevokeSessionStep DEF RevokeSession, StoresMove, history
  <2>6. CASE RevokeAllSessions(h)
    BY <1>1, <2>6, LoopStep DEF RevokeAllSessions, StoresMove, history
  <2>7. CASE DeviceSaved(h)
    BY <1>1, <2>7, DeviceAnswerStep DEF DeviceSaved, StoresMove, history
  <2>8. CASE DeviceRevoked(h)
    BY <1>1, <2>8, DeviceAnswerStep DEF DeviceRevoked, StoresMove, history
  <2>9. CASE DeviceDeleted(h)
    BY <1>1, <2>9, DeviceAnswerStep DEF DeviceDeleted, StoresMove
  <2>10. CASE RevokeNext(h)
    BY <1>1, <2>10, RevokeNextStep DEF RevokeNext, StoresMove, history
  <2>11. CASE NextRevoked(h)
    BY <1>1, <2>11, AnswerStep DEF NextRevoked, StoresMove, history
  <2>12. CASE SessionRevoked(h)
    BY <1>1, <2>12, AnswerStep DEF SessionRevoked, StoresMove
  <2>13. CASE EndRevokeDevice(h)
    BY <1>1, <2>13, LoopEndsStep DEF EndRevokeDevice, StoresMove
  <2>14. CASE EndRevokeAll(h)
    BY <1>1, <2>14, LoopEndsStep DEF EndRevokeAll, StoresMove
  <2>15. CASE EndDelete(h) \/ RulesDeleted(h)
    <3>1. CacheMoves /\ jobs[h].d \in Devices
      BY <2>15, DeleteStep DEF StoresMove
    <3>2. \/ hearsay' = hearsay
          \/ /\ hearsay' = hearsay \cup {jobs[h].d} /\ devices' = devices
             /\ devices.cache[jobs[h].d] = Nobody
      BY <2>15, DeleteStep
    <3> QED BY <1>1, <3>1, <3>2 DEF HearsayFit
  <2> QED BY <1>3, <2>1, <2>2, <2>3, <2>4, <2>5, <2>6, <2>7, <2>8, <2>9, <2>10, <2>11, <2>12, <2>13,
             <2>14, <2>15 DEF Administrator
<1>4. ASSUME NEW s \in Sessions, IssueTunnel(s) PROVE HearsayFit'
  BY <1>1, <1>4, BookkeepingStep DEF StoresMove, history
<1>5. CASE BackgroundSettles
  BY <1>1, <1>5, BookkeepingStep DEF StoresMove, history
<1>6. ASSUME NEW s \in Sessions, OpenSocket(s) \/ PeerLeaves(s) PROVE HearsayFit'
  BY <1>1, <1>6, TrafficStep DEF StoresMove, history
<1>7. ASSUME NEW d \in Devices, TunnelExpires(d) PROVE HearsayFit'
  BY <1>1, <1>7, TrafficStep DEF StoresMove, history
<1>8. CASE Heartbeat
  BY <1>1, <1>8, TrafficStep DEF StoresMove, history
<1>9. CASE WriteFails
  BY <1>1, <1>9, WriteFailsStep DEF StoresMove, history
<1>10. CASE AccessRestarts
  BY <1>10 DEF AccessRestarts, HearsayFit
<1>11. ASSUME NEW d \in Devices, DeleteGoneDevice(d) PROVE HearsayFit'
  BY <1>11 DEF DeleteGoneDevice, HearsayFit, stores
<1>12. CASE UNCHANGED accessVars
  BY <1>12 DEF accessVars, stores, history, HearsayFit
<1> QED BY <1>1, <1>2, <1>3, <1>4, <1>5, <1>6, <1>7, <1>8, <1>9, <1>10, <1>11, <1>12 DEF AccessNext

----------------------------------------------------------------------------
\* Devices, sessions and tokens fit together in every version of the stores,
\* and what was said of a device somebody else had taken out holds of the
\* cache, from the first state on and after every step.
THEOREM AccessInvariant == AccessSpec => [](AccessInv /\ HearsayFit)
<1>1. AccessInv /\ HearsayFit /\ [AccessNext]_accessVars => AccessInv'
  <2> SUFFICES ASSUME AccessInv, [AccessNext]_accessVars PROVE AccessInv'
    OBVIOUS
  <2>1. ASSUME NEW h \in Handlers, Client(h) PROVE AccessInv'
    BY <2>1, LoginInv, RefreshInv, RevokeSessionInv, AnswerInv DEF Client
  <2>2. ASSUME NEW h \in Handlers, Administrator(h) PROVE AccessInv'
    BY <2>2, ApproveInv, RefuseInv, LoopInv, RevokeSessionInv, DeviceAnswerInv, RevokeNextInv,
       AnswerInv, LoopEndsInv, DeleteInv DEF Administrator
  <2>3. CASE \/ \E s \in Sessions : IssueTunnel(s) \/ OpenSocket(s) \/ PeerLeaves(s)
             \/ \E d \in Devices : TunnelExpires(d)
             \/ Heartbeat \/ BackgroundSettles \/ WriteFails
    BY <2>3, TrafficInv
  <2>4. CASE AccessRestarts
    BY <2>4, AccessRestart
  <2>5. CASE UNCHANGED accessVars
    BY <2>5, AccessStutter
  <2>6. ASSUME NEW d \in Devices, DeleteGoneDevice(d) PROVE AccessInv'
    BY <2>6, DeleteGoneStep
  <2> QED BY <2>1, <2>2, <2>3, <2>4, <2>5, <2>6 DEF AccessNext
<1>2. AccessInv /\ HearsayFit /\ [AccessNext]_accessVars => HearsayFit'
  BY HearsayStep
<1>3. AccessInit => HearsayFit
  BY DEF AccessInit, HearsayFit
<1> QED BY <1>1, <1>2, <1>3, AccessFirst, PTL DEF AccessSpec

\* Every variable has its type.
THEOREM AccessTyped == AccessSpec => []AccessTypeOK
<1>1. AccessInv /\ HearsayFit => AccessTypeOK
  <2> SUFFICES ASSUME AccessInv, HearsayFit PROVE AccessTypeOK
    OBVIOUS
  <2>1. AccessShape /\ known \subseteq 1 .. minted
    BY DEF AccessInv, TokensFit
  <2> QED BY <2>1 DEF AccessTypeOK, HearsayFit, AccessShape, AccessStores, Bounded, StoreOf, Collections, Callers,
                      StatusMap, SessionMap, RuleMap
<1> QED BY <1>1, AccessInvariant, PTL

\* A device an administrator was told is out cannot log in, ask or be asked,
\* whatever was under way when it was taken out, over failed writes and starts;
\* but what was said of a device somebody else was deleting holds only until the
\* next start.
THEOREM RevocationHolds == AccessSpec => []RevokedStaysOut
<1>1. AccessInv /\ HearsayFit => RevokedStaysOut
  <2> SUFFICES ASSUME AccessInv, HearsayFit PROVE RevokedStaysOut
    OBVIOUS
  <2>1. ASSUME NEW d \in out
        PROVE  /\ devices.cache[d] # "approved" /\ devices.disk[d] # "approved"
               /\ devices.cache[d] # Nobody =>
                     d \notin tunnels /\ \A s \in sockets : sessions.cache[s].device # d
    <3>1. Everywhere(devices, NotApproved(d)) /\ devices \in Collections(StatusMap, Callers)
      BY <2>1 DEF AccessInv, OutFit, AccessShape, AccessStores
    <3>2. devices.cache \in NotApproved(d) /\ devices.disk \in NotApproved(d)
      BY <3>1, VersionFacts
    <3> QED BY <2>1, <3>2 DEF NotApproved, AccessInv, OutFit
  <2>2. \A d \in hearsay : devices.cache[d] = Nobody
    BY DEF HearsayFit
  <2> QED BY <2>1, <2>2 DEF RevokedStaysOut
<1> QED BY <1>1, AccessInvariant, PTL

\* A session whose end was answered for is revoked in the cache and in what a
\* start would load, for good.
THEOREM EndedSessionsHold == AccessSpec => []EndedSessionStaysEnded
<1>1. AccessInv => EndedSessionStaysEnded
  <2> SUFFICES ASSUME AccessInv, NEW s \in ended
               PROVE  /\ sessions.cache[s] # Nobody /\ sessions.cache[s].revoked
                      /\ sessions.disk[s] # Nobody /\ sessions.disk[s].revoked
    BY DEF EndedSessionStaysEnded
  <2>1. Everywhere(sessions, EndedIn(s)) /\ sessions \in Collections(SessionMap, Callers)
    BY DEF AccessInv, EndedFit, AccessShape, AccessStores
  <2>2. sessions.cache \in EndedIn(s) /\ sessions.disk \in EndedIn(s)
    BY <2>1, VersionFacts
  <2> QED BY <2>2 DEF EndedIn
<1> QED BY <1>1, AccessInvariant, PTL

\* However refreshes overlap and whatever fails, a refresh token is exchanged at
\* most once.
THEOREM TokensBoughtOnce == AccessSpec => []RefreshTokenUsedOnce
<1>1. AccessInv => RefreshTokenUsedOnce
  BY DEF AccessInv, TokensFit, RefreshTokenUsedOnce
<1> QED BY <1>1, AccessInvariant, PTL
=============================================================================
