------------------------------- MODULE Pairing -------------------------------
(***************************************************************************)
(* Pairing a phone: PairingService (src/pairing/index.ts), the two HTTP    *)
(* handlers around it (src/api/router.ts), the administrator's decision    *)
(* (src/main.ts), and the app's onboarding, which claims the invite of a   *)
(* QR code and polls for its tokens (OnboardingViewModel.kt).              *)
(*                                                                         *)
(* The four collections are CollectionStores.  A handler is suspended at   *)
(* the await of its own write; the code after it runs in the step in which *)
(* that write settles.  claim() creates a device and a claim that names    *)
(* it, so a claim is addressed by its device.                              *)
(*                                                                         *)
(* A definition named Action_Fault is the action with one plausible fault  *)
(* in it; no specification uses it, it shows that a property notices.      *)
(***************************************************************************)
EXTENDS CollectionStore, Naturals, FiniteSets

CONSTANTS
    Servers,            \* bound: requests and admin messages served at a time
    Invites,
    NewDevices,         \* ids register() can give
    NoOne,              \* absent
    ApprovalModes,      \* values of the requireAdminApproval setting
    MaxVerdicts,        \* bound: decisions of administrators
    MaxTries,           \* bound: claims the app sends
    MaxLost,            \* bound: answers the app does not wait for or never gets
    MaxPairingFaults    \* bound: rejected writes and restarts

ASSUME PairingAssumption ==
    /\ ApprovalModes \subseteq BOOLEAN
    /\ {MaxVerdicts, MaxTries, MaxLost, MaxPairingFaults} \subseteq Nat

VARIABLES
    requireAdminApproval, \* PairingConfig
    invites, newDevices, claims, firstSessions, \* the stores
    due,          \* claims whose expiresAt has passed
    handling,     \* what each handler is suspended in
    app,          \* the app's onboarding
    origin,       \* history: the invite a device was registered for
    approvers,    \* history: devices an approval was begun for
    handed,       \* history: answers with tokens sent, per device
    pairingSpent  \* what is used up of the bounds

pairingStores  == <<invites, newDevices, claims, firstSessions>>
pairingHistory == <<origin, approvers, handed>>
pairingVars    == <<requireAdminApproval, pairingStores, due, handling, app, pairingHistory, pairingSpent>>

ClaimStatus  == {"waiting_for_approval", "approved", "rejected", "expired"}
PairedStatus == {"pending", "approved", "rejected"}
Claim == [status : ClaimStatus, tokensIssued : BOOLEAN]

\* "Absent" is nothing that can be there.
ASSUME NoOneAssumption ==
    NoOne \notin Servers \cup Invites \cup NewDevices \cup Claim \cup PairedStatus \cup {"open", "used"}

PairingStep == {"free", "inviting", "consuming", "registering", "approving", "filing",
                "expiring", "issuing", "marking", "deciding", "decided"}
PairingJob == [at : PairingStep, i : Invites \cup {NoOne}, d : NewDevices \cup {NoOne},
               verdict : {"approved", "rejected", NoOne}, seen : Claim \cup {NoOne}]
NoHandling == [at |-> "free", i |-> NoOne, d |-> NoOne, verdict |-> NoOne, seen |-> NoOne]

Phase == {"scanning", "claiming", "polling", "asking", "paired", "failed"}

PairingStoreOf(T) == [cache : T, disk : T, writes : Seq([by : Servers, json : T])]

PairingTypeOK ==
    /\ requireAdminApproval \in ApprovalModes
    /\ invites \in PairingStoreOf([Invites -> {NoOne, "open", "used"}])
    /\ newDevices \in PairingStoreOf([NewDevices -> PairedStatus \cup {NoOne}])
    /\ claims \in PairingStoreOf([NewDevices -> Claim \cup {NoOne}])
    /\ firstSessions \in PairingStoreOf([NewDevices -> Nat])
    /\ due \subseteq NewDevices
    /\ handling \in [Servers -> PairingJob]
    /\ app \in [phase : Phase, claim : NewDevices \cup {NoOne}, waits : Servers \cup {NoOne}]
    /\ origin \in [NewDevices -> Invites \cup {NoOne}]
    /\ approvers \subseteq NewDevices
    /\ handed \in [NewDevices -> Nat]
    /\ pairingSpent \in [decisions : Nat, tries : Nat, lost : Nat, faults : Nat]

PairingInit ==
    /\ requireAdminApproval \in ApprovalModes
    /\ invites = Loaded([i \in Invites |-> NoOne])
    /\ newDevices = Loaded([d \in NewDevices |-> NoOne])
    /\ claims = Loaded([d \in NewDevices |-> NoOne])
    /\ firstSessions = Loaded([d \in NewDevices |-> 0])
    /\ due = {}
    /\ handling = [h \in Servers |-> NoHandling]
    /\ app = [phase |-> "scanning", claim |-> NoOne, waits |-> NoOne]
    /\ origin = [d \in NewDevices |-> NoOne]
    /\ approvers = {}
    /\ handed = [d \in NewDevices |-> 0]
    /\ pairingSpent = [decisions |-> 0, tries |-> 0, lost |-> 0, faults |-> 0]

----------------------------------------------------------------------------
(* Handlers and their awaits                                               *)

CanServe(h) == handling[h] = NoHandling

Await(h, job) == handling' = [handling EXCEPT ![h] = job]
GoOn(h, step) == handling' = [handling EXCEPT ![h].at = step]
Done(h) == handling' = [handling EXCEPT ![h] = NoHandling]

SpendOne(what) == pairingSpent' = [pairingSpent EXCEPT ![what] = @ + 1]

----------------------------------------------------------------------------
(* createInvite() and claim()                                              *)

CreateInvite(h, i) ==
    /\ CanServe(h)
    /\ invites.cache[i] = NoOne
    /\ invites' = Update(invites, h, [invites.cache EXCEPT ![i] = "open"])
    /\ Await(h, [NoHandling EXCEPT !.at = "inviting", !.i = i])
    /\ UNCHANGED <<requireAdminApproval, newDevices, claims, firstSessions, due, app, pairingHistory, pairingSpent>>

InviteCreated(h) ==
    /\ handling[h].at = "inviting" /\ Settles(invites, h)
    /\ invites' = Landed(invites)
    /\ Done(h)
    /\ UNCHANGED <<requireAdminApproval, newDevices, claims, firstSessions, due, app, pairingHistory, pairingSpent>>

\* The app scanned the code (or the user taps again after an error); the
\* invite is consumed before anything else happens.
BeginClaim_InviteNotConsumed(h, i) ==
    /\ CanServe(h)
    /\ app.phase = "scanning" /\ pairingSpent.tries < MaxTries
    /\ invites.cache[i] = "open"
    /\ invites' = Update(invites, h, invites.cache)
    /\ Await(h, [NoHandling EXCEPT !.at = "consuming", !.i = i])
    /\ app' = [app EXCEPT !.phase = "claiming", !.waits = h]
    /\ SpendOne("tries")
    /\ UNCHANGED <<requireAdminApproval, newDevices, claims, firstSessions, due, pairingHistory>>

BeginClaim(h, i) ==
    /\ CanServe(h)
    /\ app.phase = "scanning" /\ pairingSpent.tries < MaxTries
    /\ invites.cache[i] = "open"
    /\ invites' = Update(invites, h, [invites.cache EXCEPT ![i] = "used"])
    /\ Await(h, [NoHandling EXCEPT !.at = "consuming", !.i = i])
    /\ app' = [app EXCEPT !.phase = "claiming", !.waits = h]
    /\ SpendOne("tries")
    /\ UNCHANGED <<requireAdminApproval, newDevices, claims, firstSessions, due, pairingHistory>>

\* devices.register() under an id never used before.
RegisterDevice(h, d) ==
    /\ handling[h].at = "consuming" /\ Settles(invites, h)
    /\ origin[d] = NoOne
    /\ invites' = Landed(invites)
    /\ newDevices' = Update(newDevices, h, [newDevices.cache EXCEPT ![d] = "pending"])
    /\ origin' = [origin EXCEPT ![d] = handling[h].i]
    /\ Await(h, [handling[h] EXCEPT !.at = "registering", !.d = d])
    /\ UNCHANGED <<requireAdminApproval, claims, firstSessions, due, app, approvers, handed, pairingSpent>>

FileClaim(h, status) ==
    /\ claims' = Update(claims, h, [claims.cache EXCEPT ![handling[h].d] =
                                       [status |-> status, tokensIssued |-> FALSE]])
    /\ GoOn(h, "filing")

DeviceRegistered(h) ==
    /\ handling[h].at = "registering" /\ Settles(newDevices, h)
    /\ IF requireAdminApproval
       THEN /\ newDevices' = Landed(newDevices)
            /\ FileClaim(h, "waiting_for_approval")
       ELSE /\ newDevices' = Update(Landed(newDevices), h,
                                 [newDevices.cache EXCEPT ![handling[h].d] = "approved"])
            /\ GoOn(h, "approving")
            /\ UNCHANGED claims
    /\ UNCHANGED <<requireAdminApproval, invites, firstSessions, due, app, pairingHistory, pairingSpent>>

DeviceApproved(h) ==
    /\ handling[h].at = "approving" /\ Settles(newDevices, h)
    /\ newDevices' = Landed(newDevices)
    /\ FileClaim(h, "approved")
    /\ UNCHANGED <<requireAdminApproval, invites, firstSessions, due, app, pairingHistory, pairingSpent>>

\* The answer names the claim; the app starts polling if it still listens.
AnswerClaim(h) ==
    /\ handling[h].at = "filing" /\ Settles(claims, h)
    /\ claims' = Landed(claims)
    /\ Done(h)
    /\ app' = IF app.waits = h
              THEN [phase |-> "polling", claim |-> handling[h].d, waits |-> NoOne]
              ELSE app
    /\ UNCHANGED <<requireAdminApproval, invites, newDevices, firstSessions, due, pairingHistory, pairingSpent>>

----------------------------------------------------------------------------
(* GET /pairing/status/:claimId                                            *)

Polls(h) == CanServe(h) /\ app.phase = "polling"

\* status() finds the claim overdue: it is put back as expired.
PollExpires(h) ==
    LET d == app.claim IN
    /\ Polls(h)
    /\ claims.cache[d].status = "waiting_for_approval" /\ d \in due
    /\ claims' = Update(claims, h, [claims.cache EXCEPT ![d].status = "expired"])
    /\ Await(h, [NoHandling EXCEPT !.at = "expiring", !.d = d])
    /\ app' = [app EXCEPT !.phase = "asking", !.waits = h]
    /\ UNCHANGED <<requireAdminApproval, invites, newDevices, firstSessions, due, pairingHistory, pairingSpent>>

AnswerExpired(h) ==
    /\ handling[h].at = "expiring" /\ Settles(claims, h)
    /\ claims' = Landed(claims)
    /\ Done(h)
    /\ app' = IF app.waits = h
              THEN [app EXCEPT !.phase = "failed", !.waits = NoOne]
              ELSE app
    /\ UNCHANGED <<requireAdminApproval, invites, newDevices, firstSessions, due, pairingHistory, pairingSpent>>

\* An answer without tokens.  Rejected and expired end the onboarding; so does
\* "approved" once the tokens are issued, since that answer names no device.
\* (While the claim waits the app just polls again.)
PollEnds(h) ==
    LET c == claims.cache[app.claim] IN
    /\ Polls(h)
    /\ \/ c.status \in {"rejected", "expired"}
       \/ c.status = "approved" /\ c.tokensIssued
    /\ app' = [app EXCEPT !.phase = "failed"]
    /\ UNCHANGED <<requireAdminApproval, pairingStores, due, handling, pairingHistory, pairingSpent>>

\* Approved, tokens not issued yet: sessions.create().
PollIssues(h) ==
    LET d == app.claim IN
    /\ Polls(h)
    /\ claims.cache[d].status = "approved" /\ ~claims.cache[d].tokensIssued
    /\ firstSessions' = Update(firstSessions, h, [firstSessions.cache EXCEPT ![d] = @ + 1])
    /\ Await(h, [NoHandling EXCEPT !.at = "issuing", !.d = d])
    /\ app' = [app EXCEPT !.phase = "asking", !.waits = h]
    /\ UNCHANGED <<requireAdminApproval, invites, newDevices, claims, due, pairingHistory, pairingSpent>>

\* markTokensIssued() reads the claim anew.
MarkIssued(h) ==
    LET d == handling[h].d IN
    /\ handling[h].at = "issuing" /\ Settles(firstSessions, h)
    /\ firstSessions' = Landed(firstSessions)
    /\ claims' = Update(claims, h, [claims.cache EXCEPT ![d].tokensIssued = TRUE])
    /\ GoOn(h, "marking")
    /\ UNCHANGED <<requireAdminApproval, invites, newDevices, due, app, pairingHistory, pairingSpent>>

AnswerTokens(h) ==
    LET d == handling[h].d IN
    /\ handling[h].at = "marking" /\ Settles(claims, h)
    /\ claims' = Landed(claims)
    /\ handed' = [handed EXCEPT ![d] = @ + 1]
    /\ Done(h)
    /\ app' = IF app.waits = h
              THEN [app EXCEPT !.phase = "paired", !.waits = NoOne]
              ELSE app
    /\ UNCHANGED <<requireAdminApproval, invites, newDevices, firstSessions, due, origin, approvers, pairingSpent>>

----------------------------------------------------------------------------
(* approveClaim() and rejectClaim(): the device first, then the claim as it *)
(* was read before.                                                        *)

\* The claim alone is decided, the device left as it is.
Decide_DeviceForgotten(h, d, verdict) ==
    /\ CanServe(h)
    /\ pairingSpent.decisions < MaxVerdicts
    /\ claims.cache[d] # NoOne
    /\ newDevices' = newDevices
    /\ claims' = Update(claims, h, [claims.cache EXCEPT ![d].status = verdict])
    /\ Await(h, [at |-> "decided", i |-> NoOne, d |-> d, verdict |-> verdict,
                   seen |-> claims.cache[d]])
    /\ approvers' = IF verdict = "approved" THEN approvers \cup {d} ELSE approvers
    /\ SpendOne("decisions")
    /\ UNCHANGED <<requireAdminApproval, invites, firstSessions, due, app, origin, handed>>

Decide(h, d, verdict) ==
    /\ CanServe(h)
    /\ pairingSpent.decisions < MaxVerdicts
    /\ claims.cache[d] # NoOne
    /\ newDevices' = Update(newDevices, h, [newDevices.cache EXCEPT ![d] = verdict])
    /\ Await(h, [at |-> "deciding", i |-> NoOne, d |-> d, verdict |-> verdict,
                   seen |-> claims.cache[d]])
    /\ approvers' = IF verdict = "approved" THEN approvers \cup {d} ELSE approvers
    /\ SpendOne("decisions")
    /\ UNCHANGED <<requireAdminApproval, invites, claims, firstSessions, due, app, origin, handed>>

ApplyVerdict_OnlyOpenClaims(h) ==
    LET d == handling[h].d IN
    /\ handling[h].at = "deciding" /\ Settles(newDevices, h)
    /\ newDevices' = Landed(newDevices)
    /\ claims' = Update(claims, h,
                    IF claims.cache[d].status = "waiting_for_approval"
                    THEN [claims.cache EXCEPT ![d].status = handling[h].verdict]
                    ELSE claims.cache)
    /\ GoOn(h, "decided")
    /\ UNCHANGED <<requireAdminApproval, invites, firstSessions, due, app, pairingHistory, pairingSpent>>

ApplyVerdict(h) ==
    LET d == handling[h].d IN
    /\ handling[h].at = "deciding" /\ Settles(newDevices, h)
    /\ newDevices' = Landed(newDevices)
    /\ claims' = Update(claims, h, [claims.cache EXCEPT ![d] =
                                       [handling[h].seen EXCEPT !.status = handling[h].verdict]])
    /\ GoOn(h, "decided")
    /\ UNCHANGED <<requireAdminApproval, invites, firstSessions, due, app, pairingHistory, pairingSpent>>

Decided(h) ==
    /\ handling[h].at = "decided" /\ Settles(claims, h)
    /\ claims' = Landed(claims)
    /\ Done(h)
    /\ UNCHANGED <<requireAdminApproval, invites, newDevices, firstSessions, due, app, pairingHistory, pairingSpent>>

----------------------------------------------------------------------------
(* What goes wrong around the handlers                                     *)

\* A claim's expiresAt passes.
ClaimFallsDue(d) ==
    /\ claims.cache[d] # NoOne /\ d \notin due
    /\ due' = due \cup {d}
    /\ UNCHANGED <<requireAdminApproval, pairingStores, handling, app, pairingHistory, pairingSpent>>

\* The app's HTTP call ends without the answer: a timeout, a lost connection.
\* A claim is then up to the user, a poll is repeated.
AppLosesAnswer ==
    /\ app.waits # NoOne /\ pairingSpent.lost < MaxLost
    /\ app' = [app EXCEPT !.phase = IF @ = "claiming" THEN "scanning" ELSE "polling",
                          !.waits = NoOne]
    /\ SpendOne("lost")
    /\ UNCHANGED <<requireAdminApproval, pairingStores, due, handling, pairingHistory>>

\* An error answer is the same to the app as none.
AppAfterError(h) ==
    IF app.waits = h
    THEN [app EXCEPT !.phase = IF @ = "claiming" THEN "scanning" ELSE "polling",
                     !.waits = NoOne]
    ELSE app

\* setStateAsync rejects the oldest write of one store: its handler throws.
PairingWriteFails(h) ==
    /\ pairingSpent.faults < MaxPairingFaults
    /\ \/ Settles(invites, h) /\ invites' = Rejected(invites)
                              /\ UNCHANGED <<newDevices, claims, firstSessions>>
       \/ Settles(newDevices, h) /\ newDevices' = Rejected(newDevices)
                              /\ UNCHANGED <<invites, claims, firstSessions>>
       \/ Settles(claims, h) /\ claims' = Rejected(claims)
                             /\ UNCHANGED <<invites, newDevices, firstSessions>>
       \/ Settles(firstSessions, h) /\ firstSessions' = Rejected(firstSessions)
                               /\ UNCHANGED <<invites, newDevices, claims>>
    /\ Done(h)
    /\ app' = AppAfterError(h)
    /\ SpendOne("faults")
    /\ UNCHANGED <<requireAdminApproval, due, pairingHistory>>

\* The adapter restarts: every handler and every answer under way is gone.
PairingRestarts ==
    /\ pairingSpent.faults < MaxPairingFaults
    /\ invites' = Reloaded(invites) /\ newDevices' = Reloaded(newDevices)
    /\ claims' = Reloaded(claims) /\ firstSessions' = Reloaded(firstSessions)
    /\ handling' = [h \in Servers |-> NoHandling]
    /\ app' = IF app.waits # NoOne THEN AppAfterError(app.waits) ELSE app
    /\ SpendOne("faults")
    /\ UNCHANGED <<requireAdminApproval, due, pairingHistory>>

Serve(h) ==
    \/ InviteCreated(h) \/ DeviceRegistered(h) \/ DeviceApproved(h) \/ AnswerClaim(h)
    \/ \E d \in NewDevices : RegisterDevice(h, d)
    \/ AnswerExpired(h) \/ MarkIssued(h) \/ AnswerTokens(h)
    \/ ApplyVerdict(h) \/ Decided(h)

Poll(h) == PollExpires(h) \/ PollEnds(h) \/ PollIssues(h)

PairingNext ==
    \/ \E h \in Servers :
          \/ Serve(h) \/ Poll(h) \/ PairingWriteFails(h)
          \/ \E i \in Invites : CreateInvite(h, i) \/ BeginClaim(h, i)
          \/ \E d \in NewDevices, v \in {"approved", "rejected"} : Decide(h, d, v)
    \/ \E d \in NewDevices : ClaimFallsDue(d)
    \/ AppLosesAnswer
    \/ PairingRestarts

PairingSpec == PairingInit /\ [][PairingNext]_pairingVars

\* A write settles sooner or later, and the app keeps polling until it ends.
PairingFairSpec ==
    /\ PairingSpec
    /\ \A h \in Servers : WF_pairingVars(Serve(h))
    /\ WF_pairingVars(\E h \in Servers : Poll(h))

----------------------------------------------------------------------------
(* Properties                                                              *)

\* One invite registers one device, however the claims overlap or are
\* repeated and wherever the adapter restarts (src/pairing/index.ts:124,
\* "single-use: mark consumed immediately").
InviteSingleUse ==
    \A i \in Invites : Cardinality({d \in NewDevices : origin[d] = i}) <= 1

\* After a restart at any moment the collections still fit together: a claim
\* has its device, and an approved claim is not left with an undecided one.
DiskFitsTogether ==
    \A d \in NewDevices :
        /\ claims.disk[d] # NoOne => newDevices.disk[d] # NoOne
        /\ newDevices.disk[d] # NoOne => invites.disk[origin[d]] = "used"
        /\ claims.disk[d] # NoOne /\ claims.disk[d].status = "approved"
              => newDevices.disk[d] # "pending"

\* Two administrators deciding about one claim at the same time, or one
\* deciding while a poll lets it expire, leave the claim and the device with
\* the same verdict (no write having failed).  And where approval is required,
\* a session is created only for a device an administrator decided to approve.
VerdictsAgree ==
    \A d \in NewDevices :
        /\ (/\ pairingSpent.faults = 0
            /\ claims.cache[d] # NoOne
            /\ \A h \in Servers : handling[h].d # d)
           => /\ claims.cache[d].status = "approved" <=> newDevices.cache[d] = "approved"
              /\ claims.cache[d].status = "rejected" <=> newDevices.cache[d] = "rejected"
        /\ requireAdminApproval /\ firstSessions.cache[d] > 0 => d \in approvers

\* An approved claim that the app still polls ends with the app paired, also
\* when the answer with the tokens was lost: OnboardingViewModel.kt:196, "server
\* approved but did not include tokens inline - do the full challenge/response
\* login".
ApprovedIsPaired ==
    (/\ app.phase = "polling"
     /\ claims.cache[app.claim].status = "approved") ~> (app.phase = "paired")
=============================================================================
