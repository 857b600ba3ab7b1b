# mobile-control: TLA+ models and proofs

`iobroker.mobile-control` is an ioBroker adapter (Node, `src/src`) with an Android app
(`src/android-app`).  The app pairs with the adapter, logs in, subscribes to the states an
administrator has exposed to it and sends actuator commands.  The modules here model the parts
of both programs where the order of events decides whether they are right.

## 1. Inventory

The adapter is one Node process: code runs in stretches between two `await`s, and everything
interleaves at those points - HTTP requests, WebSocket messages, ioBroker state changes, admin
messages and timers.  The app is Kotlin with coroutines on several threads.

| component | state it keeps | operations | what makes it right |
|---|---|---|---|
| `lib/store.ts` CollectionStore | a cache, and its JSON in one ioBroker state | put, putMany, delete, trim, retain, init | what was awaited survives a restart; a restart never shows a state that never was |
| `commands` CommandsService | command records, one pending wait per state, timers, subscribed states | execute, handleForeignStateChange, timeout, grace recheck | a command is written once; its result is right, final and reaches the device |
| `realtime` RealtimeGateway | connections, per-connection subscriptions, subscribers per state | auth, subscribe, unsubscribe, publish, heartbeat, cleanup, revocation notices | a client gets every change it asked for, none after it left; nothing leaks |
| `alarms` AlarmEventsService | recorded alarm events, one startup subscription per alarm state | recordIfAlarm, listSince | an alarm is recorded whoever is watching |
| `sessions`, `devices`, `auth`, `pairing` | sessions with a rotation family, devices, one-time challenges, invites and claims | rotate, revoke, login, claim, approve, collect tokens | a refresh token is good once; a revoked or deleted device stays out |
| `security`, `api/portalGate.ts` | nonces with expiry, failure counts with blocks, fixed windows | checkAndRemember, isBlocked, recordFailure, consume, unblock | a signed request is accepted once within the skew; a block lasts as announced |
| `tunnel` | access tokens per device and embed | issue, resolve, forward, revokeAllForDevice, evict | what is forwarded is entitled now, not when the token was issued |
| `exposure`, `authorization`, `profiles` | rules by device, user, role; templates | create, update, delete, applyTo, resolve | deny beats all, then the most specific level; a grant takes nothing away |
| `catalog` | the mapping of states to public ids | effectiveCatalog, getOrCreateMapping, resolveAuthorized | one id per state; "unchanged" is true |
| `camera`, `urlEmbeds` | embeds, access rules, caches with a time to live | fetchContent, fetchSnapshot, update, delete, canAccess | the old content does not outlive a change |
| `dashboards` | dashboards with a revision | create, update, delete | no lost update |
| `audit` | a bounded log | log, clearAll, clearOlderThan | the newest entries stay |
| `roles`, `migrations`, `main.ts` | roles, secrets, the portal key, the listening port | onReady, listenWithRetry, scanForFreePort, regeneratePortalKey, admin messages | what a first start made stays; a paired device finds the adapter again |
| app `CommandRepositoryImpl` | command states, running timeouts, one retry | send, onResult, timeout | the state shown is the last word on the command |
| app `TokenAuthenticator`, `AuthRepositoryImpl` | the stored tokens, a lock | authenticate, refresh, login | one refresh at a time |
| app `AlarmMonitor` | the watermark of the last catch-up | catchUp, live events | no alarm is skipped |
| app `RealtimeWebSocketClient` | the socket, watchdogs, the reconnect delay | connect, disconnect, onFailure | one live socket |
| app `TunnelSessionManager`, `LockViewModel`, repositories | tunnel token, PIN attempts, cached states | | |

Interactions: the HTTP router and the gateway call the services; CommandsService emits
`commandResult` to the gateway; `main.ts` fans every ioBroker state change out to the gateway, the
commands and the alarms - which share ONE ioBroker subscription per state; admin messages revoke
sessions, tunnel tokens and sockets.

Hard behaviour, listed with its lines in `PROJECT.json` under `hazards`: state checked before an
`await` and used after it, the shared subscription, timers against late answers, restarts between
two saves, retries of what was already done, revocation against a login under way.

## 2. The modules

A step of a model is a stretch of code between two awaits; what a function is suspended at is a
value of a program counter (`pc`, `task`, `jobs`, `fetch`, `serving`, `phase`, ...). A constant called
`Max...` bounds a counter and is named as a bound where it is declared. A definition `Action_Fault` is
the action with one plausible fault in it: no specification uses it, and each property is known to
fail when it takes the place of its action.

| module | source | state of the model and of the code |
|---|---|---|
| `CommandContract` | `commands/index.ts` | abstract: the saved status of a command and how often its value was written |
| `Commands` | `commands/index.ts` | `records`/`durable`: cache and disk of the store; `pending`, `timers`, `known`: `pendingByStateId`, its timers, `subscribedStateIds`; `recheck`, `announcing`: the rest of `recheckAfterTimeout` and of the handlers after their `await put`; `replaced`, `unsaved` (histories): commands whose wait a later one took, and those one of whose saves was rejected; `db`, `actuator`, `inbox`: ioBroker and the device behind it |
| `Realtime` | `realtime/index.ts`, the subscription of `alarms/index.ts` | `connections`, `subs`, `present`/`members` (keys and values of `stateSubscribers`), `task` (where each call of `subscribe` is, several of one connection at a time, and whether the Set it holds is still in the map), `ioSubs`: what ioBroker delivers; `refused`, `spoilt` (histories): Sets whose first subscriber ioBroker refused, first values that failed or were overtaken |
| `RequestReplay` | `security/requestSignature.ts`, `security/replayGuard.ts`, `api/middleware.ts` | `seen`: nonce to expiry; a request may arrive at any time and any number of times; `Lag`: what passes between the readings of the clock by the skew check and by the guard; `slipped` (history): requests whose time ended between the two |
| `CollectionStore` | `lib/store.ts` | the store as a value: cache, disk, writes under way; used by the modules that overlap on a collection or restart |
| `Storage` | `lib/store.ts` | callers that overlap on one collection; a delete that finds nothing, or a trim that fits, returns without a write |
| `Pairing` | `pairing/index.ts`, the pairing routes of `api/router.ts`, `OnboardingViewModel.kt` | four stores, `jobs` (the handlers), `app` (the phone): server and client composed |
| `DeviceAccess` | `devices`, `sessions`, `tunnel`, `api/router.ts`, `api/middleware.ts`, the admin messages of `main.ts` | three stores, tunnel tokens, sockets, `jobs`, `known`: tokens a client may present; `hearsay` (history): devices whose removal was told on the strength of another message's write |
| `Gates` | `security/abuseGuard.ts`, `security/rateLimiter.ts`, `api/middleware.ts`, `api/portalGate.ts`, the reports of the handlers in `api/router.ts` | the three buckets of one address; `serving`: what each handler is suspended in between its admission and its `recordFailure` or `recordSuccess` |
| `AccessRules` | `exposure/index.ts`, `authorization/index.ts`, `urlEmbeds/index.ts` | operators: scopes, the glob, the blocklist, the single owner, the three levels of resolution; `Resolve` and `CanAccess` share `Deciding`, as the two services share the order |
| `EmbedAccess` | `urlEmbeds/index.ts`, `tunnel/index.ts`, `tunnel/forward.ts`, `api/tunnelRouter.ts` | `embeds` and `access` (two stores), `messages` (what each admin message is suspended at, a `delete()` between any two of its writes among them), `tokens` (the `sessions` of TunnelService), `forwarded`, `cut` (histories): the last forwarded request, and embeds of which a creation or a deletion was cut short |
| `Catalog` | `catalog/index.ts`, `exposure/index.ts`, `exposure/profiles.ts` | `rules` and what the disk may hold of them (`onDisk`), `profile` likewise, `mappings` (a store), `tree`; `savedIds` (history): ids whose own write has returned; `fetch`: where each request is (tree read, at which leaf, which mapping awaited); `held`: what each client keeps; `applying`: the rest of `applyTo` |
| `ContentCache` | `urlEmbeds/index.ts`, `camera/index.ts` | one item's `address` and `cached` content, `fetching`: the requests in flight, `saving`: `update()` and `delete()` before they clear the cache |
| `Dashboards` | `dashboards/index.ts`, its routes in `api/router.ts`, `DashboardRepositoryImpl.kt`, `DashboardEditorViewModel.kt` | `boards` (a store), `asked`: each screen's PUT or DELETE under way; `room`, `editor`: the local copy and the editor of the app |
| `AlarmEvents` | `alarms/index.ts`, `audit/index.ts`, `AlarmMonitor.kt` | `log` (a store with order), `writer`: a put, then a trim item by item; `phone`: watermark and catch-up |
| `Lifecycle` | `onReady`, `listenWithRetry`, `scanForFreePort`, `regeneratePortalKey` of `main.ts`, `roles/index.ts`, `migrations/index.ts` | `native` (the instance object), `config` (the copy of this start), `phase` (which await of `onReady`), `listening`, `roles` (a store), `rotations` and `auditing` (the two awaits of `regeneratePortalKey`); `named` (history): what the last answered edit of each role said |

`Commands` has its store inline (`records`, `durable`, `Persist`, `PutFails`), as its proofs use it; one save
there carries whatever the cache holds, like `Storage`.  A rejected write changes no caller's cache back
in any module, as in the code.  Every module with a collection has its restart, at any await, but
`ContentCache`: a start there begins with empty caches and the saved address, so nothing of what its
properties are about - content of an address that was left - lives through it.  In `Catalog` the rules
and the profile are kept as the cache and the set of contents the disk may have; the mappings, whose
order of writes matters, are a store.

`MC*` modules name the constants' values, `MCRegistry` restricts `Realtime` to two kinds of calls, and
`*Proofs` modules hold the theorems (section 4 says which module is proved where).  `MCFront` and
`MCRecords` put modules that share no state side by side: a variable `part` says which one takes the
steps.  The interleavings of two such modules would show nothing that either does not show alone;
what one module needs of another is one of its own actions (that a device's tunnels are revoked is
an action of `EmbedAccess`, the change of a user's role one of `Dashboards`).

## 3. What is checked

| run | instance | what it shows |
|---|---|---|
| `commands_retry` | two opposite commands to one state, one re-sent under a new nonce, one restart, one event queued, a rejected save of one command | the inductive invariant `Consistent`, at-most-once writes, no result a restart takes back, prompt confirmations rest on an acknowledgement, `CommandContract` is implemented |
| `commands_live` | one message delivered twice, overlapping, beside an opposite command, a rejected save of one command | the nonce keeps the copy from writing although the id lookup misses it; every executed command gets its result, unless a later one took over its wait or one of its saves was rejected |
| `commands_late_confirm` | the same, no restart | **violated**: see findings |
| `realtime_registry` | two clients that share a state ioBroker may refuse, one of them with two calls that overlap, or with one call for two states; reads that may fail | every entry of the registry is backed by ioBroker and has, or is about to get, a member, unless its first subscriber was refused; a registered subscriber of such an entry is never behind, unless its first value failed or was overtaken and nothing has changed since |
| `realtime_live` | a peer that never answers pings, two sessions | ended sessions and silent peers lose their sockets |
| `realtime_lost`, `realtime_alarm` | two clients, one state | **violated**: see findings |
| `front` | part by part, below | who gets in |
| `records` | part by part, below | what the adapter keeps |
| `pairing_lost_answer` | automatic approval, one lost answer | **violated**: see findings |
| `tunnel_session` | the devices part of `front` alone | **violated**: see findings |
| `alarm_catch_up` | the logs part of `records` alone | **violated**: see findings |

The parts of `front`:

| part | instance | properties |
|---|---|---|
| replay | three requests, two with one nonce, skew 2, memory 4 (twice the skew, as shipped), one instant between the two clock readings, one restart | `AcceptedOnce`: once, and once more only for a request whose time ended between the two readings; `NoFalseReplay` |
| pairing | one invite, two handlers, two claims, two decisions, two lost answers, one failure or restart, both approval modes | `InviteSingleUse`; `DiskFitsTogether`; `VerdictsAgree`: a decision is one decision, and tokens follow an approval |
| devices | one device, two sessions, three refresh tokens, two overlapping handlers, two administrators' messages and a failure, or one of them, a bookkeeping request and a failure | `RevokedStaysOut`; `EndedSessionStaysEnded`; `RefreshTokenUsedOnce` |
| gates | two requests at a time, threshold 2, a window of 2, a block of 3 instants, limit 2 per window, 7 instants | `BlockHolds`: a block no other request overlapped keeps every handler from running; `FixedWindowsHold`: no span holds more than twice what a window may |
| embeds | one embed, two messages at a time, two origins, three edits, two rules; two rejected writes or stops | `NoOrphanRule`: no rule outlives its embed, but for embeds whose creation or deletion was cut short |
| tunnels | one embed, two origins, a device whose user changes the role, rules at every level, three edits, two tokens, one message at a time | `TunnelsAreEntitled`: one token per device and embed, and what is forwarded is entitled at that moment |

The parts of `records`:

| part | instance | properties |
|---|---|---|
| collection | three callers, two items, four changes, one restart, any write failing | `AwaitedIsDurable`; `DiskNeverGoesBack` |
| catalogue | an app and an admin preview, three states of which one is blocked and one appears later, a grant on everything, one on a channel, a denial, two rules or one and an edit of it, two of: rejected writes, stops | `OneIdPerState`: an id that was saved is good for ever, one that was not never means another state; `UnchangedIsExact`: a version that is current means the catalogue is |
| profiles | four rules, from profiles of two templates and by hand, two failures or stops; nobody reads | `GrantsOnlyFillGaps`: an added rule, also by a profile that stops after its first template, takes nothing away |
| contents | two requests at a time, two addresses and an inline picture, life of an entry 1, time-out 1, two changes | `AnswersAreCurrent`; `OldAddressFadesOut`: an address that was left is shown for less than time-out plus life |
| dashboards | two screens of one user, one dashboard, two roles, three revisions, one rejected write, restart or change of the user | `NoLostUpdate`: the dashboard is the sequence of accepted changes |
| logs | two writers, two events kept, three put, one clearing, one trouble; alarms or audit | `LogHoldsTheNewest`; `NoAlarmSkipped` |
| lifecycle | three starts, three ports, two attempts, a scan of two, two built-in roles and one more, three keys, two of: roles edited, ports taken or freed, keys' writes rejected; the write of a role's edit rejected at any time | `PortOfDeviceStays`; `FirstStartStays`: secret and roles; `ToldKeyIsDurable` |

Why these bounds: every hazard listed involves two actors on one item and one failure, and the
instances hold one more of each where the code has a case for it (the third request is the opposite
command that takes over a wait, the third refresh token is the thief's, the third start is the one
after a start that was cut short, the third event is the one that has to push out another).
Collections are maps whose entries do not touch each other except through the save of the whole,
which `Storage` checks with two items.  In `replay` the clock runs past the expiry of the latest
request, so that every nonce is forgotten; in `gates` it runs past a window, the block that ends it,
and the next window; in `contents` past a fetch and the life of what it brought.  The entries of two
addresses (`gates`) or two items (`contents`) do not touch each other.

Deadlock is checked for the commands and the gateway.  The other parts end when their bounds are
used up, and the app's onboarding really ends.

Fairness.  `Commands`: the event loop runs what is runnable - ioBroker's replies, timers, queued
events, saves; nobody obliges a client or an actuator to act.  `Realtime`: the heartbeat and the
login timeout are timers, ioBroker answers a subscription, and the `ws` library reports a closed
socket; subscribing, pings answered and messages are not fair.  `Pairing`: a write settles and the
app polls until it ends.  Fairness is used by the three liveness properties and by
`pairing_lost_answer` only; the parts of `front` and `records` are about safety.  `ContentCache` takes
a timer to fire on time: `Tick` does not pass the abort of a fetch.

### Findings

* `realtime_lost` - `releaseSubscription` (`src/src/realtime/index.ts:256`) drops an entry whose Set is
  empty only because its first subscriber still awaits ioBroker; that client joins a Set that is no
  longer in the map and gets nothing.
* `realtime_alarm` - the last client that watched an alarm state unsubscribes the whole adapter
  from it (`:258`), and `AlarmEventsService`, which subscribes once at startup, misses every later alarm.
  A command's wait suffers the same (`Unsubscribe` in `Commands`), but has its timeout.
* `commands_late_confirm` - the recheck after a timeout (`src/src/commands/index.ts:337`) compares the value only
  and reads back what the command itself wrote with `ack: false`.
* `pairing_lost_answer` - when the answer with the tokens is lost, later polls say "approved"
  without a device id and the app gives up for good, although it has a login for that case.
* `tunnel_session` - `revokeSession` and `revokeAllSessions` (`src/src/main.ts:765`, `:509`) leave the
  tunnel tokens of the device alone, although `src/src/tunnel/index.ts:78` says `revokeAllForDevice` is
  called when a session is revoked.
* `alarm_catch_up` - the app's watermark moves on also when the request for the missed alarms failed
  (`AlarmMonitor.kt:77`), although the comment at `:74` says the same window is asked for again.

### Three more texts the code contradicts

These are stated as properties too, which TLC refutes within seconds under the constants of the run
named; no run of their own repeats it.  Each is the exception that a checked and proved property names.

* *Replay* (`ReplayIsAirtight`, under `front`; excepted in `AcceptedOnce`).  The memory of nonces is
  exactly twice the skew (`src/src/main.ts:90`, 10 and 5 minutes), and the guard reads the clock after the
  skew check.  A request stamped one skew ahead is let through at once, and again by a copy that is
  checked in the last moment of its window and looked up in the next.  The comment (`:87-89`) calls the
  detection "airtight for the request's entire acceptance window" and speaks of "a bit of extra
  margin": there is none.
* *Removal of a device* (`ToldRemovalStays`, under `tunnel_session`; excepted in `RevokedStaysOut`).  A second
  `deleteDevice` is answered `ok` from the cache (`src/src/main.ts:613`, `src/src/lib/store.ts:97`) while the
  write of the first is pending or was rejected; after a stop the device is back, and approved.
  `src/src/main.ts:602` and `src/src/devices/index.ts:68` speak of removing it permanently.
* *New states* (`NewStatesChangeVersion`, under `records`; excepted in `UnchangedIsExact`, which is about the
  tree as it was read).  The version of a catalogue covers the rules only (`src/src/catalog/index.ts:114`).
  A state that appears below a channel somebody may read is readable at once, and an app that holds
  the current version is told that nothing has changed; `:110-112` says such a state is invisible until
  a rule is created, "which DOES change the version".

### Known and not run

Commands, replay, pairing, devices:

* A retry of one command id under a new nonce while the first is still being served passes both
  checks and writes twice (`OverlappingRetries = TRUE`). The app never does that: it takes a
  fresh id per retry. The theorems assume `FALSE`.
* A save that ioBroker rejects (`store.ts:141`) ends `execute` with an error although the actuator may have
  been written: no wait starts and no result follows (`unsaved`).  When it was the save of the acceptance,
  the record stays in the cache as accepted, and a retry of the id is answered `accepted` and never
  written, until a restart.  A timer or an acknowledgement whose save is rejected tells nobody.
* `CommandsService` answers a `getForeignObjectAsync` that fails like one that finds nothing; `Invalid`
  stands for both.
* An entry whose first subscriber ioBroker refused stays in `stateSubscribers`; later subscribers of the
  state join it and hear nothing (`realtime/index.ts:215-220`).  A first value may be read before a
  change and sent after it, or its read may fail; the app keeps whatever update came last
  (`StateRepositoryImpl.kt:104-125`), until the next change.  No text promises otherwise, so these are
  the exceptions of the two properties and not findings.
* `deleteDevice` leaves the device approved until its sessions and rules are gone; a login in
  between gets a session and perhaps a socket. `RevokedStaysOut` speaks of tunnels and sockets for
  revoked, not for deleted devices; and a deletion that was answered from the cache holds until the next
  start only (`hearsay`).
* Two overlapping polls can create two sessions for one claim (`handed[d] = 2`).
* A connection cleaned up while it waits in `subscribe` joins afterwards and is never released.
* A restart forgets the waits: a command saved as executed gets no result afterwards.
* `User.disabled` is set by an administrator and read by nothing: a disabled user's devices go on.
* `PairingService` takes the portal key by value (`main.ts:238`): an invite made after
  `regeneratePortalKey` names the old key until the restart. And `publicUrl` keeps the configured port
  after a scan has found another, until the restart that the saved port causes.

The gates (`Gates`):

* A block that another request overlaps may end early: `recordFailure` after the window starts a new
  bucket (`abuseGuard.ts:58`), and `recordSuccess` deletes it. `BlockHolds` speaks of blocks that began
  alone; the history variable `sealed` says which.
* Below the threshold, `2 * MaxFailuresOk - 2` failures fit into one span of the window's length: the
  window begins with its first failure. `FixedWindowsHold` says it is no more than that.
* `portalGate.ts:21` speaks of the same AbuseGuard instance; `main.ts:128-137` gives it its own, and
  says why.  The request budget of `tunnelRouter.ts:21` is per device in the comment, per embed in the
  key (`:77`).

What is kept (`Catalog`, `ContentCache`, `EmbedAccess`, `Dashboards`, `AlarmEvents`, `Lifecycle`):

* An entry whose mapping could not be stored is left out of a catalogue that the client keeps as
  current (`catalog/index.ts:109`); `UnchangedIsExact` excludes it (`skipped`). A rule that changes and
  changes back during one request can leave a catalogue that is neither (`torn`).
* An `update()` whose write is rejected has changed the address and kept the old content;
  `AnswersAreCurrent` excludes it (`calm`), and a fetch that was still under way to the old address.
* A `delete()` of an embed leaves its rules, or some of them, when one of its writes is rejected or the
  adapter stops between two of them (`urlEmbeds/index.ts:123-129`); so does a stop that loses an embed
  and not a rule made for it.  `NoOrphanRule` excludes these embeds (`cut`, see `CutShort`): it says that
  overlapping messages that end well leave none.
* An id that `getOrCreateMapping` handed out before its write had landed is lost when the adapter stops,
  and its state gets another; a widget that names it is dead until its user picks the state again
  (`UnchangedIsExact` excludes ids that are lost and were never saved).
* A rejected edit of a role is answered with an error and stays in the cache: whether the role bears the
  old or the new name is open until the next edit or start.  `deleteRole` of a role that is already gone
  is answered `ok` without a write.
* The app's overwrite of a dashboard takes the revision of its own copy plus one, not "whatever revision
  the server currently holds" (`DashboardEditorViewModel.kt:306`), so it may be refused again; discard
  reloads the same local copy.
* A PUT without name or layouts passes the route and stores `undefined` (`dashboards/index.ts:60`). The
  widgets of a dashboard are checked against the user's role and no device, and one widget that is no
  longer visible refuses every save.
* A dashboard version that a restart took back gives its revision to another one (`phantom`).
* The comment above `recordIfAlarm` says rising edges only; every event with value true is recorded.
* A catch-up can fail before the server has listed anything or after; the watermark moves on either way.
* The catch-up compares the phone's clock with the server's time stamps; the model has one clock
  and an alarm whose stamp lies back by up to `Delay` (`late`).
* Of two overlapping rotations of the portal key the first answer already names the second key, before
  that is saved; `ToldKeyIsDurable` speaks of the moments no rotation is under way.

## 4. What is proved

The theorems are in eight modules, each of which extends the components it is about.  They hold for
every value of the constants that meets the components' assumptions, so for any number of requests,
devices, screens or writes and without the bounds of the runs, which check the same properties.
Every invariant and every action property of the runs that pass is stated by a theorem, the types of
all components included.

* `CommandsProofs` (`Commands`): `TypeCorrect`; and, assuming `ClientWaits` (`~OverlappingRetries`: one
  request at a time carries a command's id), `AlwaysConsistent`, `AtMostOneWrite`, `WaitsAreSound`,
  `PipelineImplementsContract`, `ResultsAreDurable` and `PromptConfirmationsHold`.
  `WrittenAtMostOnce` alone is not inductive: one has to know that a record's status tells how often its
  value was written (`StatusInv`), that a suspended request's belief about its record is still true
  (`PhaseInv`), that one request at a time works on an id (`OneActive`, which rests on `NonceInv`), and that
  waits, timers and rechecks point to executed or timed-out commands.  `Consistent` is their
  conjunction; one lemma per group of actions preserves it.  The refinement maps `status` to the saved
  status: a save is a `Record` step, since the disk is at most one legal move behind the cache.
  `ToldIsDurable` follows from `TaleInv`: cache and disk both bear what a device was told of a command
  (`Bears`), and whatever a request, a wait, a timer or a recheck will still tell goes on from there.
  `PromptConfirmationWasAcked` follows from `AckInv`, which says it of a confirmation on its way.
* `GuardProofs` (`RequestReplay`, `Gates`, `EmbedAccess`, and `MCFront` as a whole, with `PairingProofs` and
  `DeviceAccessProofs`): `TypeCorrect`; `RequestAcceptedOnce` assuming
  `TTL >= 2 * Skew`, from `RememberedLongEnough` (an accepted nonce is remembered until its stamp is too
  old, to the tick) and `SlippedAreOver` (a request let through after its time is over for good); `ReplayWasUsed` from `RememberedWasUsed`.
  `BlocksHold` from `Sealed`: while a sealed block is in force the bucket still carries it
  (`blockedUntil >= sealed`) and nobody is being served, so that nothing can record a success or a
  failure that would end it.  `WindowsHold` from `WindowsInv`: what the histories remember falls into two
  halves (`Halves`), the window of the bucket, no fuller than its count, and the one before it.
  `GatesTyped` says besides that no bucket below the threshold announces a block.
  `TunnelsStayEntitled` from `TokensInv` (one token per device and embed: `issue` removes the others in the
  same stretch, whatever role or user they were issued for) and `ForwardedInv`.  `NoRuleIsOrphaned` and
  `EmbedTyped` from `RulesInv`: while the rules of an embed are deleted it is gone, so that none is added,
  and those it still has are all among the ones still to be deleted; what the disk may show of the two
  collections at a stop (`Offers`, `Backed`) fits in the same way, but for the embeds that are `cut`.
  `FrontImplementsParts`: a step of `MCFront` is a step of one part and a stutter of the others (`FrontStep`),
  so the composition implements each of the five specifications; `FrontTyped` (`FrontTypeOK`) and `FrontIsSafe`
  (all the properties of `front` at once) follow from the theorems of the parts.
* `CollectionProofs` (`CollectionStore`): lemmas only, those about sequences and least numbers that
  several modules need among them.  A collection is the list of its *versions*: the
  saved JSON, the JSON of each write under way, the cache.  What holds in every version
  (`Everywhere`), or in every version from the write on that a handler awaits (`Since`), survives every
  landing, rejection and restart; `PutFacts` says what a put of one entry leaves alone.  `Pairing`,
  `DeviceAccess` and `Dashboards` are proved with them.
* `PairingProofs` (`Pairing`): `PairingInvariant`, and from it `PairingTyped`, `OneDevicePerInvite`,
  `SavedFitsTogether` and `VerdictsAgreed`.  The invariant says of any two versions of claims and devices
  that they fit (`DeviceFits`: a claim has its device, an approved one a decided device), of an invite that
  it is used from the write of its claim on (`InvitesFit`), of a suspended handler what it relies on
  (`JobFits`), and of verdicts that while no write failed the device has the verdict of whoever decides
  last (`VerdictsFit`).
* `DeviceAccessProofs` (`DeviceAccess`): `AccessInvariant`, and from it `AccessTyped`, `RevocationHolds`,
  `EndedSessionsHold` and `TokensBoughtOnce`.  Versions of the sessions `Follow` one another: what is
  revoked stays so and no token comes back.  `TokensFit` keeps a token that was exchanged, or is about
  to be, from being current anywhere; `EndedFit` and `OutFit` say that what was ended, or taken out,
  is so in every version, and for a handler under way from its own write on; what was only found gone
  (`HearsayFit`) is so in the cache until the next start.
* `RecordsProofs` (`Storage`, `Lifecycle`, `AlarmEvents`, and `MCRecords` as a whole, with `ContentProofs`):
  `StorageTyped`; `AwaitedSurvives` and
  `DiskIsMonotone` from `InOrder` (along the queue each JSON is newer than the one before, and carries the
  change of whoever awaits it).
  `PortStays` from `PortInv`: while a device is paired the instance object holds its port, and so does the
  configuration of the running process.  `ToldKeyStays` from `KeyInv`: no rotation precedes the saved
  key, the start takes up the key that was told, and from then on the gate takes that of the last
  rotation.  `FirstStartHolds` from `SecretInv` and `RolesInv`: a reachable server signs with the saved
  secret; every role whose last edit was answered with a name is saved under it, and all of them but the
  one an administrator is changing bear it in memory (`Changing`).
  `NoAlarmIsSkipped` from `SkipInv`: the app's watermark passes no alarm it was not told of, nor does the
  reading it will move to.  `NewestAreHeld` from `AllHeld`: a recorded event is in a version of the log, or
  `MaxKept` others are that are no older, from its own write on in every version after it.
  `LifecycleTyped` and `AlarmsTyped` need of the keys that none was taken that was not made, of the ports that
  what the server listens on is nobody else's, of a writer that it awaits a write of its own.
  `RecordsImplementsParts`, `RecordsTyped` (`RecordsTypeOK`) and `RecordsAreSafe` say of `MCRecords` and its six
  parts what the theorems of `GuardProofs` say of `MCFront`.
* `ContentProofs` (`ContentCache`, `Catalog`, `Dashboards`):
  `OldAddressesFade`, assuming `CacheTTL > 0`, from `FadeInv`: a fetch in flight took up its address while
  it was the item's and no longer ago than `FetchTimeout`.  `AnswersStayCurrent` from `CalmInv`: while no
  change of an embed is under way and none was spoilt, its cache and all its fetches are of its
  address; `ContentTyped` from it and from the moments in the past (`MomentsTyped`).
  `CatalogInvariant`, `IdsStayUnique` and `UnchangedMeansExact`: a request under way has listed exactly
  what the rules as it read them give of the states it has passed, or they have changed since
  (`ExactInv`); an id belongs to one state in every version of the mappings and in what clients hold
  (`NamesInv`), and whoever stores a mapping will find it in the version it awaits (`StoreInv`).  `NewRulesFillGaps`, an action property: the first of a level stays the first when a rule
  is added at the end (`OlderRuleDecides`).  `CatalogTyped`: a rule has one owner and an id that was given,
  whether it was made by hand, changed, or made from a template whose owner is filled in
  (`RulesInOrder`, `ProfilesInOrder`), and a request stops at a state of the tree it has read (`JobsInOrder`).
  `UpdatesAreKept` from `BoardsInv`: a revision of a dashboard has one layout in every version of the
  collection, and so has it in the copies, the editors and the answers on their way to a screen, but
  for the copies a restart took back (`phantom`); so a PUT that carries the current revision was edited
  on what had been accepted.  `DashboardsTyped` from the same and from `BoardRanges`: no copy of a screen is
  another user's, and no editor has a revision that was not made.
* `RealtimeProofs` (`Realtime`): `TypeCorrect`, `RegistryStaysBacked` and `RegisteredStaysCurrent` from
  `RegInv`, which adds to the three properties what a suspended call knows (`CallInv`).  `ReleaseFacts` says
  once what dropping a set of connections does to the registry; leaving, closing and dying rest on it.

Assumptions on the constants, each beside its module's CONSTANTS and evaluated by the runs: bounds
are natural numbers; limits, windows, `MaxKept` and the bounds of what there is at least one of
(`MaxRules`, `MaxRevision`, `MaxInstant`, `MaxHour`) are positive; null values (`None`, `Nobody`, `NoOne`,
`NoAddress`, `NoEmbed`) are none of the things they stand in for; a rule an administrator asks for names
an embed; whoever makes a rule says whose it is, and no change of one changes its id; the object tree
lists a state once; a user starts with a role there is; the built-in roles are not custom ones.  The
three further hypotheses are named above: the app meets `ClientWaits`, since it takes a fresh id per
retry; the shipped constants (10 and 5 minutes) just meet the one about `TTL`; and both caches live for longer than 0.

Assumptions on the world: ioBroker takes the writes of one state in the order of the calls; the
server's clock does not go back; `setForeignStateAsync` either takes effect once or throws.

Only model-checked: liveness (`ResultReachesDevice`, `EndedSessionIsCut`, `SilentPeerIsCut`), which is
beyond the prover, as are the fairness assumptions under which `pairing_lost_answer` fails.

## 5. What is left out

Inside the modelled parts: authorisation is an answer that may be anything at any time in `Commands`
(`AccessRules` is its code); logs and pure reads; expiry of sessions in `DeviceAccess` (it only takes
access away; in `Realtime` it is `SessionExpires`); the challenge table of the login; the app's poll
deadline; the portal gate's exempt path; the catalogue's folders, names and widget suggestions, and
its version as a 32-bit hash (`Catalog` takes the list of rules itself, so that two lists never share
one); the bytes and headers a tunnel carries; the editing of widgets.

Not modelled: queries to a history adapter and the download of the app (no state); the React admin tab
(each tab sends the admin messages that are modelled); renaming of devices, users and profiles (names
nothing modelled reads); on the app's side the command list, the socket, the token store and its lock,
the tunnel's local proxy, the PIN lock, and wrappers of Android services.  `PROJECT.json` gives the
reason for each under `components`.

## 6. What would come next

1. `SocketClient` (`RealtimeWebSocketClient.kt`): one live socket, over watchdogs, failures and
   `disconnect`; the same subscriptions on both sides after a reconnect.
2. `TokenRefresh` (`TokenAuthenticator.kt`, `AuthRepositoryImpl.kt`) with the rotation of `DeviceAccess`: two
   refreshers without a common lock against reuse detection.
3. `CommandClient` (`CommandRepositoryImpl.kt`) composed with `Commands`: the state shown is the last
   word on the command; what the retry under a fresh id does to at-most-once.
4. Proofs of these: that `TokenRefresh` keeps what `DeviceAccess` promises of refresh tokens, and that
   `CommandClient` meets `ClientWaits` but for its retry.
