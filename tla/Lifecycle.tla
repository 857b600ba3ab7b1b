------------------------------ MODULE Lifecycle ------------------------------
(***************************************************************************)
(* The adapter's life: onReady() of src/main.ts with the secrets it makes, *)
(* the roles it seeds (src/roles/index.ts), the schema version             *)
(* (src/migrations/index.ts) and the port it listens on - and the steps of *)
(* a running adapter that change what the next start finds: the rotation   *)
(* of the portal key, roles, a device paired through the port.  The        *)
(* process may die, or be restarted by the controller, at any await.       *)
(*                                                                         *)
(* ioBroker (external) keeps the instance object; extendForeignObjectAsync *)
(* calls on it take effect in their order.  Other processes (external)     *)
(* take and free ports.  Secrets and keys are numbers, 0 is "not set".     *)
(*                                                                         *)
(* A definition named Action_Fault is the action with one plausible fault  *)
(* in it; no specification uses it, it shows that a property notices.      *)
(***************************************************************************)
EXTENDS CollectionStore, Naturals, FiniteSets

CONSTANTS
    Ports,          \* bound: ports there are, a range of numbers
    FirstPort,      \* the port of a fresh instance
    PortScanRange,  \* PORT_SCAN_RANGE
    MaxAttempts,    \* MAX_ATTEMPTS
    BuiltInRoles,   \* ids of BUILT_IN_ROLES, a sequence
    CustomRoles,    \* ids of other roles
    SchemaVersion,  \* CURRENT_SCHEMA_VERSION
    MaxBoots,       \* bound: starts
    MaxRotations,   \* bound: portal keys made
    MaxTurns        \* bound: roles created, renamed or deleted, ports taken or freed by
                    \* others or set by an administrator, rotations rejected

ASSUME LifecycleAssumption ==
    /\ Ports \subseteq Nat \ {0} /\ FirstPort \in Ports
    /\ {PortScanRange, SchemaVersion, MaxBoots, MaxRotations, MaxTurns} \subseteq Nat
    /\ MaxAttempts \in Nat \ {0}
    /\ DOMAIN BuiltInRoles \subseteq Nat \ {0}
    /\ \A i \in DOMAIN BuiltInRoles : BuiltInRoles[i] \notin CustomRoles

VARIABLES
    native,     \* native of the instance object: jwtSecret, portalKey, port
    schema,     \* meta.schemaVersion
    roles,      \* the roles collection: name of each role
    config,     \* this.config, native as it was at the start
    phase,      \* where onReady() is
    attempt,    \* of listenWithRetry, or the candidate of scanForFreePort
    portalKey,  \* this.portalKey
    rotations,  \* regeneratePortalKey messages awaiting their write: the keys
    auditing,   \* and those awaiting their entry in the audit log after it
    listening,  \* the port the server listens on, 0 for none
    takenPorts, \* ports other processes hold
    pairedOn,   \* the port the paired devices use, 0 while there are none
    signedWith, \* history: secrets the reachable server signed with
    told,       \* history: the key in the last answer to a regeneratePortalKey
    lostRotation, \* history: a rotation never was answered
    named,      \* history: the last name of each role whose await returned, none
                \* after one that was rejected
    used        \* what is used up of the bounds

lifeVars == <<native, schema, roles, config, phase, attempt, portalKey, rotations, auditing, listening,
              takenPorts, pairedOn, signedWith, told, lostRotation, named, used>>

RoleIds == {BuiltInRoles[i] : i \in DOMAIN BuiltInRoles} \cup CustomRoles
Names   == {"none", "seeded", "given"}
Phases  == {"off", "migrating", "savingSecret", "savingKey", "seeding", "listening",
            "scanning", "savingPort", "running", "terminated"}

Native == [jwtSecret : Nat, portalKey : Nat, port : Ports]

LifecycleTypeOK ==
    /\ native \in Native /\ config \in Native
    /\ schema \in {0, SchemaVersion}
    /\ {roles.cache, roles.disk} \subseteq [RoleIds -> Names]
    /\ phase \in Phases
    /\ attempt \in Nat /\ (phase = "listening" => attempt \in 1..MaxAttempts)
    /\ portalKey \in 0..used.keys
    /\ rotations \in Seq(1..used.keys) /\ auditing \in Nat
    /\ listening \in Ports \cup {0} /\ listening \notin takenPorts
    /\ takenPorts \subseteq Ports
    /\ pairedOn \in Ports \cup {0}
    /\ named \in [RoleIds -> Names]

LifecycleInit ==
    /\ native = [jwtSecret |-> 0, portalKey |-> 0, port |-> FirstPort]
    /\ config = native
    /\ schema = 0
    /\ roles = Loaded([r \in RoleIds |-> "none"])
    /\ phase = "off" /\ attempt = 0
    /\ portalKey = 0 /\ rotations = <<>> /\ auditing = 0
    /\ listening = 0 /\ takenPorts = {} /\ pairedOn = 0
    /\ signedWith = {} /\ told = 0 /\ lostRotation = FALSE
    /\ named = [r \in RoleIds |-> "none"]
    /\ used = [boots |-> 0, secrets |-> 0, keys |-> 0, turns |-> 0]

Use(what, limit) == used[what] < limit /\ used' = [used EXCEPT ![what] = @ + 1]

----------------------------------------------------------------------------
(* onReady()                                                               *)

Boot ==
    /\ phase = "off"
    /\ Use("boots", MaxBoots)
    /\ config' = native
    /\ phase' = "migrating"
    /\ roles' = Reloaded(roles)
    /\ UNCHANGED <<native, schema, attempt, portalKey, rotations, auditing, listening, takenPorts,
                   pairedOn, signedWith, told, lostRotation, named>>

\* runMigrations: there is none; the baseline is recorded.  Then the secret:
\* the configured one, or a new one, whose write is awaited.
Migrated ==
    /\ phase = "migrating"
    /\ schema' = SchemaVersion
    /\ phase' = "savingSecret"
    /\ used' = IF config.jwtSecret = 0 THEN [used EXCEPT !.secrets = @ + 1] ELSE used
    /\ config' = IF config.jwtSecret = 0 THEN [config EXCEPT !.jwtSecret = used'.secrets] ELSE config
    /\ UNCHANGED <<native, roles, attempt, portalKey, rotations, auditing, listening, takenPorts,
                   pairedOn, signedWith, told, lostRotation, named>>

\* The write of a new secret returns; then the same for the portal key.
SecretSaved_NotWritten ==
    /\ phase = "savingSecret"
    /\ phase' = "savingKey"
    /\ used' = IF config.portalKey = 0 THEN [used EXCEPT !.keys = @ + 1] ELSE used
    /\ portalKey' = IF config.portalKey = 0 THEN used'.keys ELSE config.portalKey
    /\ UNCHANGED <<native, schema, roles, config, attempt, rotations, auditing, listening,
                   takenPorts, pairedOn, signedWith, told, lostRotation, named>>

SecretSaved ==
    /\ phase = "savingSecret"
    /\ phase' = "savingKey"
    /\ native' = [native EXCEPT !.jwtSecret = config.jwtSecret]
    /\ used' = IF config.portalKey = 0 THEN [used EXCEPT !.keys = @ + 1] ELSE used
    /\ portalKey' = IF config.portalKey = 0 THEN used'.keys ELSE config.portalKey
    /\ UNCHANGED <<schema, roles, config, attempt, rotations, auditing, listening, takenPorts,
                   pairedOn, signedWith, told, lostRotation, named>>

\* !store.has(role.id)
MissingRoles == {i \in DOMAIN BuiltInRoles : roles.cache[BuiltInRoles[i]] = "none"}

\* ensureBuiltInRoles up to its next await: the first role that is missing
\* is put.  When none is, the services are made and the server is started.
SeedFrom(store, first) ==
    LET todo == {i \in MissingRoles : i >= first}
        next == CHOOSE i \in todo : \A j \in todo : i <= j IN
    IF todo = {} THEN roles' = store /\ phase' = "listening" /\ attempt' = 1
    ELSE /\ roles' = Update(store, "onReady", [store.cache EXCEPT ![BuiltInRoles[next]] = "seeded"])
         /\ phase' = "seeding" /\ attempt' = next

KeySaved ==
    /\ phase = "savingKey"
    /\ native' = [native EXCEPT !.portalKey = portalKey]
    /\ SeedFrom(roles, 1)
    /\ UNCHANGED <<schema, config, portalKey, rotations, auditing, listening, takenPorts, pairedOn,
                   signedWith, told, lostRotation, named, used>>

RoleSeeded ==
    /\ phase = "seeding"
    /\ SeedFrom(Landed(roles), attempt + 1)
    /\ UNCHANGED <<native, schema, config, portalKey, rotations, auditing, listening, takenPorts,
                   pairedOn, signedWith, told, lostRotation, named, used>>

----------------------------------------------------------------------------
(* listenWithRetry() and scanForFreePort()                                 *)

\* 'listening' arrives, or EADDRINUSE.
Bind(p) == p \notin takenPorts /\ listening' = p /\ signedWith' = signedWith \cup {config.jwtSecret}

Listens ==
    /\ phase = "listening" /\ Bind(config.port)
    /\ phase' = "running"
    /\ UNCHANGED <<native, schema, roles, config, attempt, portalKey, rotations, auditing,
                   takenPorts, pairedOn, told, lostRotation, named, used>>

\* A device has paired: a busy port is not left.
MayScan_Always == TRUE

MayScan == pairedOn = 0

AttemptsLeft == attempt < MaxAttempts

PortBusy ==
    /\ phase = "listening" /\ config.port \in takenPorts
    /\ IF AttemptsLeft THEN attempt' = attempt + 1 /\ UNCHANGED phase
       ELSE IF MayScan THEN phase' = "scanning" /\ attempt' = config.port + 1
       ELSE phase' = "terminated" /\ UNCHANGED attempt
    /\ UNCHANGED <<native, schema, roles, config, portalKey, rotations, auditing, listening,
                   takenPorts, pairedOn, signedWith, told, lostRotation, named, used>>

CandidateListens ==
    /\ phase = "scanning" /\ attempt \in Ports /\ Bind(attempt)
    /\ phase' = "savingPort"
    /\ UNCHANGED <<native, schema, roles, config, attempt, portalKey, rotations, auditing,
                   takenPorts, pairedOn, told, lostRotation, named, used>>

CandidateBusy ==
    /\ phase = "scanning" /\ attempt \notin Ports \ takenPorts
    /\ IF attempt < config.port + PortScanRange
       THEN attempt' = attempt + 1 /\ UNCHANGED phase
       ELSE phase' = "terminated" /\ UNCHANGED attempt
    /\ UNCHANGED <<native, schema, roles, config, portalKey, rotations, auditing, listening,
                   takenPorts, pairedOn, signedWith, told, lostRotation, named, used>>

PortSaved ==
    /\ phase = "savingPort"
    /\ native' = [native EXCEPT !.port = listening]
    /\ phase' = "running"
    /\ UNCHANGED <<schema, roles, config, attempt, portalKey, rotations, auditing, listening,
                   takenPorts, pairedOn, signedWith, told, lostRotation, named, used>>

----------------------------------------------------------------------------
(* The services are there before the server listens: admin messages are    *)
(* handled from then on.  (Those that come earlier are left out.)          *)

Up == phase \in {"listening", "scanning", "savingPort", "running"}

\* A phone pairs through the address in its invite, which names the port the
\* adapter was started with (publicUrl); or the last device is deleted.
DevicePairs ==
    /\ Up /\ pairedOn = 0 /\ listening = config.port
    /\ pairedOn' = listening
    /\ UNCHANGED <<native, schema, roles, config, phase, attempt, portalKey, rotations, auditing,
                   listening, takenPorts, signedWith, told, lostRotation, named, used>>

LastDeviceDeleted ==
    /\ Up /\ pairedOn # 0
    /\ pairedOn' = 0
    /\ UNCHANGED <<native, schema, roles, config, phase, attempt, portalKey, rotations, auditing,
                   listening, takenPorts, signedWith, told, lostRotation, named, used>>

\* regeneratePortalKey: the gate takes the new key at once, its write is
\* awaited.
RegeneratePortalKey ==
    /\ Up
    /\ Use("keys", MaxRotations)
    /\ portalKey' = used'.keys
    /\ rotations' = Append(rotations, portalKey')
    /\ UNCHANGED <<native, schema, roles, config, phase, attempt, auditing, listening, takenPorts,
                   pairedOn, signedWith, told, lostRotation, named>>

\* The write returns, and the rotation is entered in the audit log.
RotationSaved_KeyOfTheStart ==
    /\ rotations # <<>>
    /\ native' = [native EXCEPT !.portalKey = config.portalKey]
    /\ rotations' = Tail(rotations) /\ auditing' = auditing + 1
    /\ UNCHANGED <<schema, roles, config, phase, attempt, portalKey, listening, takenPorts,
                   pairedOn, signedWith, told, lostRotation, named, used>>

RotationSaved ==
    /\ rotations # <<>>
    /\ native' = [native EXCEPT !.portalKey = Head(rotations)]
    /\ rotations' = Tail(rotations) /\ auditing' = auditing + 1
    /\ UNCHANGED <<schema, roles, config, phase, attempt, portalKey, listening, takenPorts,
                   pairedOn, signedWith, told, lostRotation, named, used>>

\* The answer holds the key the gate takes by now.
RotationTold ==
    /\ auditing > 0 /\ auditing' = auditing - 1
    /\ told' = portalKey
    /\ UNCHANGED <<native, schema, roles, config, phase, attempt, portalKey, rotations, listening,
                   takenPorts, pairedOn, signedWith, lostRotation, named, used>>

\* A write is rejected, that of the key or that of the audit log: an error is
\* answered, the gate keeps the new key.
RotationRejected ==
    /\ \/ rotations # <<>> /\ rotations' = Tail(rotations) /\ UNCHANGED auditing
       \/ auditing > 0 /\ auditing' = auditing - 1 /\ UNCHANGED rotations
    /\ Use("turns", MaxTurns)
    /\ lostRotation' = TRUE
    /\ UNCHANGED <<native, schema, roles, config, phase, attempt, portalKey, listening, takenPorts,
                   pairedOn, signedWith, told, named>>

\* createRole and renameRole of an administrator, one at a time.
NameRole(r) ==
    /\ Up /\ roles.writes = <<>>
    /\ r \in CustomRoles \/ roles.cache[r] # "none"
    /\ Use("turns", MaxTurns)
    /\ roles' = Update(roles, r, [roles.cache EXCEPT ![r] = "given"])
    /\ UNCHANGED <<native, schema, config, phase, attempt, portalKey, rotations, auditing,
                   listening, takenPorts, pairedOn, signedWith, told, lostRotation, named>>

\* deleteRole: a built-in role cannot be deleted, and for one that is gone
\* there is nothing to do.
DeleteRole(r) ==
    /\ Up /\ roles.writes = <<>>
    /\ roles.cache[r] # "none" /\ r \in CustomRoles
    /\ Use("turns", MaxTurns)
    /\ roles' = Update(roles, r, [roles.cache EXCEPT ![r] = "none"])
    /\ UNCHANGED <<native, schema, config, phase, attempt, portalKey, rotations, auditing,
                   listening, takenPorts, pairedOn, signedWith, told, lostRotation, named>>

RoleSaved ==
    /\ Up /\ roles.writes # <<>>
    /\ roles' = Landed(roles)
    /\ named' = [named EXCEPT ![Head(roles.writes).by] = roles'.disk[Head(roles.writes).by]]
    /\ UNCHANGED <<native, schema, config, phase, attempt, portalKey, rotations, auditing,
                   listening, takenPorts, pairedOn, signedWith, told, lostRotation, used>>

\* The write is rejected: an error is answered, the change stays in memory.
RoleRejected ==
    /\ Up /\ roles.writes # <<>>
    /\ roles' = Rejected(roles)
    /\ named' = [named EXCEPT ![Head(roles.writes).by] = "none"]
    /\ UNCHANGED <<native, schema, config, phase, attempt, portalKey, rotations, auditing,
                   listening, takenPorts, pairedOn, signedWith, told, lostRotation, used>>

----------------------------------------------------------------------------
(* The world outside.                                                      *)

\* The process dies, onUnload closes it, or a write of onReady() is rejected
\* and ends it: memory is gone, writes under way with it.
Dies ==
    /\ phase # "off"
    /\ phase' = "off" /\ attempt' = 0 /\ listening' = 0 /\ portalKey' = 0
    /\ rotations' = <<>> /\ auditing' = 0
    /\ lostRotation' = (lostRotation \/ rotations # <<>> \/ auditing # 0)
    /\ roles' = Reloaded(roles)
    /\ UNCHANGED <<native, schema, config, takenPorts, pairedOn, signedWith, told, named, used>>

PortTaken(p) ==
    /\ p \notin takenPorts /\ p # listening
    /\ Use("turns", MaxTurns)
    /\ takenPorts' = takenPorts \cup {p}
    /\ UNCHANGED <<native, schema, roles, config, phase, attempt, portalKey, rotations, auditing,
                   listening, pairedOn, signedWith, told, lostRotation, named>>

PortFreed(p) ==
    /\ p \in takenPorts
    /\ takenPorts' = takenPorts \ {p}
    /\ UNCHANGED <<native, schema, roles, config, phase, attempt, portalKey, rotations, auditing,
                   listening, pairedOn, signedWith, told, lostRotation, named, used>>

\* An administrator sets the port, and moves the devices along.
PortConfigured(p) ==
    /\ phase = "off" /\ p # native.port
    /\ Use("turns", MaxTurns)
    /\ native' = [native EXCEPT !.port = p]
    /\ pairedOn' = IF pairedOn = 0 THEN 0 ELSE p
    /\ UNCHANGED <<schema, roles, config, phase, attempt, portalKey, rotations, auditing,
                   listening, takenPorts, signedWith, told, lostRotation, named>>

LifecycleNext ==
    \/ Boot \/ Migrated \/ SecretSaved \/ KeySaved \/ RoleSeeded
    \/ Listens \/ PortBusy \/ CandidateListens \/ CandidateBusy \/ PortSaved
    \/ DevicePairs \/ LastDeviceDeleted
    \/ RegeneratePortalKey \/ RotationSaved \/ RotationTold \/ RotationRejected
    \/ \E r \in RoleIds : NameRole(r) \/ DeleteRole(r)
    \/ RoleSaved \/ RoleRejected
    \/ Dies
    \/ \E p \in Ports : PortTaken(p) \/ PortFreed(p) \/ PortConfigured(p)

LifecycleSpec == LifecycleInit /\ [][LifecycleNext]_lifeVars

----------------------------------------------------------------------------
(* Properties                                                              *)

\* "a port an existing setup already relies on never changes silently
\* underneath it" (src/main.ts:459): as long as a device is paired, the
\* server listens on the port it was paired through or not at all - over
\* restarts, other processes, a scan cut short, and devices that come and go.
PortOfDeviceStays == pairedOn # 0 /\ listening # 0 => listening = pairedOn

\* What the first start made stays, wherever it or a later one was cut off.
\* The signing secret, and with it the fingerprint apps remember ("a stable
\* per-adapter identity value"), never changes once the server was reachable.
\* Whenever there is a service to ask the built-in roles are there, whichever
\* edit of a role is rejected; and a role whose last edit was answered with a
\* name bears it, in memory and on disk, over restarts and rejected edits of
\* other roles: starting again does not seed it anew.
FirstStartStays ==
    /\ Cardinality(signedWith) <= 1
    /\ Up =>
          /\ \A i \in DOMAIN BuiltInRoles : roles.cache[BuiltInRoles[i]] # "none"
          /\ roles.writes = <<>> => \A r \in RoleIds :
                named[r] = "given" => roles.cache[r] = "given" /\ roles.disk[r] = "given"

\* The key an administrator was last told is the key the gate takes, and the
\* one it takes after the next start - unless a rotation is under way, or one
\* was cut off by a restart or a rejected write.
ToldKeyIsDurable ==
    told # 0 /\ rotations = <<>> /\ auditing = 0 /\ ~lostRotation =>
        native.portalKey = told /\ (Up => portalKey = told)
=============================================================================
