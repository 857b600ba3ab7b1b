--------------------------- MODULE RecordsProofs ----------------------------
(* What the adapter keeps over its starts, for all values of the constants:   *)
(* the changes a caller of a CollectionStore has awaited, the port of a       *)
(* paired device, the keys an administrator was told about, what a first      *)
(* start wrote, the newest alarms and entries of the audit log.  With         *)
(* ContentProofs this is all of MCRecords.                                    *)
EXTENDS MCRecords, ContentProofs

----------------------------------------------------------------------------
(* The collection: any number of callers, items and writes                *)

\* A collection starts well typed.
LEMMA StorageTypeInit == Init => TypeOK
BY DEF Init, TypeOK, Loaded, Content

\* Every step keeps the collection well typed.
LEMMA StorageTypeStep == TypeOK /\ [Next]_vars => TypeOK'
<1> SUFFICES ASSUME TypeOK, [Next]_vars PROVE TypeOK'
  OBVIOUS
<1>t. /\ store.cache \in Content /\ store.disk \in Content
      /\ store.writes \in Seq(Write)
      /\ changes \in Nat /\ crashes \in Nat /\ promised \in Content
      /\ gone \subseteq Nat /\ found \in Content
  BY DEF TypeOK
<1>1. ASSUME NEW c \in Callers, NEW S \in SUBSET Ids, Put(c, S) \/ TakeOut(c, S) PROVE TypeOK'
  <2>0. /\ Change(c, S) /\ changes' = changes + 1
        /\ promised' = promised /\ found' = found /\ crashes' = crashes
        /\ gone' = gone \/ gone' = gone \cup {changes + 1}
    BY <1>1 DEF Put, TakeOut, Change
  <2> DEFINE w == [by |-> [caller |-> c, ids |-> S, no |-> changes + 1], json |-> Changed(S)]
  <2>1. Changed(S) \in Content
    BY <1>t DEF Changed, Content
  <2>2. w \in Write
    BY <1>t, <2>1 DEF Write
  <2>3. store' = [cache |-> Changed(S), disk |-> store.disk,
                  writes |-> Append(store.writes, w)]
    BY <2>0 DEF Change, Update
  <2> HIDE DEF w
  <2>4. Append(store.writes, w) \in Seq(Write)
    BY <1>t, <2>2
  <2> QED
    <3>1. store' \in [cache : Content, disk : Content, writes : Seq(Write)]
      BY <1>t, <2>1, <2>3, <2>4
    <3>2. changes + 1 \in Nat
      BY <1>t
    <3>3. gone' \subseteq Nat
      BY <1>t, <2>0, <3>2, Zenon
    <3> QED
      BY <1>t, <2>0, <3>1, <3>2, <3>3 DEF TypeOK
<1>2. CASE Return
  <2>1. store.writes # << >>
    BY <1>2 DEF Return
  <2>2. Head(store.writes) \in Write /\ Tail(store.writes) \in Seq(Write)
    BY <1>t, <2>1
  <2>3. Head(store.writes).json \in Content /\ Head(store.writes).by.no \in Nat
    BY <2>2 DEF Write
  <2>4. promised' \in Content
    BY <1>2, <1>t, <2>3 DEF Return, Content
  <2> QED
    <3>1. store' = [cache |-> store.cache, disk |-> Head(store.writes).json,
                    writes |-> Tail(store.writes)]
      BY <1>2 DEF Return, Landed
    <3> QED
      BY <1>2, <1>t, <2>2, <2>3, <2>4, <3>1 DEF Return, TypeOK
<1>3. CASE Fail
  <2>1. Tail(store.writes) \in Seq(Write)
    BY <1>3, <1>t DEF Fail
  <2> QED
    BY <1>3, <1>t, <2>1 DEF Fail, Rejected, TypeOK
<1>4. CASE Restart
  <2>1. << >> \in Seq(Write)
    OBVIOUS
  <2> QED
    BY <1>4, <1>t, <2>1 DEF Restart, Reloaded, Loaded, TypeOK, Content
<1>5. CASE UNCHANGED vars
  BY <1>5 DEF vars, TypeOK
<1>6. ASSUME NEW i \in Ids, DeleteAbsent(i) PROVE TypeOK'
  BY <1>6, <1>t DEF DeleteAbsent, TypeOK, Content
<1> QED
  BY <1>1, <1>2, <1>3, <1>4, <1>5, <1>6 DEF Next

\* The collection is always well typed.
THEOREM StorageTyped == Spec => []TypeOK
<1>1. Init => TypeOK
  BY StorageTypeInit
<1>2. TypeOK /\ [Next]_vars => TypeOK'
  BY StorageTypeStep
<1> QED
  BY <1>1, <1>2, PTL DEF Spec

----------------------------------------------------------------------------
Safe == InOrder /\ AwaitedIsDurable

\* At the start nothing is promised.
LEMMA SafeInit == Init => Safe
BY DEF Init, Safe, InOrder, AwaitedIsDurable, NoOlder, Loaded

\* Being at least as new is transitive.
LEMMA Transitive ==
    ASSUME NEW p \in Content, NEW q \in Content, NEW r \in Content,
           NoOlder(p, q), NoOlder(q, r)
    PROVE  NoOlder(p, r)
BY DEF NoOlder, Content

\* A change is newer than the whole cache before it.
LEMMA ChangeIsNewer ==
    ASSUME TypeOK, InOrder, NEW S \in SUBSET Ids
    PROVE  /\ Changed(S) \in Content
           /\ NoOlder(store.cache, Changed(S))
           /\ \A i \in Ids : Changed(S)[i] <= changes + 1
BY DEF TypeOK, InOrder, Changed, Content, NoOlder

\* No step loses what was promised, or saves an older collection over a newer one.
LEMMA SafeStep ==
    ASSUME TypeOK, Safe, [Next]_vars
    PROVE  Safe' /\ NoOlder(store.disk, store'.disk)
<1> DEFINE W == store.writes
           disk == store.disk
           cache == store.cache
<1>t. /\ cache \in Content /\ disk \in Content /\ promised \in Content /\ found \in Content
      /\ W \in Seq(Write) /\ changes \in Nat
      /\ \A k \in DOMAIN W : /\ W[k].json \in Content
                             /\ W[k].by.ids \subseteq Ids /\ W[k].by.no \in Nat
  <2>1. /\ cache \in Content /\ disk \in Content /\ promised \in Content /\ found \in Content
        /\ W \in Seq(Write) /\ changes \in Nat
    BY DEF TypeOK
  <2>2. \A k \in DOMAIN W : W[k] \in Write
    BY <2>1
  <2>3. \A k \in DOMAIN W : /\ W[k].json \in Content
                            /\ W[k].by.ids \subseteq Ids /\ W[k].by.no \in Nat
    BY <2>2 DEF Write
  <2> QED
    BY <2>1, <2>3
<1>o. /\ NoOlder(disk, cache)
      /\ \A i \in Ids : cache[i] <= changes
      /\ \A k \in DOMAIN W :
            /\ NoOlder(disk, W[k].json)
            /\ NoOlder(W[k].json, cache)
            /\ \A i \in W[k].by.ids : W[k].by.no <= W[k].json[i]
            /\ \A m \in DOMAIN W : k < m => NoOlder(W[k].json, W[m].json)
      /\ NoOlder(promised, disk)
      /\ NoOlder(promised, cache)
      /\ NoOlder(found, cache)
  BY DEF Safe, InOrder, AwaitedIsDurable
<1>r. NoOlder(disk, disk)
  BY <1>t DEF NoOlder, Content
<1>1. ASSUME NEW c \in Callers, NEW S \in SUBSET Ids, Put(c, S) \/ TakeOut(c, S)
      PROVE  Safe' /\ NoOlder(disk, store'.disk)
  <2> DEFINE new == Changed(S)
             w == [by |-> [caller |-> c, ids |-> S, no |-> changes + 1], json |-> new]
             V == Append(W, w)
  <2>1. /\ store' = [cache |-> new, disk |-> disk, writes |-> V]
        /\ changes' = changes + 1 /\ promised' = promised /\ found' = found
    BY <1>1 DEF Put, TakeOut, Change, Update
  <2>2. /\ new \in Content /\ NoOlder(cache, new)
        /\ \A i \in Ids : new[i] <= changes + 1
    BY ChangeIsNewer DEF Safe
  <2>3. NoOlder(new, new)
    BY <2>2 DEF NoOlder, Content
  <2>4. w.json = new /\ w.by.ids = S /\ w.by.no = changes + 1
    OBVIOUS
  <2>c. \A i \in S : changes + 1 <= new[i]
    BY <1>t DEF Changed
  <2> HIDE DEF w, new
  <2>5. /\ DOMAIN V = 1 .. Len(W) + 1
        /\ \A k \in DOMAIN W : V[k] = W[k]
        /\ V[Len(W) + 1] = w
        /\ DOMAIN W = 1 .. Len(W) /\ Len(W) \in Nat
    BY <1>t
  <2> HIDE DEF V
  <2>6. NoOlder(disk, new) /\ NoOlder(promised, new) /\ NoOlder(found, new)
    BY <1>t, <1>o, <2>2, Transitive
  <2>7. \A k \in DOMAIN W : NoOlder(W[k].json, new)
    BY <1>t, <1>o, <2>2, Transitive
  <2>8. ASSUME NEW k \in DOMAIN V
        PROVE  /\ NoOlder(disk, V[k].json)
               /\ NoOlder(V[k].json, new)
               /\ \A i \in V[k].by.ids : V[k].by.no <= V[k].json[i]
               /\ \A m \in DOMAIN V : k < m => NoOlder(V[k].json, V[m].json)
    <3>1. CASE k = Len(W) + 1
      BY <2>3, <2>4, <2>5, <2>6, <2>c, <3>1
    <3>2. CASE k \in DOMAIN W
      <4>1. ASSUME NEW m \in DOMAIN V, k < m PROVE NoOlder(V[k].json, V[m].json)
        <5>1. CASE m \in DOMAIN W
          BY <1>o, <2>5, <3>2, <4>1, <5>1
        <5>2. CASE m = Len(W) + 1
          BY <2>4, <2>5, <2>7, <3>2, <5>2
        <5> QED
          BY <2>5, <5>1, <5>2
      <4> QED
        BY <1>o, <2>5, <2>7, <3>2, <4>1
    <3> QED
      BY <2>5, <3>1, <3>2
  <2>9. InOrder'
    BY <2>1, <2>2, <2>6, <2>8 DEF InOrder
  <2>10. AwaitedIsDurable'
    BY <1>o, <2>1, <2>6 DEF AwaitedIsDurable
  <2> QED
    BY <1>r, <2>1, <2>9, <2>10 DEF Safe
<1>2. ASSUME W # << >> PROVE /\ Head(W) = W[1] /\ 1 \in DOMAIN W
                             /\ \A k \in DOMAIN Tail(W) : /\ k + 1 \in DOMAIN W
                                                          /\ Tail(W)[k] = W[k + 1]
                                                          /\ k \in Nat /\ 1 < k + 1
  BY <1>2, <1>t
<1>3. CASE Return
  <2> DEFINE new == W[1].json
             no == W[1].by.no
             V == Tail(W)
  <2>1. W # << >>
    BY <1>3 DEF Return
  <2>2. /\ store' = [cache |-> cache, disk |-> new, writes |-> V]
        /\ changes' = changes
        /\ promised' = [i \in Ids |-> IF i \in W[1].by.ids THEN no ELSE promised[i]]
        /\ found' = found
    BY <1>2, <1>3, <2>1 DEF Return, Landed
  <2>3. /\ \A k \in DOMAIN V : /\ k + 1 \in DOMAIN W /\ V[k] = W[k + 1]
                               /\ k \in Nat /\ 1 < k + 1
        /\ 1 \in DOMAIN W
    BY <1>2, <2>1
  <2> HIDE DEF V
  <2>4. /\ new \in Content /\ NoOlder(disk, new) /\ NoOlder(new, cache)
        /\ no \in Nat /\ \A i \in W[1].by.ids : no <= new[i]
    BY <1>t, <1>o, <2>3
  <2>5. \A k \in DOMAIN V : /\ NoOlder(new, V[k].json) /\ NoOlder(V[k].json, cache)
                            /\ \A i \in V[k].by.ids : V[k].by.no <= V[k].json[i]
    BY <1>o, <2>3
  <2>6. \A k, m \in DOMAIN V : k < m => NoOlder(V[k].json, V[m].json)
    <3> SUFFICES ASSUME NEW k \in DOMAIN V, NEW m \in DOMAIN V, k < m
                 PROVE  NoOlder(V[k].json, V[m].json)
      OBVIOUS
    <3>1. k + 1 < m + 1
      BY <2>3
    <3> QED
      BY <1>o, <2>3, <3>1
  <2>7. NoOlder(promised', new)
    <3>1. NoOlder(promised, new)
      BY <1>t, <1>o, <2>4, Transitive
    <3> HIDE DEF new, no
    <3> QED
      BY <2>2, <2>4, <3>1 DEF NoOlder, Content
  <2>8. NoOlder(promised', cache)
    <3>1. promised' \in Content
      BY <1>t, <2>2, <2>4 DEF Content
    <3> QED
      BY <1>t, <2>4, <2>7, <3>1, Transitive
  <2>9. InOrder'
    BY <1>o, <2>2, <2>4, <2>5, <2>6 DEF InOrder
  <2>10. AwaitedIsDurable'
    BY <1>o, <2>2, <2>7, <2>8 DEF AwaitedIsDurable
  <2> QED
    BY <2>2, <2>4, <2>9, <2>10 DEF Safe
<1>4. CASE Fail
  <2> DEFINE V == Tail(W)
  <2>1. W # << >>
    BY <1>4 DEF Fail
  <2>2. /\ store' = [cache |-> cache, disk |-> disk, writes |-> V]
        /\ changes' = changes /\ promised' = promised /\ found' = found
    BY <1>4 DEF Fail, Rejected
  <2>3. \A k \in DOMAIN V : /\ k + 1 \in DOMAIN W /\ V[k] = W[k + 1]
                            /\ k \in Nat /\ 1 < k + 1
    BY <1>2, <2>1
  <2> HIDE DEF V
  <2>4. \A k, m \in DOMAIN V : k < m => NoOlder(V[k].json, V[m].json)
    <3> SUFFICES ASSUME NEW k \in DOMAIN V, NEW m \in DOMAIN V, k < m
                 PROVE  NoOlder(V[k].json, V[m].json)
      OBVIOUS
    <3>1. k + 1 < m + 1
      BY <2>3
    <3> QED
      BY <1>o, <2>3, <3>1
  <2>5. InOrder'
    BY <1>o, <2>2, <2>3, <2>4 DEF InOrder
  <2>6. AwaitedIsDurable'
    BY <1>o, <2>2 DEF AwaitedIsDurable
  <2> QED
    BY <1>r, <2>2, <2>5, <2>6 DEF Safe
<1>5. CASE Restart
  <2>1. /\ store' = [cache |-> disk, disk |-> disk, writes |-> << >>]
        /\ changes' = changes /\ promised' = promised
        /\ found' = [i \in Ids |-> 0]
    BY <1>5 DEF Restart, Reloaded, Loaded
  <2>2. \A i \in Ids : disk[i] <= changes
    BY <1>t, <1>o DEF NoOlder, Content
  <2>3. InOrder'
    BY <1>r, <2>1, <2>2 DEF InOrder
  <2>f. NoOlder(found', disk)
    BY <1>t, <2>1 DEF NoOlder, Content
  <2>4. AwaitedIsDurable'
    BY <1>o, <2>1, <2>f DEF AwaitedIsDurable
  <2> QED
    BY <1>r, <2>1, <2>3, <2>4 DEF Safe
<1>6. CASE UNCHANGED vars
  BY <1>6, <1>r DEF vars, Safe, InOrder, AwaitedIsDurable, NoOlder
<1>7. ASSUME NEW i \in Ids, DeleteAbsent(i) PROVE Safe' /\ NoOlder(disk, store'.disk)
  <2>1. /\ store' = store /\ changes' = changes /\ promised' = promised
        /\ found' = [found EXCEPT ![i] = cache[i]]
    BY <1>7 DEF DeleteAbsent
  <2>2. NoOlder(found', cache)
    BY <1>t, <1>o, <2>1 DEF NoOlder, Content
  <2>3. AwaitedIsDurable'
    BY <1>o, <2>1, <2>2 DEF AwaitedIsDurable
  <2>4. InOrder'
    BY <2>1 DEF Safe, InOrder
  <2> QED BY <1>r, <2>1, <2>3, <2>4 DEF Safe
<1> QED
  BY <1>1, <1>3, <1>4, <1>5, <1>6, <1>7 DEF Next

\* What a caller has awaited the write of survives every restart and every other
\* caller, for any number of callers, items, overlapping writes and failures;
\* what a delete only found gone stays gone until the next start.
THEOREM AwaitedSurvives == Spec => []AwaitedIsDurable
<1>1. Init => TypeOK /\ Safe
  BY StorageTypeInit, SafeInit
<1>2. TypeOK /\ Safe /\ [Next]_vars => (TypeOK /\ Safe)'
  BY StorageTypeStep, SafeStep
<1>3. Safe => AwaitedIsDurable
  BY DEF Safe
<1> QED
  BY <1>1, <1>2, <1>3, PTL DEF Spec

\* The saved collection never goes back to an older one.
THEOREM DiskIsMonotone == Spec => DiskNeverGoesBack
<1>1. Init => TypeOK /\ Safe
  BY StorageTypeInit, SafeInit
<1>2. TypeOK /\ Safe /\ [Next]_vars => (TypeOK /\ Safe)'
  BY StorageTypeStep, SafeStep
<1>3. TypeOK /\ Safe /\ [Next]_vars => [NoOlder(store.disk, store'.disk)]_vars
  BY SafeStep
<1> QED
  BY <1>1, <1>2, <1>3, PTL DEF Spec, DiskNeverGoesBack

----------------------------------------------------------------------------
(* The life of the adapter: any ports, and death at any await             *)

\* Nothing listens before the server is bound, and a scan begins and ends
\* without a paired device, on a port above the configured one.  A running
\* server that was not moved listens on the port it was configured for, and
\* that is the port of the instance object.  The port of a paired device is
\* the one in the instance object and the one the process was started with.
PortInv ==
    /\ "port" \in DOMAIN native /\ "port" \in DOMAIN config
    /\ native.port \in Ports /\ config.port \in Ports
    /\ listening \in Ports \cup {0} /\ pairedOn \in Ports \cup {0}
    /\ listening # 0 => phase \in {"savingPort", "running"}
    /\ phase = "scanning" => attempt \in Nat /\ attempt > config.port
    /\ phase = "savingPort" => listening > config.port
    /\ phase \in {"scanning", "savingPort"} => pairedOn = 0
    /\ phase = "off" \/ native.port = config.port \/ (phase = "running" /\ listening # config.port)
    /\ pairedOn # 0 =>
          /\ native.port = pairedOn
          /\ phase # "off" => config.port = pairedOn
          /\ phase = "running" => listening = config.port

\* Nothing is bound and no device is paired yet.
LEMMA PortInit == LifecycleInit => PortInv
  BY LifecycleAssumption DEF LifecycleInit, PortInv

\* Steps that leave the ports alone and go from one phase to another in which
\* nothing listens yet.
LEMMA QuietStep ==
    ASSUME PortInv, phase # "off", listening = 0, pairedOn' = pairedOn, listening' = 0,
           phase' \in {"savingSecret", "savingKey", "seeding", "listening", "terminated"},
           "port" \in DOMAIN native', "port" \in DOMAIN config',
           native'.port = native.port, config'.port = config.port,
           phase # "running"
    PROVE  PortInv'
  BY DEF PortInv

\* Steps that change none of it.
LEMMA OtherStep ==
    ASSUME PortInv, UNCHANGED <<phase, attempt, config, listening, pairedOn>>,
           "port" \in DOMAIN native', native'.port = native.port
    PROVE  PortInv'
  BY DEF PortInv

\* Every step of the life of the process keeps the ports in agreement.
LEMMA PortStep == PortInv /\ [LifecycleNext]_lifeVars => PortInv'
<1> SUFFICES ASSUME PortInv, [LifecycleNext]_lifeVars PROVE PortInv'
  OBVIOUS
<1>0. Ports \subseteq Nat /\ 0 \notin Ports
  BY LifecycleAssumption
<1>1. CASE Boot
  BY <1>1 DEF Boot, PortInv
<1>2. CASE Migrated
  <2>1. "port" \in DOMAIN config' /\ config'.port = config.port
    BY <1>2 DEF Migrated, PortInv
  <2> QED BY <1>2, <2>1, QuietStep DEF Migrated, PortInv
<1>3. CASE SecretSaved
  <2>1. "port" \in DOMAIN native' /\ native'.port = native.port
    BY <1>3 DEF SecretSaved, PortInv
  <2> QED BY <1>3, <2>1, QuietStep DEF SecretSaved, PortInv
<1>4. CASE KeySaved \/ RoleSeeded
  <2>1. "port" \in DOMAIN native' /\ native'.port = native.port
    BY <1>4 DEF KeySaved, RoleSeeded, PortInv
  <2>2. phase' \in {"seeding", "listening"}
    BY <1>4 DEF KeySaved, RoleSeeded, SeedFrom
  <2> QED BY <1>4, <2>1, <2>2, QuietStep DEF KeySaved, RoleSeeded, PortInv
<1>5. CASE Listens
  BY <1>0, <1>5 DEF Listens, Bind, PortInv
<1>6. CASE PortBusy
  <2>1. /\ phase = "listening" /\ UNCHANGED <<native, config, listening, pairedOn>>
        /\ \/ phase' = "listening" \/ phase' = "terminated"
           \/ pairedOn = 0 /\ phase' = "scanning" /\ attempt' = config.port + 1
    BY <1>6 DEF PortBusy, AttemptsLeft, MayScan
  <2>2. config.port \in Nat /\ listening = 0
    BY <1>0, <2>1 DEF PortInv
  <2> QED BY <2>1, <2>2 DEF PortInv
<1>7. CASE CandidateListens
  <2>1. /\ phase = "scanning" /\ attempt \in Ports /\ phase' = "savingPort" /\ listening' = attempt
        /\ UNCHANGED <<native, config, attempt, pairedOn>>
    BY <1>7 DEF CandidateListens, Bind
  <2> QED BY <1>0, <2>1 DEF PortInv
<1>8. CASE CandidateBusy
  <2>1. /\ phase = "scanning" /\ UNCHANGED <<native, config, listening, pairedOn>>
        /\ \/ attempt' = attempt + 1 /\ phase' = phase
           \/ phase' = "terminated"
    BY <1>8 DEF CandidateBusy
  <2>2. attempt \in Nat /\ config.port \in Nat /\ attempt > config.port
    BY <1>0, <2>1 DEF PortInv
  <2> QED BY <2>1, <2>2 DEF PortInv
<1>9. CASE PortSaved
  BY <1>0, <1>9 DEF PortSaved, PortInv
<1>10. CASE DevicePairs
  <2>1. /\ listening = config.port /\ pairedOn' = listening
        /\ UNCHANGED <<native, config, phase, attempt, listening>>
    BY <1>10 DEF DevicePairs
  <2>2. config.port \in Nat /\ listening # 0
    BY <1>0, <2>1 DEF PortInv
  <2>3. phase = "running"
    BY <2>1, <2>2 DEF PortInv
  <2> QED BY <2>1, <2>2, <2>3 DEF PortInv
<1>11. CASE LastDeviceDeleted
  BY <1>11 DEF LastDeviceDeleted, PortInv
<1>12. CASE RegeneratePortalKey \/ RotationTold \/ RotationRejected
  BY <1>12, OtherStep DEF RegeneratePortalKey, RotationTold, RotationRejected, PortInv
<1>19. CASE RoleSaved \/ RoleRejected
  BY <1>19, OtherStep DEF RoleSaved, RoleRejected, PortInv
<1>13. CASE RotationSaved
  BY <1>13, OtherStep DEF RotationSaved, PortInv
<1>14. ASSUME NEW r \in RoleIds, NameRole(r) \/ DeleteRole(r) PROVE PortInv'
  BY <1>14, OtherStep DEF NameRole, DeleteRole, PortInv
<1>15. CASE Dies
  BY <1>0, <1>15 DEF Dies, PortInv
<1>16. ASSUME NEW p \in Ports, PortTaken(p) \/ PortFreed(p) PROVE PortInv'
  BY <1>16, OtherStep DEF PortTaken, PortFreed, PortInv
<1>17. ASSUME NEW p \in Ports, PortConfigured(p) PROVE PortInv'
  BY <1>0, <1>17 DEF PortConfigured, PortInv
<1>18. CASE UNCHANGED lifeVars
  BY <1>18, OtherStep DEF lifeVars, PortInv
<1> QED
  BY <1>1, <1>2, <1>3, <1>4, <1>5, <1>6, <1>7, <1>8, <1>9, <1>10, <1>11, <1>12, <1>13, <1>14,
     <1>15, <1>16, <1>17, <1>18, <1>19 DEF LifecycleNext

\* As long as a device is paired, the server listens on the port it was paired
\* through, or not at all.
THEOREM PortStays == LifecycleSpec => []PortOfDeviceStays
<1>1. PortInv => PortOfDeviceStays
  BY DEF PortInv, PortOfDeviceStays
<1> QED BY <1>1, PortInit, PortStep, PTL DEF LifecycleSpec
----------------------------------------------------------------------------
\* Before the key is saved no rotation can be asked for, and the start takes
\* up the key an administrator was told.  From then on the gate takes the key
\* of the last rotation whose write is under way, and that of the instance
\* object when there is none.
Early == {"off", "migrating", "savingSecret", "savingKey"}

KeyInv ==
    /\ "portalKey" \in DOMAIN native /\ "portalKey" \in DOMAIN config
    /\ used \in [boots : Nat, secrets : Nat, keys : Nat, turns : Nat]
    /\ portalKey \in Nat /\ config.portalKey \in Nat /\ native.portalKey \in Nat
    /\ rotations \in Seq(Nat) /\ auditing \in Nat
    /\ lostRotation \in BOOLEAN
    /\ phase \in Early => rotations = <<>> /\ auditing = 0
    /\ ~lostRotation =>
          /\ told # 0 /\ rotations = <<>> /\ auditing = 0 => native.portalKey = told
          /\ phase \in {"migrating", "savingSecret"} => config.portalKey = native.portalKey
          /\ phase = "savingKey" /\ told # 0 => portalKey = told
          /\ phase \notin Early =>
                portalKey = IF rotations = <<>> THEN native.portalKey ELSE rotations[Len(rotations)]

\* There is no key yet, and nobody was told one.
LEMMA KeyInit == LifecycleInit => KeyInv
<1> SUFFICES ASSUME LifecycleInit PROVE KeyInv
  OBVIOUS
<1>1. lostRotation \in BOOLEAN
  BY Zenon DEF LifecycleInit
<1>2. /\ native = [jwtSecret |-> 0, portalKey |-> 0, port |-> FirstPort] /\ config = native
      /\ used = [boots |-> 0, secrets |-> 0, keys |-> 0, turns |-> 0]
      /\ portalKey = 0 /\ rotations = <<>> /\ auditing = 0 /\ phase = "off" /\ told = 0
  BY DEF LifecycleInit
<1> QED BY <1>1, <1>2 DEF KeyInv, Early

\* Steps that leave the keys alone, and do not start over.
LEMMA KeyQuietStep ==
    ASSUME KeyInv, UNCHANGED <<portalKey, rotations, auditing, told, lostRotation>>,
           "portalKey" \in DOMAIN native', "portalKey" \in DOMAIN config',
           native'.portalKey = native.portalKey, config'.portalKey = config.portalKey,
           used' \in [boots : Nat, secrets : Nat, keys : Nat, turns : Nat],
           phase' = phase \/ (phase \notin Early /\ phase' \notin Early)
              \/ (phase = "migrating" /\ phase' = "savingSecret")
    PROVE  KeyInv'
  BY DEF KeyInv, Early

\* The write that returns is the oldest; the last one stays the last.
LEMMA OldestGoes ==
    ASSUME NEW q \in Seq(Nat), q # <<>>
    PROVE  /\ Tail(q) \in Seq(Nat) /\ Head(q) \in Nat
           /\ Tail(q) = <<>> => Head(q) = q[Len(q)]
           /\ Tail(q) # <<>> => Tail(q)[Len(Tail(q))] = q[Len(q)]
<1>1. /\ Head(q) \in Nat /\ Tail(q) \in Seq(Nat) /\ Len(Tail(q)) = Len(q) - 1
      /\ \A i \in 1 .. Len(Tail(q)) : Tail(q)[i] = q[i + 1]
  BY HeadTailProperties
<1>2. Head(q) = q[1]
  OBVIOUS
<1>5. Len(q) \in Nat
  BY LenProperties
<1>3. Tail(q) = <<>> => Len(Tail(q)) = 0
  BY EmptySeq
<1>4. Tail(q) # <<>> => Len(Tail(q)) \in 1 .. Len(Tail(q))
  BY <1>1, EmptySeq
<1> QED BY <1>1, <1>2, <1>3, <1>4, <1>5

\* Every step of the life of the process keeps the keys in agreement.
LEMMA KeyStep == KeyInv /\ [LifecycleNext]_lifeVars => KeyInv'
<1> SUFFICES ASSUME KeyInv, [LifecycleNext]_lifeVars PROVE KeyInv'
  OBVIOUS
<1>1. CASE Boot
  BY <1>1 DEF Boot, Use, KeyInv, Early
<1>2. CASE Migrated
  <2>1. /\ "portalKey" \in DOMAIN config' /\ config'.portalKey = config.portalKey
        /\ used' \in [boots : Nat, secrets : Nat, keys : Nat, turns : Nat]
    BY <1>2 DEF Migrated, KeyInv
  <2> QED BY <1>2, <2>1, KeyQuietStep DEF Migrated, KeyInv
<1>3. CASE SecretSaved
  <2>1. /\ phase = "savingSecret" /\ phase' = "savingKey"
        /\ "portalKey" \in DOMAIN native' /\ native'.portalKey = native.portalKey
        /\ used' \in [boots : Nat, secrets : Nat, keys : Nat, turns : Nat]
        /\ portalKey' = IF config.portalKey = 0 THEN used.keys + 1 ELSE config.portalKey
        /\ UNCHANGED <<config, rotations, auditing, told, lostRotation>>
    BY <1>3 DEF SecretSaved, KeyInv
  <2> QED BY <2>1 DEF KeyInv, Early
<1>4. CASE KeySaved
  <2>1. /\ phase = "savingKey" /\ phase' \notin Early
        /\ "portalKey" \in DOMAIN native' /\ native'.portalKey = portalKey
        /\ UNCHANGED <<config, used, portalKey, rotations, auditing, told, lostRotation>>
    BY <1>4 DEF KeySaved, SeedFrom, KeyInv, Early
  <2> QED BY <2>1 DEF KeyInv, Early
<1>5. CASE RoleSeeded
  <2>1. phase \notin Early /\ phase' \notin Early
    BY <1>5 DEF RoleSeeded, SeedFrom, Early
  <2> QED BY <1>5, <2>1, KeyQuietStep DEF RoleSeeded, KeyInv
<1>6. CASE Listens \/ PortBusy \/ CandidateListens \/ CandidateBusy
  <2>1. phase \notin Early /\ phase' \notin Early
    BY <1>6 DEF Listens, PortBusy, CandidateListens, CandidateBusy, Early
  <2>2. UNCHANGED <<native, config, portalKey, rotations, auditing, told, lostRotation, used>>
    BY <1>6 DEF Listens, PortBusy, CandidateListens, CandidateBusy
  <2> QED BY <2>1, <2>2, KeyQuietStep DEF KeyInv
<1>7. CASE PortSaved
  <2>1. "portalKey" \in DOMAIN native' /\ native'.portalKey = native.portalKey
    BY <1>7 DEF PortSaved, KeyInv
  <2>2. phase \notin Early /\ phase' \notin Early
    BY <1>7 DEF PortSaved, Early
  <2> QED BY <1>7, <2>1, <2>2, KeyQuietStep DEF PortSaved, KeyInv
<1>8. CASE DevicePairs \/ LastDeviceDeleted
  BY <1>8, KeyQuietStep DEF DevicePairs, LastDeviceDeleted, KeyInv
<1>9. CASE RegeneratePortalKey
  <2>1. /\ phase' = phase /\ phase \notin Early
        /\ portalKey' = used.keys + 1 /\ rotations' = Append(rotations, portalKey')
        /\ used' \in [boots : Nat, secrets : Nat, keys : Nat, turns : Nat]
        /\ UNCHANGED <<native, config, auditing, told, lostRotation>>
    BY <1>9 DEF RegeneratePortalKey, Use, Up, Early, KeyInv
  <2>2. portalKey' \in Nat
    BY <2>1 DEF KeyInv
  <2>3. /\ rotations' \in Seq(Nat) /\ rotations' # <<>>
        /\ rotations'[Len(rotations')] = portalKey'
    BY <2>1, <2>2 DEF KeyInv
  <2> QED BY <2>1, <2>2, <2>3 DEF KeyInv, Early
<1>10. CASE RotationSaved
  <2>1. /\ rotations # <<>> /\ rotations' = Tail(rotations) /\ auditing' = auditing + 1
        /\ "portalKey" \in DOMAIN native' /\ native'.portalKey = Head(rotations)
        /\ UNCHANGED <<config, used, phase, portalKey, told, lostRotation>>
    BY <1>10 DEF RotationSaved, KeyInv
  <2>2. rotations \in Seq(Nat) /\ auditing \in Nat /\ phase \notin Early
    BY <2>1 DEF KeyInv
  <2>3. /\ rotations' \in Seq(Nat) /\ Head(rotations) \in Nat
        /\ rotations' = <<>> => Head(rotations) = rotations[Len(rotations)]
        /\ rotations' # <<>> => rotations'[Len(rotations')] = rotations[Len(rotations)]
    BY <2>1, <2>2, OldestGoes
  <2>4. auditing' \in Nat /\ auditing' # 0
    BY <2>1, <2>2
  <2> QED BY <2>1, <2>2, <2>3, <2>4 DEF KeyInv, Early
<1>18. CASE RotationTold
  <2>1. /\ auditing > 0 /\ auditing' = auditing - 1 /\ told' = portalKey
        /\ UNCHANGED <<native, config, used, phase, portalKey, rotations, lostRotation>>
    BY <1>18 DEF RotationTold
  <2>2. auditing' \in Nat /\ phase \notin Early
    BY <2>1 DEF KeyInv
  <2> QED BY <2>1, <2>2 DEF KeyInv, Early
<1>11. CASE RotationRejected
  <2>1. /\ \/ rotations # <<>> /\ rotations' = Tail(rotations) /\ UNCHANGED auditing
           \/ auditing > 0 /\ auditing' = auditing - 1 /\ UNCHANGED rotations
        /\ UNCHANGED <<native, config, phase, portalKey, told>>
    BY <1>11 DEF RotationRejected
  <2>4. used' \in [boots : Nat, secrets : Nat, keys : Nat, turns : Nat]
    <3>1. used' = [used EXCEPT !.turns = @ + 1]
      BY <1>11 DEF RotationRejected, Use
    <3> QED BY <3>1 DEF KeyInv
  <2>3. lostRotation' /\ lostRotation' \in BOOLEAN
    BY <1>11, Zenon DEF RotationRejected
  <2>2. rotations' \in Seq(Nat)
    BY <2>1, OldestGoes DEF KeyInv
  <2>5. auditing' \in Nat /\ phase \notin Early
    BY <2>1 DEF KeyInv
  <2> QED BY <2>1, <2>2, <2>3, <2>4, <2>5 DEF KeyInv
<1>12. ASSUME NEW r \in RoleIds, NameRole(r) \/ DeleteRole(r) PROVE KeyInv'
  BY <1>12, KeyQuietStep DEF NameRole, DeleteRole, Use, KeyInv
<1>13. CASE RoleSaved
  BY <1>13, KeyQuietStep DEF RoleSaved, KeyInv
<1>19. CASE RoleRejected
  BY <1>19, KeyQuietStep DEF RoleRejected, KeyInv
<1>14. CASE Dies
  <2>1. /\ phase' = "off" /\ portalKey' = 0 /\ rotations' = <<>> /\ auditing' = 0
        /\ UNCHANGED <<native, config, told, used>>
    BY <1>14 DEF Dies
  <2>2. lostRotation' \in BOOLEAN /\ (~lostRotation' => ~lostRotation /\ rotations = <<>> /\ auditing = 0)
    BY <1>14 DEF Dies, KeyInv
  <2> QED BY <2>1, <2>2 DEF KeyInv, Early
<1>15. ASSUME NEW p \in Ports, PortTaken(p) \/ PortFreed(p) PROVE KeyInv'
  BY <1>15, KeyQuietStep DEF PortTaken, PortFreed, Use, KeyInv
<1>16. ASSUME NEW p \in Ports, PortConfigured(p) PROVE KeyInv'
  <2>1. "portalKey" \in DOMAIN native' /\ native'.portalKey = native.portalKey
    BY <1>16 DEF PortConfigured, KeyInv
  <2> QED BY <1>16, <2>1, KeyQuietStep DEF PortConfigured, Use, KeyInv
<1>17. CASE UNCHANGED lifeVars
  BY <1>17, KeyQuietStep DEF lifeVars, KeyInv
<1> QED
  BY <1>1, <1>2, <1>3, <1>4, <1>5, <1>6, <1>7, <1>8, <1>9, <1>10, <1>11, <1>12, <1>13, <1>14,
     <1>15, <1>16, <1>17, <1>18, <1>19 DEF LifecycleNext

\* regeneratePortalKey: the key an administrator was told last is the one the
\* gate takes, and the one it takes after the next start.
THEOREM ToldKeyStays == LifecycleSpec => []ToldKeyIsDurable
<1>1. KeyInv => ToldKeyIsDurable
  BY DEF KeyInv, ToldKeyIsDurable, Up, Early
<1> QED BY <1>1, KeyInit, KeyStep, PTL DEF LifecycleSpec

----------------------------------------------------------------------------
(* What the first start made: any number of starts, roles and cuts         *)

\* The secret a reachable server signs with is the one of the instance object.
\* A start takes that one up, or makes one and saves it before it goes on.
SecretInv ==
    /\ "jwtSecret" \in DOMAIN native /\ "jwtSecret" \in DOMAIN config
    /\ used \in [boots : Nat, secrets : Nat, keys : Nat, turns : Nat]
    /\ signedWith \subseteq {native.jwtSecret}
    /\ signedWith # {} => native.jwtSecret # 0
    /\ phase = "migrating" => config.jwtSecret = native.jwtSecret
    /\ phase = "savingSecret" =>
          config.jwtSecret # 0 /\ (native.jwtSecret # 0 => config.jwtSecret = native.jwtSecret)
    /\ phase \notin {"off", "migrating", "savingSecret"} =>
          config.jwtSecret = native.jwtSecret /\ native.jwtSecret # 0

\* While the adapter starts, at most the role that is being put is not saved
\* yet, and it was missing.  While it is up, every built-in role is there, and
\* every role that was named bears its name in memory, but for the one an
\* administrator is changing.  What was named is saved, so that no start finds
\* less.
OnlyUnsaved(by, r) ==
    /\ roles.writes = <<[by |-> by, json |-> roles.cache]>>
    /\ \A q \in RoleIds : q # r => roles.cache[q] = roles.disk[q]

Changing(r) ==
    /\ roles.writes = <<[by |-> r, json |-> roles.cache]>>
    /\ \A q \in RoleIds : q # r /\ named[q] = "given" => roles.cache[q] = "given"

AllNamed ==
    /\ roles.writes = <<>>
    /\ \A q \in RoleIds : named[q] = "given" => roles.cache[q] = "given"

RolesInv ==
    /\ roles.cache \in [RoleIds -> Names] /\ roles.disk \in [RoleIds -> Names]
    /\ named \in [RoleIds -> Names]
    /\ \A r \in RoleIds : named[r] = "given" => roles.disk[r] = "given"
    /\ phase \in {"migrating", "savingSecret", "savingKey"} =>
          roles.writes = <<>> /\ roles.cache = roles.disk
    /\ phase = "seeding" =>
          /\ attempt \in DOMAIN BuiltInRoles
          /\ roles.disk[BuiltInRoles[attempt]] = "none"
          /\ OnlyUnsaved("onReady", BuiltInRoles[attempt])
          /\ \A i \in DOMAIN BuiltInRoles : i <= attempt => roles.cache[BuiltInRoles[i]] # "none"
    /\ Up =>
          /\ \A i \in DOMAIN BuiltInRoles : roles.cache[BuiltInRoles[i]] # "none"
          /\ AllNamed \/ \E r \in RoleIds : Changing(r)

\* No server has signed anything yet.
LEMMA SecretInit == LifecycleInit => SecretInv
  BY DEF LifecycleInit, SecretInv

\* Steps that leave the secret alone, and do not start over.
LEMMA SecretQuietStep ==
    ASSUME SecretInv, UNCHANGED signedWith,
           "jwtSecret" \in DOMAIN native', "jwtSecret" \in DOMAIN config',
           native'.jwtSecret = native.jwtSecret, config'.jwtSecret = config.jwtSecret,
           used' \in [boots : Nat, secrets : Nat, keys : Nat, turns : Nat],
           \/ phase' = phase \/ phase' = "off"
           \/ phase \notin {"off", "migrating", "savingSecret"}
              /\ phase' \notin {"off", "migrating", "savingSecret"}
    PROVE  SecretInv'
  BY DEF SecretInv

\* A server that can be reached signs with the secret that is saved.
LEMMA BindStep ==
    ASSUME SecretInv, NEW p, Bind(p), UNCHANGED <<native, config, used>>,
           phase \notin {"off", "migrating", "savingSecret"},
           phase' \notin {"off", "migrating", "savingSecret"}
    PROVE  SecretInv'
<1>1. signedWith' = signedWith \cup {config.jwtSecret} /\ config.jwtSecret = native.jwtSecret
  BY DEF Bind, SecretInv
<1>2. signedWith' \subseteq {native.jwtSecret}
  BY <1>1 DEF SecretInv
<1> QED BY <1>2 DEF SecretInv

\* Every step of the life of the process keeps the secret.
LEMMA SecretStep == SecretInv /\ [LifecycleNext]_lifeVars => SecretInv'
<1> SUFFICES ASSUME SecretInv, [LifecycleNext]_lifeVars PROVE SecretInv'
  OBVIOUS
<1>1. CASE Boot
  <2>1. /\ phase = "off" /\ config' = native /\ phase' = "migrating"
        /\ used' = [used EXCEPT !["boots"] = @ + 1]
        /\ UNCHANGED <<native, signedWith>>
    BY <1>1 DEF Boot, Use
  <2>2. used' \in [boots : Nat, secrets : Nat, keys : Nat, turns : Nat]
    BY <2>1 DEF SecretInv
  <2> QED BY <2>1, <2>2 DEF SecretInv
<1>2. CASE Migrated
  <2>1. /\ phase = "migrating" /\ phase' = "savingSecret" /\ UNCHANGED <<native, signedWith>>
    BY <1>2 DEF Migrated
  <2>2. used' \in [boots : Nat, secrets : Nat, keys : Nat, turns : Nat] /\ "jwtSecret" \in DOMAIN config'
    BY <1>2 DEF Migrated, SecretInv
  <2>3. CASE config.jwtSecret = 0
    <3>1. used' = [used EXCEPT !.secrets = @ + 1]
      BY <1>2, <2>3 DEF Migrated
    <3>2. used'.secrets # 0
      BY <3>1 DEF SecretInv
    <3>3. config'.jwtSecret = used'.secrets
      BY <1>2, <2>3 DEF Migrated, SecretInv
    <3> QED BY <2>1, <2>2, <2>3, <3>2, <3>3 DEF SecretInv
  <2>4. CASE config.jwtSecret # 0
    <3>1. config' = config
      BY <1>2, <2>4 DEF Migrated
    <3> QED BY <2>1, <2>2, <2>4, <3>1 DEF SecretInv
  <2> QED BY <2>3, <2>4
<1>3. CASE SecretSaved
  <2>1. /\ phase = "savingSecret" /\ phase' = "savingKey" /\ UNCHANGED <<config, signedWith>>
        /\ "jwtSecret" \in DOMAIN native' /\ native'.jwtSecret = config.jwtSecret
        /\ used' \in [boots : Nat, secrets : Nat, keys : Nat, turns : Nat]
    BY <1>3 DEF SecretSaved, SecretInv
  <2> QED BY <2>1 DEF SecretInv
<1>4. CASE KeySaved
  <2>1. /\ phase = "savingKey" /\ phase' \in {"seeding", "listening"}
        /\ "jwtSecret" \in DOMAIN native' /\ native'.jwtSecret = native.jwtSecret
    BY <1>4 DEF KeySaved, SeedFrom, SecretInv
  <2> QED BY <1>4, <2>1, SecretQuietStep DEF KeySaved, SecretInv
<1>5. CASE RoleSeeded
  <2>1. phase = "seeding" /\ phase' \in {"seeding", "listening"}
    BY <1>5 DEF RoleSeeded, SeedFrom
  <2> QED BY <1>5, <2>1, SecretQuietStep DEF RoleSeeded, SecretInv
<1>6. CASE Listens
  BY <1>6, BindStep DEF Listens
<1>7. CASE CandidateListens
  BY <1>7, BindStep DEF CandidateListens
<1>8. CASE PortBusy \/ CandidateBusy
  <2>1. /\ phase \in {"listening", "scanning"} /\ phase' \in {"listening", "scanning", "terminated"}
        /\ UNCHANGED <<native, config, signedWith, used>>
    BY <1>8 DEF PortBusy, CandidateBusy
  <2> QED BY <2>1, SecretQuietStep DEF SecretInv
<1>9. CASE PortSaved
  <2>1. "jwtSecret" \in DOMAIN native' /\ native'.jwtSecret = native.jwtSecret
    BY <1>9 DEF PortSaved, SecretInv
  <2> QED BY <1>9, <2>1, SecretQuietStep DEF PortSaved, SecretInv
<1>10. CASE DevicePairs \/ LastDeviceDeleted \/ RoleSaved \/ RotationTold
  BY <1>10, SecretQuietStep DEF DevicePairs, LastDeviceDeleted, RoleSaved, RotationTold, SecretInv
<1>19. CASE RoleRejected
  BY <1>19, SecretQuietStep DEF RoleRejected, SecretInv
<1>11. CASE RegeneratePortalKey
  BY <1>11, SecretQuietStep DEF RegeneratePortalKey, Use, SecretInv
<1>12. CASE RotationSaved
  <2>1. "jwtSecret" \in DOMAIN native' /\ native'.jwtSecret = native.jwtSecret
    BY <1>12 DEF RotationSaved, SecretInv
  <2> QED BY <1>12, <2>1, SecretQuietStep DEF RotationSaved, SecretInv
<1>13. CASE RotationRejected
  BY <1>13, SecretQuietStep DEF RotationRejected, Use, SecretInv
<1>14. ASSUME NEW r \in RoleIds, NameRole(r) \/ DeleteRole(r) PROVE SecretInv'
  BY <1>14, SecretQuietStep DEF NameRole, DeleteRole, Use, SecretInv
<1>15. CASE Dies
  BY <1>15, SecretQuietStep DEF Dies, SecretInv
<1>16. ASSUME NEW p \in Ports, PortTaken(p) \/ PortFreed(p) PROVE SecretInv'
  BY <1>16, SecretQuietStep DEF PortTaken, PortFreed, Use, SecretInv
<1>17. ASSUME NEW p \in Ports, PortConfigured(p) PROVE SecretInv'
  <2>1. "jwtSecret" \in DOMAIN native' /\ native'.jwtSecret = native.jwtSecret
    BY <1>17 DEF PortConfigured, SecretInv
  <2> QED BY <1>17, <2>1, SecretQuietStep DEF PortConfigured, Use, SecretInv
<1>18. CASE UNCHANGED lifeVars
  BY <1>18, SecretQuietStep DEF lifeVars, SecretInv
<1> QED
  BY <1>1, <1>2, <1>3, <1>4, <1>5, <1>6, <1>7, <1>8, <1>9, <1>10, <1>11, <1>12, <1>13, <1>14,
     <1>15, <1>16, <1>17, <1>18, <1>19 DEF LifecycleNext

----------------------------------------------------------------------------
\* There are no roles yet.
LEMMA RolesInit == LifecycleInit => RolesInv
<1> SUFFICES ASSUME LifecycleInit PROVE RolesInv
  OBVIOUS
<1>1. /\ roles = Loaded([r \in RoleIds |-> "none"]) /\ phase = "off"
      /\ named = [r \in RoleIds |-> "none"]
  BY DEF LifecycleInit
<1>2. roles.cache = [r \in RoleIds |-> "none"] /\ roles.disk = [r \in RoleIds |-> "none"]
  BY <1>1 DEF Loaded
<1> QED BY <1>1, <1>2 DEF RolesInv, Names, Up

\* Steps that leave the roles alone and stay on one side of their seeding.
LEMMA RolesQuietStep ==
    ASSUME RolesInv, UNCHANGED <<roles, named>>,
           \/ phase' = phase /\ attempt' = attempt
           \/ Up /\ (Up' \/ phase' = "terminated")
           \/ phase \in {"migrating", "savingSecret"} /\ phase' \in {"savingSecret", "savingKey"}
    PROVE  RolesInv'
<1>1. CASE phase' = phase /\ attempt' = attempt
  <2>1. Up' = Up
    BY <1>1 DEF Up
  <2>2. /\ \A by, r : OnlyUnsaved(by, r) => OnlyUnsaved(by, r)'
        /\ \A r : Changing(r) => Changing(r)'
        /\ AllNamed => AllNamed'
    BY DEF OnlyUnsaved, Changing, AllNamed
  <2> QED BY <1>1, <2>1, <2>2 DEF RolesInv
<1>2. CASE Up /\ (Up' \/ phase' = "terminated")
  <2>1. phase' \notin {"migrating", "savingSecret", "savingKey", "seeding"}
    BY <1>2 DEF Up
  <2>2. /\ \A r : Changing(r) => Changing(r)'
        /\ AllNamed => AllNamed'
    BY DEF Changing, AllNamed
  <2> QED BY <1>2, <2>1, <2>2 DEF RolesInv
<1>3. CASE phase \in {"migrating", "savingSecret"} /\ phase' \in {"savingSecret", "savingKey"}
  <2>1. ~Up' /\ phase' # "seeding"
    BY <1>3 DEF Up
  <2> QED BY <1>3, <2>1 DEF RolesInv
<1> QED BY <1>1, <1>2, <1>3

\* A change of a saved collection is all there is to write.
LEMMA UpdateSaved ==
    ASSUME NEW kept, kept.writes = <<>>, NEW by, NEW content
    PROVE  /\ Update(kept, by, content).cache = content
           /\ Update(kept, by, content).disk = kept.disk
           /\ Update(kept, by, content).writes = <<[by |-> by, json |-> content]>>
  BY DEF Update

\* The only write that is under way lands: nothing is left of it.
LEMMA LandedOnly ==
    ASSUME NEW kept, NEW by, NEW content, kept.writes = <<[by |-> by, json |-> content]>>
    PROVE  /\ Landed(kept).cache = kept.cache /\ Landed(kept).disk = content
           /\ Landed(kept).writes = <<>>
           /\ Head(kept.writes).by = by
<1> DEFINE w == [by |-> by, json |-> content]
<1>1. Head(<<w>>) = w /\ Tail(<<w>>) = <<>>
  OBVIOUS
<1>2. Head(kept.writes) = w /\ Tail(kept.writes) = <<>>
  BY <1>1
<1> QED BY <1>2 DEF Landed

\* The only write that is under way is rejected: nothing is left of it.
LEMMA RejectedOnly ==
    ASSUME NEW kept, NEW by, NEW content, kept.writes = <<[by |-> by, json |-> content]>>
    PROVE  /\ Rejected(kept).cache = kept.cache /\ Rejected(kept).disk = kept.disk
           /\ Rejected(kept).writes = <<>>
           /\ Head(kept.writes).by = by
<1> DEFINE w == [by |-> by, json |-> content]
<1>1. Head(<<w>>) = w /\ Tail(<<w>>) = <<>>
  OBVIOUS
<1>2. Head(kept.writes) = w /\ Tail(kept.writes) = <<>>
  BY <1>1
<1> QED BY <1>2 DEF Rejected

\* Seeding goes on with everything saved: the next missing role is put, or
\* none is missing and the adapter goes up.
LEMMA SeedFromStep ==
    ASSUME roles.cache \in [RoleIds -> Names],
           NEW kept, kept.cache = roles.cache, kept.disk = roles.cache, kept.writes = <<>>,
           NEW first \in Nat,
           \A i \in DOMAIN BuiltInRoles : i < first => roles.cache[BuiltInRoles[i]] # "none",
           SeedFrom(kept, first), named' = named, named \in [RoleIds -> Names],
           \A r \in RoleIds : named[r] = "given" => roles.cache[r] = "given"
    PROVE  RolesInv'
<1> DEFINE todo == {i \in MissingRoles : i >= first}
           next == CHOOSE i \in todo : \A j \in todo : i <= j
<1>0. /\ todo \subseteq DOMAIN BuiltInRoles /\ DOMAIN BuiltInRoles \subseteq Nat
      /\ \A i \in DOMAIN BuiltInRoles : BuiltInRoles[i] \in RoleIds
      /\ \A i \in todo : roles.cache[BuiltInRoles[i]] = "none" /\ i >= first
      /\ \A i \in DOMAIN BuiltInRoles : i >= first /\ i \notin todo => roles.cache[BuiltInRoles[i]] # "none"
  BY LifecycleAssumption DEF MissingRoles, RoleIds
<1>1. CASE todo = {}
  <2>1. roles' = kept /\ phase' = "listening"
    BY <1>1 DEF SeedFrom
  <2>2. \A i \in DOMAIN BuiltInRoles : roles.cache[BuiltInRoles[i]] # "none"
    <3> SUFFICES ASSUME NEW i \in DOMAIN BuiltInRoles PROVE roles.cache[BuiltInRoles[i]] # "none"
      OBVIOUS
    <3>1. i \in Nat
      BY <1>0
    <3>2. CASE i < first
      BY <3>2
    <3>3. CASE i >= first
      BY <1>0, <1>1, <3>3
    <3> QED BY <3>1, <3>2, <3>3
  <2>3. /\ roles'.cache = roles.cache /\ roles'.disk = roles.cache /\ roles'.writes = <<>>
    BY <2>1
  <2>4. AllNamed'
    BY <2>3 DEF AllNamed
  <2>5. /\ roles'.cache \in [RoleIds -> Names] /\ roles'.disk \in [RoleIds -> Names]
        /\ named' \in [RoleIds -> Names]
        /\ \A r \in RoleIds : named'[r] = "given" => roles'.disk[r] = "given"
        /\ \A i \in DOMAIN BuiltInRoles : roles'.cache[BuiltInRoles[i]] # "none"
    BY <2>2, <2>3
  <2> QED BY <2>1, <2>4, <2>5 DEF RolesInv
<1>2. CASE todo # {}
  <2>1. next \in todo /\ \A j \in todo : next <= j
    <3>1. todo \in SUBSET Nat
      BY <1>0
    <3>2. \E i \in todo : \A j \in todo : i <= j
      BY <1>2, <3>1, LeastExists
    <3> QED BY <3>2
  <2>2. /\ roles' = Update(kept, "onReady", [kept.cache EXCEPT ![BuiltInRoles[next]] = "seeded"])
        /\ phase' = "seeding" /\ attempt' = next
    BY <1>2 DEF SeedFrom
  <2> HIDE DEF next, todo
  <2> DEFINE put == [kept.cache EXCEPT ![BuiltInRoles[next]] = "seeded"]
  <2>3. /\ roles'.cache = put /\ roles'.disk = roles.cache
        /\ roles'.writes = <<[by |-> "onReady", json |-> put]>>
    BY <2>2, UpdateSaved
  <2>4. /\ next \in DOMAIN BuiltInRoles /\ next \in Nat /\ BuiltInRoles[next] \in RoleIds
        /\ roles.cache[BuiltInRoles[next]] = "none"
    BY <1>0, <2>1
  <2>5. /\ put \in [RoleIds -> Names] /\ put[BuiltInRoles[next]] = "seeded"
        /\ \A q \in RoleIds : q # BuiltInRoles[next] => put[q] = roles.cache[q]
    BY <2>4 DEF Names
  <2> HIDE DEF put
  <2>6. \A i \in DOMAIN BuiltInRoles : i <= next => put[BuiltInRoles[i]] # "none"
    <3> SUFFICES ASSUME NEW i \in DOMAIN BuiltInRoles, i <= next PROVE put[BuiltInRoles[i]] # "none"
      OBVIOUS
    <3>1. i \in Nat /\ BuiltInRoles[i] \in RoleIds
      BY <1>0
    <3>2. CASE BuiltInRoles[i] = BuiltInRoles[next]
      BY <2>5, <3>2
    <3>3. CASE BuiltInRoles[i] # BuiltInRoles[next]
      <4>1. i # next
        BY <3>3
      <4>2. i \notin todo
        BY <2>1, <2>4, <3>1, <4>1
      <4>3. roles.cache[BuiltInRoles[i]] # "none"
        <5>1. CASE i < first
          BY <5>1
        <5>2. CASE i >= first
          BY <1>0, <4>2, <5>2
        <5> QED BY <3>1, <5>1, <5>2
      <4> QED BY <2>5, <3>1, <3>3, <4>3
    <3> QED BY <3>2, <3>3
  <2>8. OnlyUnsaved("onReady", BuiltInRoles[attempt])'
    <3>1. attempt' = next
      BY <2>2
    <3> QED BY <2>3, <2>5, <3>1 DEF OnlyUnsaved
  <2>9. ~Up' /\ phase' = "seeding" /\ attempt' = next
    BY <2>2 DEF Up
  <2> QED BY <2>3, <2>4, <2>5, <2>6, <2>8, <2>9 DEF RolesInv
<1> QED BY <1>1, <1>2

\* An administrator changes one role while everything is saved.
LEMMA ChangeRoleStep ==
    ASSUME RolesInv, NEW r \in RoleIds, NEW name \in Names, Up, roles.writes = <<>>,
           name = "none" => r \in CustomRoles,
           roles' = Update(roles, r, [roles.cache EXCEPT ![r] = name]),
           UNCHANGED <<phase, named>>
    PROVE  RolesInv'
<1> DEFINE changed == [roles.cache EXCEPT ![r] = name]
<1>1. /\ roles.cache \in [RoleIds -> Names] /\ roles.disk \in [RoleIds -> Names]
      /\ named \in [RoleIds -> Names]
      /\ \A q \in RoleIds : named[q] = "given" => roles.disk[q] = "given"
      /\ \A i \in DOMAIN BuiltInRoles : roles.cache[BuiltInRoles[i]] # "none"
      /\ AllNamed
  <2>1. ~ \E q \in RoleIds : Changing(q)
    BY DEF Changing
  <2> QED BY <2>1 DEF RolesInv
<1>2. /\ roles'.cache = changed /\ roles'.disk = roles.disk
      /\ roles'.writes = <<[by |-> r, json |-> changed]>>
  BY UpdateSaved
<1>3. /\ changed \in [RoleIds -> Names] /\ changed[r] = name
      /\ \A q \in RoleIds : q # r => changed[q] = roles.cache[q]
  BY <1>1
<1>4. \A i \in DOMAIN BuiltInRoles : BuiltInRoles[i] \in RoleIds /\ BuiltInRoles[i] \notin CustomRoles
  BY LifecycleAssumption DEF RoleIds
<1> HIDE DEF changed
<1>5. \A i \in DOMAIN BuiltInRoles : changed[BuiltInRoles[i]] # "none"
  BY <1>1, <1>3, <1>4
<1>6. Changing(r)'
  BY <1>1, <1>2, <1>3 DEF Changing, AllNamed
<1>7. Up' /\ phase' \notin {"migrating", "savingSecret", "savingKey", "seeding"}
  BY DEF Up
<1> QED BY <1>1, <1>2, <1>3, <1>5, <1>6, <1>7 DEF RolesInv

\* Every step of the life of the process keeps the roles that were named.
LEMMA RolesStep == RolesInv /\ [LifecycleNext]_lifeVars => RolesInv'
<1> SUFFICES ASSUME RolesInv, [LifecycleNext]_lifeVars PROVE RolesInv'
  OBVIOUS
<1>t. /\ roles.cache \in [RoleIds -> Names] /\ roles.disk \in [RoleIds -> Names]
      /\ named \in [RoleIds -> Names]
      /\ \A r \in RoleIds : named[r] = "given" => roles.disk[r] = "given"
  BY DEF RolesInv
<1>r. ASSUME roles' = Reloaded(roles), UNCHANGED named, phase' \in {"off", "migrating"}
      PROVE  RolesInv'
  <2>1. /\ roles'.cache = roles.disk /\ roles'.disk = roles.disk /\ roles'.writes = <<>>
    BY <1>r DEF Reloaded, Loaded
  <2>2. ~Up' /\ phase' # "seeding"
    BY <1>r DEF Up
  <2> QED BY <1>t, <1>r, <2>1, <2>2 DEF RolesInv
<1>1. CASE Boot \/ Dies
  BY <1>1, <1>r DEF Boot, Dies
<1>2. CASE Migrated \/ SecretSaved
  BY <1>2, RolesQuietStep DEF Migrated, SecretSaved
<1>3. CASE KeySaved
  <2>1. /\ phase = "savingKey" /\ SeedFrom(roles, 1) /\ named' = named
    BY <1>3 DEF KeySaved
  <2>2. roles.writes = <<>> /\ roles.disk = roles.cache
    BY <2>1 DEF RolesInv
  <2>3. \A i \in DOMAIN BuiltInRoles : ~(i < 1)
    BY LifecycleAssumption
  <2> HIDE DEF SeedFrom
  <2> QED BY <1>t, <2>1, <2>2, <2>3, SeedFromStep
<1>4. CASE RoleSeeded
  <2>1. /\ phase = "seeding" /\ SeedFrom(Landed(roles), attempt + 1) /\ named' = named
    BY <1>4 DEF RoleSeeded
  <2>2. /\ attempt \in DOMAIN BuiltInRoles
        /\ roles.disk[BuiltInRoles[attempt]] = "none"
        /\ OnlyUnsaved("onReady", BuiltInRoles[attempt])
        /\ \A i \in DOMAIN BuiltInRoles : i <= attempt => roles.cache[BuiltInRoles[i]] # "none"
    BY <2>1 DEF RolesInv
  <2>3. /\ Landed(roles).cache = roles.cache /\ Landed(roles).disk = roles.cache
        /\ Landed(roles).writes = <<>>
    BY <2>2, LandedOnly DEF OnlyUnsaved
  <2>4. /\ DOMAIN BuiltInRoles \subseteq Nat
        /\ \A i \in DOMAIN BuiltInRoles : i < attempt + 1 => roles.cache[BuiltInRoles[i]] # "none"
    BY <2>2, LifecycleAssumption
  <2>5. attempt + 1 \in Nat
    BY <2>2, <2>4
  <2>6. \A r \in RoleIds : named[r] = "given" => roles.cache[r] = "given"
    <3> SUFFICES ASSUME NEW r \in RoleIds, named[r] = "given" PROVE roles.cache[r] = "given"
      OBVIOUS
    <3>1. roles.disk[r] = "given"
      BY <1>t
    <3>2. r # BuiltInRoles[attempt]
      BY <2>2, <3>1
    <3> QED BY <2>2, <3>1, <3>2 DEF OnlyUnsaved
  <2> QED BY <1>t, <2>1, <2>3, <2>4, <2>5, <2>6, SeedFromStep
<1>5. CASE Listens \/ CandidateListens \/ PortBusy \/ CandidateBusy \/ PortSaved
  <2>1. Up /\ (Up' \/ phase' = "terminated") /\ UNCHANGED <<roles, named>>
    BY <1>5 DEF Listens, CandidateListens, PortBusy, CandidateBusy, PortSaved, Up
  <2> QED BY <2>1, RolesQuietStep
<1>6. CASE DevicePairs \/ LastDeviceDeleted \/ RegeneratePortalKey
  BY <1>6, RolesQuietStep DEF DevicePairs, LastDeviceDeleted, RegeneratePortalKey
<1>12. CASE RotationSaved \/ RotationTold \/ RotationRejected
  BY <1>12, RolesQuietStep DEF RotationSaved, RotationTold, RotationRejected
<1>7. ASSUME NEW r \in RoleIds, NameRole(r) PROVE RolesInv'
  <2>1. "given" \in Names
    BY DEF Names
  <2> QED BY <1>7, <2>1, ChangeRoleStep DEF NameRole
<1>8. ASSUME NEW r \in RoleIds, DeleteRole(r) PROVE RolesInv'
  <2>1. "none" \in Names
    BY DEF Names
  <2> QED BY <1>8, <2>1, ChangeRoleStep DEF DeleteRole
<1>9. CASE RoleSaved
  <2>1. /\ Up /\ roles.writes # <<>> /\ roles' = Landed(roles) /\ phase' = phase
        /\ named' = [named EXCEPT ![Head(roles.writes).by] = roles'.disk[Head(roles.writes).by]]
    BY <1>9 DEF RoleSaved
  <2>2. PICK r \in RoleIds : Changing(r)
    BY <2>1 DEF RolesInv, AllNamed
  <2>3. /\ roles'.cache = roles.cache /\ roles'.disk = roles.cache /\ roles'.writes = <<>>
        /\ Head(roles.writes).by = r
    BY <2>1, <2>2, LandedOnly DEF Changing
  <2>4. named' = [named EXCEPT ![r] = roles.cache[r]]
    BY <2>1, <2>3
  <2>5. named' \in [RoleIds -> Names]
    BY <1>t, <2>4
  <2>6. \A q \in RoleIds : named'[q] = "given" => roles.cache[q] = "given"
    BY <1>t, <2>2, <2>4 DEF Changing
  <2>7. Up' /\ phase' \notin {"migrating", "savingSecret", "savingKey", "seeding"}
    BY <2>1 DEF Up
  <2>8. \A i \in DOMAIN BuiltInRoles : roles.cache[BuiltInRoles[i]] # "none"
    BY <2>1 DEF RolesInv
  <2>9. AllNamed'
    BY <2>3, <2>6 DEF AllNamed
  <2> QED BY <1>t, <2>3, <2>5, <2>6, <2>7, <2>8, <2>9 DEF RolesInv
<1>13. CASE RoleRejected
  <2>1. /\ Up /\ roles.writes # <<>> /\ roles' = Rejected(roles) /\ phase' = phase
        /\ named' = [named EXCEPT ![Head(roles.writes).by] = "none"]
    BY <1>13 DEF RoleRejected
  <2>2. PICK r \in RoleIds : Changing(r)
    BY <2>1 DEF RolesInv, AllNamed
  <2>3. /\ roles'.cache = roles.cache /\ roles'.disk = roles.disk /\ roles'.writes = <<>>
        /\ Head(roles.writes).by = r
    BY <2>1, <2>2, RejectedOnly DEF Changing
  <2>4. named' = [named EXCEPT ![r] = "none"]
    BY <2>1, <2>3
  <2>5. named' \in [RoleIds -> Names] /\ named'[r] = "none"
    BY <1>t, <2>4 DEF Names
  <2>6. \A q \in RoleIds : named'[q] = "given" => q # r /\ named[q] = "given"
    BY <1>t, <2>4, <2>5
  <2>7. \A q \in RoleIds : named'[q] = "given" => roles.cache[q] = "given" /\ roles.disk[q] = "given"
    BY <1>t, <2>2, <2>6 DEF Changing
  <2>8. Up' /\ phase' \notin {"migrating", "savingSecret", "savingKey", "seeding"}
    BY <2>1 DEF Up
  <2>9. \A i \in DOMAIN BuiltInRoles : roles.cache[BuiltInRoles[i]] # "none"
    BY <2>1 DEF RolesInv
  <2>10. AllNamed'
    BY <2>3, <2>7 DEF AllNamed
  <2> QED BY <1>t, <2>3, <2>5, <2>7, <2>8, <2>9, <2>10 DEF RolesInv
<1>10. ASSUME NEW p \in Ports, PortTaken(p) \/ PortFreed(p) \/ PortConfigured(p) PROVE RolesInv'
  BY <1>10, RolesQuietStep DEF PortTaken, PortFreed, PortConfigured
<1>11. CASE UNCHANGED lifeVars
  BY <1>11, RolesQuietStep DEF lifeVars
<1> QED
  BY <1>1, <1>2, <1>3, <1>4, <1>5, <1>6, <1>7, <1>8, <1>9, <1>10, <1>11,
     <1>12, <1>13 DEF LifecycleNext

\* What the first start made stays, for any number of starts, built-in and
\* other roles, rotations and ports, wherever a start is cut off: one secret
\* signs for ever, no start goes up without the built-in roles, and no start
\* or rejected edit takes back a name an administrator was told is saved.
THEOREM FirstStartHolds == LifecycleSpec => []FirstStartStays
<1>1. SecretInv /\ RolesInv => FirstStartStays
  <2> SUFFICES ASSUME SecretInv, RolesInv PROVE FirstStartStays
    OBVIOUS
  <2>1. Cardinality(signedWith) <= 1
    <3>1. signedWith = {} \/ signedWith = {native.jwtSecret}
      BY DEF SecretInv
    <3>2. Cardinality({}) = 0 /\ Cardinality({native.jwtSecret}) = 1
      BY FS_EmptySet, FS_Singleton
    <3> QED BY <3>1, <3>2
  <2>2. ASSUME Up PROVE \A i \in DOMAIN BuiltInRoles : roles.cache[BuiltInRoles[i]] # "none"
    BY <2>2 DEF RolesInv
  <2>3. ASSUME Up, roles.writes = <<>>, NEW r \in RoleIds, named[r] = "given"
        PROVE  roles.cache[r] = "given" /\ roles.disk[r] = "given"
    <3>1. ~ \E q \in RoleIds : Changing(q)
      BY <2>3 DEF Changing
    <3>2. AllNamed
      BY <2>3, <3>1 DEF RolesInv
    <3>3. roles.disk[r] = "given"
      BY <2>3 DEF RolesInv
    <3> QED BY <2>3, <3>2, <3>3 DEF AllNamed
  <2> QED BY <2>1, <2>2, <2>3 DEF FirstStartStays
<1>2. LifecycleInit => SecretInv /\ RolesInv
  BY SecretInit, RolesInit
<1>3. SecretInv /\ RolesInv /\ [LifecycleNext]_lifeVars => (SecretInv /\ RolesInv)'
  BY SecretStep, RolesStep
<1> QED BY <1>1, <1>2, <1>3, PTL DEF LifecycleSpec

----------------------------------------------------------------------------
(* Types of the life of the adapter                                        *)

\* No key is known that was not made, an attempt is one of those there are,
\* and nobody else holds the port the server listens on.
LifeTyped ==
    /\ native \in Native /\ config \in Native
    /\ schema \in {0, SchemaVersion}
    /\ phase \in Phases
    /\ attempt \in Nat /\ (phase = "listening" => attempt \in 1..MaxAttempts)
    /\ used \in [boots : Nat, secrets : Nat, keys : Nat, turns : Nat]
    /\ {portalKey, native.portalKey, config.portalKey} \subseteq 0..used.keys
    /\ rotations \in Seq(1..used.keys) /\ auditing \in Nat
    /\ listening \in Ports \cup {0} /\ pairedOn \in Ports \cup {0}
    /\ phase = "savingPort" => listening # 0
    /\ takenPorts \subseteq Ports /\ listening \notin takenPorts

\* Nothing is made and nothing listens yet.
LEMMA LifeTypedInit == LifecycleInit => LifeTyped
<1> SUFFICES ASSUME LifecycleInit PROVE LifeTyped
  OBVIOUS
<1>1. /\ native = [jwtSecret |-> 0, portalKey |-> 0, port |-> FirstPort] /\ config = native
      /\ schema = 0 /\ phase = "off" /\ attempt = 0 /\ portalKey = 0 /\ rotations = <<>>
      /\ auditing = 0 /\ listening = 0 /\ takenPorts = {} /\ pairedOn = 0
      /\ used = [boots |-> 0, secrets |-> 0, keys |-> 0, turns |-> 0]
  BY DEF LifecycleInit
<1>2. rotations \in Seq(1..used.keys)
  BY <1>1
<1> QED BY <1>1, <1>2, LifecycleAssumption DEF LifeTyped, Native, Phases

\* Seeding puts a role that has a place in BUILT_IN_ROLES, or goes on to the
\* first attempt to listen.
LEMMA SeedFromGoes ==
    ASSUME NEW kept, NEW first \in Nat, SeedFrom(kept, first)
    PROVE  (phase' = "listening" /\ attempt' = 1) \/ (phase' = "seeding" /\ attempt' \in Nat)
<1> DEFINE todo == {i \in MissingRoles : i >= first}
           next == CHOOSE i \in todo : \A j \in todo : i <= j
<1>1. todo \in SUBSET Nat
  BY LifecycleAssumption DEF MissingRoles
<1>2. CASE todo = {}
  BY <1>2 DEF SeedFrom
<1>3. CASE todo # {}
  <2>1. \E i \in todo : \A j \in todo : i <= j
    BY <1>1, <1>3, LeastExists
  <2>2. next \in todo
    BY <2>1
  <2>3. phase' = "seeding" /\ attempt' = next
    BY <1>3 DEF SeedFrom
  <2> QED BY <1>1, <2>2, <2>3
<1> QED BY <1>2, <1>3

\* Keys that were made stay made.
LEMMA KeysOfMore ==
    ASSUME NEW m \in Nat, NEW n \in Nat, m <= n, NEW s \in Seq(1..m)
    PROVE  s \in Seq(1..n)
<1>1. 1..m \subseteq 1..n
  OBVIOUS
<1> QED BY <1>1

\* Steps that make no key and leave the writes of rotations alone.
LEMMA LifeTypedStill ==
    ASSUME LifeTyped, native' \in Native, config' \in Native, schema' \in {0, SchemaVersion},
           phase' \in Phases, attempt' \in Nat,
           phase' = "listening" => attempt' \in 1..MaxAttempts,
           used' \in [boots : Nat, secrets : Nat, keys : Nat, turns : Nat], used'.keys = used.keys,
           {portalKey', native'.portalKey, config'.portalKey} \subseteq 0..used.keys,
           rotations' = rotations, auditing' = auditing,
           listening' \in Ports \cup {0}, pairedOn' \in Ports \cup {0},
           phase' = "savingPort" => listening' # 0,
           takenPorts' \subseteq Ports, listening' \notin takenPorts'
    PROVE  LifeTyped'
  BY DEF LifeTyped

\* Every step of the life of the process keeps the types.
LEMMA LifeTypedStep == LifeTyped /\ [LifecycleNext]_lifeVars => LifeTyped'
<1> SUFFICES ASSUME LifeTyped, [LifecycleNext]_lifeVars PROVE LifeTyped'
  OBVIOUS
<1> DEFINE Counts == [boots : Nat, secrets : Nat, keys : Nat, turns : Nat]
<1>0. Ports \subseteq Nat \ {0} /\ MaxAttempts \in Nat \ {0}
  BY LifecycleAssumption
<1>t. /\ native \in Native /\ config \in Native /\ schema \in {0, SchemaVersion}
      /\ phase \in Phases /\ attempt \in Nat /\ (phase = "listening" => attempt \in 1..MaxAttempts)
      /\ used \in Counts
      /\ {portalKey, native.portalKey, config.portalKey} \subseteq 0..used.keys
      /\ rotations \in Seq(1..used.keys) /\ auditing \in Nat
      /\ listening \in Ports \cup {0} /\ pairedOn \in Ports \cup {0}
      /\ phase = "savingPort" => listening # 0
      /\ takenPorts \subseteq Ports /\ listening \notin takenPorts
  BY DEF LifeTyped
<1>u. used \in Counts
  BY DEF LifeTyped
<1>a. ASSUME NEW what \in {"boots", "turns"}, used' = [used EXCEPT ![what] = @ + 1]
      PROVE  used' \in Counts /\ used'.keys = used.keys
  <2>1. CASE what = "boots"
    BY <1>a, <1>u, <2>1
  <2>2. CASE what = "turns"
    BY <1>a, <1>u, <2>2
  <2> QED BY <2>1, <2>2
<1>k. ASSUME used' = [used EXCEPT !.keys = @ + 1]
      PROVE  used' \in Counts /\ used'.keys = used.keys + 1
  BY <1>k, <1>u
<1>m. ASSUME used' \in Counts, used'.keys = used.keys + 1,
             portalKey' \in 0..(used.keys + 1),
             native' \in Native, native'.portalKey \in 0..used.keys,
             rotations' \in Seq(1..used'.keys), phase' \in Phases, phase' \notin {"listening", "savingPort"} \/ phase' = phase,
             UNCHANGED <<config, schema, attempt, auditing, listening, takenPorts, pairedOn>>
      PROVE  LifeTyped'
  <2>1. {portalKey', native'.portalKey, config'.portalKey} \subseteq 0..used'.keys
    BY <1>m, <1>t
  <2> QED BY <1>m, <1>t, <2>1 DEF LifeTyped
<1>1. CASE Boot
  <2>1. /\ config' = native /\ phase' = "migrating" /\ used' = [used EXCEPT !["boots"] = @ + 1]
        /\ UNCHANGED <<native, schema, attempt, portalKey, rotations, auditing, listening, takenPorts, pairedOn>>
    BY <1>1 DEF Boot, Use
  <2> QED BY <1>a, <1>t, <2>1, LifeTypedStill DEF Phases
<1>2. CASE Migrated
  <2>1. /\ schema' = SchemaVersion /\ phase' = "savingSecret"
        /\ UNCHANGED <<native, attempt, portalKey, rotations, auditing, listening, takenPorts, pairedOn>>
    BY <1>2 DEF Migrated
  <2>2. used' \in Counts /\ used'.keys = used.keys
    <3>1. used' = [used EXCEPT !.secrets = @ + 1] \/ used' = used
      BY <1>2 DEF Migrated
    <3> QED BY <1>u, <3>1
  <2>3. config' \in Native /\ config'.portalKey = config.portalKey
    BY <1>2, <1>t, <2>2 DEF Migrated, Native
  <2> QED BY <1>t, <2>1, <2>2, <2>3, LifeTypedStill DEF Phases
<1>3. CASE SecretSaved
  <2>1. /\ phase' = "savingKey" /\ native' = [native EXCEPT !.jwtSecret = config.jwtSecret]
        /\ UNCHANGED <<schema, config, attempt, rotations, auditing, listening, takenPorts, pairedOn>>
    BY <1>3 DEF SecretSaved
  <2>2. native' \in Native /\ native'.portalKey = native.portalKey
    BY <1>t, <2>1 DEF Native
  <2>3. CASE config.portalKey = 0
    <3>1. used' = [used EXCEPT !.keys = @ + 1] /\ portalKey' = used'.keys
      BY <1>3, <2>3 DEF SecretSaved
    <3>2. used' \in Counts /\ used'.keys = used.keys + 1 /\ used.keys \in Nat
      BY <1>k, <1>t, <3>1
    <3>3. rotations' \in Seq(1..used'.keys)
      BY <1>t, <2>1, <3>2, KeysOfMore
    <3> QED BY <1>m, <1>t, <2>1, <2>2, <3>1, <3>2, <3>3 DEF Phases
  <2>4. CASE config.portalKey # 0
    <3>1. used' = used /\ portalKey' = config.portalKey
      BY <1>3, <2>4 DEF SecretSaved
    <3> QED BY <1>t, <2>1, <2>2, <3>1, LifeTypedStill DEF Phases
  <2> QED BY <2>3, <2>4
<1>s. ASSUME (phase' = "listening" /\ attempt' = 1) \/ (phase' = "seeding" /\ attempt' \in Nat)
      PROVE  phase' \in Phases /\ attempt' \in Nat /\ (phase' = "listening" => attempt' \in 1..MaxAttempts)
  BY <1>0, <1>s DEF Phases
<1>4. CASE KeySaved
  <2>1. /\ native' = [native EXCEPT !.portalKey = portalKey] /\ SeedFrom(roles, 1)
        /\ UNCHANGED <<schema, config, portalKey, rotations, auditing, listening, takenPorts, pairedOn, used>>
    BY <1>4 DEF KeySaved
  <2>2. (phase' = "listening" /\ attempt' = 1) \/ (phase' = "seeding" /\ attempt' \in Nat)
    BY <2>1, SeedFromGoes
  <2>3. native' \in Native /\ native'.portalKey = portalKey
    BY <1>t, <2>1 DEF Native
  <2> QED BY <1>s, <1>t, <2>1, <2>2, <2>3, LifeTypedStill
<1>5. CASE RoleSeeded
  <2>1. /\ SeedFrom(Landed(roles), attempt + 1)
        /\ UNCHANGED <<native, schema, config, portalKey, rotations, auditing, listening, takenPorts, pairedOn, used>>
    BY <1>5 DEF RoleSeeded
  <2>3. attempt + 1 \in Nat
    BY <1>t
  <2>2. (phase' = "listening" /\ attempt' = 1) \/ (phase' = "seeding" /\ attempt' \in Nat)
    BY <2>1, <2>3, SeedFromGoes
  <2> QED BY <1>s, <1>t, <2>1, <2>2, LifeTypedStill
<1>6. CASE Listens \/ CandidateListens
  <2>1. /\ listening' \in Ports \ takenPorts /\ phase' \in {"running", "savingPort"}
        /\ UNCHANGED <<native, schema, config, attempt, portalKey, rotations, auditing, takenPorts, pairedOn, used>>
    <3>1. config.port \in Ports
      BY <1>t DEF Native
    <3>2. /\ listening' \in {config.port, attempt} /\ listening' \notin takenPorts
          /\ listening' = attempt => attempt \in Ports \/ attempt = config.port
          /\ phase' \in {"running", "savingPort"}
          /\ UNCHANGED <<native, schema, config, attempt, portalKey, rotations, auditing, takenPorts, pairedOn, used>>
      BY <1>6 DEF Listens, CandidateListens, Bind
    <3> QED BY <3>1, <3>2
  <2>2. /\ listening' \in Ports \cup {0} /\ listening' \notin takenPorts' /\ listening' # 0
        /\ phase' \in Phases /\ phase' # "listening"
    BY <1>0, <2>1 DEF Phases
  <2> QED BY <1>t, <2>1, <2>2, LifeTypedStill
<1>7. CASE PortBusy
  <2>1. /\ phase = "listening"
        /\ \/ phase' = phase /\ attempt' = attempt + 1 /\ attempt < MaxAttempts
           \/ phase' = "scanning" /\ attempt' = config.port + 1
           \/ phase' = "terminated" /\ attempt' = attempt
        /\ UNCHANGED <<native, schema, config, portalKey, rotations, auditing, listening, takenPorts, pairedOn, used>>
    BY <1>7 DEF PortBusy, AttemptsLeft
  <2>2. config.port \in Nat
    BY <1>0, <1>t DEF Native
  <2>3. phase' \in Phases /\ attempt' \in Nat /\ (phase' = "listening" => attempt' \in 1..MaxAttempts)
    BY <1>0, <1>t, <2>1, <2>2 DEF Phases
  <2> QED BY <1>t, <2>1, <2>3, LifeTypedStill
<1>8. CASE CandidateBusy
  <2>1. /\ phase = "scanning"
        /\ \/ phase' = phase /\ attempt' = attempt + 1
           \/ phase' = "terminated" /\ attempt' = attempt
        /\ UNCHANGED <<native, schema, config, portalKey, rotations, auditing, listening, takenPorts, pairedOn, used>>
    BY <1>8 DEF CandidateBusy
  <2>3. phase' \in Phases /\ attempt' \in Nat /\ phase' # "listening"
    BY <1>t, <2>1 DEF Phases
  <2> QED BY <1>t, <2>1, <2>3, LifeTypedStill
<1>9. CASE PortSaved
  <2>1. /\ phase = "savingPort" /\ phase' = "running" /\ native' = [native EXCEPT !.port = listening]
        /\ UNCHANGED <<schema, config, attempt, portalKey, rotations, auditing, listening, takenPorts, pairedOn, used>>
    BY <1>9 DEF PortSaved
  <2>2. listening \in Ports
    BY <1>t, <2>1
  <2>3. native' \in Native /\ native'.portalKey = native.portalKey
    BY <1>t, <2>1, <2>2 DEF Native
  <2> QED BY <1>t, <2>1, <2>3, LifeTypedStill DEF Phases
<1>10. CASE DevicePairs \/ LastDeviceDeleted
  <2>1. /\ pairedOn' = listening \/ pairedOn' = 0
        /\ UNCHANGED <<native, schema, config, phase, attempt, portalKey, rotations, auditing, listening, takenPorts, used>>
    BY <1>10 DEF DevicePairs, LastDeviceDeleted
  <2> QED BY <1>t, <2>1, LifeTypedStill
<1>11. CASE RegeneratePortalKey
  <2>1. /\ used' = [used EXCEPT !["keys"] = @ + 1]
        /\ portalKey' = used'.keys /\ rotations' = Append(rotations, portalKey')
        /\ UNCHANGED <<native, schema, config, phase, attempt, auditing, listening, takenPorts, pairedOn>>
    BY <1>11 DEF RegeneratePortalKey, Use
  <2>2. used' \in Counts /\ used'.keys = used.keys + 1 /\ used.keys \in Nat
    BY <1>k, <1>t, <2>1
  <2>3. rotations \in Seq(1..used'.keys) /\ portalKey' \in 1..used'.keys
    BY <1>t, <2>1, <2>2, KeysOfMore
  <2>4. rotations' \in Seq(1..used'.keys)
    BY <2>1, <2>3
  <2> QED BY <1>m, <1>t, <2>1, <2>2, <2>3, <2>4
<1>12. CASE RotationSaved
  <2>1. /\ rotations # <<>> /\ rotations' = Tail(rotations)
        /\ auditing' = auditing + 1
        /\ native' = [native EXCEPT !.portalKey = Head(rotations)]
        /\ UNCHANGED <<schema, config, phase, attempt, portalKey, listening, takenPorts, pairedOn, used>>
    BY <1>12 DEF RotationSaved
  <2>2. Head(rotations) \in 1..used.keys /\ rotations' \in Seq(1..used.keys)
    <3>1. rotations \in Seq(1..used.keys)
      BY <1>t
    <3> QED BY <2>1, <3>1, HeadTailProperties
  <2>3. native' \in Native /\ native'.portalKey \in 0..used.keys
    <3>1. native \in Native /\ native' = [native EXCEPT !.portalKey = Head(rotations)]
      BY <1>t, <2>1
    <3>2. Head(rotations) \in Nat /\ Head(rotations) \in 0..used.keys
      BY <2>2
    <3> QED BY <3>1, <3>2 DEF Native
  <2>4. auditing' \in Nat
    BY <1>t, <2>1
  <2> QED BY <1>t, <2>1, <2>2, <2>3, <2>4 DEF LifeTyped
<1>21. CASE RotationTold
  <2>1. /\ auditing > 0 /\ auditing' = auditing - 1
        /\ UNCHANGED <<native, schema, config, phase, attempt, portalKey, rotations, listening,
                       takenPorts, pairedOn, used>>
    BY <1>21 DEF RotationTold
  <2>2. auditing' \in Nat
    BY <1>t, <2>1
  <2> QED BY <1>t, <2>1, <2>2 DEF LifeTyped
<1>13. CASE RotationRejected
  <2>1. /\ used' = [used EXCEPT !["turns"] = @ + 1]
        /\ UNCHANGED <<native, schema, config, phase, attempt, portalKey, listening, takenPorts, pairedOn>>
    BY <1>13 DEF RotationRejected, Use
  <2>4. \/ rotations # <<>> /\ rotations' = Tail(rotations) /\ auditing' = auditing
        \/ auditing > 0 /\ auditing' = auditing - 1 /\ rotations' = rotations
    BY <1>13 DEF RotationRejected
  <2>2. rotations' \in Seq(1..used.keys)
    <3>1. rotations \in Seq(1..used.keys)
      BY <1>t
    <3> QED BY <2>4, <3>1, HeadTailProperties
  <2>5. auditing' \in Nat
    BY <1>t, <2>4
  <2>3. used' \in Counts /\ used'.keys = used.keys
    BY <1>a, <2>1
  <2> QED BY <1>t, <2>1, <2>2, <2>3, <2>5 DEF LifeTyped
<1>14. ASSUME NEW r \in RoleIds, NameRole(r) \/ DeleteRole(r) PROVE LifeTyped'
  <2>1. /\ used' = [used EXCEPT !["turns"] = @ + 1]
        /\ UNCHANGED <<native, schema, config, phase, attempt, portalKey, rotations, auditing, listening, takenPorts,
                       pairedOn>>
    BY <1>14 DEF NameRole, DeleteRole, Use
  <2> QED BY <1>a, <1>t, <2>1, LifeTypedStill
<1>15. CASE RoleSaved
  BY <1>15, <1>t, LifeTypedStill DEF RoleSaved
<1>22. CASE RoleRejected
  BY <1>22, <1>t, LifeTypedStill DEF RoleRejected
<1>16. CASE Dies
  <2>1. /\ phase' = "off" /\ attempt' = 0 /\ listening' = 0 /\ portalKey' = 0 /\ rotations' = <<>>
        /\ auditing' = 0
        /\ UNCHANGED <<native, schema, config, takenPorts, pairedOn, used>>
    BY <1>16 DEF Dies
  <2>2. rotations' \in Seq(1..used.keys) /\ 0 \notin takenPorts
    BY <1>0, <1>t, <2>1
  <2> QED BY <1>t, <2>1, <2>2 DEF LifeTyped, Phases
<1>17. ASSUME NEW p \in Ports, PortTaken(p) PROVE LifeTyped'
  <2>1. /\ p # listening /\ takenPorts' = takenPorts \cup {p} /\ used' = [used EXCEPT !["turns"] = @ + 1]
        /\ UNCHANGED <<native, schema, config, phase, attempt, portalKey, rotations, auditing, listening, pairedOn>>
    BY <1>17 DEF PortTaken, Use
  <2> QED BY <1>a, <1>t, <2>1, LifeTypedStill
<1>18. ASSUME NEW p \in Ports, PortFreed(p) PROVE LifeTyped'
  BY <1>18, <1>t, LifeTypedStill DEF PortFreed
<1>19. ASSUME NEW p \in Ports, PortConfigured(p) PROVE LifeTyped'
  <2>1. /\ native' = [native EXCEPT !.port = p] /\ used' = [used EXCEPT !["turns"] = @ + 1]
        /\ pairedOn' \in {0, p}
        /\ UNCHANGED <<schema, config, phase, attempt, portalKey, rotations, auditing, listening, takenPorts>>
    BY <1>19 DEF PortConfigured, Use
  <2>2. native' \in Native /\ native'.portalKey = native.portalKey
    BY <1>t, <2>1 DEF Native
  <2> QED BY <1>a, <1>t, <2>1, <2>2, LifeTypedStill
<1>20. CASE UNCHANGED lifeVars
  BY <1>20, <1>t, LifeTypedStill DEF lifeVars
<1> QED
  BY <1>1, <1>2, <1>3, <1>4, <1>5, <1>6, <1>7, <1>8, <1>9, <1>10, <1>11, <1>12, <1>13, <1>14,
     <1>15, <1>16, <1>17, <1>18, <1>19, <1>20, <1>21, <1>22 DEF LifecycleNext

\* Every variable of the life of the adapter has its type, for any ports,
\* attempts and roles; no key is taken that was not made, and the server
\* never listens on a port another process holds.
THEOREM LifecycleTyped == LifecycleSpec => []LifecycleTypeOK
<1>1. LifeTyped /\ RolesInv => LifecycleTypeOK
  BY DEF LifeTyped, RolesInv, LifecycleTypeOK
<1>2. LifecycleInit => LifeTyped /\ RolesInv
  BY LifeTypedInit, RolesInit
<1>3. LifeTyped /\ RolesInv /\ [LifecycleNext]_lifeVars => (LifeTyped /\ RolesInv)'
  BY LifeTypedStep, RolesStep
<1> QED BY <1>1, <1>2, <1>3, PTL DEF LifecycleSpec

----------------------------------------------------------------------------
(* The logs: any number of writers and events, any limit                   *)

\* A version of a log: in the cache, on the disk, or on its way there.  No
\* event is in it twice, and each was put before.
GoodLog(s, n) ==
    /\ s \in Seq(Event)
    /\ \A i, j \in DOMAIN s : s[i].no = s[j].no => i = j
    /\ \A i \in DOMAIN s : s[i].no <= n

Putting  == [at : {"putting", "trimming"}, event : Event, wiped : BOOLEAN]
Clearing == [at : {"clearing"}]

LogWrite == [by : Writers, json : Seq(Event)]

\* The writes under way are of different calls, and each of one that waits.
WritesFit(q, calls, n) ==
    /\ q \in Seq(LogWrite)
    /\ \A k \in DOMAIN q : GoodLog(q[k].json, n) /\ calls[q[k].by] # NoCall
    /\ \A k, l \in DOMAIN q : q[k].by = q[l].by => k = l

LogTyped ==
    /\ usedUp \in [events : Nat, clears : Nat, troubles : Nat]
    /\ hour \in 0..MaxHour
    /\ writer \in [Writers -> {NoCall} \cup Putting \cup Clearing]
    /\ GoodLog(log.cache, usedUp.events) /\ GoodLog(log.disk, usedUp.events)
    /\ WritesFit(log.writes, writer, usedUp.events)

\* The app's watermark never passes an alarm of the log that it was not told
\* of, and the reading it will move to passes none that is not in its list.
\* The log of the alarms is never cleared.
SkipInv ==
    /\ phone.watermark \in Nat
    /\ which = "alarms" => \A w \in Writers : writer[w] \notin Clearing
    /\ phone.at # "rest" => phone.read \in Nat
    /\ which = "alarms" =>
         \A e \in Elements(log.cache) :
            /\ e.ts <= phone.watermark => e \in notified \cup late \cup unfetched
            /\ phone.at = "answered" /\ e.ts <= phone.read =>
                  e \in notified \cup late \cup unfetched \cup phone.list

\* An event is in a version of the log, or enough others that are no older.
Newer(e, s) == {x \in Elements(s) : x.ts >= e.ts}

Held(e, s) == e \in Elements(s) \/ Cardinality(Newer(e, s)) >= MaxKept

\* It is held in the cache and in the writes under way from the i-th on.
Follows(e, i, cache, writes) ==
    /\ Held(e, cache)
    /\ \A k \in DOMAIN writes : k >= i => Held(e, writes[k].json)

\* What is put and was not cleared since is held from its own write on.
Due(writes, calls, cache) ==
    \A i \in DOMAIN writes :
        LET call == calls[writes[i].by] IN
        call.at \in {"putting", "trimming"} /\ ~call.wiped => Follows(call.event, i, cache, writes)

\* A new version of the log loses none of these events, nor what is due of a call.
LosesNone(events, cache, new) == \A e \in events : Held(e, cache) => Held(e, new)

OwnHeld(call, new) == call.at \in {"putting", "trimming"} /\ ~call.wiped => Held(call.event, new)

SameDue(calls, after, writes, cache, new) ==
    \A k \in DOMAIN writes :
        LET before == calls[writes[k].by]
            now    == after[writes[k].by]
        IN now.at \in {"putting", "trimming"} /\ ~now.wiped =>
             /\ before.at \in {"putting", "trimming"} /\ ~before.wiped
             /\ now.event = before.event
             /\ Held(now.event, cache) => Held(now.event, new)

PuttingNow == {w \in Writers : writer[w].at = "putting"}

AllFollow(events, disk, cache, writes) ==
    \A e \in events : Held(e, disk) /\ Follows(e, 1, cache, writes)

AllHeld ==
    /\ returned \subseteq Event
    /\ AllFollow(returned, log.disk, log.cache, log.writes)
    /\ Due(log.writes, writer, log.cache)

LengthFits ==
    /\ IsFiniteSet(PuttingNow)
    /\ usedUp.troubles = 0 => Len(log.cache) <= MaxKept + Cardinality(PuttingNow)


\* What a number and a time stamp are.
LEMMA EventNumbers ==
    ASSUME NEW e \in Event
    PROVE  e.no \in Nat \ {0} /\ e.ts \in Nat
  BY AlarmEventsAssumption DEF Event

\* The members of a finite set, arranged in a strict order, take each place once.
LEMMA ArrangedOnce ==
    ASSUME NEW S, IsFiniteSet(S), NEW order,
           \A i \in S : <<i, i>> \notin order,
           \A i, j \in S : i # j => <<i, j>> \in order \/ <<j, i>> \in order,
           \A i, j, k \in S : <<i, j>> \in order /\ <<j, k>> \in order => <<i, k>> \in order
    PROVE  LET A == Arranged(S, order)
           IN  /\ Cardinality(S) \in Nat
               /\ A \in [1..Cardinality(S) -> S]
               /\ \A k, l \in 1..Cardinality(S) : k < l => <<A[k], A[l]>> \in order
               /\ \A i \in S : \E k \in 1..Cardinality(S) : A[k] = i
<1> DEFINE pre(i) == {j \in S : <<j, i>> \in order}
           n == Cardinality(S)
           place == [i \in S |-> Cardinality(pre(i)) + 1]
           A == Arranged(S, order)
<1>1. n \in Nat
  BY FS_CardinalityType
<1>2. ASSUME NEW i \in S
      PROVE  IsFiniteSet(pre(i)) /\ Cardinality(pre(i)) \in Nat /\ Cardinality(pre(i)) < n
  <2>1. pre(i) \in SUBSET S /\ i \notin pre(i)
    OBVIOUS
  <2>2. pre(i) # S
    BY <2>1
  <2> HIDE DEF pre
  <2>3. IsFiniteSet(pre(i)) /\ Cardinality(pre(i)) <= n /\ Cardinality(pre(i)) # n
    BY <2>1, <2>2, FS_Subset
  <2>4. Cardinality(pre(i)) \in Nat
    BY <2>3, FS_CardinalityType
  <2> QED BY <1>1, <2>3, <2>4
<1>3. ASSUME NEW i \in S, NEW j \in S, <<i, j>> \in order
      PROVE  Cardinality(pre(i)) < Cardinality(pre(j))
  <2>1. pre(i) \in SUBSET pre(j) /\ i \in pre(j) /\ i \notin pre(i)
    BY <1>3
  <2>2. pre(i) # pre(j)
    BY <2>1
  <2>3. IsFiniteSet(pre(j)) /\ Cardinality(pre(j)) \in Nat /\ Cardinality(pre(i)) \in Nat
    BY <1>2
  <2> HIDE DEF pre
  <2>4. Cardinality(pre(i)) <= Cardinality(pre(j)) /\ Cardinality(pre(i)) # Cardinality(pre(j))
    BY <2>1, <2>2, <2>3, FS_Subset
  <2> QED BY <2>3, <2>4
<1>4. place \in Injection(S, 1..n)
  <2>1. place \in [S -> 1..n]
    BY <1>1, <1>2
  <2>2. \A i, j \in S : place[i] = place[j] => i = j
    <3> SUFFICES ASSUME NEW i \in S, NEW j \in S, i # j PROVE place[i] # place[j]
      OBVIOUS
    <3>1. Cardinality(pre(i)) \in Nat /\ Cardinality(pre(j)) \in Nat
      BY <1>2
    <3>3. <<i, j>> \in order \/ <<j, i>> \in order
      OBVIOUS
    <3> HIDE DEF pre
    <3>2. Cardinality(pre(i)) # Cardinality(pre(j))
      BY <1>3, <3>1, <3>3
    <3> QED BY <3>1, <3>2
  <2> QED BY <2>1, <2>2 DEF Injection, IsInjective
<1>5. place \in Surjection(S, 1..n)
  <2>1. IsFiniteSet(1..n) /\ Cardinality(1..n) = n
    BY <1>1, FS_Interval
  <2> HIDE DEF place, n
  <2> QED BY <1>4, <2>1, FS_Injection DEF n
<1>6. ASSUME NEW k \in 1..n
      PROVE  A[k] \in S /\ Cardinality(pre(A[k])) = k - 1
  <2>1. PICK i \in S : place[i] = k
    BY <1>5 DEF Surjection
  <2>2. Cardinality(pre(i)) = k - 1
    <3>1. Cardinality(pre(i)) \in Nat /\ k \in Nat
      BY <1>1, <1>2
    <3> HIDE DEF pre
    <3> QED BY <2>1, <3>1
  <2>3. A[k] = CHOOSE j \in S : Cardinality(pre(j)) = k - 1
    BY DEF Arranged
  <2> HIDE DEF pre, A
  <2> QED BY <2>2, <2>3
<1>7. ASSUME NEW k \in 1..n, NEW l \in 1..n, k < l PROVE <<A[k], A[l]>> \in order
  <2>1. /\ A[k] \in S /\ Cardinality(pre(A[k])) = k - 1
        /\ A[l] \in S /\ Cardinality(pre(A[l])) = l - 1
    BY <1>6
  <2> HIDE DEF A, pre
  <2>2. k \in Nat /\ l \in Nat /\ ~(l - 1 < k - 1) /\ l - 1 # k - 1
    BY <1>1, <1>7
  <2>3. A[k] # A[l] /\ <<A[l], A[k]>> \notin order
    BY <1>3, <2>1, <2>2
  <2> QED BY <2>1, <2>3
<1>8. ASSUME NEW i \in S PROVE \E k \in 1..n : A[k] = i
  <2>1. place[i] \in 1..n /\ Cardinality(pre(i)) = place[i] - 1
    BY <1>1, <1>2
  <2>2. A[place[i]] \in S /\ Cardinality(pre(A[place[i]])) = place[i] - 1
    BY <1>6, <2>1
  <2> HIDE DEF A, pre
  <2>3. place[A[place[i]]] = place[i]
    BY <1>2, <2>1, <2>2
  <2> HIDE DEF place
  <2>4. A[place[i]] = i
    BY <1>4, <2>2, <2>3 DEF Injection, IsInjective
  <2> QED BY <2>1, <2>4
<1>9. A \in [1..n -> S]
  <2>1. A = [k \in 1..n |-> CHOOSE i \in S : Cardinality(pre(i)) = k - 1]
    BY DEF Arranged
  <2>2. \A k \in 1..n : A[k] \in S
    BY <1>6
  <2> HIDE DEF A, pre
  <2> QED BY <2>1, <2>2
<1> QED BY <1>1, <1>7, <1>8, <1>9

\* trim(): the positions of a log, arranged.
LEMMA NewestPlaces ==
    ASSUME NEW s \in Seq(Event)
    PROVE  LET all == DOMAIN s
               A   == Arranged(all, {p \in all \X all : Before(s, p[1], p[2])})
           IN  /\ A \in [1..Len(s) -> 1..Len(s)]
               /\ \A k, l \in 1..Len(s) : k < l => Before(s, A[k], A[l])
               /\ \A i \in 1..Len(s) : \E k \in 1..Len(s) : A[k] = i
<1> DEFINE all == DOMAIN s
           order == {p \in all \X all : Before(s, p[1], p[2])}
           A == Arranged(all, order)
<1>1. /\ Len(s) \in Nat /\ all = 1..Len(s)
      /\ \A i \in all : s[i].ts \in Nat
  <2>1. Len(s) \in Nat /\ all = 1..Len(s)
    BY LenProperties
  <2>2. \A i \in all : s[i] \in Event
    BY <2>1, ElementOfSeq
  <2> QED BY <2>1, <2>2, EventNumbers
<1>2. IsFiniteSet(all) /\ Cardinality(all) = Len(s)
  BY <1>1, FS_Interval
<1>3. \A i, j \in all : <<i, j>> \in order <=> Before(s, i, j)
  OBVIOUS
<1>4. \A i \in all : i \in Nat
  BY <1>1
<1> HIDE DEF order, all
<1>5. /\ \A i \in all : <<i, i>> \notin order
      /\ \A i, j \in all : i # j => <<i, j>> \in order \/ <<j, i>> \in order
      /\ \A i, j, k \in all : <<i, j>> \in order /\ <<j, k>> \in order => <<i, k>> \in order
  <2>1. \A i \in all : ~Before(s, i, i)
    BY <1>1, <1>4 DEF Before
  <2>2. \A i, j \in all : i # j => Before(s, i, j) \/ Before(s, j, i)
    BY <1>1, <1>4 DEF Before
  <2>3. \A i, j, k \in all : Before(s, i, j) /\ Before(s, j, k) => Before(s, i, k)
    <3> SUFFICES ASSUME NEW i \in all, NEW j \in all, NEW k \in all, Before(s, i, j), Before(s, j, k)
                 PROVE  Before(s, i, k)
      OBVIOUS
    <3>1. /\ s[i].ts \in Nat /\ s[j].ts \in Nat /\ s[k].ts \in Nat
          /\ i \in Nat /\ j \in Nat /\ k \in Nat
      BY <1>1, <1>4
    <3> QED BY <3>1 DEF Before
  <2> QED BY <1>3, <2>1, <2>2, <2>3
<1>6. /\ A \in [1..Cardinality(all) -> all]
      /\ \A k, l \in 1..Cardinality(all) : k < l => <<A[k], A[l]>> \in order
      /\ \A i \in all : \E k \in 1..Cardinality(all) : A[k] = i
  BY <1>2, <1>5, ArrangedOnce
<1> HIDE DEF A
<1>7. \A k, l \in 1..Len(s) : k < l => Before(s, A[k], A[l])
  <2> SUFFICES ASSUME NEW k \in 1..Len(s), NEW l \in 1..Len(s), k < l PROVE Before(s, A[k], A[l])
    OBVIOUS
  <2>1. A[k] \in all /\ A[l] \in all /\ <<A[k], A[l]>> \in order
    BY <1>2, <1>6
  <2> QED BY <1>3, <2>1
<1>8. A \in [1..Len(s) -> 1..Len(s)] /\ \A i \in 1..Len(s) : \E k \in 1..Len(s) : A[k] = i
  BY <1>1, <1>2, <1>6
<1> QED BY <1>7, <1>8 DEF A, all, order

\* What a trim leaves of a log that is too long: MaxKept of its events, each
\* once, and every other one is no newer than any of them.
LEMMA NewestKeeps ==
    ASSUME NEW s, NEW n \in Nat, GoodLog(s, n), ~Fits(s)
    PROVE  /\ GoodLog(Newest(s), n) /\ Len(Newest(s)) = MaxKept
           /\ Elements(Newest(s)) \subseteq Elements(s)
           /\ \A x \in Elements(s), y \in Elements(Newest(s)) :
                 x \notin Elements(Newest(s)) => y.ts >= x.ts
<1> DEFINE all == DOMAIN s
           A == Arranged(all, {p \in all \X all : Before(s, p[1], p[2])})
<1>1. s \in Seq(Event) /\ Len(s) \in Nat /\ DOMAIN s = 1..Len(s) /\ MaxKept \in Nat /\ MaxKept < Len(s)
  BY LenProperties, AlarmEventsAssumption DEF GoodLog, Fits
<1>2. /\ A \in [1..Len(s) -> 1..Len(s)]
      /\ \A k, l \in 1..Len(s) : k < l => Before(s, A[k], A[l])
      /\ \A i \in 1..Len(s) : \E k \in 1..Len(s) : A[k] = i
  BY <1>1, NewestPlaces
<1>3. Newest(s) = [k \in 1..MaxKept |-> s[A[k]]]
  BY DEF Newest
<1> HIDE DEF A
<1>4. \A i \in 1..Len(s) : s[i] \in Event /\ s[i].ts \in Nat /\ s[i].no <= n
  <2>1. \A i \in 1..Len(s) : s[i] \in Event
    BY <1>1, ElementOfSeq
  <2>2. \A i \in 1..Len(s) : s[i].no <= n
    BY <1>1 DEF GoodLog
  <2> QED BY <2>1, <2>2, EventNumbers
<1>5. \A k \in 1..MaxKept : k \in 1..Len(s) /\ A[k] \in 1..Len(s) /\ Newest(s)[k] = s[A[k]]
  <2>1. \A k \in 1..MaxKept : k \in 1..Len(s)
    BY <1>1
  <2> QED BY <1>2, <1>3, <2>1
<1>6. /\ Newest(s) \in Seq(Event) /\ Len(Newest(s)) = MaxKept /\ DOMAIN Newest(s) = 1..MaxKept
  <2>1. Newest(s) \in [1..MaxKept -> Event]
    BY <1>3, <1>4, <1>5
  <2> QED BY <1>1, <2>1
<1>7. \A k, l \in 1..MaxKept : Newest(s)[k].no = Newest(s)[l].no => k = l
  <2>1. ASSUME NEW k \in 1..MaxKept, NEW l \in 1..MaxKept, k < l
        PROVE  Newest(s)[k].no # Newest(s)[l].no
    <3>1. /\ A[k] \in 1..Len(s) /\ A[l] \in 1..Len(s) /\ Before(s, A[k], A[l])
          /\ Newest(s)[k] = s[A[k]] /\ Newest(s)[l] = s[A[l]]
      BY <1>2, <1>5, <2>1
    <3>2. A[k] # A[l]
      BY <1>4, <3>1 DEF Before
    <3> QED BY <1>1, <3>1, <3>2 DEF GoodLog
  <2>2. \A k, l \in 1..MaxKept : k # l => k < l \/ l < k
    BY <1>1
  <2> QED BY <2>1, <2>2
<1>8. GoodLog(Newest(s), n)
  BY <1>4, <1>5, <1>6, <1>7 DEF GoodLog
<1>9. Elements(Newest(s)) \subseteq Elements(s)
  BY <1>1, <1>5, <1>6 DEF Elements
<1>10. ASSUME NEW x \in Elements(s), NEW y \in Elements(Newest(s)), x \notin Elements(Newest(s))
       PROVE  y.ts >= x.ts
  <2>1. PICK i \in 1..Len(s) : x = s[i]
    BY <1>1 DEF Elements
  <2>2. PICK k \in 1..MaxKept : y = s[A[k]]
    BY <1>5, <1>6 DEF Elements
  <2>3. PICK l \in 1..Len(s) : A[l] = i
    BY <1>2
  <2>4. l \notin 1..MaxKept
    <3> SUFFICES ASSUME l \in 1..MaxKept PROVE FALSE
      OBVIOUS
    <3>1. Newest(s)[l] = x /\ l \in DOMAIN Newest(s)
      BY <1>5, <1>6, <2>1, <2>3
    <3> QED BY <1>10, <3>1 DEF Elements
  <2>5. k < l /\ k \in 1..Len(s)
    BY <1>1, <2>4
  <2>6. Before(s, A[k], i)
    BY <1>2, <2>3, <2>5
  <2>7. A[k] \in 1..Len(s)
    BY <1>5
  <2> QED BY <1>4, <2>1, <2>2, <2>6, <2>7 DEF Before
<1> QED BY <1>6, <1>8, <1>9, <1>10

\* What a clearing leaves of a log: its events that are not older than the
\* cut-off, each once.
LEMMA RetainedKeeps ==
    ASSUME NEW s, NEW n \in Nat, GoodLog(s, n), NEW cutoff \in Nat
    PROVE  /\ GoodLog(Retained(s, cutoff), n) /\ Len(Retained(s, cutoff)) <= Len(s)
           /\ Elements(Retained(s, cutoff)) = {x \in Elements(s) : x.ts >= cutoff}
<1> DEFINE kept == {i \in DOMAIN s : s[i].ts >= cutoff}
           order == {p \in kept \X kept : p[1] < p[2]}
           A == Arranged(kept, order)
           m == Cardinality(kept)
           R == Retained(s, cutoff)
<1>1. s \in Seq(Event) /\ Len(s) \in Nat /\ DOMAIN s = 1..Len(s)
  BY LenProperties DEF GoodLog
<1>2. \A i \in 1..Len(s) : s[i] \in Event /\ s[i].no <= n
  BY <1>1, ElementOfSeq DEF GoodLog
<1>3. kept \subseteq 1..Len(s) /\ \A i \in kept : i \in Nat
  BY <1>1
<1>4. IsFiniteSet(kept) /\ m <= Len(s)
  <2> HIDE DEF kept
  <2>0. 1 \in Int /\ Len(s) \in Int /\ (IF 1 > Len(s) THEN 0 ELSE Len(s) - 1 + 1) = Len(s)
    BY <1>1
  <2>1. IsFiniteSet(1..Len(s)) /\ Cardinality(1..Len(s)) = Len(s)
    BY <2>0, FS_Interval
  <2> QED BY <1>3, <2>1, FS_Subset
<1>5. \A i, j \in kept : <<i, j>> \in order <=> i < j
  OBVIOUS
<1>6. R = [k \in 1..m |-> s[A[k]]]
  BY DEF Retained
<1>a. \A x : x \in kept <=> x \in 1..Len(s) /\ s[x].ts >= cutoff
  BY <1>1
<1> HIDE DEF order, kept
<1>7. /\ m \in Nat /\ A \in [1..m -> kept]
      /\ \A k, l \in 1..m : k < l => <<A[k], A[l]>> \in order
      /\ \A i \in kept : \E k \in 1..m : A[k] = i
  <2>1. \A i \in kept : <<i, i>> \notin order
    BY <1>3, <1>5
  <2>2. \A i, j \in kept : i # j => <<i, j>> \in order \/ <<j, i>> \in order
    BY <1>3, <1>5
  <2>3. \A i, j, k \in kept : <<i, j>> \in order /\ <<j, k>> \in order => <<i, k>> \in order
    BY <1>3, <1>5
  <2> QED BY <1>4, <2>1, <2>2, <2>3, ArrangedOnce
<1> HIDE DEF A, R, m
<1>8. \A k \in 1..m : A[k] \in kept /\ A[k] \in 1..Len(s) /\ R[k] = s[A[k]]
  BY <1>3, <1>6, <1>7
<1>9. R \in Seq(Event) /\ Len(R) = m /\ DOMAIN R = 1..m
  <2>1. R \in [1..m -> Event]
    BY <1>2, <1>6, <1>8
  <2> QED BY <1>7, <2>1
<1>10. \A k, l \in 1..m : R[k].no = R[l].no => k = l
  <2>1. ASSUME NEW k \in 1..m, NEW l \in 1..m, k < l
        PROVE  R[k].no # R[l].no
    <3>1. /\ A[k] \in kept /\ A[l] \in kept /\ <<A[k], A[l]>> \in order
          /\ R[k] = s[A[k]] /\ R[l] = s[A[l]]
      BY <1>7, <1>8, <2>1
    <3>3. A[k] < A[l]
      BY <1>5, <3>1
    <3>4. A[k] \in 1..Len(s) /\ A[l] \in 1..Len(s)
      BY <1>3, <3>1
    <3>2. A[k] # A[l] /\ A[k] \in DOMAIN s /\ A[l] \in DOMAIN s
      BY <1>1, <3>3, <3>4
    <3> QED BY <3>1, <3>2 DEF GoodLog
  <2>2. \A k, l \in 1..m : k # l => k < l \/ l < k
    BY <1>7
  <2> QED BY <2>1, <2>2
<1>11. GoodLog(R, n)
  BY <1>2, <1>8, <1>9, <1>10 DEF GoodLog
<1>12. Elements(R) = {x \in Elements(s) : x.ts >= cutoff}
  <2>1. ASSUME NEW x \in Elements(R) PROVE x \in Elements(s) /\ x.ts >= cutoff
    <3>1. PICK k \in 1..m : x = R[k]
      BY <1>9 DEF Elements
    <3>2. A[k] \in 1..Len(s) /\ x = s[A[k]] /\ s[A[k]].ts >= cutoff
      BY <1>8, <1>a, <3>1
    <3> QED BY <1>1, <3>2 DEF Elements
  <2>2. ASSUME NEW x \in Elements(s), x.ts >= cutoff PROVE x \in Elements(R)
    <3>1. PICK i \in 1..Len(s) : x = s[i]
      BY <1>1 DEF Elements
    <3>2. i \in kept
      BY <1>a, <2>2, <3>1
    <3>3. PICK k \in 1..m : A[k] = i
      BY <1>7, <3>2
    <3> QED BY <1>8, <1>9, <3>1, <3>3 DEF Elements
  <2> QED BY <2>1, <2>2
<1> QED BY <1>4, <1>9, <1>11, <1>12 DEF R

\* One more event is the last of a log.
LEMMA AppendKeeps ==
    ASSUME NEW s, NEW n \in Nat, GoodLog(s, n), NEW x \in Event, x.no = n + 1
    PROVE  /\ GoodLog(Append(s, x), n + 1) /\ Len(Append(s, x)) = Len(s) + 1
           /\ Elements(Append(s, x)) = Elements(s) \cup {x}
<1> DEFINE t == Append(s, x)
<1>1. s \in Seq(Event) /\ Len(s) \in Nat /\ DOMAIN s = 1..Len(s)
  BY LenProperties DEF GoodLog
<1>2. /\ t \in Seq(Event) /\ Len(t) = Len(s) + 1 /\ DOMAIN t = 1..(Len(s) + 1)
      /\ \A i \in 1..Len(s) : t[i] = s[i]
      /\ t[Len(s) + 1] = x
  BY <1>1, AppendProperties, LenProperties
<1> HIDE DEF t
<1>3. \A i \in 1..Len(s) : s[i].no \in Nat /\ s[i].no <= n
  <2>1. \A i \in 1..Len(s) : s[i] \in Event
    BY <1>1, ElementOfSeq
  <2> QED BY <1>1, <2>1, EventNumbers DEF GoodLog
<1>4. \A i \in DOMAIN t : i \in 1..Len(s) \/ i = Len(s) + 1
  BY <1>1, <1>2
<1>5. \A i \in DOMAIN t : t[i].no <= n + 1
  BY <1>2, <1>3, <1>4
<1>6. \A i, j \in DOMAIN t : t[i].no = t[j].no => i = j
  <2>1. \A i \in 1..Len(s) : t[i].no # x.no
    BY <1>2, <1>3
  <2>2. \A i, j \in 1..Len(s) : s[i].no = s[j].no => i = j
    BY <1>1 DEF GoodLog
  <2> QED BY <1>2, <1>4, <2>1, <2>2
<1>7. Elements(t) = Elements(s) \cup {x}
  <2>1. \A y \in Elements(t) : y \in Elements(s) \cup {x}
    BY <1>1, <1>2, <1>4 DEF Elements
  <2>2. x \in Elements(t)
    BY <1>1, <1>2 DEF Elements
  <2>3. \A y \in Elements(s) : y \in Elements(t)
    <3> SUFFICES ASSUME NEW y \in Elements(s) PROVE y \in Elements(t)
      OBVIOUS
    <3>1. PICK i \in 1..Len(s) : y = s[i]
      BY <1>1 DEF Elements
    <3>2. i \in DOMAIN t /\ t[i] = y
      BY <1>1, <1>2, <3>1
    <3> QED BY <3>2 DEF Elements
  <2> QED BY <2>1, <2>2, <2>3
<1> QED BY <1>2, <1>5, <1>6, <1>7 DEF GoodLog, t

\* The events of a log are finitely many items, as many as the log is long.
LEMMA ElementsOfLog ==
    ASSUME NEW s, NEW n \in Nat, GoodLog(s, n)
    PROVE  /\ IsFiniteSet(Elements(s)) /\ Cardinality(Elements(s)) = Len(s)
           /\ Elements(s) \subseteq Event
<1>1. s \in Seq(Event) /\ Len(s) \in Nat /\ DOMAIN s = 1..Len(s)
  BY LenProperties DEF GoodLog
<1>2. \A i \in 1..Len(s) : s[i] \in Event
  BY <1>1, ElementOfSeq
<1>3. s \in [1..Len(s) -> Elements(s)]
  BY <1>1 DEF Elements
<1>4. s \in Surjection(1..Len(s), Elements(s))
  BY <1>1, <1>3 DEF Surjection, Elements
<1>5. s \in Injection(1..Len(s), Elements(s))
  BY <1>1, <1>3 DEF Injection, IsInjective, GoodLog
<1>6. IsFiniteSet(1..Len(s)) /\ Cardinality(1..Len(s)) = Len(s)
  <2>1. 1 \in Int /\ Len(s) \in Int /\ (IF 1 > Len(s) THEN 0 ELSE Len(s) - 1 + 1) = Len(s)
    BY <1>1
  <2> QED BY <2>1, FS_Interval
<1>7. IsFiniteSet(Elements(s)) /\ Cardinality(Elements(s)) = Len(s)
  BY <1>4, <1>5, <1>6, FS_Surjection
<1> QED BY <1>1, <1>2, <1>7 DEF Elements

\* A log that only gained events holds what it held.
LEMMA HeldGrows ==
    ASSUME NEW e, NEW s, NEW t, Elements(s) \subseteq Elements(t), IsFiniteSet(Elements(t)), Held(e, s)
    PROVE  Held(e, t)
<1>1. MaxKept \in Nat
  BY AlarmEventsAssumption
<1>2. Newer(e, s) \in SUBSET Newer(e, t) /\ Newer(e, t) \in SUBSET Elements(t)
  BY DEF Newer
<1>3. IsFiniteSet(Newer(e, t))
  BY <1>2, FS_Subset
<1>4. Cardinality(Newer(e, s)) <= Cardinality(Newer(e, t)) /\ IsFiniteSet(Newer(e, s))
  BY <1>2, <1>3, FS_Subset
<1>5. Cardinality(Newer(e, s)) \in Nat /\ Cardinality(Newer(e, t)) \in Nat
  BY <1>3, <1>4, FS_CardinalityType
<1> QED BY <1>1, <1>4, <1>5 DEF Held

\* A trim does not lose what is held: if the event goes, MaxKept stay that
\* are no older.
LEMMA HeldTrimmed ==
    ASSUME NEW e \in Event, NEW s, NEW n \in Nat, GoodLog(s, n), ~Fits(s), Held(e, s)
    PROVE  Held(e, Newest(s))
<1> DEFINE t == Newest(s)
<1> SUFFICES Held(e, t)
  OBVIOUS
<1>1. /\ GoodLog(t, n) /\ Len(t) = MaxKept /\ Elements(t) \subseteq Elements(s)
      /\ \A x \in Elements(s), y \in Elements(t) : x \notin Elements(t) => y.ts >= x.ts
  BY NewestKeeps
<1>2. /\ IsFiniteSet(Elements(s)) /\ IsFiniteSet(Elements(t)) /\ Cardinality(Elements(t)) = MaxKept
      /\ Elements(s) \subseteq Event /\ MaxKept \in Nat
  BY <1>1, ElementsOfLog, AlarmEventsAssumption
<1> HIDE DEF t
<1>3. ASSUME \A y \in Elements(t) : y.ts >= e.ts PROVE Held(e, t)
  <2>1. Newer(e, t) = Elements(t)
    BY <1>3 DEF Newer
  <2> QED BY <1>2, <2>1 DEF Held
<1>4. CASE e \in Elements(t)
  BY <1>4 DEF Held
<1>5. CASE e \notin Elements(t) /\ e \in Elements(s)
  BY <1>1, <1>3, <1>5
<1>6. CASE e \notin Elements(t) /\ e \notin Elements(s)
  <2>1. Cardinality(Newer(e, s)) >= MaxKept
    BY <1>6 DEF Held
  <2>2. CASE Newer(e, s) \subseteq Elements(t)
    <3>1. Newer(e, s) = Newer(e, t)
      BY <1>1, <2>2 DEF Newer
    <3> QED BY <2>1, <3>1 DEF Held
  <2>3. CASE ~(Newer(e, s) \subseteq Elements(t))
    <3>1. PICK x \in Elements(s) : x.ts >= e.ts /\ x \notin Elements(t)
      BY <2>3 DEF Newer
    <3>2. \A y \in Elements(t) : y.ts >= e.ts
      <4> SUFFICES ASSUME NEW y \in Elements(t) PROVE y.ts >= e.ts
        OBVIOUS
      <4>1. y.ts >= x.ts
        BY <1>1, <3>1
      <4>2. y.ts \in Nat /\ x.ts \in Nat /\ e.ts \in Nat
        BY <1>1, <1>2, EventNumbers
      <4> QED BY <3>1, <4>1, <4>2
    <3> QED BY <1>3, <3>2
  <2> QED BY <2>2, <2>3
<1> QED BY <1>4, <1>5, <1>6

\* A clearing keeps what is held of an event it does not mean.
LEMMA HeldRetained ==
    ASSUME NEW e \in Event, NEW s, NEW n \in Nat, GoodLog(s, n), NEW cutoff \in Nat, e.ts >= cutoff,
           Held(e, s)
    PROVE  Held(e, Retained(s, cutoff))
<1> DEFINE t == Retained(s, cutoff)
<1>1. Elements(t) = {x \in Elements(s) : x.ts >= cutoff}
  BY RetainedKeeps
<1>2. Elements(s) \subseteq Event
  BY ElementsOfLog
<1> HIDE DEF t
<1>3. Newer(e, t) = Newer(e, s)
  <2>1. ASSUME NEW x \in Elements(s), x.ts >= e.ts PROVE x.ts >= cutoff
    <3>1. x.ts \in Nat /\ e.ts \in Nat
      BY <1>2, EventNumbers
    <3> QED BY <2>1, <3>1
  <2> QED BY <1>1, <2>1 DEF Newer
<1>4. e \in Elements(s) => e \in Elements(t)
  BY <1>1
<1> QED BY <1>3, <1>4 DEF Held, t

\* An event is held where it is put.
LEMMA HeldFromPut ==
    ASSUME NEW s, NEW n \in Nat, GoodLog(s, n), NEW x \in Event, x.no = n + 1
    PROVE  /\ Held(x, Append(s, x))
           /\ \A e : Held(e, s) => Held(e, Append(s, x))
<1>1. /\ Elements(Append(s, x)) = Elements(s) \cup {x}
      /\ GoodLog(Append(s, x), n + 1)
  BY AppendKeeps
<1>2. IsFiniteSet(Elements(Append(s, x)))
  <2>1. n + 1 \in Nat
    OBVIOUS
  <2> QED BY <1>1, <2>1, ElementsOfLog
<1>3. \A e : Held(e, s) => Held(e, Append(s, x))
  BY <1>1, <1>2, HeldGrows
<1>4. Held(x, Append(s, x))
  BY <1>1 DEF Held
<1> QED BY <1>3, <1>4

----------------------------------------------------------------------------
\* A write is added to those under way, with the cache as it is then.
LEMMA FollowsAdded ==
    ASSUME NEW T, NEW q \in Seq(T), NEW w \in T, NEW e, NEW i, NEW cache
    PROVE  /\ Follows(e, i, cache, q) /\ Held(e, w.json) => Follows(e, i, w.json, Append(q, w))
           /\ Held(e, w.json) => Follows(e, Len(q) + 1, w.json, Append(q, w))
<1>1. /\ Len(q) \in Nat /\ DOMAIN q = 1..Len(q)
      /\ DOMAIN Append(q, w) = 1..(Len(q) + 1)
      /\ \A k \in 1..Len(q) : Append(q, w)[k] = q[k]
      /\ Append(q, w)[Len(q) + 1] = w
  BY AppendProperties, LenProperties
<1>2. \A k \in DOMAIN Append(q, w) : k \in 1..Len(q) \/ k = Len(q) + 1
  BY <1>1
<1>3. \A k \in DOMAIN Append(q, w) : k >= Len(q) + 1 => k = Len(q) + 1
  BY <1>1
<1> QED BY <1>1, <1>2, <1>3 DEF Follows

\* The oldest write is gone: the others move up.
LEMMA FollowsMovesUp ==
    ASSUME NEW T, NEW q \in Seq(T), q # <<>>, NEW e, NEW i \in Nat, NEW cache,
           Follows(e, i + 1, cache, q)
    PROVE  Follows(e, i, cache, Tail(q))
<1>1. /\ Len(q) \in Nat /\ DOMAIN q = 1..Len(q) /\ DOMAIN Tail(q) = 1..(Len(q) - 1)
      /\ \A k \in 1..(Len(q) - 1) : Tail(q)[k] = q[k + 1]
  BY HeadTailProperties, LenProperties
<1>2. \A k \in 1..(Len(q) - 1) : k \in Nat /\ k + 1 \in 1..Len(q) /\ (k >= i => k + 1 >= i + 1)
  BY <1>1
<1> QED BY <1>1, <1>2 DEF Follows

\* What is held from one write on is held from a later one on.
LEMMA FollowsLater ==
    ASSUME NEW T, NEW q \in Seq(T), NEW e, NEW i \in Nat, NEW j \in Nat, i <= j, NEW cache,
           Follows(e, i, cache, q)
    PROVE  Follows(e, j, cache, q)
<1>1. DOMAIN q = 1..Len(q) /\ Len(q) \in Nat
  BY LenProperties
<1>2. \A k \in DOMAIN q : k >= j => k >= i
  BY <1>1
<1> QED BY <1>2 DEF Follows

\* The oldest write is gone, and what it was to keep is still kept.
LEMMA DueMovesUp ==
    ASSUME NEW T, NEW q \in Seq(T), q # <<>>, NEW cache, NEW calls, NEW after, Due(q, calls, cache),
           \A k, l \in DOMAIN q : q[k].by = q[l].by => k = l,
           \A k \in DOMAIN q : q[k].by # Head(q).by => after[q[k].by] = calls[q[k].by]
    PROVE  Due(Tail(q), after, cache)
<1>1. /\ Len(q) \in Nat /\ DOMAIN q = 1..Len(q) /\ DOMAIN Tail(q) = 1..(Len(q) - 1)
      /\ \A k \in 1..(Len(q) - 1) : Tail(q)[k] = q[k + 1]
      /\ Head(q) = q[1] /\ 1 \in DOMAIN q
  <2>1. Len(q) \in Nat /\ Len(q) # 0
    BY LenProperties, EmptySeq
  <2> QED BY <2>1, HeadTailProperties, LenProperties
<1> SUFFICES ASSUME NEW i \in DOMAIN Tail(q),
                    after[Tail(q)[i].by].at \in {"putting", "trimming"}, ~after[Tail(q)[i].by].wiped
             PROVE  Follows(after[Tail(q)[i].by].event, i, cache, Tail(q))
  BY DEF Due
<1>2. i \in Nat /\ i + 1 \in DOMAIN q /\ i + 1 # 1 /\ Tail(q)[i] = q[i + 1]
  BY <1>1
<1>3. q[i + 1].by # Head(q).by
  BY <1>1, <1>2
<1>4. after[q[i + 1].by] = calls[q[i + 1].by]
  BY <1>2, <1>3
<1>5. Follows(calls[q[i + 1].by].event, i + 1, cache, q)
  BY <1>2, <1>4 DEF Due
<1> QED BY <1>2, <1>4, <1>5, FollowsMovesUp

\* A write is added: what is due is held in it too, and what it puts itself.
LEMMA DueAdded ==
    ASSUME NEW T, NEW q \in Seq(T), NEW w \in T, NEW cache, NEW calls, NEW after, Due(q, calls, cache),
           \A k \in DOMAIN q :
              after[q[k].by].at \in {"putting", "trimming"} /\ ~after[q[k].by].wiped =>
                 /\ calls[q[k].by].at \in {"putting", "trimming"} /\ ~calls[q[k].by].wiped
                 /\ after[q[k].by].event = calls[q[k].by].event
                 /\ Held(after[q[k].by].event, cache) => Held(after[q[k].by].event, w.json),
           after[w.by].at \in {"putting", "trimming"} /\ ~after[w.by].wiped =>
              Held(after[w.by].event, w.json)
    PROVE  Due(Append(q, w), after, w.json)
<1>1. /\ Len(q) \in Nat /\ DOMAIN q = 1..Len(q)
      /\ DOMAIN Append(q, w) = 1..(Len(q) + 1)
      /\ \A k \in 1..Len(q) : Append(q, w)[k] = q[k]
      /\ Append(q, w)[Len(q) + 1] = w
  BY AppendProperties, LenProperties
<1> SUFFICES ASSUME NEW i \in DOMAIN Append(q, w),
                    after[Append(q, w)[i].by].at \in {"putting", "trimming"},
                    ~after[Append(q, w)[i].by].wiped
             PROVE  Follows(after[Append(q, w)[i].by].event, i, w.json, Append(q, w))
  BY DEF Due
<1>2. CASE i \in 1..Len(q)
  <2>1. Append(q, w)[i] = q[i] /\ i \in DOMAIN q
    BY <1>1, <1>2
  <2>2. Follows(calls[q[i].by].event, i, cache, q) /\ after[q[i].by].event = calls[q[i].by].event
    BY <2>1 DEF Due
  <2>3. Held(after[q[i].by].event, w.json)
    BY <2>1, <2>2 DEF Follows
  <2> QED BY <2>1, <2>2, <2>3, FollowsAdded
<1>3. CASE i = Len(q) + 1
  BY <1>1, <1>3, FollowsAdded
<1> QED BY <1>1, <1>2, <1>3

----------------------------------------------------------------------------
\* What a log holds was put before, and before anything later.
LEMMA GoodLogLater ==
    ASSUME NEW s, NEW n \in Nat, NEW m \in Nat, n <= m, GoodLog(s, n)
    PROVE  GoodLog(s, m)
<1>1. s \in Seq(Event) /\ DOMAIN s = 1..Len(s)
  BY LenProperties DEF GoodLog
<1>2. \A i \in DOMAIN s : s[i].no \in Nat
  <2>1. \A i \in DOMAIN s : s[i] \in Event
    BY <1>1, ElementOfSeq
  <2> QED BY <2>1, EventNumbers
<1>3. \A i \in DOMAIN s : s[i].no <= m
  <2> SUFFICES ASSUME NEW i \in DOMAIN s PROVE s[i].no <= m
    OBVIOUS
  <2>1. s[i].no <= n /\ s[i].no \in Nat
    BY <1>2 DEF GoodLog
  <2> QED BY <2>1
<1> QED BY <1>3 DEF GoodLog

\* The writes under way after the oldest is gone.
LEMMA WritesMoveUp ==
    ASSUME NEW q, q # <<>>, NEW calls, NEW after, NEW n \in Nat, WritesFit(q, calls, n),
           \A w \in Writers : w # Head(q).by => after[w] = calls[w]
    PROVE  /\ Head(q).by \in Writers /\ GoodLog(Head(q).json, n) /\ calls[Head(q).by] # NoCall
           /\ WritesFit(Tail(q), after, n)
           /\ \A k \in DOMAIN Tail(q) : Tail(q)[k].by # Head(q).by
<1>1. /\ q \in Seq(LogWrite) /\ Len(q) \in Nat /\ DOMAIN q = 1..Len(q)
      /\ Tail(q) \in Seq(LogWrite) /\ DOMAIN Tail(q) = 1..(Len(q) - 1)
      /\ \A k \in 1..(Len(q) - 1) : Tail(q)[k] = q[k + 1]
      /\ Head(q) = q[1] /\ 1 \in DOMAIN q
  <2>1. q \in Seq(LogWrite)
    BY DEF WritesFit
  <2>2. Len(q) \in Nat /\ Len(q) # 0
    BY <2>1, LenProperties, EmptySeq
  <2> QED BY <2>1, <2>2, HeadTailProperties, LenProperties
<1>2. \A k \in DOMAIN q : q[k].by \in Writers
  <2>1. \A k \in DOMAIN q : q[k] \in LogWrite
    BY <1>1, ElementOfSeq
  <2> QED BY <2>1 DEF LogWrite
<1>3. Head(q).by \in Writers /\ GoodLog(Head(q).json, n) /\ calls[Head(q).by] # NoCall
  BY <1>1, <1>2 DEF WritesFit
<1>4. ASSUME NEW k \in DOMAIN Tail(q)
      PROVE  /\ k + 1 \in DOMAIN q /\ Tail(q)[k] = q[k + 1] /\ q[k + 1].by # Head(q).by
             /\ after[Tail(q)[k].by] # NoCall /\ GoodLog(Tail(q)[k].json, n)
  <2>1. k \in Nat /\ k + 1 \in DOMAIN q /\ k + 1 # 1 /\ Tail(q)[k] = q[k + 1]
    BY <1>1
  <2>2. q[k + 1].by # q[1].by
    BY <1>1, <2>1 DEF WritesFit
  <2>3. after[q[k + 1].by] = calls[q[k + 1].by]
    BY <1>1, <1>2, <2>1, <2>2
  <2> QED BY <1>1, <2>1, <2>2, <2>3 DEF WritesFit
<1>5. ASSUME NEW k \in DOMAIN Tail(q), NEW l \in DOMAIN Tail(q), Tail(q)[k].by = Tail(q)[l].by
      PROVE  k = l
  <2>1. /\ k + 1 \in DOMAIN q /\ l + 1 \in DOMAIN q /\ q[k + 1].by = q[l + 1].by
        /\ k \in Nat /\ l \in Nat
    BY <1>1, <1>4, <1>5
  <2>2. k + 1 = l + 1
    BY <2>1 DEF WritesFit
  <2> QED BY <2>1, <2>2
<1> QED BY <1>1, <1>3, <1>4, <1>5 DEF WritesFit

\* The writes under way after one more call.
LEMMA WritesAdded ==
    ASSUME NEW q, NEW calls, NEW after, NEW n \in Nat, NEW m \in Nat, n <= m,
           WritesFit(q, calls, n), NEW w \in Writers, NEW s, GoodLog(s, m),
           \A k \in DOMAIN q : q[k].by # w, after[w] # NoCall,
           \A k \in DOMAIN q : after[q[k].by] # NoCall
    PROVE  WritesFit(Append(q, [by |-> w, json |-> s]), after, m)
<1> DEFINE x == [by |-> w, json |-> s]
           r == Append(q, x)
<1>0. s \in Seq(Event)
  BY DEF GoodLog
<1>1. x \in LogWrite /\ x.by = w /\ x.json = s
  BY <1>0 DEF LogWrite
<1> HIDE DEF x
<1>2. q \in Seq(LogWrite)
  BY DEF WritesFit
<1>3. /\ Len(q) \in Nat /\ DOMAIN q = 1..Len(q)
      /\ r \in Seq(LogWrite) /\ DOMAIN r = 1..(Len(q) + 1)
      /\ \A k \in 1..Len(q) : r[k] = q[k]
      /\ r[Len(q) + 1] = x
  BY <1>1, <1>2, AppendProperties, LenProperties
<1> HIDE DEF r
<1>4. \A k \in DOMAIN r : (k \in DOMAIN q /\ r[k] = q[k]) \/ (k = Len(q) + 1 /\ r[k] = x)
  BY <1>3
<1>5. \A k \in DOMAIN q : GoodLog(q[k].json, m)
  BY GoodLogLater DEF WritesFit
<1>6. \A k \in DOMAIN r : GoodLog(r[k].json, m) /\ after[r[k].by] # NoCall
  BY <1>1, <1>4, <1>5
<1>7. \A k, l \in DOMAIN r : r[k].by = r[l].by => k = l
  <2>1. \A k, l \in DOMAIN q : q[k].by = q[l].by => k = l
    BY DEF WritesFit
  <2> QED BY <1>1, <1>4, <2>1
<1> QED BY <1>3, <1>6, <1>7 DEF WritesFit, r, x

\* What the oldest write, landing, makes its caller do.
LEMMA SavedCases ==
    ASSUME LogTyped, LogSaved
    PROVE  \E w \in Writers :
              /\ log.writes # <<>> /\ Head(log.writes).by = w
              /\ UNCHANGED <<which, hour, phone, notified, late, unfetched>>
              /\ \/ writer[w] \in Putting /\ (writer[w].at = "trimming" \/ Fits(log.cache)) /\ CallReturns(w)
                 \/ /\ writer[w] \in Putting /\ writer[w].at = "putting" /\ ~Fits(log.cache)
                    /\ log' = Update(Landed(log), w, Newest(log.cache))
                    /\ writer' = [writer EXCEPT ![w].at = "trimming"]
                    /\ UNCHANGED <<returned, usedUp>>
                 \/ writer[w] \in Clearing /\ LogTheClear(w)
<1> DEFINE w == Head(log.writes).by
<1>1. log.writes # <<>> /\ UNCHANGED <<which, hour, phone, notified, late, unfetched>>
  BY DEF LogSaved
<1>2. w \in Writers /\ writer[w] # NoCall
  BY <1>1, WritesMoveUp DEF LogTyped
<1>3. writer[w] \in Putting \/ writer[w] \in Clearing
  BY <1>2 DEF LogTyped
<1>4. CASE writer[w] \in Putting
  <2>1. writer[w].at \in {"putting", "trimming"}
    BY <1>4 DEF Putting
  <2>2. CASE writer[w].at = "putting"
    <3>1. TrimNext(w)
      BY <2>2 DEF LogSaved
    <3> QED BY <1>1, <1>2, <1>4, <2>2, <3>1 DEF TrimNext
  <2>3. CASE writer[w].at = "trimming"
    <3>1. CallReturns(w)
      BY <2>3 DEF LogSaved
    <3> QED BY <1>1, <1>2, <1>4, <2>3, <3>1
  <2> QED BY <2>1, <2>2, <2>3
<1>5. CASE writer[w] \in Clearing
  <2>1. writer[w].at = "clearing"
    BY <1>5 DEF Clearing
  <2>2. LogTheClear(w)
    BY <2>1 DEF LogSaved
  <2> QED BY <1>1, <1>2, <1>5, <2>2
<1> QED BY <1>3, <1>4, <1>5

\* The event that is put next is none of those before.
LEMMA NextIsAnEvent ==
    ASSUME LogTyped, NEW limit \in {MaxEvents, MaxEvents + MaxClears}, UseUp("events", limit),
           NEW ts \in 0..hour
    PROVE  [no |-> usedUp.events + 1, ts |-> ts] \in Event
<1>1. usedUp.events \in Nat /\ usedUp.events < MaxEvents + MaxClears /\ ts \in 0..MaxHour
  BY AlarmEventsAssumption DEF UseUp, LogTyped
<1> QED BY <1>1, AlarmEventsAssumption DEF Event

\* Nothing is put yet.
LEMMA LogTypedInit == AlarmsInit => LogTyped
<1> SUFFICES ASSUME AlarmsInit PROVE LogTyped
  OBVIOUS
<1>1. /\ log = Loaded(<<>>) /\ writer = [w \in Writers |-> NoCall] /\ hour = 1
      /\ usedUp = [events |-> 0, clears |-> 0, troubles |-> 0]
  BY DEF AlarmsInit
<1>2. log.cache = <<>> /\ log.disk = <<>> /\ log.writes = <<>>
  BY <1>1 DEF Loaded
<1>3. GoodLog(<<>>, 0)
  BY DEF GoodLog
<1>4. WritesFit(<<>>, writer, 0)
  BY DEF WritesFit
<1> QED BY <1>1, <1>2, <1>3, <1>4, AlarmEventsAssumption DEF LogTyped

\* A call of a writer that was free: its write follows those under way.
LEMMA CallTyped ==
    ASSUME LogTyped, NEW w \in Writers, writer[w] = NoCall, NEW s,
           log' = Update(log, w, s), hour' = hour,
           usedUp' \in [events : Nat, clears : Nat, troubles : Nat], usedUp.events <= usedUp'.events,
           GoodLog(s, usedUp'.events),
           writer' \in [Writers -> {NoCall} \cup Putting \cup Clearing], writer'[w] # NoCall,
           \A v \in Writers : writer[v] # NoCall => writer'[v] # NoCall
    PROVE  LogTyped'
<1>1. /\ log'.cache = s /\ log'.disk = log.disk
      /\ log'.writes = Append(log.writes, [by |-> w, json |-> s])
  BY DEF Update
<1>2. usedUp.events \in Nat /\ usedUp'.events \in Nat
  BY DEF LogTyped
<1>3. GoodLog(log.disk, usedUp'.events)
  BY <1>2, GoodLogLater DEF LogTyped
<1>4. \A k \in DOMAIN log.writes : writer[log.writes[k].by] # NoCall /\ log.writes[k].by \in Writers
  <2>1. log.writes \in Seq(LogWrite)
    BY DEF LogTyped, WritesFit
  <2>2. \A k \in DOMAIN log.writes : log.writes[k] \in LogWrite
    BY <2>1, ElementOfSeq, LenProperties
  <2> QED BY <2>2 DEF LogTyped, WritesFit, LogWrite
<1>5. WritesFit(log'.writes, writer', usedUp'.events)
  <2>1. WritesFit(log.writes, writer, usedUp.events)
    BY DEF LogTyped
  <2>2. \A k \in DOMAIN log.writes : log.writes[k].by # w /\ writer'[log.writes[k].by] # NoCall
    BY <1>4
  <2> QED BY <1>1, <1>2, <2>1, <2>2, WritesAdded
<1> QED BY <1>1, <1>3, <1>5 DEF LogTyped

\* The oldest write lands, and its caller writes again.
LEMMA GoesOnTyped ==
    ASSUME LogTyped, log.writes # <<>>, NEW w, w = Head(log.writes).by, NEW s,
           log' = Update(Landed(log), w, s), hour' = hour,
           usedUp' \in [events : Nat, clears : Nat, troubles : Nat], usedUp.events <= usedUp'.events,
           GoodLog(s, usedUp'.events),
           writer' \in [Writers -> {NoCall} \cup Putting \cup Clearing], writer'[w] # NoCall,
           \A v \in Writers : v # w => writer'[v] = writer[v]
    PROVE  LogTyped'
<1>1. /\ log'.cache = s /\ log'.disk = Head(log.writes).json
      /\ log'.writes = Append(Tail(log.writes), [by |-> w, json |-> s])
  BY DEF Update, Landed
<1>2. usedUp.events \in Nat /\ usedUp'.events \in Nat
  BY DEF LogTyped
<1>3. /\ w \in Writers /\ GoodLog(Head(log.writes).json, usedUp.events)
      /\ WritesFit(Tail(log.writes), writer', usedUp.events)
      /\ \A k \in DOMAIN Tail(log.writes) : Tail(log.writes)[k].by # w
  BY <1>2, WritesMoveUp DEF LogTyped
<1>4. GoodLog(Head(log.writes).json, usedUp'.events)
  BY <1>2, <1>3, GoodLogLater
<1>5. WritesFit(log'.writes, writer', usedUp'.events)
  <2> DEFINE q == Tail(log.writes)
  <2>1. /\ WritesFit(q, writer', usedUp.events) /\ \A k \in DOMAIN q : q[k].by # w
        /\ writer'[w] # NoCall /\ usedUp.events <= usedUp'.events /\ GoodLog(s, usedUp'.events)
        /\ w \in Writers
    BY <1>3
  <2>2. log'.writes = Append(q, [by |-> w, json |-> s])
    BY <1>1
  <2> HIDE DEF q
  <2>3. \A k \in DOMAIN q : writer'[q[k].by] # NoCall
    BY <2>1 DEF WritesFit
  <2>4. WritesFit(Append(q, [by |-> w, json |-> s]), writer', usedUp'.events)
    BY <1>2, <2>1, <2>3, WritesAdded
  <2> QED BY <2>2, <2>4
<1> QED BY <1>1, <1>4, <1>5 DEF LogTyped

\* The oldest write lands or is rejected, and its caller ends.
LEMMA EndsTyped ==
    ASSUME LogTyped, log.writes # <<>>, log' = Landed(log) \/ log' = Rejected(log), hour' = hour,
           usedUp' \in [events : Nat, clears : Nat, troubles : Nat], usedUp'.events = usedUp.events,
           writer' = [writer EXCEPT ![Head(log.writes).by] = NoCall]
    PROVE  LogTyped'
<1>1. /\ log'.cache = log.cache /\ log'.writes = Tail(log.writes)
      /\ (log'.disk = Head(log.writes).json \/ log'.disk = log.disk)
  <2>1. CASE log' = Landed(log)
    BY <2>1 DEF Landed
  <2>2. CASE log' = Rejected(log)
    BY <2>2 DEF Rejected
  <2> QED BY <2>1, <2>2
<1>2. usedUp.events \in Nat /\ writer' \in [Writers -> {NoCall} \cup Putting \cup Clearing]
  BY DEF LogTyped
<1>3. \A v \in Writers : v # Head(log.writes).by => writer'[v] = writer[v]
  BY DEF LogTyped
<1>4. GoodLog(Head(log.writes).json, usedUp.events) /\ WritesFit(Tail(log.writes), writer', usedUp.events)
  BY <1>2, <1>3, WritesMoveUp DEF LogTyped
<1> QED BY <1>1, <1>2, <1>4 DEF LogTyped

\* Every step keeps the log and its writers well typed.
LEMMA LogTypedStep == LogTyped /\ [LogNext]_logVars => LogTyped'
<1> SUFFICES ASSUME LogTyped, [LogNext]_logVars PROVE LogTyped'
  OBVIOUS
<1>t. /\ usedUp \in [events : Nat, clears : Nat, troubles : Nat] /\ hour \in Nat
      /\ writer \in [Writers -> {NoCall} \cup Putting \cup Clearing]
      /\ GoodLog(log.cache, usedUp.events) /\ GoodLog(log.disk, usedUp.events)
      /\ WritesFit(log.writes, writer, usedUp.events)
  BY DEF LogTyped
<1>q. ASSUME UNCHANGED <<log, writer, hour>>, usedUp' \in [events : Nat, clears : Nat, troubles : Nat],
             usedUp'.events = usedUp.events
      PROVE  LogTyped'
  BY <1>t, <1>q DEF LogTyped
<1>1. ASSUME NEW w \in Writers, NEW ts \in 0..hour, Record(w, ts) PROVE LogTyped'
  <2> DEFINE event == [no |-> usedUp.events + 1, ts |-> ts]
  <2>1. /\ writer[w] = NoCall /\ usedUp' = [usedUp EXCEPT !["events"] = @ + 1]
        /\ log' = Update(log, w, Append(log.cache, event)) /\ hour' = hour
        /\ writer' = [writer EXCEPT ![w] = [at |-> "putting", event |-> event, wiped |-> FALSE]]
    BY <1>1 DEF Record, UseUp
  <2>2. event \in Event /\ event.no = usedUp.events + 1 /\ usedUp.events \in Nat
    BY <1>1, NextIsAnEvent DEF Record, LogTyped
  <2> HIDE DEF event
  <2>3. [at |-> "putting", event |-> event, wiped |-> FALSE] \in Putting
    BY <2>2 DEF Putting
  <2>4. [at |-> "putting", event |-> event, wiped |-> FALSE] # NoCall
    BY DEF NoCall
  <2>5. /\ usedUp' \in [events : Nat, clears : Nat, troubles : Nat] /\ usedUp'.events = usedUp.events + 1
    BY <1>t, <2>1
  <2>6. GoodLog(Append(log.cache, event), usedUp.events + 1)
    BY <1>t, <2>2, AppendKeeps
  <2>7. /\ writer' \in [Writers -> {NoCall} \cup Putting \cup Clearing] /\ writer'[w] # NoCall
        /\ \A v \in Writers : writer[v] # NoCall => writer'[v] # NoCall
    BY <1>t, <2>1, <2>3, <2>4
  <2>8. usedUp.events <= usedUp'.events /\ GoodLog(Append(log.cache, event), usedUp'.events)
    BY <2>2, <2>5, <2>6
  <2> QED BY <2>1, <2>5, <2>7, <2>8, CallTyped
<1>2. ASSUME NEW w \in Writers, NEW cutoff \in 1..hour + 1, Clear(w, cutoff) PROVE LogTyped'
  <2>1. /\ writer[w] = NoCall /\ usedUp' = [usedUp EXCEPT !["clears"] = @ + 1]
        /\ log' = Update(log, w, Retained(log.cache, cutoff)) /\ hour' = hour
        /\ writer' = [v \in Writers |->
              IF v = w THEN [at |-> "clearing"]
              ELSE IF writer[v].at \in {"putting", "trimming"} /\ writer[v].event.ts < cutoff
              THEN [writer[v] EXCEPT !.wiped = TRUE] ELSE writer[v]]
    BY <1>2 DEF Clear, UseUp
  <2>2. cutoff \in Nat /\ usedUp.events \in Nat
    BY <1>t
  <2>3. usedUp' \in [events : Nat, clears : Nat, troubles : Nat] /\ usedUp'.events = usedUp.events
    BY <1>t, <2>1
  <2>4. GoodLog(Retained(log.cache, cutoff), usedUp.events)
    BY <1>t, <2>2, RetainedKeeps
  <2>5. ASSUME NEW v \in Writers
        PROVE  /\ writer'[v] \in {NoCall} \cup Putting \cup Clearing
               /\ v = w \/ writer[v] # NoCall => writer'[v] # NoCall
    <3>1. CASE v = w
      BY <2>1, <3>1 DEF NoCall, Clearing
    <3>2. CASE v # w /\ writer[v].at \in {"putting", "trimming"} /\ writer[v].event.ts < cutoff
      <4>1. writer[v] \in Putting
        BY <1>t, <3>2 DEF NoCall, Clearing
      <4>2. writer'[v] = [writer[v] EXCEPT !.wiped = TRUE]
        BY <2>1, <3>2
      <4>3. writer'[v] \in Putting
        BY <4>1, <4>2 DEF Putting
      <4>4. NoCall \notin Putting
        BY DEF NoCall, Putting
      <4> QED BY <4>3, <4>4
    <3>3. CASE v # w /\ ~(writer[v].at \in {"putting", "trimming"} /\ writer[v].event.ts < cutoff)
      BY <1>t, <2>1, <3>3
    <3> QED BY <3>1, <3>2, <3>3
  <2>6. writer' \in [Writers -> {NoCall} \cup Putting \cup Clearing]
    BY <2>1, <2>5
  <2> QED BY <2>1, <2>2, <2>3, <2>4, <2>5, <2>6, CallTyped
<1>3. CASE LogSaved
  <2>1. PICK w \in Writers :
              /\ log.writes # <<>> /\ Head(log.writes).by = w
              /\ UNCHANGED <<which, hour, phone, notified, late, unfetched>>
              /\ \/ writer[w] \in Putting /\ (writer[w].at = "trimming" \/ Fits(log.cache)) /\ CallReturns(w)
                 \/ /\ writer[w] \in Putting /\ writer[w].at = "putting" /\ ~Fits(log.cache)
                    /\ log' = Update(Landed(log), w, Newest(log.cache))
                    /\ writer' = [writer EXCEPT ![w].at = "trimming"]
                    /\ UNCHANGED <<returned, usedUp>>
                 \/ writer[w] \in Clearing /\ LogTheClear(w)
    BY <1>3, SavedCases
  <2>2. CASE CallReturns(w)
    BY <1>t, <2>1, <2>2, EndsTyped DEF CallReturns
  <2>3. CASE /\ writer[w] \in Putting /\ ~Fits(log.cache)
             /\ log' = Update(Landed(log), w, Newest(log.cache))
             /\ writer' = [writer EXCEPT ![w].at = "trimming"]
             /\ UNCHANGED <<returned, usedUp>>
    <3>1. GoodLog(Newest(log.cache), usedUp.events) /\ usedUp.events \in Nat
      BY <1>t, <2>3, NewestKeeps
    <3>2. [writer[w] EXCEPT !.at = "trimming"] \in Putting
      BY <2>3 DEF Putting
    <3>3. NoCall \notin Putting
      BY DEF NoCall, Putting
    <3>4. writer' \in [Writers -> {NoCall} \cup Putting \cup Clearing] /\ writer'[w] # NoCall
      BY <1>t, <2>3, <3>2, <3>3
    <3>5. \A v \in Writers : v # w => writer'[v] = writer[v]
      BY <1>t, <2>3
    <3> QED BY <1>t, <2>1, <2>3, <3>1, <3>4, <3>5, GoesOnTyped
  <2>4. CASE LogTheClear(w)
    <3> DEFINE event == [no |-> usedUp.events + 1, ts |-> hour]
    <3>1. /\ usedUp' = [usedUp EXCEPT !["events"] = @ + 1]
          /\ log' = Update(Landed(log), w, Append(log.cache, event))
          /\ writer' = [writer EXCEPT ![w] = [at |-> "putting", event |-> event, wiped |-> FALSE]]
      BY <2>4 DEF LogTheClear, UseUp
    <3>2. event \in Event /\ event.no = usedUp.events + 1 /\ usedUp.events \in Nat
      BY <1>t, <2>4, NextIsAnEvent, AlarmEventsAssumption DEF LogTheClear
    <3> HIDE DEF event
    <3>3. [at |-> "putting", event |-> event, wiped |-> FALSE] \in Putting
      BY <3>2 DEF Putting
    <3>4. [at |-> "putting", event |-> event, wiped |-> FALSE] # NoCall
      BY DEF NoCall
    <3>5. usedUp' \in [events : Nat, clears : Nat, troubles : Nat] /\ usedUp'.events = usedUp.events + 1
      BY <1>t, <3>1
    <3>6. GoodLog(Append(log.cache, event), usedUp.events + 1)
      BY <1>t, <3>2, AppendKeeps
    <3>7. /\ writer' \in [Writers -> {NoCall} \cup Putting \cup Clearing] /\ writer'[w] # NoCall
          /\ \A v \in Writers : v # w => writer'[v] = writer[v]
      BY <1>t, <3>1, <3>3, <3>4
    <3>8. usedUp.events <= usedUp'.events /\ GoodLog(Append(log.cache, event), usedUp'.events)
      BY <3>2, <3>5, <3>6
    <3> QED BY <2>1, <3>1, <3>5, <3>7, <3>8, GoesOnTyped
  <2> QED BY <2>1, <2>2, <2>3, <2>4
<1>4. CASE LogRejected
  <2>1. /\ log.writes # <<>> /\ log' = Rejected(log) /\ hour' = hour
        /\ usedUp' = [usedUp EXCEPT !["troubles"] = @ + 1]
        /\ writer' = [writer EXCEPT ![Head(log.writes).by] = NoCall]
    BY <1>4 DEF LogRejected, UseUp
  <2>2. usedUp' \in [events : Nat, clears : Nat, troubles : Nat] /\ usedUp'.events = usedUp.events
    BY <1>t, <2>1
  <2> QED BY <2>1, <2>2, EndsTyped
<1>5. CASE LogReloaded
  <2>1. /\ log' = Reloaded(log) /\ hour' = hour /\ writer' = [w \in Writers |-> NoCall]
        /\ usedUp' = [usedUp EXCEPT !["troubles"] = @ + 1]
    BY <1>5 DEF LogReloaded, UseUp
  <2>2. log'.cache = log.disk /\ log'.disk = log.disk /\ log'.writes = <<>>
    BY <2>1 DEF Reloaded, Loaded
  <2>3. usedUp' \in [events : Nat, clears : Nat, troubles : Nat] /\ usedUp'.events = usedUp.events
    BY <1>t, <2>1
  <2>4. WritesFit(<<>>, writer', usedUp'.events)
    BY DEF WritesFit
  <2> QED BY <1>t, <2>1, <2>2, <2>3, <2>4 DEF LogTyped
<1>6. CASE HourPasses
  BY <1>t, <1>6, AlarmEventsAssumption DEF HourPasses, LogTyped
<1>7. CASE CatchUpStarts \/ AlarmsListed \/ CatchUpEnds \/ CatchUpCancelled
  BY <1>t, <1>q, <1>7 DEF CatchUpStarts, AlarmsListed, CatchUpEnds, CatchUpCancelled
<1>8. CASE CatchUpFails
  <2>1. usedUp' = [usedUp EXCEPT !["troubles"] = @ + 1] /\ UNCHANGED <<log, writer, hour>>
    BY <1>8 DEF CatchUpFails, UseUp
  <2>2. usedUp' \in [events : Nat, clears : Nat, troubles : Nat] /\ usedUp'.events = usedUp.events
    BY <1>t, <2>1
  <2> QED BY <1>q, <2>1, <2>2
<1>9. CASE UNCHANGED logVars
  BY <1>t, <1>q, <1>9 DEF logVars
<1> QED BY <1>1, <1>2, <1>3, <1>4, <1>5, <1>6, <1>7, <1>8, <1>9 DEF LogNext

----------------------------------------------------------------------------
\* At the start nothing is in the log and the app has not asked.
LEMMA SkipInvInit == AlarmsInit => SkipInv
<1> SUFFICES ASSUME AlarmsInit PROVE SkipInv
  OBVIOUS
<1>1. log.cache = <<>> /\ phone = AtRest /\ writer = [w \in Writers |-> NoCall]
  BY DEF AlarmsInit, Loaded
<1>2. Elements(log.cache) = {}
  BY <1>1 DEF Elements
<1>3. phone.watermark = 0 /\ phone.at = "rest"
  BY <1>1 DEF AtRest
<1>4. NoCall \notin Clearing
  BY DEF NoCall, Clearing
<1> QED BY <1>1, <1>2, <1>3, <1>4 DEF SkipInv

\* A step of the log: what is new in it is late, or after all the app's readings.
LEMMA SkipInvLog ==
    ASSUME SkipInv, UNCHANGED <<which, phone, notified, unfetched>>, late \subseteq late',
           which = "alarms" =>
              /\ \A w \in Writers : writer'[w] \notin Clearing
              /\ \A e \in Elements(log'.cache) :
                    \/ e \in Elements(log.cache) \/ e \in late'
                    \/ ~(e.ts <= phone.watermark) /\ ~(phone.at = "answered" /\ e.ts <= phone.read)
    PROVE  SkipInv'
BY DEF SkipInv

\* A step of the app, which leaves the log alone.
LEMMA SkipInvPhone ==
    ASSUME LogTyped, SkipInv,
           CatchUpStarts \/ AlarmsListed \/ CatchUpEnds \/ CatchUpFails \/ CatchUpCancelled
    PROVE  SkipInv'
<1>1. UNCHANGED <<which, log, writer, hour, late>>
  BY DEF CatchUpStarts, AlarmsListed, CatchUpEnds, CatchUpFails, CatchUpCancelled
<1>2. CASE CatchUpStarts
  <2>1. /\ phone' = [at |-> "asked", watermark |-> phone.watermark, read |-> hour]
        /\ UNCHANGED <<notified, unfetched>>
    BY <1>2 DEF CatchUpStarts
  <2>2. phone'.at = "asked" /\ phone'.watermark = phone.watermark /\ phone'.read = hour
    BY <2>1
  <2> QED BY <1>1, <2>1, <2>2 DEF SkipInv, LogTyped
<1>3. CASE AlarmsListed
  <2>1. /\ phone.at = "asked" /\ UNCHANGED <<notified, unfetched>>
        /\ phone' = [at |-> "answered", watermark |-> phone.watermark, read |-> phone.read,
                     list |-> ListSince(phone.watermark)]
    BY <1>3 DEF AlarmsListed
  <2>2. /\ phone'.at = "answered" /\ phone'.watermark = phone.watermark /\ phone'.read = phone.read
        /\ phone'.list = {e \in Elements(log.cache) : e.ts > phone.watermark}
    BY <2>1 DEF ListSince
  <2>3. phone.watermark \in Nat /\ phone.read \in Nat
    BY <2>1 DEF SkipInv
  <2>4. \A e \in Elements(log.cache) : e.ts \in Nat
    <3>1. Elements(log.cache) \subseteq Event
      BY ElementsOfLog DEF LogTyped
    <3> QED BY <3>1, EventNumbers
  <2>5. \A e \in Elements(log.cache) : e.ts <= phone.watermark \/ e \in phone'.list
    BY <2>2, <2>3, <2>4
  <2> QED BY <1>1, <2>1, <2>2, <2>3, <2>5 DEF SkipInv
<1>4. CASE CatchUpEnds
  <2>1. /\ phone.at = "answered" /\ phone' = [at |-> "rest", watermark |-> phone.read]
        /\ notified' = notified \cup phone.list /\ unfetched' = unfetched
    BY <1>4 DEF CatchUpEnds
  <2>2. phone'.at = "rest" /\ phone'.watermark = phone.read
    BY <2>1
  <2> QED BY <1>1, <2>1, <2>2 DEF SkipInv
<1>5. CASE CatchUpFails
  <2>1. /\ phone.at \in {"asked", "answered"} /\ phone' = [at |-> "rest", watermark |-> phone.read]
        /\ phone.at = "asked" => unfetched' = unfetched \cup ListSince(phone.watermark)
        /\ phone.at = "answered" => unfetched' = unfetched \cup phone.list
        /\ notified' = notified
    BY <1>5 DEF CatchUpFails
  <2>2. phone'.at = "rest" /\ phone'.watermark = phone.read
    BY <2>1
  <2>3. CASE phone.at = "answered"
    BY <1>1, <2>1, <2>2, <2>3 DEF SkipInv
  <2>4. CASE phone.at = "asked"
    <3>1. unfetched' = unfetched \cup {e \in Elements(log.cache) : e.ts > phone.watermark}
      BY <2>1, <2>4 DEF ListSince
    <3>2. phone.watermark \in Nat /\ phone.read \in Nat
      BY <2>4 DEF SkipInv
    <3>3. \A e \in Elements(log.cache) : e.ts \in Nat
      <4>1. Elements(log.cache) \subseteq Event
        BY ElementsOfLog DEF LogTyped
      <4> QED BY <4>1, EventNumbers
    <3>4. \A e \in Elements(log.cache) : e.ts <= phone.watermark \/ e \in unfetched'
      BY <3>1, <3>2, <3>3
    <3>5. unfetched \subseteq unfetched'
      BY <3>1
    <3> QED BY <1>1, <2>1, <2>2, <3>2, <3>4, <3>5 DEF SkipInv
  <2> QED BY <2>1, <2>3, <2>4
<1>6. CASE CatchUpCancelled
  <2>1. /\ phone' = [at |-> "rest", watermark |-> phone.watermark]
        /\ UNCHANGED <<notified, unfetched>>
    BY <1>6 DEF CatchUpCancelled
  <2>2. phone'.at = "rest" /\ phone'.watermark = phone.watermark
    BY <2>1
  <2> QED BY <1>1, <2>1, <2>2 DEF SkipInv
<1> QED BY <1>2, <1>3, <1>4, <1>5, <1>6

\* Every step keeps the app's watermark behind what its user was told.
LEMMA SkipInvStep == LogTyped /\ SkipInv /\ [LogNext]_logVars => SkipInv'
<1> SUFFICES ASSUME LogTyped, SkipInv, [LogNext]_logVars PROVE SkipInv'
  OBVIOUS
<1>t. /\ usedUp.events \in Nat /\ hour \in Nat /\ GoodLog(log.cache, usedUp.events)
      /\ writer \in [Writers -> {NoCall} \cup Putting \cup Clearing]
  BY DEF LogTyped
<1>c. which = "alarms" => \A w \in Writers : writer[w] \notin Clearing
  BY DEF SkipInv
<1>n. NoCall \notin Clearing
  BY DEF NoCall, Clearing
<1>p. \A c \in Putting : c \notin Clearing
  BY DEF Putting, Clearing
<1>1. ASSUME NEW w \in Writers, NEW ts \in 0..hour, Record(w, ts) PROVE SkipInv'
  <2> DEFINE event == [no |-> usedUp.events + 1, ts |-> ts]
             call == [at |-> "putting", event |-> event, wiped |-> FALSE]
  <2>1. /\ log' = Update(log, w, Append(log.cache, event))
        /\ writer' = [writer EXCEPT ![w] = call]
        /\ late' = IF ts <= phone.watermark \/ (phone.at = "answered" /\ ts <= phone.read)
                   THEN late \cup {event} ELSE late
        /\ UNCHANGED <<which, phone, notified, unfetched>>
    BY <1>1 DEF Record
  <2>2. event \in Event /\ event.no = usedUp.events + 1 /\ event.ts = ts
    BY <1>1, NextIsAnEvent DEF Record
  <2>3. call \in Putting
    BY <2>2 DEF Putting
  <2> HIDE DEF event, call
  <2>4. Elements(log'.cache) = Elements(log.cache) \cup {event}
    BY <1>t, <2>1, <2>2, AppendKeeps DEF Update
  <2>5. \A v \in Writers : writer'[v] = call \/ writer'[v] = writer[v]
    BY <1>t, <2>1
  <2>6. /\ late \subseteq late'
        /\ \/ event \in late'
           \/ ~(event.ts <= phone.watermark) /\ ~(phone.at = "answered" /\ event.ts <= phone.read)
    BY <2>1, <2>2
  <2> QED BY <1>c, <1>p, <2>1, <2>3, <2>4, <2>5, <2>6, SkipInvLog
<1>2. ASSUME NEW w \in Writers, NEW cutoff \in 1..hour + 1, Clear(w, cutoff) PROVE SkipInv'
  <2>1. which = "audit" /\ UNCHANGED <<which, phone, notified, late, unfetched>>
    BY <1>2 DEF Clear
  <2> QED BY <2>1, SkipInvLog
<1>3. CASE LogSaved
  <2>1. PICK w \in Writers :
              /\ log.writes # <<>> /\ Head(log.writes).by = w
              /\ UNCHANGED <<which, hour, phone, notified, late, unfetched>>
              /\ \/ writer[w] \in Putting /\ (writer[w].at = "trimming" \/ Fits(log.cache)) /\ CallReturns(w)
                 \/ /\ writer[w] \in Putting /\ writer[w].at = "putting" /\ ~Fits(log.cache)
                    /\ log' = Update(Landed(log), w, Newest(log.cache))
                    /\ writer' = [writer EXCEPT ![w].at = "trimming"]
                    /\ UNCHANGED <<returned, usedUp>>
                 \/ writer[w] \in Clearing /\ LogTheClear(w)
    BY <1>3, SavedCases
  <2>2. CASE CallReturns(w)
    <3>1. log'.cache = log.cache /\ writer' = [writer EXCEPT ![w] = NoCall]
      BY <2>2 DEF CallReturns, Landed
    <3>2. \A v \in Writers : writer'[v] = NoCall \/ writer'[v] = writer[v]
      BY <1>t, <3>1
    <3> QED BY <1>c, <1>n, <2>1, <3>1, <3>2, SkipInvLog
  <2>3. CASE /\ writer[w] \in Putting /\ ~Fits(log.cache)
             /\ log' = Update(Landed(log), w, Newest(log.cache))
             /\ writer' = [writer EXCEPT ![w].at = "trimming"]
    <3>1. log'.cache = Newest(log.cache)
      BY <2>3 DEF Update
    <3>2. Elements(log'.cache) \subseteq Elements(log.cache)
      BY <1>t, <2>3, <3>1, NewestKeeps
    <3>3. [writer[w] EXCEPT !.at = "trimming"] \in Putting
      BY <2>3 DEF Putting
    <3>4. \A v \in Writers : writer'[v] \in Putting \/ writer'[v] = writer[v]
      BY <1>t, <2>3, <3>3
    <3> QED BY <1>c, <1>p, <2>1, <3>2, <3>4, SkipInvLog
  <2>4. CASE writer[w] \in Clearing
    <3>1. which # "alarms"
      BY <1>c, <2>4
    <3> QED BY <2>1, <3>1, SkipInvLog
  <2> QED BY <2>1, <2>2, <2>3, <2>4
<1>4. CASE LogRejected
  <2>1. /\ log.writes # <<>> /\ log' = Rejected(log)
        /\ writer' = [writer EXCEPT ![Head(log.writes).by] = NoCall]
        /\ UNCHANGED <<which, phone, notified, late, unfetched>>
    BY <1>4 DEF LogRejected
  <2>2. log'.cache = log.cache
    BY <2>1 DEF Rejected
  <2>3. \A v \in Writers : writer'[v] = NoCall \/ writer'[v] = writer[v]
    BY <1>t, <2>1
  <2> QED BY <1>c, <1>n, <2>1, <2>2, <2>3, SkipInvLog
<1>5. CASE LogReloaded
  <2>1. /\ log' = Reloaded(log) /\ writer' = [w \in Writers |-> NoCall]
        /\ late' = late \cup (Elements(log.disk) \ Elements(log.cache))
        /\ UNCHANGED <<which, phone, notified, unfetched>>
    BY <1>5 DEF LogReloaded
  <2>2. log'.cache = log.disk
    BY <2>1 DEF Reloaded, Loaded
  <2>3. \A e \in Elements(log'.cache) : e \in Elements(log.cache) \/ e \in late'
    BY <2>1, <2>2
  <2> QED BY <1>n, <2>1, <2>3, SkipInvLog
<1>6. CASE HourPasses
  <2>1. UNCHANGED <<which, log, writer, phone, notified, late, unfetched>>
    BY <1>6 DEF HourPasses
  <2> QED BY <1>c, <2>1, SkipInvLog
<1>7. CASE CatchUpStarts \/ AlarmsListed \/ CatchUpEnds \/ CatchUpFails \/ CatchUpCancelled
  BY <1>7, SkipInvPhone
<1>8. CASE UNCHANGED logVars
  <2>1. UNCHANGED <<which, log, writer, phone, notified, late, unfetched>>
    BY <1>8 DEF logVars
  <2> QED BY <1>c, <2>1, SkipInvLog
<1> QED BY <1>1, <1>2, <1>3, <1>4, <1>5, <1>6, <1>7, <1>8 DEF LogNext

\* NoAlarmSkipped, for any number of writers and any limit (src/alarms/index.ts
\* and the app's AlarmMonitor.kt): an alarm of the log that is no later than the
\* app's watermark was notified, or came into the log after the list of its
\* time was made, or was in a list that never came.  The invariant that carries
\* it is about a catch-up under way: what the watermark will pass is in its list.
THEOREM NoAlarmIsSkipped == LogSpec => []NoAlarmSkipped
<1>1. AlarmsInit => LogTyped /\ SkipInv
  BY LogTypedInit, SkipInvInit
<1>2. LogTyped /\ SkipInv /\ [LogNext]_logVars => LogTyped' /\ SkipInv'
  BY LogTypedStep, SkipInvStep
<1>3. SkipInv => NoAlarmSkipped
  BY DEF SkipInv, NoAlarmSkipped
<1> QED BY <1>1, <1>2, <1>3, PTL DEF LogSpec

----------------------------------------------------------------------------
\* One more write, of a log in which nothing that is held is lost.
LEMMA AllHeldAdded ==
    ASSUME NEW q \in Seq(LogWrite), NEW cache, NEW disk, NEW calls, NEW after, NEW kept,
           NEW w \in Writers, NEW s \in Seq(Event), Due(q, calls, cache), AllFollow(kept, disk, cache, q),
           LosesNone(kept, cache, s), SameDue(calls, after, q, cache, s), OwnHeld(after[w], s)
    PROVE  /\ AllFollow(kept, disk, s, Append(q, [by |-> w, json |-> s]))
           /\ Due(Append(q, [by |-> w, json |-> s]), after, s)
<1> DEFINE x == [by |-> w, json |-> s]
<1>1. x \in LogWrite /\ x.by = w /\ x.json = s
  BY DEF LogWrite
<1> HIDE DEF x
<1>2. AllFollow(kept, disk, s, Append(q, x))
  <2> SUFFICES ASSUME NEW e \in kept PROVE Held(e, disk) /\ Follows(e, 1, s, Append(q, x))
    BY DEF AllFollow
  <2>1. Held(e, disk) /\ Follows(e, 1, cache, q)
    BY DEF AllFollow
  <2>2. Held(e, x.json)
    BY <1>1, <2>1 DEF Follows, LosesNone
  <2> QED BY <1>1, <2>1, <2>2, FollowsAdded
<1>3. Due(Append(q, x), after, s)
  <2>1. after[x.by].at \in {"putting", "trimming"} /\ ~after[x.by].wiped => Held(after[x.by].event, x.json)
    BY <1>1 DEF OwnHeld
  <2>2. \A k \in DOMAIN q :
              after[q[k].by].at \in {"putting", "trimming"} /\ ~after[q[k].by].wiped =>
                 /\ calls[q[k].by].at \in {"putting", "trimming"} /\ ~calls[q[k].by].wiped
                 /\ after[q[k].by].event = calls[q[k].by].event
                 /\ Held(after[q[k].by].event, cache) => Held(after[q[k].by].event, x.json)
    BY <1>1 DEF SameDue
  <2>3. Due(Append(q, x), after, x.json)
    BY <1>1, <2>1, <2>2, DueAdded
  <2> QED BY <1>1, <2>3
<1> QED BY <1>2, <1>3 DEF x

\* The oldest write is gone: what it and the others hold.
LEMMA AllHeldMovesUp ==
    ASSUME LogTyped, AllHeld, log.writes # <<>>, NEW w, w = Head(log.writes).by, NEW after,
           \A v \in Writers : v # w => after[v] = writer[v]
    PROVE  /\ Tail(log.writes) \in Seq(LogWrite) /\ w \in Writers /\ writer[w] # NoCall
           /\ \A k \in DOMAIN Tail(log.writes) :
                 Tail(log.writes)[k].by # w /\ Tail(log.writes)[k].by \in Writers
           /\ \A e \in returned :
                 /\ Held(e, log.disk) /\ Held(e, Head(log.writes).json) /\ Held(e, log.cache)
                 /\ Follows(e, 1, log.cache, Tail(log.writes))
           /\ writer[w].at \in {"putting", "trimming"} /\ ~writer[w].wiped =>
                 /\ Held(writer[w].event, Head(log.writes).json) /\ Held(writer[w].event, log.cache)
                 /\ Follows(writer[w].event, 1, log.cache, Tail(log.writes))
           /\ Due(Tail(log.writes), after, log.cache)
<1> DEFINE q == log.writes
<1>0. WritesFit(q, writer, usedUp.events) /\ q # <<>> /\ usedUp.events \in Nat /\ w = Head(q).by
  BY DEF LogTyped
<1>1. /\ q \in Seq(LogWrite) /\ Len(q) \in Nat /\ DOMAIN q = 1..Len(q)
      /\ Tail(q) \in Seq(LogWrite) /\ Head(q) = q[1] /\ 1 \in DOMAIN q
  <2>1. q \in Seq(LogWrite)
    BY <1>0 DEF WritesFit
  <2>2. Len(q) \in Nat /\ Len(q) # 0
    BY <1>0, <2>1, LenProperties, EmptySeq
  <2> QED BY <1>0, <2>1, <2>2, HeadTailProperties, LenProperties
<1>2. \A k \in DOMAIN q : q[k].by \in Writers
  <2>1. \A k \in DOMAIN q : q[k] \in LogWrite
    BY <1>1, ElementOfSeq
  <2> QED BY <2>1 DEF LogWrite
<1>3. ASSUME NEW e, Follows(e, 1, log.cache, q)
      PROVE  Held(e, Head(q).json) /\ Held(e, log.cache) /\ Follows(e, 1, log.cache, Tail(q))
  <2>1. Held(e, q[1].json) /\ Held(e, log.cache)
    BY <1>1, <1>3 DEF Follows
  <2> HIDE DEF q
  <2>2. Follows(e, 1 + 1, log.cache, q)
    BY <1>1, <1>3, FollowsLater
  <2>3. Follows(e, 1, log.cache, Tail(q))
    BY <1>0, <1>1, <2>2, FollowsMovesUp
  <2> QED BY <1>1, <2>1, <2>3
<1>4. \A e \in returned : Held(e, log.disk) /\ Follows(e, 1, log.cache, q)
  BY DEF AllHeld, AllFollow
<1>5. Due(q, writer, log.cache)
  BY DEF AllHeld
<1> HIDE DEF q
<1>6. w \in Writers /\ writer[w] # NoCall
  BY <1>0, <1>1, <1>2 DEF WritesFit
<1>7. writer[w].at \in {"putting", "trimming"} /\ ~writer[w].wiped => Follows(writer[w].event, 1, log.cache, q)
  BY <1>0, <1>1, <1>5 DEF Due
<1>8. \A k, l \in DOMAIN q : q[k].by = q[l].by => k = l
  BY <1>0 DEF WritesFit
<1>9. Due(Tail(q), after, log.cache)
  <2>1. \A k \in DOMAIN q : q[k].by # Head(q).by => after[q[k].by] = writer[q[k].by]
    BY <1>0, <1>2
  <2> QED BY <1>0, <1>1, <1>5, <1>8, <2>1, DueMovesUp
<1>10. \A k \in DOMAIN Tail(q) : Tail(q)[k].by # w /\ Tail(q)[k].by \in Writers
  <2>1. \A k \in DOMAIN Tail(q) : Tail(q)[k].by # Head(q).by
    BY <1>0, WritesMoveUp
  <2>2. \A k \in DOMAIN Tail(q) : Tail(q)[k] \in LogWrite
    BY <1>1, ElementOfSeq, LenProperties
  <2> QED BY <1>0, <2>1, <2>2 DEF LogWrite
<1> QED BY <1>1, <1>3, <1>4, <1>6, <1>7, <1>9, <1>10 DEF q

\* One more event is put, and one more call puts.
LEMMA LengthMore ==
    ASSUME LogTyped, LengthFits, NEW w \in Writers, writer[w].at # "putting",
           Len(log'.cache) = Len(log.cache) + 1, usedUp'.troubles = usedUp.troubles,
           \A v \in Writers : writer'[v].at = "putting" <=> v = w \/ writer[v].at = "putting"
    PROVE  LengthFits'
<1>1. PuttingNow' = PuttingNow \cup {w} /\ w \notin PuttingNow /\ IsFiniteSet(PuttingNow)
  BY DEF PuttingNow, LengthFits
<1>2. IsFiniteSet(PuttingNow') /\ Cardinality(PuttingNow') = Cardinality(PuttingNow) + 1
  BY <1>1, FS_AddElement
<1>3. Cardinality(PuttingNow) \in Nat
  BY <1>1, FS_CardinalityType
<1>4. Len(log.cache) \in Nat /\ MaxKept \in Nat
  BY LenProperties, AlarmEventsAssumption DEF LogTyped, GoodLog
<1> QED BY <1>2, <1>3, <1>4 DEF LengthFits

\* No call more puts, and the log is no longer, or short enough, or a write
\* was rejected.
LEMMA LengthLess ==
    ASSUME LogTyped, LengthFits, LogTyped',
           \A v \in Writers : writer'[v].at = "putting" => writer[v].at = "putting",
           \/ usedUp'.troubles # 0
           \/ Len(log'.cache) <= MaxKept
           \/ /\ Len(log'.cache) <= Len(log.cache) /\ usedUp'.troubles = usedUp.troubles
              /\ \A v \in Writers : writer[v].at = "putting" => writer'[v].at = "putting"
    PROVE  LengthFits'
<1>1. PuttingNow' \in SUBSET PuttingNow /\ IsFiniteSet(PuttingNow)
  BY DEF PuttingNow, LengthFits
<1>2. IsFiniteSet(PuttingNow') /\ Cardinality(PuttingNow') \in Nat
  BY <1>1, FS_Subset, FS_CardinalityType
<1>3. Len(log.cache) \in Nat /\ Len(log'.cache) \in Nat /\ MaxKept \in Nat
  BY LenProperties, AlarmEventsAssumption DEF LogTyped, GoodLog
<1>4. CASE usedUp'.troubles # 0
  BY <1>2, <1>4 DEF LengthFits
<1>5. CASE Len(log'.cache) <= MaxKept
  BY <1>2, <1>3, <1>5 DEF LengthFits
<1>6. CASE /\ Len(log'.cache) <= Len(log.cache) /\ usedUp'.troubles = usedUp.troubles
           /\ \A v \in Writers : writer[v].at = "putting" => writer'[v].at = "putting"
  <2>1. PuttingNow' = PuttingNow
    BY <1>6 DEF PuttingNow
  <2> QED BY <1>2, <1>3, <1>6, <2>1 DEF LengthFits
<1> QED BY <1>4, <1>5, <1>6

\* Nothing is put yet.
LEMMA HoldInit == AlarmsInit => AllHeld /\ LengthFits
<1> SUFFICES ASSUME AlarmsInit PROVE AllHeld /\ LengthFits
  OBVIOUS
<1>1. /\ log.cache = <<>> /\ log.writes = <<>> /\ returned = {}
      /\ writer = [w \in Writers |-> NoCall]
  BY DEF AlarmsInit, Loaded
<1>2. AllHeld
  BY <1>1 DEF AllHeld, AllFollow, Due
<1>3. PuttingNow = {}
  BY <1>1 DEF PuttingNow, NoCall
<1>4. IsFiniteSet(PuttingNow) /\ Cardinality(PuttingNow) = 0 /\ Len(log.cache) = 0
  BY <1>1, <1>3, FS_EmptySet
<1>5. LengthFits
  BY <1>4, AlarmEventsAssumption DEF LengthFits
<1> QED BY <1>2, <1>5

\* recordIfAlarm and AuditService.log: the event is held from its own write on.
LEMMA HoldRecord ==
    ASSUME LogTyped, LogTyped', AllHeld, LengthFits, NEW w \in Writers, NEW ts \in 0..hour, Record(w, ts)
    PROVE  AllHeld' /\ LengthFits'
<1> DEFINE event == [no |-> usedUp.events + 1, ts |-> ts]
           call  == [at |-> "putting", event |-> event, wiped |-> FALSE]
           s     == Append(log.cache, event)
<1>t. /\ usedUp \in [events : Nat, clears : Nat, troubles : Nat] /\ hour \in Nat
      /\ writer \in [Writers -> {NoCall} \cup Putting \cup Clearing]
      /\ GoodLog(log.cache, usedUp.events) /\ WritesFit(log.writes, writer, usedUp.events)
  BY DEF LogTyped
<1>1. /\ writer[w] = NoCall /\ usedUp' = [usedUp EXCEPT !["events"] = @ + 1]
      /\ log' = Update(log, w, s) /\ returned' = returned
      /\ writer' = [writer EXCEPT ![w] = call]
  BY DEF Record, UseUp
<1>2. /\ event \in Event /\ event.no = usedUp.events + 1
      /\ call.at = "putting" /\ call.event = event /\ usedUp.events \in Nat
  BY <1>t, NextIsAnEvent DEF Record
<1> HIDE DEF event, call
<1>3. Held(event, s) /\ \A e : Held(e, log.cache) => Held(e, s)
  BY <1>t, <1>2, HeldFromPut
<1>4. s \in Seq(Event) /\ Len(s) = Len(log.cache) + 1
  BY <1>t, <1>2, AppendKeeps DEF GoodLog
<1> HIDE DEF s
<1>5. /\ log'.cache = s /\ log'.disk = log.disk
      /\ log'.writes = Append(log.writes, [by |-> w, json |-> s])
  BY <1>1 DEF Update
<1>6. \A v \in Writers : v # w => writer'[v] = writer[v]
  BY <1>t, <1>1
<1>7. writer'[w] = call
  BY <1>t, <1>1
<1>8. /\ log.writes \in Seq(LogWrite)
      /\ \A k \in DOMAIN log.writes : log.writes[k].by # w /\ log.writes[k].by \in Writers
  <2>1. log.writes \in Seq(LogWrite)
    BY <1>t DEF WritesFit
  <2>2. \A k \in DOMAIN log.writes : log.writes[k] \in LogWrite
    BY <2>1, ElementOfSeq, LenProperties
  <2> QED BY <1>t, <1>1, <2>1, <2>2 DEF WritesFit, LogWrite
<1>9. AllHeld'
  <2>1. AllFollow(returned, log.disk, log.cache, log.writes) /\ LosesNone(returned, log.cache, s)
    BY <1>3 DEF AllHeld, LosesNone
  <2>2. Due(log.writes, writer, log.cache)
    BY DEF AllHeld
  <2>3. SameDue(writer, writer', log.writes, log.cache, s)
    <3>1. \A k \in DOMAIN log.writes : writer'[log.writes[k].by] = writer[log.writes[k].by]
      BY <1>6, <1>8
    <3> QED BY <1>3, <3>1 DEF SameDue
  <2>4. OwnHeld(writer'[w], s)
    BY <1>2, <1>3, <1>7 DEF OwnHeld
  <2>5. /\ AllFollow(returned, log.disk, s, Append(log.writes, [by |-> w, json |-> s]))
        /\ Due(Append(log.writes, [by |-> w, json |-> s]), writer', s)
    BY <1>4, <1>8, <2>1, <2>2, <2>3, <2>4, AllHeldAdded
  <2>6. returned \subseteq Event
    BY DEF AllHeld
  <2> QED BY <1>1, <1>5, <2>5, <2>6 DEF AllHeld
<1>10. LengthFits'
  <2>1. writer[w].at # "putting" /\ usedUp'.troubles = usedUp.troubles
    BY <1>t, <1>1 DEF NoCall
  <2>2. \A v \in Writers : writer'[v].at = "putting" <=> v = w \/ writer[v].at = "putting"
    BY <1>2, <1>6, <1>7
  <2> QED BY <1>4, <1>5, <2>1, <2>2, LengthMore
<1> QED BY <1>9, <1>10

\* clearAll, clearOlderThan: what it does not mean stays held.
LEMMA HoldClear ==
    ASSUME LogTyped, LogTyped', AllHeld, LengthFits, NEW w \in Writers, NEW cutoff \in 1..hour + 1,
           Clear(w, cutoff)
    PROVE  AllHeld' /\ LengthFits'
<1> DEFINE s == Retained(log.cache, cutoff)
<1>t. /\ usedUp \in [events : Nat, clears : Nat, troubles : Nat] /\ hour \in Nat
      /\ writer \in [Writers -> {NoCall} \cup Putting \cup Clearing]
      /\ GoodLog(log.cache, usedUp.events) /\ WritesFit(log.writes, writer, usedUp.events)
  BY DEF LogTyped
<1>1. /\ writer[w] = NoCall /\ usedUp' = [usedUp EXCEPT !["clears"] = @ + 1]
      /\ log' = Update(log, w, s) /\ returned' = {e \in returned : e.ts >= cutoff}
      /\ writer' = [v \in Writers |->
            IF v = w THEN [at |-> "clearing"]
            ELSE IF writer[v].at \in {"putting", "trimming"} /\ writer[v].event.ts < cutoff
            THEN [writer[v] EXCEPT !.wiped = TRUE] ELSE writer[v]]
  BY DEF Clear, UseUp
<1>2. cutoff \in Nat /\ usedUp.events \in Nat
  BY <1>t
<1>3. \A e \in Event : e.ts >= cutoff /\ Held(e, log.cache) => Held(e, s)
  BY <1>t, <1>2, HeldRetained
<1>4. s \in Seq(Event) /\ Len(s) <= Len(log.cache)
  BY <1>t, <1>2, RetainedKeeps DEF GoodLog
<1> HIDE DEF s
<1>5. /\ log'.cache = s /\ log'.disk = log.disk
      /\ log'.writes = Append(log.writes, [by |-> w, json |-> s])
  BY <1>1 DEF Update
<1>6. writer'[w] = [at |-> "clearing"]
  BY <1>1
<1>7. ASSUME NEW v \in Writers, v # w
      PROVE  /\ writer'[v].at = writer[v].at
             /\ writer'[v].at \in {"putting", "trimming"} /\ ~writer'[v].wiped =>
                   /\ ~writer[v].wiped /\ writer'[v].event = writer[v].event
                   /\ writer[v].event \in Event /\ writer[v].event.ts >= cutoff
  <2>1. CASE writer[v].at \in {"putting", "trimming"}
    <3>1. writer[v] \in Putting
      BY <1>t, <2>1 DEF NoCall, Clearing
    <3>2. writer[v].event \in Event
      BY <3>1 DEF Putting
    <3>3. writer[v].event.ts \in Nat
      BY <3>2, EventNumbers
    <3>4. CASE writer[v].event.ts < cutoff
      <4>1. writer'[v] = [writer[v] EXCEPT !.wiped = TRUE]
        BY <1>1, <1>7, <2>1, <3>4
      <4>2. writer'[v].at = writer[v].at /\ writer'[v].wiped = TRUE
        BY <3>1, <4>1 DEF Putting
      <4> QED BY <4>2
    <3>5. CASE ~(writer[v].event.ts < cutoff)
      <4>1. writer'[v] = writer[v]
        BY <1>1, <1>7, <3>5
      <4>2. writer[v].event.ts >= cutoff
        BY <1>2, <3>3, <3>5
      <4> QED BY <3>2, <4>1, <4>2
    <3> QED BY <3>4, <3>5
  <2>2. CASE writer[v].at \notin {"putting", "trimming"}
    <3>1. writer'[v] = writer[v]
      BY <1>1, <1>7, <2>2
    <3> QED BY <2>2, <3>1
  <2> QED BY <2>1, <2>2
<1>8. /\ log.writes \in Seq(LogWrite)
      /\ \A k \in DOMAIN log.writes : log.writes[k].by # w /\ log.writes[k].by \in Writers
  <2>1. log.writes \in Seq(LogWrite)
    BY <1>t DEF WritesFit
  <2>2. \A k \in DOMAIN log.writes : log.writes[k] \in LogWrite
    BY <2>1, ElementOfSeq, LenProperties
  <2> QED BY <1>t, <1>1, <2>1, <2>2 DEF WritesFit, LogWrite
<1>9. AllHeld'
  <2>0. returned' \subseteq returned /\ returned \subseteq Event /\ \A e \in returned' : e.ts >= cutoff
    BY <1>1 DEF AllHeld
  <2>1. AllFollow(returned', log.disk, log.cache, log.writes) /\ LosesNone(returned', log.cache, s)
    BY <1>3, <2>0 DEF AllHeld, AllFollow, LosesNone
  <2>2. Due(log.writes, writer, log.cache)
    BY DEF AllHeld
  <2>3. SameDue(writer, writer', log.writes, log.cache, s)
    <3> SUFFICES ASSUME NEW k \in DOMAIN log.writes, NEW v, v = log.writes[k].by,
                        writer'[v].at \in {"putting", "trimming"}, ~writer'[v].wiped
                 PROVE  /\ writer[v].at \in {"putting", "trimming"} /\ ~writer[v].wiped
                        /\ writer'[v].event = writer[v].event
                        /\ Held(writer'[v].event, log.cache) => Held(writer'[v].event, s)
      BY DEF SameDue
    <3>1. v \in Writers /\ v # w
      BY <1>8
    <3>2. /\ writer[v].at \in {"putting", "trimming"} /\ ~writer[v].wiped
          /\ writer'[v].event = writer[v].event
          /\ writer[v].event \in Event /\ writer[v].event.ts >= cutoff
      BY <1>7, <3>1
    <3> QED BY <1>3, <3>2
  <2>4. OwnHeld(writer'[w], s)
    BY <1>6 DEF OwnHeld
  <2>5. /\ AllFollow(returned', log.disk, s, Append(log.writes, [by |-> w, json |-> s]))
        /\ Due(Append(log.writes, [by |-> w, json |-> s]), writer', s)
    BY <1>4, <1>8, <2>1, <2>2, <2>3, <2>4, AllHeldAdded
  <2> QED BY <1>5, <2>0, <2>5 DEF AllHeld
<1>10. LengthFits'
  <2>1. usedUp'.troubles = usedUp.troubles
    BY <1>t, <1>1
  <2>2. \A v \in Writers : writer'[v].at = "putting" <=> writer[v].at = "putting"
    BY <1>1, <1>6, <1>7 DEF NoCall
  <2> QED BY <1>4, <1>5, <2>1, <2>2, LengthLess
<1> QED BY <1>9, <1>10

\* The oldest write lands and its caller writes again: a trim, or the event
\* that says the log was cleared.
LEMMA HoldGoesOn ==
    ASSUME LogTyped, AllHeld, log.writes # <<>>, NEW w, w = Head(log.writes).by, NEW s \in Seq(Event),
           log' = Update(Landed(log), w, s), returned' = returned,
           \A v \in Writers : v # w => writer'[v] = writer[v],
           LosesNone(Event, log.cache, s),
           \/ Held(writer'[w].event, s)
           \/ writer[w] \in Putting /\ writer'[w].event = writer[w].event /\ writer'[w].wiped = writer[w].wiped
    PROVE  AllHeld'
<1> DEFINE q == Tail(log.writes)
<1>1. /\ q \in Seq(LogWrite) /\ w \in Writers
      /\ \A k \in DOMAIN q : q[k].by # w /\ q[k].by \in Writers
      /\ \A e \in returned : Held(e, Head(log.writes).json) /\ Follows(e, 1, log.cache, q)
      /\ writer[w].at \in {"putting", "trimming"} /\ ~writer[w].wiped => Held(writer[w].event, log.cache)
      /\ Due(q, writer', log.cache)
  BY AllHeldMovesUp
<1>2. /\ log'.cache = s /\ log'.disk = Head(log.writes).json
      /\ log'.writes = Append(q, [by |-> w, json |-> s])
  BY DEF Update, Landed
<1> HIDE DEF q
<1>3. writer \in [Writers -> {NoCall} \cup Putting \cup Clearing] /\ returned \subseteq Event
  BY DEF LogTyped, AllHeld
<1>4. SameDue(writer', writer', q, log.cache, s)
  <2> SUFFICES ASSUME NEW k \in DOMAIN q, NEW v, v = q[k].by, writer'[v].at \in {"putting", "trimming"}
               PROVE  Held(writer'[v].event, log.cache) => Held(writer'[v].event, s)
    BY DEF SameDue
  <2>1. writer'[v] = writer[v] /\ writer[v] \in {NoCall} \cup Putting \cup Clearing
    BY <1>1, <1>3
  <2>2. writer[v] \in Putting
    BY <2>1 DEF NoCall, Clearing
  <2>3. writer[v].event \in Event
    BY <2>2 DEF Putting
  <2> QED BY <2>1, <2>3 DEF LosesNone
<1>5. OwnHeld(writer'[w], s)
  <2>1. CASE writer[w] \in Putting /\ writer'[w].event = writer[w].event /\ writer'[w].wiped = writer[w].wiped
    <3>1. writer[w].at \in {"putting", "trimming"} /\ writer[w].event \in Event
      BY <2>1 DEF Putting
    <3> QED BY <1>1, <2>1, <3>1 DEF OwnHeld, LosesNone
  <2> QED BY <2>1 DEF OwnHeld
<1>6. AllFollow(returned, Head(log.writes).json, log.cache, q) /\ LosesNone(returned, log.cache, s)
  BY <1>1, <1>3 DEF AllFollow, LosesNone
<1>7. /\ AllFollow(returned, Head(log.writes).json, s, Append(q, [by |-> w, json |-> s]))
      /\ Due(Append(q, [by |-> w, json |-> s]), writer', s)
  <2>1. Due(q, writer', log.cache) /\ q \in Seq(LogWrite) /\ w \in Writers
    BY <1>1
  <2> QED BY <1>4, <1>5, <1>6, <2>1, AllHeldAdded
<1> QED BY <1>2, <1>3, <1>7 DEF AllHeld

\* The oldest write lands or is rejected, and its caller ends: an event whose
\* write landed, and that was not cleared, is held from now on.
LEMMA HoldEnds ==
    ASSUME LogTyped, AllHeld, log.writes # <<>>, NEW w, w = Head(log.writes).by,
           writer' = [writer EXCEPT ![w] = NoCall],
           \/ log' = Rejected(log) /\ returned' = returned
           \/ writer[w] \in Putting /\ CallReturns(w)
    PROVE  AllHeld'
<1> DEFINE q == Tail(log.writes)
<1>0. writer \in [Writers -> {NoCall} \cup Putting \cup Clearing] /\ returned \subseteq Event
  BY DEF LogTyped, AllHeld
<1>1. \A v \in Writers : v # w => writer'[v] = writer[v]
  BY <1>0
<1>2. /\ AllFollow(returned, log.disk, log.cache, q)
      /\ AllFollow(returned, Head(log.writes).json, log.cache, q)
      /\ writer[w].at \in {"putting", "trimming"} /\ ~writer[w].wiped =>
            Held(writer[w].event, Head(log.writes).json) /\ Follows(writer[w].event, 1, log.cache, q)
      /\ Due(q, writer', log.cache)
  BY <1>1, AllHeldMovesUp DEF AllFollow
<1>3. CASE log' = Rejected(log) /\ returned' = returned
  <2>1. log'.cache = log.cache /\ log'.disk = log.disk /\ log'.writes = q
    BY <1>3 DEF Rejected
  <2> QED BY <1>0, <1>2, <1>3, <2>1 DEF AllHeld
<1>4. CASE writer[w] \in Putting /\ CallReturns(w)
  <2>1. log'.cache = log.cache /\ log'.disk = Head(log.writes).json /\ log'.writes = q
    BY <1>4 DEF CallReturns, Landed
  <2>2. writer[w].at \in {"putting", "trimming"} /\ writer[w].event \in Event
    BY <1>4 DEF Putting
  <2>3. returned' = returned \/ (~writer[w].wiped /\ returned' = returned \cup {writer[w].event})
    BY <1>4 DEF CallReturns
  <2>4. returned' \subseteq Event
    BY <1>0, <2>2, <2>3
  <2>5. AllFollow(returned', Head(log.writes).json, log.cache, q)
    BY <1>2, <2>2, <2>3 DEF AllFollow
  <2> QED BY <1>2, <2>1, <2>4, <2>5 DEF AllHeld
<1> QED BY <1>3, <1>4

\* Every write that lands keeps what is held, and how long the log is.
LEMMA HoldSaved ==
    ASSUME LogTyped, LogTyped', AllHeld, LengthFits, LogSaved
    PROVE  AllHeld' /\ LengthFits'
<1>t. /\ usedUp \in [events : Nat, clears : Nat, troubles : Nat] /\ hour \in Nat
      /\ writer \in [Writers -> {NoCall} \cup Putting \cup Clearing]
      /\ GoodLog(log.cache, usedUp.events)
  BY DEF LogTyped
<1>0. PICK w \in Writers :
              /\ log.writes # <<>> /\ Head(log.writes).by = w
              /\ UNCHANGED <<which, hour, phone, notified, late, unfetched>>
              /\ \/ writer[w] \in Putting /\ (writer[w].at = "trimming" \/ Fits(log.cache)) /\ CallReturns(w)
                 \/ /\ writer[w] \in Putting /\ writer[w].at = "putting" /\ ~Fits(log.cache)
                    /\ log' = Update(Landed(log), w, Newest(log.cache))
                    /\ writer' = [writer EXCEPT ![w].at = "trimming"]
                    /\ UNCHANGED <<returned, usedUp>>
                 \/ writer[w] \in Clearing /\ LogTheClear(w)
  BY SavedCases
<1>1. CASE writer[w] \in Putting /\ (writer[w].at = "trimming" \/ Fits(log.cache)) /\ CallReturns(w)
  <2>1. writer' = [writer EXCEPT ![w] = NoCall] /\ log'.cache = log.cache /\ usedUp' = usedUp
    BY <1>1 DEF CallReturns, Landed
  <2>2. AllHeld'
    BY <1>0, <1>1, <2>1, HoldEnds
  <2>3. writer'[w].at = "none" /\ \A v \in Writers : v # w => writer'[v] = writer[v]
    BY <1>t, <2>1 DEF NoCall
  <2>4. \/ Len(log'.cache) <= MaxKept
        \/ /\ Len(log'.cache) <= Len(log.cache) /\ usedUp'.troubles = usedUp.troubles
           /\ \A v \in Writers : writer[v].at = "putting" => writer'[v].at = "putting"
    <3>1. CASE Fits(log.cache)
      BY <2>1, <3>1 DEF Fits
    <3>2. CASE writer[w].at = "trimming"
      <4>1. Len(log.cache) \in Nat
        BY <1>t, LenProperties DEF GoodLog
      <4> QED BY <2>1, <2>3, <3>2, <4>1
    <3> QED BY <1>1, <3>1, <3>2
  <2>5. \A v \in Writers : writer'[v].at = "putting" => writer[v].at = "putting"
    BY <2>3
  <2> QED BY <2>2, <2>4, <2>5, LengthLess
<1>2. CASE /\ writer[w] \in Putting /\ writer[w].at = "putting" /\ ~Fits(log.cache)
           /\ log' = Update(Landed(log), w, Newest(log.cache))
           /\ writer' = [writer EXCEPT ![w].at = "trimming"]
           /\ UNCHANGED <<returned, usedUp>>
  <2>1. Newest(log.cache) \in Seq(Event) /\ Len(Newest(log.cache)) = MaxKept
    BY <1>t, <1>2, NewestKeeps DEF GoodLog
  <2>2. LosesNone(Event, log.cache, Newest(log.cache))
    BY <1>t, <1>2, HeldTrimmed DEF LosesNone
  <2>3. \A v \in Writers : v # w => writer'[v] = writer[v]
    BY <1>t, <1>2
  <2>4. writer'[w] = [writer[w] EXCEPT !.at = "trimming"]
    BY <1>t, <1>2
  <2>5. /\ writer'[w].at = "trimming" /\ writer'[w].event = writer[w].event
        /\ writer'[w].wiped = writer[w].wiped
    BY <1>2, <2>4 DEF Putting
  <2>6. AllHeld'
    BY <1>0, <1>2, <2>1, <2>2, <2>3, <2>5, HoldGoesOn
  <2>7. log'.cache = Newest(log.cache)
    BY <1>2 DEF Update
  <2>8. Len(log'.cache) <= MaxKept
    BY <2>1, <2>7, AlarmEventsAssumption
  <2>9. \A v \in Writers : writer'[v].at = "putting" => writer[v].at = "putting"
    BY <2>3, <2>5
  <2> QED BY <2>6, <2>8, <2>9, LengthLess
<1>3. CASE writer[w] \in Clearing /\ LogTheClear(w)
  <2> DEFINE event == [no |-> usedUp.events + 1, ts |-> hour]
             call  == [at |-> "putting", event |-> event, wiped |-> FALSE]
             s     == Append(log.cache, event)
  <2>1. /\ usedUp' = [usedUp EXCEPT !["events"] = @ + 1] /\ returned' = returned
        /\ log' = Update(Landed(log), w, s) /\ writer' = [writer EXCEPT ![w] = call]
    BY <1>3 DEF LogTheClear, UseUp
  <2>2. /\ event \in Event /\ event.no = usedUp.events + 1
        /\ call.at = "putting" /\ call.event = event /\ usedUp.events \in Nat
    BY <1>t, <1>3, NextIsAnEvent, AlarmEventsAssumption DEF LogTheClear
  <2> HIDE DEF event, call
  <2>3. Held(event, s) /\ LosesNone(Event, log.cache, s)
    BY <1>t, <2>2, HeldFromPut DEF LosesNone
  <2>4. s \in Seq(Event) /\ Len(s) = Len(log.cache) + 1
    BY <1>t, <2>2, AppendKeeps DEF GoodLog
  <2> HIDE DEF s
  <2>5. writer'[w] = call /\ \A v \in Writers : v # w => writer'[v] = writer[v]
    BY <1>t, <2>1
  <2>6. Held(writer'[w].event, s)
    BY <2>2, <2>3, <2>5
  <2>7. AllHeld'
    BY <1>0, <2>1, <2>3, <2>4, <2>5, <2>6, HoldGoesOn
  <2>8. log'.cache = s /\ usedUp'.troubles = usedUp.troubles
    BY <1>t, <2>1 DEF Update
  <2>9. writer[w].at # "putting"
    BY <1>3 DEF Clearing
  <2>10. \A v \in Writers : writer'[v].at = "putting" <=> v = w \/ writer[v].at = "putting"
    BY <2>2, <2>5
  <2> QED BY <2>4, <2>7, <2>8, <2>9, <2>10, LengthMore
<1> QED BY <1>0, <1>1, <1>2, <1>3

\* Every step keeps what is held, and how long the log is.
LEMMA HoldStep == LogTyped /\ AllHeld /\ LengthFits /\ [LogNext]_logVars => AllHeld' /\ LengthFits'
<1> SUFFICES ASSUME LogTyped, AllHeld, LengthFits, [LogNext]_logVars PROVE AllHeld' /\ LengthFits'
  OBVIOUS
<1>t. /\ usedUp \in [events : Nat, clears : Nat, troubles : Nat] /\ hour \in Nat
      /\ writer \in [Writers -> {NoCall} \cup Putting \cup Clearing]
  BY DEF LogTyped
<1>p. LogTyped'
  BY LogTypedStep
<1>q. ASSUME UNCHANGED <<log, writer, returned>>, usedUp'.troubles = usedUp.troubles \/ usedUp'.troubles # 0
      PROVE  AllHeld' /\ LengthFits'
  BY <1>q DEF AllHeld, LengthFits, PuttingNow
<1>1. ASSUME NEW w \in Writers, NEW ts \in 0..hour, Record(w, ts) PROVE AllHeld' /\ LengthFits'
  BY <1>p, <1>1, HoldRecord
<1>2. ASSUME NEW w \in Writers, NEW cutoff \in 1..hour + 1, Clear(w, cutoff) PROVE AllHeld' /\ LengthFits'
  BY <1>p, <1>2, HoldClear
<1>3. CASE LogSaved
  BY <1>p, <1>3, HoldSaved
<1>4. CASE LogRejected
  <2> DEFINE w == Head(log.writes).by
  <2>1. /\ log.writes # <<>> /\ log' = Rejected(log) /\ returned' = returned
        /\ usedUp' = [usedUp EXCEPT !["troubles"] = @ + 1]
        /\ writer' = [writer EXCEPT ![w] = NoCall]
    BY <1>4 DEF LogRejected, UseUp
  <2> HIDE DEF w
  <2>2. AllHeld'
    BY <2>1, HoldEnds DEF w
  <2>3. usedUp'.troubles # 0
    BY <1>t, <2>1
  <2>4. \A v \in Writers : writer'[v].at = "putting" => writer[v].at = "putting"
    BY <1>t, <2>1 DEF NoCall
  <2> QED BY <1>p, <2>2, <2>3, <2>4, LengthLess
<1>5. CASE LogReloaded
  <2>1. /\ log' = Reloaded(log) /\ returned' = returned /\ writer' = [w \in Writers |-> NoCall]
        /\ usedUp' = [usedUp EXCEPT !["troubles"] = @ + 1]
    BY <1>5 DEF LogReloaded, UseUp
  <2>2. log'.cache = log.disk /\ log'.disk = log.disk /\ log'.writes = <<>>
    BY <2>1 DEF Reloaded, Loaded
  <2>3. AllHeld'
    BY <2>1, <2>2 DEF AllHeld, AllFollow, Follows, Due
  <2>4. usedUp'.troubles # 0
    BY <1>t, <2>1
  <2>5. \A v \in Writers : writer'[v].at = "putting" => writer[v].at = "putting"
    BY <2>1 DEF NoCall
  <2> QED BY <1>p, <2>3, <2>4, <2>5, LengthLess
<1>6. CASE HourPasses
  BY <1>q, <1>6 DEF HourPasses
<1>7. CASE CatchUpStarts \/ AlarmsListed \/ CatchUpEnds \/ CatchUpCancelled
  BY <1>q, <1>7 DEF CatchUpStarts, AlarmsListed, CatchUpEnds, CatchUpCancelled
<1>8. CASE CatchUpFails
  <2>1. usedUp' = [usedUp EXCEPT !["troubles"] = @ + 1] /\ UNCHANGED <<log, writer, returned>>
    BY <1>8 DEF CatchUpFails, UseUp
  <2>2. usedUp'.troubles # 0
    BY <1>t, <2>1
  <2> QED BY <1>q, <2>1, <2>2
<1>9. CASE UNCHANGED logVars
  BY <1>q, <1>9 DEF logVars
<1> QED BY <1>1, <1>2, <1>3, <1>4, <1>5, <1>6, <1>7, <1>8, <1>9 DEF LogNext

\* LogHoldsTheNewest, for any number of writers and any limit (trim() of
\* src/alarms/index.ts and src/audit/index.ts): an event whose call returned is
\* in the log until MaxKept others that are no older are there or it is
\* cleared, over restarts and rejected writes; and without those the log is no
\* longer than MaxKept and the puts under way.  The cache alone does not carry
\* it: what is on the disk, and in each write under way, must hold the event
\* too, from the write on that put it.
THEOREM NewestAreHeld == LogSpec => []LogHoldsTheNewest
<1>1. AlarmsInit => LogTyped /\ AllHeld /\ LengthFits
  BY LogTypedInit, HoldInit
<1>2. LogTyped /\ AllHeld /\ LengthFits /\ [LogNext]_logVars => LogTyped' /\ AllHeld' /\ LengthFits'
  BY LogTypedStep, HoldStep
<1>3. LogTyped /\ AllHeld /\ LengthFits => LogHoldsTheNewest
  <2> SUFFICES ASSUME LogTyped, AllHeld, LengthFits PROVE LogHoldsTheNewest
    OBVIOUS
  <2>1. \A e \in returned : Held(e, log.cache)
    BY DEF AllHeld, AllFollow, Follows
  <2>2. usedUp.troubles = 0 => Len(log.cache) <= MaxKept + Cardinality({w \in Writers : writer[w].at = "putting"})
    BY DEF LengthFits, PuttingNow
  <2> QED BY <2>1, <2>2 DEF LogHoldsTheNewest, Held, Newer
<1> QED BY <1>1, <1>2, <1>3, PTL DEF LogSpec

----------------------------------------------------------------------------
(* Types of the logs and of the catch-up                                   *)

\* Whoever is in a call awaits a write of his, and the app has read no hour
\* that has not come.
LogBounds ==
    /\ which \in {"alarms", "audit"}
    /\ log \in Collections(Seq(Event), Writers)
    /\ \A w \in Writers : writer[w] # NoCall => w \in Waiting(log)
    /\ phone.watermark \in 0..hour
    /\ phone.at \in {"rest", "asked", "answered"}
    /\ phone.at # "rest" => phone.read \in 0..hour
    /\ phone.at = "answered" => phone.list \subseteq Event
    /\ returned \subseteq Event /\ notified \subseteq Event /\ late \subseteq Event
    /\ unfetched \subseteq Event

\* Nothing is put, nobody is in a call and the app has not asked.
LEMMA LogBoundsInit == AlarmsInit => LogBounds
<1> SUFFICES ASSUME AlarmsInit PROVE LogBounds
  OBVIOUS
<1>1. /\ which \in {"alarms", "audit"} /\ log = Loaded(<<>>) /\ writer = [w \in Writers |-> NoCall]
      /\ hour = 1 /\ phone = AtRest
      /\ returned = {} /\ notified = {} /\ late = {} /\ unfetched = {}
  BY DEF AlarmsInit
<1>2. <<>> \in Seq(Event)
  OBVIOUS
<1>3. log \in Collections(Seq(Event), Writers)
  BY <1>1, <1>2, LoadedFacts
<1>4. phone.at = "rest" /\ phone.watermark = 0
  BY <1>1 DEF AtRest
<1> QED BY <1>1, <1>3, <1>4 DEF LogBounds

\* Whoever calls awaits the write he makes.
LEMMA CallAwaits ==
    ASSUME LogBounds, NEW w \in Writers, NEW s \in Seq(Event), log' = Update(log, w, s),
           \A v \in Writers : v # w /\ writer'[v] # NoCall => writer[v] # NoCall
    PROVE  /\ log' \in Collections(Seq(Event), Writers)
           /\ \A v \in Writers : writer'[v] # NoCall => v \in Waiting(log')
<1>1. log' \in Collections(Seq(Event), Writers) /\ Waiting(log') = Waiting(log) \cup {w}
  BY UpdateFacts DEF LogBounds
<1> QED BY <1>1 DEF LogBounds

\* So does whoever goes on when his write has landed.
LEMMA GoesOnAwaits ==
    ASSUME LogBounds, log.writes # <<>>, NEW w \in Writers, w = Head(log.writes).by,
           NEW s \in Seq(Event), log' = Update(Landed(log), w, s),
           \A v \in Writers : v # w /\ writer'[v] # NoCall => writer[v] # NoCall
    PROVE  /\ log' \in Collections(Seq(Event), Writers)
           /\ \A v \in Writers : writer'[v] # NoCall => v \in Waiting(log')
<1> DEFINE mid == Landed(log)
<1>1. /\ mid \in Collections(Seq(Event), Writers)
      /\ \A b \in Waiting(log) : b # w => b \in Waiting(mid)
  BY LandedFacts DEF LogBounds
<1> HIDE DEF mid
<1>2. log' = Update(mid, w, s)
  BY DEF mid
<1>3. log' \in Collections(Seq(Event), Writers) /\ Waiting(log') = Waiting(mid) \cup {w}
  BY <1>1, <1>2, UpdateFacts
<1> QED BY <1>1, <1>3 DEF LogBounds

\* Whoever ends awaits nothing, and the others what they awaited.
LEMMA EndsAwaits ==
    ASSUME LogTyped, LogBounds, log.writes # <<>>, log' = Landed(log) \/ log' = Rejected(log),
           writer' = [writer EXCEPT ![Head(log.writes).by] = NoCall]
    PROVE  /\ log' \in Collections(Seq(Event), Writers)
           /\ \A v \in Writers : writer'[v] # NoCall => v \in Waiting(log')
<1>1. /\ log' \in Collections(Seq(Event), Writers)
      /\ \A b \in Waiting(log) : b # Head(log.writes).by => b \in Waiting(log')
  <2>1. CASE log' = Landed(log)
    BY <2>1, LandedFacts DEF LogBounds
  <2>2. CASE log' = Rejected(log)
    BY <2>2, RejectedFacts DEF LogBounds
  <2> QED BY <2>1, <2>2
<1>2. \A v \in Writers : v # Head(log.writes).by => writer'[v] = writer[v]
  BY DEF LogTyped
<1>3. Head(log.writes).by \in Writers => writer'[Head(log.writes).by] = NoCall
  BY DEF LogTyped
<1> QED BY <1>1, <1>2, <1>3 DEF LogBounds

\* Every step keeps the types and the bounds of a log and of the app.
LEMMA LogBoundsStep == LogTyped /\ LogTyped' /\ LogBounds /\ [LogNext]_logVars => LogBounds'
<1> SUFFICES ASSUME LogTyped, LogTyped', LogBounds, [LogNext]_logVars PROVE LogBounds'
  OBVIOUS
<1>t. /\ which \in {"alarms", "audit"} /\ log \in Collections(Seq(Event), Writers)
      /\ \A w \in Writers : writer[w] # NoCall => w \in Waiting(log)
      /\ phone.watermark \in 0..hour /\ phone.at \in {"rest", "asked", "answered"}
      /\ phone.at # "rest" => phone.read \in 0..hour
      /\ phone.at = "answered" => phone.list \subseteq Event
      /\ returned \subseteq Event /\ notified \subseteq Event /\ late \subseteq Event
      /\ unfetched \subseteq Event
  BY DEF LogBounds
<1>u. /\ writer \in [Writers -> {NoCall} \cup Putting \cup Clearing]
      /\ hour \in 0..MaxHour /\ MaxHour \in Nat /\ usedUp.events \in Nat
      /\ Elements(log.cache) \subseteq Event /\ Elements(log.disk) \subseteq Event
      /\ GoodLog(log.cache, usedUp.events)
  BY ElementsOfLog, AlarmEventsAssumption DEF LogTyped
<1>n. log'.cache \in Seq(Event)
  BY DEF LogTyped, GoodLog
\* What a step of the log leaves to show.
<1>l. ASSUME log' \in Collections(Seq(Event), Writers),
             \A w \in Writers : writer'[w] # NoCall => w \in Waiting(log'),
             returned' \subseteq Event, late' \subseteq Event,
             UNCHANGED <<which, hour, phone, notified, unfetched>>
      PROVE  LogBounds'
  BY <1>t, <1>l DEF LogBounds
\* And a step of the app.
<1>p. ASSUME UNCHANGED <<which, log, writer, hour, returned, late>>,
             phone'.watermark \in 0..hour, phone'.at \in {"rest", "asked", "answered"},
             phone'.at # "rest" => phone'.read \in 0..hour,
             phone'.at = "answered" => phone'.list \subseteq Event,
             notified' \subseteq Event, unfetched' \subseteq Event
      PROVE  LogBounds'
  BY <1>t, <1>p DEF LogBounds
<1>1. ASSUME NEW w \in Writers, NEW ts \in 0..hour, Record(w, ts) PROVE LogBounds'
  <2> DEFINE event == [no |-> usedUp.events + 1, ts |-> ts]
  <2>1. /\ log' = Update(log, w, Append(log.cache, event))
        /\ writer' = [writer EXCEPT ![w] = [at |-> "putting", event |-> event, wiped |-> FALSE]]
        /\ late' = late \cup {event} \/ late' = late
        /\ UNCHANGED <<which, hour, phone, returned, notified, unfetched>>
    BY <1>1 DEF Record
  <2>2. event \in Event
    BY <1>1, NextIsAnEvent DEF Record
  <2> HIDE DEF event
  <2>3. Append(log.cache, event) \in Seq(Event)
    BY <2>1, <1>n DEF Update
  <2>4. \A v \in Writers : v # w /\ writer'[v] # NoCall => writer[v] # NoCall
    BY <1>u, <2>1
  <2>5. /\ log' \in Collections(Seq(Event), Writers)
        /\ \A v \in Writers : writer'[v] # NoCall => v \in Waiting(log')
    BY <2>1, <2>3, <2>4, CallAwaits
  <2> QED BY <1>l, <1>t, <2>1, <2>2, <2>5
<1>2. ASSUME NEW w \in Writers, NEW cutoff \in 1..hour + 1, Clear(w, cutoff) PROVE LogBounds'
  <2>1. /\ log' = Update(log, w, Retained(log.cache, cutoff))
        /\ writer' = [v \in Writers |->
              IF v = w THEN [at |-> "clearing"]
              ELSE IF writer[v].at \in {"putting", "trimming"} /\ writer[v].event.ts < cutoff
              THEN [writer[v] EXCEPT !.wiped = TRUE] ELSE writer[v]]
        /\ returned' = {e \in returned : e.ts >= cutoff}
        /\ UNCHANGED <<which, hour, phone, notified, late, unfetched>>
    BY <1>2 DEF Clear
  <2>2. Retained(log.cache, cutoff) \in Seq(Event)
    BY <2>1, <1>n DEF Update
  <2>3. ASSUME NEW v \in Writers, v # w, writer[v] = NoCall PROVE writer'[v] = NoCall
    BY <2>1, <2>3 DEF NoCall
  <2>4. /\ log' \in Collections(Seq(Event), Writers)
        /\ \A v \in Writers : writer'[v] # NoCall => v \in Waiting(log')
    BY <2>1, <2>2, <2>3, CallAwaits
  <2> QED BY <1>l, <1>t, <2>1, <2>4
<1>3. CASE LogSaved
  <2>1. PICK w \in Writers :
              /\ log.writes # <<>> /\ Head(log.writes).by = w
              /\ UNCHANGED <<which, hour, phone, notified, late, unfetched>>
              /\ \/ writer[w] \in Putting /\ (writer[w].at = "trimming" \/ Fits(log.cache)) /\ CallReturns(w)
                 \/ /\ writer[w] \in Putting /\ writer[w].at = "putting" /\ ~Fits(log.cache)
                    /\ log' = Update(Landed(log), w, Newest(log.cache))
                    /\ writer' = [writer EXCEPT ![w].at = "trimming"]
                    /\ UNCHANGED <<returned, usedUp>>
                 \/ writer[w] \in Clearing /\ LogTheClear(w)
    BY <1>3, SavedCases
  <2>2. CASE writer[w] \in Putting /\ CallReturns(w)
    <3>1. /\ log' = Landed(log) /\ writer' = [writer EXCEPT ![w] = NoCall]
          /\ returned' = returned \/ returned' = returned \cup {writer[w].event}
      BY <2>2 DEF CallReturns
    <3>2. writer[w].event \in Event
      BY <2>2 DEF Putting
    <3>3. /\ log' \in Collections(Seq(Event), Writers)
          /\ \A v \in Writers : writer'[v] # NoCall => v \in Waiting(log')
      BY <2>1, <3>1, EndsAwaits
    <3> QED BY <1>l, <1>t, <2>1, <3>1, <3>2, <3>3
  <2>3. CASE /\ log' = Update(Landed(log), w, Newest(log.cache))
             /\ writer' = [writer EXCEPT ![w].at = "trimming"]
             /\ UNCHANGED <<returned, usedUp>>
    <3>1. Newest(log.cache) \in Seq(Event)
      BY <2>3, <1>n DEF Update
    <3>2. \A v \in Writers : v # w /\ writer'[v] # NoCall => writer[v] # NoCall
      BY <1>u, <2>3
    <3>3. /\ log' \in Collections(Seq(Event), Writers)
          /\ \A v \in Writers : writer'[v] # NoCall => v \in Waiting(log')
      BY <2>1, <2>3, <3>1, <3>2, GoesOnAwaits
    <3> QED BY <1>l, <1>t, <2>1, <2>3, <3>3
  <2>4. CASE LogTheClear(w)
    <3> DEFINE event == [no |-> usedUp.events + 1, ts |-> hour]
               call  == [at |-> "putting", event |-> event, wiped |-> FALSE]
    <3>1. /\ log' = Update(Landed(log), w, Append(log.cache, event))
          /\ writer' = [writer EXCEPT ![w] = call] /\ returned' = returned
      BY <2>4 DEF LogTheClear
    <3> HIDE DEF event, call
    <3>2. Append(log.cache, event) \in Seq(Event)
      BY <3>1, <1>n DEF Update
    <3>3. \A v \in Writers : v # w /\ writer'[v] # NoCall => writer[v] # NoCall
      BY <1>u, <3>1
    <3>4. /\ log' \in Collections(Seq(Event), Writers)
          /\ \A v \in Writers : writer'[v] # NoCall => v \in Waiting(log')
      BY <2>1, <3>1, <3>2, <3>3, GoesOnAwaits
    <3> QED BY <1>l, <1>t, <2>1, <3>1, <3>4
  <2> QED BY <2>1, <2>2, <2>3, <2>4
<1>4. CASE LogRejected
  <2>1. /\ log.writes # <<>> /\ log' = Rejected(log)
        /\ writer' = [writer EXCEPT ![Head(log.writes).by] = NoCall]
        /\ UNCHANGED <<which, hour, phone, returned, notified, late, unfetched>>
    BY <1>4 DEF LogRejected
  <2>2. /\ log' \in Collections(Seq(Event), Writers)
        /\ \A v \in Writers : writer'[v] # NoCall => v \in Waiting(log')
    BY <2>1, EndsAwaits
  <2> QED BY <1>l, <1>t, <2>1, <2>2
<1>5. CASE LogReloaded
  <2>1. /\ log' = Reloaded(log) /\ writer' = [w \in Writers |-> NoCall]
        /\ late' = late \cup (Elements(log.disk) \ Elements(log.cache))
        /\ UNCHANGED <<which, hour, phone, returned, notified, unfetched>>
    BY <1>5 DEF LogReloaded
  <2>2. log.disk \in Seq(Event) /\ log' = Loaded(log.disk)
    BY <1>t, <2>1 DEF Collections, Reloaded
  <2>3. log' \in Collections(Seq(Event), Writers)
    BY <2>2, LoadedFacts
  <2>4. late' \subseteq Event
    BY <1>t, <1>u, <2>1
  <2> QED BY <1>l, <1>t, <2>1, <2>3, <2>4
<1>6. CASE HourPasses
  <2>1. /\ hour' = hour + 1
        /\ UNCHANGED <<which, log, writer, phone, returned, notified, late, unfetched>>
    BY <1>6 DEF HourPasses
  <2>2. 0..hour \subseteq 0..hour'
    BY <1>u, <2>1
  <2> QED BY <1>t, <2>1, <2>2 DEF LogBounds
<1>7. CASE CatchUpStarts
  <2>1. /\ phone' = [at |-> "asked", watermark |-> phone.watermark, read |-> hour]
        /\ UNCHANGED <<which, log, writer, hour, returned, notified, late, unfetched>>
    BY <1>7 DEF CatchUpStarts
  <2>2. phone'.at = "asked" /\ phone'.watermark = phone.watermark /\ phone'.read = hour
    BY <2>1
  <2> QED BY <1>p, <1>t, <1>u, <2>1, <2>2
<1>8. CASE AlarmsListed
  <2>1. /\ phone.at = "asked"
        /\ phone' = [at |-> "answered", watermark |-> phone.watermark, read |-> phone.read,
                     list |-> ListSince(phone.watermark)]
        /\ UNCHANGED <<which, log, writer, hour, returned, notified, late, unfetched>>
    BY <1>8 DEF AlarmsListed
  <2>2. /\ phone'.at = "answered" /\ phone'.watermark = phone.watermark /\ phone'.read = phone.read
        /\ phone'.list \subseteq Event
    BY <1>u, <2>1 DEF ListSince
  <2> QED BY <1>p, <1>t, <2>1, <2>2
<1>9. CASE CatchUpEnds
  <2>1. /\ phone.at = "answered" /\ phone' = [at |-> "rest", watermark |-> phone.read]
        /\ notified' = notified \cup phone.list
        /\ UNCHANGED <<which, log, writer, hour, returned, late, unfetched>>
    BY <1>9 DEF CatchUpEnds
  <2>2. phone'.at = "rest" /\ phone'.watermark = phone.read
    BY <2>1
  <2>3. notified' \subseteq Event
    BY <1>t, <2>1
  <2> QED BY <1>p, <1>t, <2>1, <2>2, <2>3
<1>12. CASE CatchUpFails
  <2>1. /\ phone.at \in {"asked", "answered"} /\ phone' = [at |-> "rest", watermark |-> phone.read]
        /\ phone.at = "asked" => unfetched' = unfetched \cup ListSince(phone.watermark)
        /\ phone.at = "answered" => unfetched' = unfetched \cup phone.list
        /\ UNCHANGED <<which, log, writer, hour, returned, notified, late>>
    BY <1>12 DEF CatchUpFails
  <2>2. phone'.at = "rest" /\ phone'.watermark = phone.read
    BY <2>1
  <2>4. ListSince(phone.watermark) \subseteq Event
    BY <1>u DEF ListSince
  <2>3. unfetched' \subseteq Event
    BY <1>t, <2>1, <2>4
  <2> QED BY <1>p, <1>t, <2>1, <2>2, <2>3
<1>10. CASE CatchUpCancelled
  <2>1. /\ phone' = [at |-> "rest", watermark |-> phone.watermark]
        /\ UNCHANGED <<which, log, writer, hour, returned, notified, late, unfetched>>
    BY <1>10 DEF CatchUpCancelled
  <2>2. phone'.at = "rest" /\ phone'.watermark = phone.watermark
    BY <2>1
  <2> QED BY <1>p, <1>t, <2>1, <2>2
<1>11. CASE UNCHANGED logVars
  BY <1>l, <1>t, <1>11 DEF logVars
<1> QED BY <1>1, <1>2, <1>3, <1>4, <1>5, <1>6, <1>7, <1>8, <1>9, <1>10, <1>11, <1>12 DEF LogNext

\* Every variable of the logs and of the app's catch-up has its type: no
\* log the adapter holds has two events of one number, whoever is in a call awaits
\* a write of his, and the watermark never runs ahead of the clock.
THEOREM AlarmsTyped == LogSpec => []AlarmsTypeOK
<1>1. LogTyped /\ LogBounds => AlarmsTypeOK
  <2> SUFFICES ASSUME LogTyped, LogBounds PROVE AlarmsTypeOK
    OBVIOUS
  <2>1. writer \in [Writers -> {NoCall} \cup Putting \cup Clearing] /\ hour \in 0..MaxHour
    BY DEF LogTyped
  <2>2. ASSUME NEW w \in Writers
        PROVE  /\ writer[w].at \in {"none", "putting", "trimming", "clearing"}
               /\ writer[w].at # "none" => w \in Waiting(log)
    <3>1. writer[w] = NoCall \/ writer[w] \in Putting \/ writer[w] \in Clearing
      BY <2>1
    <3>2. writer[w].at \in {"none", "putting", "trimming", "clearing"}
      BY <3>1 DEF NoCall, Putting, Clearing
    <3>3. writer[w].at # "none" => writer[w] # NoCall
      BY DEF NoCall
    <3> QED BY <3>2, <3>3 DEF LogBounds
  <2>3. {log.cache, log.disk} \subseteq Seq(Event)
    BY DEF LogBounds, Collections
  <2>4. \A i, j \in DOMAIN log.cache : log.cache[i].no = log.cache[j].no => i = j
    BY DEF LogTyped, GoodLog
  <2> QED BY <2>1, <2>2, <2>3, <2>4 DEF LogBounds, AlarmsTypeOK
<1>2. AlarmsInit => LogTyped /\ LogBounds
  BY LogTypedInit, LogBoundsInit
<1>3. LogTyped /\ LogBounds /\ [LogNext]_logVars => (LogTyped /\ LogBounds)'
  BY LogTypedStep, LogBoundsStep
<1> QED BY <1>1, <1>2, <1>3, PTL DEF LogSpec

----------------------------------------------------------------------------
(* The composition: what the adapter keeps                                 *)

\* A step of one part is a step of that part, and nothing to the others.
LEMMA RecordsStep ==
    [RecordsNext]_<<part, vars, catalogVars, contentVars, boardVars, logVars, lifeVars>> =>
        /\ [Next]_vars /\ [CatalogNext]_catalogVars /\ [ContentNext]_contentVars
        /\ [BoardsNext]_boardVars /\ [LogNext]_logVars /\ [LifecycleNext]_lifeVars
<1>1. CASE Of("collection", Next /\ UNCHANGED <<catalogVars, contentVars, boardVars, logVars, lifeVars>>)
  BY <1>1 DEF Of
<1>2. CASE Of("catalogue", CatalogNext /\ Small /\ UNCHANGED <<vars, contentVars, boardVars, logVars, lifeVars>>)
  BY <1>2 DEF Of
<1>8. CASE Of("profiles", CatalogNext /\ Unread /\ UNCHANGED <<vars, contentVars, boardVars, logVars, lifeVars>>)
  BY <1>8 DEF Of
<1>3. CASE Of("contents", ContentNext /\ UNCHANGED <<vars, catalogVars, boardVars, logVars, lifeVars>>)
  BY <1>3 DEF Of
<1>4. CASE Of("dashboards", BoardsNext /\ UNCHANGED <<vars, catalogVars, contentVars, logVars, lifeVars>>)
  BY <1>4 DEF Of
<1>5. CASE Of("logs", LogNext /\ UNCHANGED <<vars, catalogVars, contentVars, boardVars, lifeVars>>)
  BY <1>5 DEF Of
<1>6. CASE Of("lifecycle", LifecycleNext /\ UNCHANGED <<vars, catalogVars, contentVars, boardVars, logVars>>)
  BY <1>6 DEF Of
<1>7. CASE UNCHANGED <<part, vars, catalogVars, contentVars, boardVars, logVars, lifeVars>>
  BY <1>7
<1> QED BY <1>1, <1>2, <1>3, <1>4, <1>5, <1>6, <1>7, <1>8 DEF RecordsNext

\* The composition implements every one of its parts, so that whatever is
\* proved of a part holds in it.
THEOREM RecordsImplementsParts ==
    RecordsSpec => Spec /\ CatalogSpec /\ ContentSpec /\ BoardsSpec /\ LogSpec /\ LifecycleSpec
<1>1. RecordsInit => Init /\ CatalogInit /\ ContentInit /\ DashboardsInit /\ AlarmsInit /\ LifecycleInit
  BY DEF RecordsInit
<1> QED BY <1>1, RecordsStep, PTL DEF RecordsSpec, Spec, CatalogSpec, ContentSpec, BoardsSpec, LogSpec, LifecycleSpec

\* Every variable of every part has its type, and no bound is passed: for any
\* items, rules, addresses, screens, alarms and ports, however their steps
\* follow each other.
THEOREM RecordsTyped == RecordsSpec => []RecordsTypeOK
BY RecordsImplementsParts, StorageTyped, CatalogTyped, ContentTyped, DashboardsTyped, AlarmsTyped, LifecycleTyped,
   PTL DEF RecordsTypeOK

\* What the parts promise, all at once, of the composition: where contents are
\* cached for some time at all.
THEOREM RecordsAreSafe ==
    ASSUME CacheTTL > 0
    PROVE  RecordsSpec => /\ [](/\ AwaitedIsDurable
                                /\ OneIdPerState /\ UnchangedIsExact
                                /\ AnswersAreCurrent /\ OldAddressFadesOut
                                /\ NoLostUpdate
                                /\ LogHoldsTheNewest /\ NoAlarmSkipped
                                /\ PortOfDeviceStays /\ FirstStartStays /\ ToldKeyIsDurable)
                          /\ DiskNeverGoesBack /\ GrantsOnlyFillGaps
<1>1. ContentSpec => []OldAddressFadesOut
  BY OldAddressesFade
<1> QED
  BY <1>1, RecordsImplementsParts, AwaitedSurvives, DiskIsMonotone, IdsStayUnique, UnchangedMeansExact,
     NewRulesFillGaps, AnswersStayCurrent, UpdatesAreKept, NewestAreHeld, NoAlarmIsSkipped, PortStays,
     FirstStartHolds, ToldKeyStays, PTL

=============================================================================
