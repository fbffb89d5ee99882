---------------------------- MODULE PortPlanProofs ----------------------------
(***************************************************************************)
(* Proofs about PortPlan for any instances, configurations, numbers of     *)
(* slots and ports: a plan has duplicates in every slot or in none, so     *)
(* that the allocator may stop at the first; claims of two instances share *)
(* no port; no claim is beyond the last port; the allocator and the        *)
(* reconciler agree on what an old reservation holds; and the files a      *)
(* running instance was configured with name no port of another one's.     *)
(***************************************************************************)
EXTENDS PortPlan, TLAPS

\* A boot has the reservation it was given.
BootsHoldReservations ==
    \A i \in booting :
        /\ HasManifest(i) /\ manifest[i].status = "reserved"
        /\ manifest[i].fresh \/ overrun

\* The inductive invariant.
IInv == /\ TypeOK /\ BootsHoldReservations
        /\ ClaimsAreDisjoint /\ PlansFitTheMachine

(***************************************************************************)
(* The numbers.                                                            *)
(***************************************************************************)

\* The parts of a configuration.
LEMMA LabPortsNat ==
    ASSUME NEW c \in Config, NEW n \in LabNames
    PROVE  LabPorts(c)[n] \in Nat
<1>1. /\ c.labBackend \in Nat /\ c.labFrontend \in Nat /\ c.cbtHTTP \in Nat
      /\ c.xatuHTTP \in Nat /\ c.redis \in Nat /\ c.prometheus \in Nat
      /\ c.grafana \in Nat
  BY DEF Config
<1>2. /\ WithDefault(c.labBackend, 8080) \in Nat
      /\ WithDefault(c.labFrontend, 5173) \in Nat
      /\ WithDefault(c.cbtHTTP, 8123) \in Nat
      /\ WithDefault(c.xatuHTTP, 8125) \in Nat
      /\ WithDefault(c.redis, 6380) \in Nat
      /\ WithDefault(c.prometheus, 9090) \in Nat
      /\ WithDefault(c.grafana, 3000) \in Nat
  BY <1>1 DEF WithDefault
<1>3. /\ LabPorts(c).labBackend \in Nat /\ LabPorts(c).labFrontend \in Nat
      /\ LabPorts(c).cbt01HTTP \in Nat /\ LabPorts(c).cbt02HTTP \in Nat
      /\ LabPorts(c).cbt01TCP \in Nat /\ LabPorts(c).cbt02TCP \in Nat
      /\ LabPorts(c).xatu01HTTP \in Nat /\ LabPorts(c).xatu02HTTP \in Nat
      /\ LabPorts(c).xatu01TCP \in Nat /\ LabPorts(c).xatu02TCP \in Nat
      /\ LabPorts(c).redis \in Nat /\ LabPorts(c).prometheus \in Nat
      /\ LabPorts(c).grafana \in Nat /\ LabPorts(c).commandCenter \in Nat
  BY <1>2 DEF LabPorts
<1> QED BY <1>3 DEF LabNames

LEMMA NetworkPortsNat ==
    ASSUME NEW c \in Config, NEW i \in DOMAIN c.networks, NEW n \in NetworkNames
    PROVE  NetworkPorts(c, i)[n] \in Nat
<1>1. c.networks \in Seq(Networks) /\ c.offset \in [Networks -> Nat]
  BY DEF Config
<1>2. i \in 1 .. Len(c.networks) /\ c.networks[i] \in Networks
  BY <1>1
<1>3. c.offset[c.networks[i]] \in Nat
  BY <1>1, <1>2
<1>4. c.cbtBase \in Nat /\ c.cbtAPIBase \in Nat /\ c.cbtFrontendBase \in Nat
  BY DEF Config
<1>5. /\ WithDefault(c.cbtBase, 8081) \in Nat
      /\ WithDefault(c.cbtAPIBase, 8091) \in Nat
      /\ WithDefault(c.cbtFrontendBase, 8085) \in Nat
  BY <1>4 DEF WithDefault
<1>6. 9100 + (i - 1) \in Nat /\ 9200 + (i - 1) \in Nat
  BY <1>1, <1>2
<1>7. /\ NetworkPorts(c, i).cbt \in Nat
      /\ NetworkPorts(c, i).cbtAPI \in Nat
      /\ NetworkPorts(c, i).cbtFrontend \in Nat
      /\ NetworkPorts(c, i).cbtMetrics \in Nat
      /\ NetworkPorts(c, i).cbtAPIMetrics \in Nat
  BY <1>3, <1>5, <1>6 DEF NetworkPorts
<1> QED BY <1>7 DEF NetworkNames

\* Every port of slot 0 is a number.
LEMMA BasePortNat ==
    ASSUME NEW c \in Config, NEW k \in Keys(c)
    PROVE  BasePort(c, k) \in Nat
<1>1. CASE k \in LabKeys
  BY <1>1, LabPortsNat DEF LabKeys, BasePort
<1>2. CASE k \notin LabKeys
  <2>1. k[1] \in NetworkNames /\ k[2] \in Enabled(c)
    BY <1>2 DEF Keys
  <2>2. Position(c, k[2]) \in DOMAIN c.networks
    BY <2>1 DEF Enabled, Position
  <2> QED BY <1>2, <2>1, <2>2, NetworkPortsNat DEF BasePort
<1> QED BY <1>1, <1>2

LEMMA OffsetNat ==
    ASSUME NEW s \in Slots PROVE s * PortStride \in Nat
BY NumbersAssumption DEF Slots

\* The plan of a configuration and a slot.
LEMMA PlanPorts ==
    ASSUME NEW c \in Configs, NEW s \in Slots
    PROVE  /\ Plan[c][s] \in [Keys(Says[c]) -> Nat]
           /\ \A k \in Keys(Says[c]) :
                 Plan[c][s][k] = BasePort(Says[c], k) + s * PortStride
           /\ Ports[c][s] = AllPorts(Plan[c][s])
<1>1. Says[c] \in Config
  BY ConfigsAssumption
<1>2. Plan[c][s] = SlotPlan(Says[c], s) /\ Ports[c][s] = AllPorts(Plan[c][s])
  BY DEF Plan, Ports
<1>3. \A k \in Keys(Says[c]) : BasePort(Says[c], k) + s * PortStride \in Nat
  BY <1>1, BasePortNat, OffsetNat
<1> QED BY <1>2, <1>3 DEF SlotPlan

\* Two services share a port in every slot or in none: BuildPortPlan's error
\* in one slot means that no other slot can do better, so Allocate rightly
\* ends its search with it (allocator.go:96-99, ports.go:154-156).
THEOREM DuplicatesInEverySlot ==
    ASSUME NEW c \in Configs, NEW s \in Slots, NEW t \in Slots, Buildable(c, s)
    PROVE  Buildable(c, t)
<1>1. Says[c] \in Config
  BY ConfigsAssumption
<1>2. ~HasDuplicates(Plan[c][s])
  BY DEF Buildable, Duplicates
<1>3. ASSUME HasDuplicates(Plan[c][t]) PROVE FALSE
  <2>1. PICK k, l \in Keys(Says[c]) : k # l /\ Plan[c][t][k] = Plan[c][t][l]
    BY <1>3, PlanPorts DEF HasDuplicates
  <2>2. BasePort(Says[c], k) \in Nat /\ BasePort(Says[c], l) \in Nat
    BY <1>1, BasePortNat
  <2>3. s * PortStride \in Nat /\ t * PortStride \in Nat
    BY OffsetNat
  <2>4. BasePort(Says[c], k) + t * PortStride = BasePort(Says[c], l) + t * PortStride
    BY <2>1, PlanPorts
  <2>5. BasePort(Says[c], k) = BasePort(Says[c], l)
    BY <2>2, <2>3, <2>4
  <2>6. Plan[c][s][k] = Plan[c][s][l]
    BY <2>5, PlanPorts
  <2> QED BY <1>2, <2>1, <2>6, PlanPorts DEF HasDuplicates
<1> QED BY <1>3 DEF Buildable, Duplicates

(***************************************************************************)
(* The registry.                                                           *)
(***************************************************************************)

LEMMA GeneratedNat ==
    ASSUME NEW c \in Configs, NEW d \in Configs, NEW s \in Slots
    PROVE  AllPorts(Generated[c][d][s]) \subseteq Nat
<1> DEFINE merged == IF Buildable(c, 0) THEN Merge(Plan[d][s], Plan[c][0])
                     ELSE Plan[d][s]
<1>1. 0 \in Slots
  BY NumbersAssumption DEF Slots
<1>2. \A k \in DOMAIN Merge(Plan[d][s], Plan[c][0]) :
         Merge(Plan[d][s], Plan[c][0])[k] \in Nat
  BY <1>1, PlanPorts DEF Merge
<1>3. \A k \in DOMAIN merged : merged[k] \in Nat
  BY <1>2, PlanPorts
<1>4. Generated[c][d][s] = [k \in DOMAIN merged \cap Keys(Says[c]) |-> merged[k]]
  BY DEF Generated
<1> QED BY <1>3, <1>4 DEF AllPorts

LEMMA ManifestFields ==
    ASSUME TypeOK, NEW i \in Instances, HasManifest(i)
    PROVE  /\ manifest[i] \in Manifest
           /\ manifest[i].config \in Configs /\ manifest[i].slot \in Slots
           /\ manifest[i].status \in {"reserved", "running", "stopped"}
BY DEF TypeOK, HasManifest, Manifest

LEMMA ClaimIsManifest ==
    ASSUME NEW c \in Configs, NEW s \in Slots
    PROVE  /\ Claim(c, s) \in Manifest /\ Claim(c, s) # NoManifest
           /\ Claim(c, s).status = "reserved" /\ Claim(c, s).fresh
           /\ Claim(c, s).config = c /\ Claim(c, s).slot = s
<1>1. Claim(c, s) \in Manifest
  BY DEF Claim, Manifest
<1>2. Claim(c, s) # NoManifest
  BY <1>1, SentinelAssumption
<1> QED BY <1>1, <1>2 DEF Claim

\* What Bind binds are numbers.
LEMMA BindTypes ==
    ASSUME TypeOK, NEW i \in Instances, HasManifest(i), Bind(i)
    PROVE  live' \in [Instances -> SUBSET Nat]
<1>1. config[i] \in Configs
  BY DEF TypeOK
<1>2. AllPorts(GeneratedFrom(i, config[i])) \subseteq Nat
  BY <1>1, ManifestFields, GeneratedNat DEF GeneratedFrom
<1> QED BY <1>2 DEF TypeOK, Bind

\* A manifest whose status changes stays one.
LEMMA StatusTypes ==
    ASSUME TypeOK, NEW i \in Instances, HasManifest(i),
           NEW st \in {"reserved", "running", "stopped"},
           manifest' = [manifest EXCEPT ![i].status = st, ![i].fresh = TRUE]
    PROVE  /\ manifest' \in [Instances -> Manifest \cup {NoManifest}]
           /\ manifest'[i].status = st
           /\ manifest'[i].config = manifest[i].config
           /\ manifest'[i].slot = manifest[i].slot
           /\ manifest'[i] # NoManifest
           /\ \A j \in Instances \ {i} : manifest'[j] = manifest[j]
<1>1. manifest[i] \in Manifest
  BY ManifestFields
<1>2. manifest' = [manifest EXCEPT ![i] =
                     [manifest[i] EXCEPT !.status = st, !.fresh = TRUE]]
  BY DEF TypeOK
<1>3. [manifest[i] EXCEPT !.status = st, !.fresh = TRUE] \in Manifest
  BY <1>1 DEF Manifest
<1> DEFINE m == [manifest[i] EXCEPT !.status = st, !.fresh = TRUE]
<1>4. m.status = st /\ m.config = manifest[i].config /\ m.slot = manifest[i].slot
  BY <1>1 DEF Manifest
<1>5. m \in Manifest /\ m # NoManifest
  BY <1>3, SentinelAssumption
<1>6. manifest' = [manifest EXCEPT ![i] = m]
  BY <1>2
<1> HIDE DEF m
<1>7. manifest \in [Instances -> Manifest \cup {NoManifest}]
  BY DEF TypeOK
<1> QED BY <1>4, <1>5, <1>6, <1>7

LEMMA TypeStep ==
    ASSUME TypeOK, BootsHoldReservations, [Next]_vars
    PROVE  TypeOK'
<1>1. CASE UNCHANGED vars
  BY <1>1 DEF vars, TypeOK
<1>2. ASSUME NEW i \in Instances, EditConfig(i) PROVE TypeOK'
  BY <1>2 DEF EditConfig, TypeOK
<1>3. ASSUME NEW i \in Instances, Allocate(i) PROVE TypeOK'
  <2>1. PICK s \in Slots : manifest' = [manifest EXCEPT ![i] = Claim(config[i], s)]
    BY <1>3 DEF Allocate
  <2>2. Claim(config[i], s) \in Manifest
    BY ClaimIsManifest DEF TypeOK
  <2> QED BY <1>3, <2>1, <2>2 DEF Allocate, TypeOK
<1>4. ASSUME NEW i \in Instances, BootSucceeds(i) PROVE TypeOK'
  <2>1. HasManifest(i)
    BY <1>4 DEF BootSucceeds, BootsHoldReservations
  <2>2. manifest' \in [Instances -> Manifest \cup {NoManifest}]
    BY <1>4, <2>1, StatusTypes DEF BootSucceeds
  <2>3. live' \in [Instances -> SUBSET Nat]
    BY <1>4, <2>1, BindTypes DEF BootSucceeds
  <2> QED BY <1>4, <2>2, <2>3 DEF BootSucceeds, TypeOK
<1>5. ASSUME NEW i \in Instances, BootFails(i) PROVE TypeOK'
  <2>1. HasManifest(i)
    BY <1>5 DEF BootFails, BootsHoldReservations
  <2>2. manifest' \in [Instances -> Manifest \cup {NoManifest}]
    BY <1>5, <2>1, StatusTypes DEF BootFails
  <2>3. live' \in [Instances -> SUBSET Nat]
    BY <1>5, <2>1, BindTypes DEF BootFails, TypeOK
  <2> QED BY <1>5, <2>2, <2>3 DEF BootFails, TypeOK
<1>6. ASSUME NEW i \in Instances, BootDies(i) PROVE TypeOK'
  BY <1>6 DEF BootDies, TypeOK
<1>7. ASSUME NEW i \in Instances, Regenerate(i) PROVE TypeOK'
  <2>1. live' \in [Instances -> SUBSET Nat]
    BY <1>7, BindTypes DEF Regenerate
  <2> QED BY <1>7, <2>1 DEF Regenerate, TypeOK
<1>8. ASSUME NEW i \in Instances, Down(i) PROVE TypeOK'
  <2>1. manifest' \in [Instances -> Manifest \cup {NoManifest}]
    BY <1>8, StatusTypes DEF Down
  <2> QED BY <1>8, <2>1 DEF Down, TypeOK
<1>9. ASSUME NEW i \in Instances, Destroy(i) PROVE TypeOK'
  BY <1>9 DEF Destroy, TypeOK
<1>10. ASSUME NEW i \in Instances, Exit(i) PROVE TypeOK'
  BY <1>10 DEF Exit, TypeOK
<1>11. ASSUME NEW i \in Instances, Expire(i) PROVE TypeOK'
  <2>1. manifest' = [manifest EXCEPT ![i] = [manifest[i] EXCEPT !.fresh = FALSE]]
    BY <1>11 DEF Expire, TypeOK
  <2>2. [manifest[i] EXCEPT !.fresh = FALSE] \in Manifest
    BY <1>11, ManifestFields DEF Expire, Manifest
  <2> QED BY <1>11, <2>1, <2>2 DEF Expire, TypeOK
<1>12. ASSUME NEW port \in ForeignPorts, ForeignProgram(port) PROVE TypeOK'
  BY <1>12 DEF ForeignProgram, TypeOK
<1> QED BY <1>1, <1>2, <1>3, <1>4, <1>5, <1>6, <1>7, <1>8, <1>9, <1>10, <1>11,
           <1>12 DEF Next
\* Claims that stay, or go, or are those of a boot that had one before.
LEMMA ClaimsKept ==
    ASSUME IInv, manifest' \in [Instances -> Manifest \cup {NoManifest}],
           overrun => overrun',
           \A i \in Instances : HasManifest(i)' =>
               /\ HasManifest(i)
               /\ manifest'[i].config = manifest[i].config
               /\ manifest'[i].slot = manifest[i].slot
               /\ ~overrun' /\ Claims(i)' => Claims(i)
    PROVE  ClaimsAreDisjoint' /\ PlansFitTheMachine'
<1>1. \A i \in Instances : HasManifest(i)' => ManifestPorts(i)' = ManifestPorts(i)
  BY DEF ManifestPorts
<1>2. ClaimsAreDisjoint'
  <2> SUFFICES ASSUME ~overrun', NEW i \in Instances, NEW j \in Instances,
                      i # j, Claims(i)', Claims(j)'
               PROVE  ManifestPorts(i)' \cap ManifestPorts(j)' = {}
    BY DEF ClaimsAreDisjoint
  <2>1. HasManifest(i)' /\ HasManifest(j)'
    BY DEF Claims
  <2>2. Claims(i) /\ Claims(j) /\ ~overrun
    BY <2>1
  <2> QED BY <1>1, <2>1, <2>2 DEF IInv, ClaimsAreDisjoint
<1>3. PlansFitTheMachine'
  BY <1>1 DEF IInv, PlansFitTheMachine
<1> QED BY <1>2, <1>3

\* The manifests are not touched.
LEMMA RegistryUnchanged ==
    ASSUME IInv, UNCHANGED <<manifest, overrun>>
    PROVE  ClaimsAreDisjoint' /\ PlansFitTheMachine'
<1>1. \A i \in Instances : ManifestPorts(i)' = ManifestPorts(i)
  BY DEF ManifestPorts
<1> QED BY <1>1 DEF IInv, ClaimsAreDisjoint, PlansFitTheMachine, Claims, HasManifest

\* The allocation is the one step that adds a claim: its ports are neither in
\* an active manifest nor beyond the last port.
LEMMA AllocateKeeps ==
    ASSUME IInv, NEW i \in Instances, Allocate(i)
    PROVE  ClaimsAreDisjoint' /\ PlansFitTheMachine'
<1>1. PICK s \in Slots :
         /\ Available(i, s)
         /\ manifest' = [manifest EXCEPT ![i] = Claim(config[i], s)]
  BY DEF Allocate
<1>2. TypeOK /\ overrun' = overrun /\ config[i] \in Configs
  BY DEF Allocate, IInv, TypeOK
<1>3. ManifestPorts(i)' = Ports[config[i]][s]
  BY <1>1, <1>2, ClaimIsManifest DEF ManifestPorts, TypeOK
<1>4. \A j \in Instances \ {i} :
         /\ manifest'[j] = manifest[j]
         /\ ManifestPorts(j)' = ManifestPorts(j)
  BY <1>1, <1>2 DEF ManifestPorts, TypeOK
<1>5. \A j \in Instances \ {i} :
         Claims(j)' => Claims(j) /\ Ports[config[i]][s] \cap ManifestPorts(j) = {}
  <2> SUFFICES ASSUME NEW j \in Instances \ {i}, Claims(j)'
               PROVE  Claims(j) /\ Ports[config[i]][s] \cap ManifestPorts(j) = {}
    OBVIOUS
  <2>1. Claims(j)
    BY <1>4 DEF Claims, HasManifest
  <2>2. IsActiveManifest(j)
    BY <2>1 DEF Claims, IsActiveManifest
  <2>3. ManifestPorts(j) \subseteq ActiveRegistryPorts(i)
    BY <2>2 DEF ActiveRegistryPorts
  <2> QED BY <1>1, <2>1, <2>3 DEF Available
<1>6. ClaimsAreDisjoint'
  <2> SUFFICES ASSUME ~overrun', NEW j \in Instances, NEW k \in Instances,
                      j # k, Claims(j)', Claims(k)'
               PROVE  ManifestPorts(j)' \cap ManifestPorts(k)' = {}
    BY DEF ClaimsAreDisjoint
  <2>1. CASE j = i
    BY <1>3, <1>4, <1>5, <2>1
  <2>2. CASE k = i
    BY <1>3, <1>4, <1>5, <2>2
  <2>3. CASE j # i /\ k # i
    <3>1. Claims(j) /\ Claims(k)
      BY <1>5, <2>3
    <3> QED BY <1>2, <1>4, <2>3, <3>1 DEF IInv, ClaimsAreDisjoint
  <2> QED BY <2>1, <2>2, <2>3
<1>7. PlansFitTheMachine'
  <2>1. \A port \in ManifestPorts(i)' : port <= MaxPort
    BY <1>1, <1>3 DEF Available, IsPortFree
  <2> QED BY <1>4, <2>1 DEF IInv, PlansFitTheMachine, HasManifest
<1> QED BY <1>6, <1>7

\* A manifest whose status changes to one under which it had a claim before,
\* or to stopped.
LEMMA StatusKeeps ==
    ASSUME IInv, NEW i \in Instances, HasManifest(i), overrun' = overrun,
           NEW st \in {"running", "stopped"},
           manifest' = [manifest EXCEPT ![i].status = st, ![i].fresh = TRUE],
           st = "running" => overrun \/ Claims(i)
    PROVE  ClaimsAreDisjoint' /\ PlansFitTheMachine'
<1>1. /\ manifest' \in [Instances -> Manifest \cup {NoManifest}]
      /\ manifest'[i].status = st
      /\ manifest'[i].config = manifest[i].config
      /\ manifest'[i].slot = manifest[i].slot
      /\ \A j \in Instances \ {i} : manifest'[j] = manifest[j]
  BY StatusTypes DEF IInv
<1>2. Claims(i)' => overrun \/ Claims(i)
  BY <1>1 DEF Claims
<1>3. \A j \in Instances \ {i} : /\ HasManifest(j)' => HasManifest(j)
                                 /\ Claims(j)' => Claims(j)
  BY <1>1 DEF Claims, HasManifest
<1> QED BY <1>1, <1>2, <1>3, ClaimsKept

LEMMA ClaimsStep ==
    ASSUME IInv, [Next]_vars
    PROVE  ClaimsAreDisjoint' /\ PlansFitTheMachine'
<1> DEFINE Kept == ClaimsAreDisjoint' /\ PlansFitTheMachine'
<1>1. CASE UNCHANGED vars
  BY <1>1, RegistryUnchanged DEF vars
<1>2. ASSUME NEW i \in Instances, EditConfig(i) PROVE Kept
  BY <1>2, RegistryUnchanged DEF EditConfig
<1>3. ASSUME NEW i \in Instances, Allocate(i) PROVE Kept
  BY <1>3, AllocateKeeps
<1>4. ASSUME NEW i \in Instances, BootSucceeds(i) PROVE Kept
  <2>1. HasManifest(i) /\ (overrun \/ Claims(i))
    BY <1>4 DEF IInv, BootSucceeds, BootsHoldReservations, Claims
  <2> QED BY <1>4, <2>1, StatusKeeps DEF BootSucceeds
<1>5. ASSUME NEW i \in Instances, BootFails(i) PROVE Kept
  <2>1. HasManifest(i)
    BY <1>5 DEF IInv, BootFails, BootsHoldReservations
  <2> QED BY <1>5, <2>1, StatusKeeps DEF BootFails
<1>6. ASSUME NEW i \in Instances, BootDies(i) PROVE Kept
  BY <1>6, RegistryUnchanged DEF BootDies
<1>7. ASSUME NEW i \in Instances, Regenerate(i) PROVE Kept
  BY <1>7, RegistryUnchanged DEF Regenerate
<1>8. ASSUME NEW i \in Instances, Down(i) PROVE Kept
  BY <1>8, StatusKeeps DEF Down
<1>9. ASSUME NEW i \in Instances, Destroy(i) PROVE Kept
  <2>1. /\ manifest' \in [Instances -> Manifest \cup {NoManifest}]
        /\ \A j \in Instances : HasManifest(j)' => manifest'[j] = manifest[j]
    BY <1>9 DEF Destroy, IInv, TypeOK, HasManifest
  <2>2. \A j \in Instances : HasManifest(j)' => /\ HasManifest(j)
                                                /\ Claims(j)' => Claims(j)
    BY <2>1 DEF Claims, HasManifest
  <2> QED BY <1>9, <2>1, <2>2, ClaimsKept DEF Destroy
<1>10. ASSUME NEW i \in Instances, Exit(i) PROVE Kept
  BY <1>10, RegistryUnchanged DEF Exit
<1>11. ASSUME NEW i \in Instances, Expire(i) PROVE Kept
  <2>1. manifest[i] \in Manifest /\ manifest \in [Instances -> Manifest \cup {NoManifest}]
    BY <1>11, ManifestFields DEF Expire, IInv, TypeOK
  <2> DEFINE m == [manifest[i] EXCEPT !.fresh = FALSE]
  <2>2. /\ m \in Manifest /\ m.status = "reserved" /\ m.fresh = FALSE
        /\ m.config = manifest[i].config /\ m.slot = manifest[i].slot
    BY <1>11, <2>1 DEF Manifest, Expire
  <2>3. manifest' = [manifest EXCEPT ![i] = m]
    BY <1>11, <2>1 DEF Expire
  <2> HIDE DEF m
  <2>4. ~Claims(i)'
    BY <2>1, <2>2, <2>3 DEF Claims
  <2>5. \A j \in Instances \ {i} : manifest'[j] = manifest[j]
    BY <2>1, <2>3
  <2>6. \A j \in Instances \ {i} : /\ HasManifest(j)' => HasManifest(j)
                                   /\ Claims(j)' => Claims(j)
    BY <2>5 DEF Claims, HasManifest
  <2>7. HasManifest(i) /\ (overrun => overrun')
    BY <1>11 DEF Expire
  <2>8. /\ manifest' \in [Instances -> Manifest \cup {NoManifest}]
        /\ manifest'[i].config = manifest[i].config
        /\ manifest'[i].slot = manifest[i].slot
    BY <2>1, <2>2, <2>3
  <2> QED BY <2>4, <2>5, <2>6, <2>7, <2>8, ClaimsKept
<1>12. ASSUME NEW port \in ForeignPorts, ForeignProgram(port) PROVE Kept
  BY <1>12, RegistryUnchanged DEF ForeignProgram
<1> QED BY <1>1, <1>2, <1>3, <1>4, <1>5, <1>6, <1>7, <1>8, <1>9, <1>10, <1>11,
           <1>12 DEF Next

\* The manifest of every other boot is left alone, and the reservation of a
\* boot expires only with a trace.
LEMMA BootsStep ==
    ASSUME IInv, [Next]_vars
    PROVE  BootsHoldReservations'
<1> USE DEF IInv
<1> DEFINE Holds == BootsHoldReservations'
<1>0. manifest \in [Instances -> Manifest \cup {NoManifest}] /\ booting \subseteq Instances
  BY DEF TypeOK
<1>1. CASE UNCHANGED <<manifest, overrun, booting>>
  BY <1>1 DEF BootsHoldReservations, HasManifest
<1>2. ASSUME NEW i \in Instances, booting' = booting \ {i}, overrun' = overrun,
             \A j \in Instances \ {i} : manifest'[j] = manifest[j]
      PROVE  Holds
  BY <1>0, <1>2 DEF BootsHoldReservations, HasManifest
<1>3. ASSUME NEW i \in Instances, Allocate(i) PROVE Holds
  <2>1. PICK s \in Slots : manifest' = [manifest EXCEPT ![i] = Claim(config[i], s)]
    BY <1>3 DEF Allocate
  <2>2. manifest'[i] = Claim(config[i], s) /\ config[i] \in Configs
    BY <1>0, <2>1 DEF TypeOK
  <2>3. /\ HasManifest(i)' /\ manifest'[i].status = "reserved"
        /\ manifest'[i].fresh
    BY <2>2, ClaimIsManifest DEF HasManifest
  <2>4. \A j \in Instances \ {i} : manifest'[j] = manifest[j]
    BY <1>0, <2>1
  <2> QED BY <1>0, <1>3, <2>3, <2>4 DEF Allocate, BootsHoldReservations, HasManifest
<1>4. ASSUME NEW i \in Instances, BootSucceeds(i) \/ BootFails(i) PROVE Holds
  <2>1. HasManifest(i)
    BY <1>4 DEF BootSucceeds, BootFails, BootsHoldReservations
  <2>2. \A j \in Instances \ {i} : manifest'[j] = manifest[j]
    BY <1>0, <1>4 DEF BootSucceeds, BootFails
  <2> QED BY <1>2, <1>4, <2>2 DEF BootSucceeds, BootFails
<1>5. ASSUME NEW i \in Instances, BootDies(i) PROVE Holds
  BY <1>2, <1>5 DEF BootDies
<1>6. ASSUME NEW i \in Instances, Down(i) \/ Destroy(i) PROVE Holds
  <2>1. /\ i \notin booting /\ booting' = booting /\ overrun' = overrun
        /\ \A j \in Instances \ {i} : manifest'[j] = manifest[j]
    BY <1>0, <1>6 DEF Down, Destroy
  <2> QED BY <1>2, <2>1
<1>7. ASSUME NEW i \in Instances, Expire(i) PROVE Holds
  <2>1. \A j \in Instances \ {i} : manifest'[j] = manifest[j]
    BY <1>0, <1>7 DEF Expire
  <2>2. CASE i \in booting
    <3>1. overrun' /\ HasManifest(i)
      BY <1>7, <2>2 DEF Expire
    <3>2. manifest'[i] = [manifest[i] EXCEPT !.fresh = FALSE]
      BY <1>0, <1>7 DEF Expire
    <3>3. [manifest[i] EXCEPT !.fresh = FALSE] \in Manifest
      BY <3>1, ManifestFields DEF Manifest
    <3>4. HasManifest(i)' /\ manifest'[i].status = "reserved"
      <4>1. manifest'[i] # NoManifest
        BY <3>2, <3>3, SentinelAssumption
      <4>2. manifest[i] \in Manifest
        BY <3>1, ManifestFields
      <4> QED BY <1>7, <3>2, <4>1, <4>2 DEF Expire, HasManifest, Manifest
    <3> QED BY <1>0, <1>7, <2>1, <3>1, <3>4 DEF Expire, BootsHoldReservations, HasManifest
  <2>3. CASE i \notin booting
    <3>1. booting' = booting \ {i} /\ overrun' = overrun
      BY <1>7, <2>3 DEF Expire, TypeOK
    <3> QED BY <1>2, <2>1, <3>1
  <2> QED BY <2>2, <2>3
<1>8. ASSUME NEW i \in Instances, EditConfig(i) \/ Regenerate(i) \/ Exit(i) PROVE Holds
  BY <1>1, <1>8 DEF EditConfig, Regenerate, Exit
<1>9. ASSUME NEW port \in ForeignPorts, ForeignProgram(port) PROVE Holds
  BY <1>1, <1>9 DEF ForeignProgram
<1>10. CASE UNCHANGED vars
  BY <1>1, <1>10 DEF vars
<1> QED BY <1>3, <1>4, <1>5, <1>6, <1>7, <1>8, <1>9, <1>10 DEF Next

(***************************************************************************)
(* The theorems.                                                           *)
(***************************************************************************)

LEMMA InitInv == Init => IInv
BY DEF Init, IInv, TypeOK, BootsHoldReservations, ClaimsAreDisjoint, Claims,
       PlansFitTheMachine, HasManifest

LEMMA StepInv == IInv /\ [Next]_vars => IInv'
<1> SUFFICES ASSUME IInv, [Next]_vars PROVE IInv'
  OBVIOUS
<1>1. TypeOK /\ BootsHoldReservations
  BY DEF IInv
<1> QED BY <1>1, TypeStep, BootsStep, ClaimsStep DEF IInv

LEMMA Invariant == Spec => []IInv
BY InitInv, StepInv, PTL DEF Spec

\* The types, of the ports that are bound in particular.
THEOREM TypeCorrect == Spec => []TypeOK
BY Invariant, PTL DEF IInv

\* Claims share no port, whatever the configurations, the stride and the
\* number of slots.
THEOREM ClaimsDisjoint == Spec => []ClaimsAreDisjoint
BY Invariant, PTL DEF IInv

\* No claim is beyond the last port, whatever ports the configurations name.
THEOREM PlansFit == Spec => []PlansFitTheMachine
BY Invariant, PTL DEF IInv

\* What an old reservation keeps from others is listed: since no claim is
\* beyond the last port, what cannot be bound answers.
THEOREM BlockersListed == Spec => []BlockersAreListed
<1>1. IInv => BlockersAreListed
  <2> SUFFICES ASSUME IInv, NEW i \in Instances, IsActiveManifest(i),
                      manifest[i].status = "reserved", ~manifest[i].fresh
               PROVE  Reported(i) # "stale"
    BY DEF BlockersAreListed
  <2>1. PICK port \in ManifestPorts(i) : ~IsPortFree(port)
    BY DEF IsActiveManifest
  <2>2. port <= MaxPort
    BY DEF IInv, PlansFitTheMachine, IsActiveManifest
  <2>3. port \in BoundPorts
    BY <2>1, <2>2 DEF IsPortFree
  <2>4. BackingExists(i)
    BY <2>1, <2>3 DEF BackingExists
  <2> QED BY <2>4 DEF Reported
<1> QED BY <1>1, Invariant, PTL

\* The files of a configuration none of whose networks the plan lacks have
\* their ports from the plan alone.
LEMMA GeneratedFromPlan ==
    ASSUME NEW c \in Configs, NEW d \in Configs, NEW s \in Slots,
           Enabled(Says[c]) \subseteq Enabled(Says[d])
    PROVE  AllPorts(Generated[c][d][s]) \subseteq Ports[d][s]
<1> DEFINE merged == IF Buildable(c, 0) THEN Merge(Plan[d][s], Plan[c][0]) ELSE Plan[d][s]
<1>1. Generated[c][d][s] = [k \in DOMAIN merged \cap Keys(Says[c]) |-> merged[k]]
  BY DEF Generated
<1>2. Keys(Says[c]) \subseteq Keys(Says[d]) /\ DOMAIN Plan[d][s] = Keys(Says[d])
  BY PlanPorts DEF Keys
<1>3. \A k \in DOMAIN merged \cap Keys(Says[c]) :
         k \in DOMAIN Plan[d][s] /\ merged[k] = Plan[d][s][k]
  BY <1>2 DEF Merge
<1> HIDE DEF merged
<1>4. \A k \in DOMAIN Generated[c][d][s] :
         k \in DOMAIN Plan[d][s] /\ Generated[c][d][s][k] = Plan[d][s][k]
  BY <1>1, <1>3
<1> QED BY <1>4, PlanPorts DEF AllPorts

\* Generated files name no port of another instance, whatever was edited since
\* the ports were allocated, as long as no network was enabled.
THEOREM GeneratedPortsOwn == Spec => []GeneratedPortsAreOwn
<1>1. IInv => GeneratedPortsAreOwn
  <2> SUFFICES ASSUME IInv, ~overrun, NEW i \in Instances, NEW j \in Instances, i # j,
                      \A k \in {i, j} :
                         /\ HasManifest(k) /\ manifest[k].status = "running"
                         /\ Enabled(Says[used[k]]) \subseteq Enabled(Says[manifest[k].config])
               PROVE  AllPorts(GeneratedFrom(i, used[i])) \cap
                         AllPorts(GeneratedFrom(j, used[j])) = {}
    BY DEF GeneratedPortsAreOwn
  <2>1. ASSUME NEW k \in {i, j}
        PROVE  Claims(k) /\ AllPorts(GeneratedFrom(k, used[k])) \subseteq ManifestPorts(k)
    <3>1. Claims(k) BY DEF Claims
    <3>2. used[k] \in Configs /\ manifest[k].config \in Configs /\ manifest[k].slot \in Slots
      BY ManifestFields DEF IInv, TypeOK
    <3> QED BY <3>1, <3>2, GeneratedFromPlan DEF GeneratedFrom, ManifestPorts
  <2>2. ManifestPorts(i) \cap ManifestPorts(j) = {}
    BY <2>1 DEF IInv, ClaimsAreDisjoint
  <2> QED BY <2>1, <2>2
<1> QED BY <1>1, Invariant, PTL
=============================================================================
