------------------------------- MODULE PortPlan -------------------------------
(***************************************************************************)
(* Port plans (pkg/instance/ports.go) with their real numbers, and what    *)
(* becomes of them: the allocator that looks for a slot whose plan is      *)
(* free, the generated configurations that use the plan, the services and  *)
(* containers that bind its ports, and the reconciler that compares        *)
(* manifests with what is bound.                                           *)
(*                                                                         *)
(* InstanceRegistry has the interleavings of the allocator and the races   *)
(* of several xcli processes; here an allocation is one step under its     *)
(* lock and one command at a time works on an instance.  What is new are   *)
(* plans of different configurations, configurations that are edited       *)
(* between two commands, and programs that are not labs.                   *)
(***************************************************************************)
EXTENDS Integers, FiniteSets, Sequences

CONSTANTS
    Instances,    \* lab instances
    Networks,     \* names of networks
    Configs,      \* configurations their users write
    Says,         \* what a configuration says of ports
    MaxSlots,     \* the slots an Allocator tries (defaultMaxAllocationSlots)
    PortStride,   \* distance of two slots (portStride)
    MaxPort,      \* the largest port that can be bound
    ForeignPorts, \* ports that programs other than labs may bind
    NoManifest    \* an instance without a manifest

\* What a configuration says of ports; 0 is a field that is not set.  networks
\* are the enabled ones in their order, offset their portOffset.
Config ==
    [labBackend : Nat, labFrontend : Nat, cbtBase : Nat, cbtAPIBase : Nat,
     cbtFrontendBase : Nat, cbtHTTP : Nat, xatuHTTP : Nat, redis : Nat,
     prometheus : Nat, grafana : Nat,
     networks : Seq(Networks), offset : [Networks -> Nat]]

ASSUME ConfigsAssumption == \A c \in Configs : Says[c] \in Config

ASSUME NumbersAssumption ==
    MaxSlots \in Nat /\ PortStride \in Nat \ {0} /\ MaxPort \in Nat

ASSUME ForeignAssumption == ForeignPorts \subseteq Nat

Slots == 0 .. (MaxSlots - 1)

(***************************************************************************)
(* Plans.                                                                  *)
(***************************************************************************)

WithDefault(value, default) == IF value # 0 THEN value ELSE default

\* The ports of the lab and its infrastructure in slot 0, and those of one
\* network; the metrics ports go by the position among the enabled networks.
LabPorts(c) ==
    [labBackend    |-> WithDefault(c.labBackend, 8080),
     labFrontend   |-> WithDefault(c.labFrontend, 5173),
     cbt01HTTP     |-> WithDefault(c.cbtHTTP, 8123),
     cbt02HTTP     |-> WithDefault(c.cbtHTTP, 8123) + 1,
     cbt01TCP      |-> 9000,
     cbt02TCP      |-> 9001,
     xatu01HTTP    |-> WithDefault(c.xatuHTTP, 8125),
     xatu02HTTP    |-> WithDefault(c.xatuHTTP, 8125) + 1,
     xatu01TCP     |-> 9002,
     xatu02TCP     |-> 9003,
     redis         |-> WithDefault(c.redis, 6380),
     prometheus    |-> WithDefault(c.prometheus, 9090),
     grafana       |-> WithDefault(c.grafana, 3000),
     commandCenter |-> 19280]

NetworkPorts(c, i) ==
    LET offset == c.offset[c.networks[i]]
    IN [cbt           |-> WithDefault(c.cbtBase, 8081) + offset,
        cbtAPI        |-> WithDefault(c.cbtAPIBase, 8091) + offset,
        cbtFrontend   |-> WithDefault(c.cbtFrontendBase, 8085) + offset,
        cbtMetrics    |-> 9100 + (i - 1),
        cbtAPIMetrics |-> 9200 + (i - 1)]

LabNames == {"labBackend", "labFrontend", "cbt01HTTP", "cbt02HTTP", "cbt01TCP",
             "cbt02TCP", "xatu01HTTP", "xatu02HTTP", "xatu01TCP", "xatu02TCP",
             "redis", "prometheus", "grafana", "commandCenter"}
NetworkNames == {"cbt", "cbtAPI", "cbtFrontend", "cbtMetrics", "cbtAPIMetrics"}

\* A named port: of the lab itself, or of an enabled network.
LabKeys == LabNames \X {"lab"}
Enabled(c) == {c.networks[i] : i \in DOMAIN c.networks}
Keys(c) == LabKeys \cup (NetworkNames \X Enabled(c))

Position(c, n) == CHOOSE i \in DOMAIN c.networks : c.networks[i] = n

BasePort(c, k) == IF k \in LabKeys THEN LabPorts(c)[k[1]]
                  ELSE NetworkPorts(c, Position(c, k[2]))[k[1]]

\* The plan of a slot, before it is tested for duplicates.
SlotPlan(c, s) == [k \in Keys(c) |-> BasePort(c, k) + s * PortStride]

AllPorts(plan) == {plan[k] : k \in DOMAIN plan}

HasDuplicates(plan) ==
    \E k, l \in DOMAIN plan : k # l /\ plan[k] = plan[l]

\* WithDefaults: what a plan lacks is filled from another one.
Merge(plan, fallback) ==
    [k \in DOMAIN plan \cup DOMAIN fallback |->
        IF k \in DOMAIN plan THEN plan[k] ELSE fallback[k]]

\* The plan of every configuration and slot, its ports, and whether
\* BuildPortPlan returns it or an error.
Plan == [c \in Configs |-> [s \in Slots |-> SlotPlan(Says[c], s)]]
Ports == [c \in Configs |-> [s \in Slots |-> AllPorts(Plan[c][s])]]
Duplicates == {cs \in Configs \X Slots : HasDuplicates(Plan[cs[1]][cs[2]])}

Buildable(c, s) == <<c, s>> \notin Duplicates

\* What the generated configurations contain when configuration c is used with
\* the plan of d and s: the ports of the networks that plan does not have come
\* from the plan of slot 0.
Generated ==
    [c \in Configs |-> [d \in Configs |-> [s \in Slots |->
        LET merged == IF Buildable(c, 0) THEN Merge(Plan[d][s], Plan[c][0])
                      ELSE Plan[d][s]
        IN [k \in DOMAIN merged \cap Keys(Says[c]) |-> merged[k]]]]]

-------------------------------------------------------------------------------

VARIABLES
    config,     \* what .xcli.yaml of an instance says
    manifest,   \* the registry: instance -> manifest file
    used,       \* the configuration its generated files were made from
    live,       \* the ports its services and containers have bound
    foreign,    \* the ports other programs have bound
    booting,    \* instances whose lab up is between its claim and its end
    overrun     \* auxiliary: a reservation ran out under a boot

vars == <<config, manifest, used, live, foreign, booting, overrun>>

\* The ports of a manifest are the plan of a configuration and a slot.
\* fresh: saved within the last reservationGracePeriod.
Manifest == [status : {"reserved", "running", "stopped"}, fresh : BOOLEAN,
             config : Configs, slot : Slots]

ASSUME SentinelAssumption == NoManifest \notin Manifest

TypeOK ==
    /\ config \in [Instances -> Configs]
    /\ manifest \in [Instances -> Manifest \cup {NoManifest}]
    /\ used \in [Instances -> Configs]
    /\ live \in [Instances -> SUBSET Nat]
    /\ foreign \in SUBSET ForeignPorts
    /\ booting \in SUBSET Instances
    /\ overrun \in BOOLEAN

Init ==
    /\ config \in [Instances -> Configs]
    /\ manifest = [i \in Instances |-> NoManifest]
    /\ used = config
    /\ live = [i \in Instances |-> {}]
    /\ foreign \in SUBSET ForeignPorts
    /\ booting = {}
    /\ overrun = FALSE

HasManifest(i) == manifest[i] # NoManifest

ManifestPorts(i) == Ports[manifest[i].config][manifest[i].slot]

\* Mutation of GeneratedFrom: the plan in the manifest is not handed on.
GeneratedFromBase(i, c) == Generated[c][c][0]

GeneratedFrom(i, c) == Generated[c][manifest[i].config][manifest[i].slot]

BoundPorts == foreign \cup UNION {live[i] : i \in Instances}

\* isPortFree: the port can be bound, which one beyond MaxPort cannot.
IsPortFree(port) == port \notin BoundPorts /\ port <= MaxPort

\* isActiveManifest.  A reservation records no PIDs.
IsActiveManifest(i) ==
    /\ HasManifest(i)
    /\ \/ manifest[i].status = "running"
       \/ /\ manifest[i].status = "reserved"
          /\ manifest[i].fresh \/ \E port \in ManifestPorts(i) : ~IsPortFree(port)

ActiveRegistryPorts(i) ==
    UNION {ManifestPorts(j) : j \in {k \in Instances \ {i} : IsActiveManifest(k)}}

(***************************************************************************)
(* Actions.                                                                *)
(***************************************************************************)

\* The user edits the configuration; a command that runs goes on with the one
\* it has loaded, so an edit during it counts as one after it.
EditConfig(i) ==
    /\ i \notin booting
    /\ \E c \in Configs : c # config[i] /\ config' = [config EXCEPT ![i] = c]
    /\ UNCHANGED <<manifest, used, live, foreign, booting, overrun>>

\* Mutation of Available: slots are compared, not ports.
AvailableBySlot(i, s) ==
    /\ \A j \in Instances \ {i} : IsActiveManifest(j) => manifest[j].slot # s
    /\ \A port \in Ports[config[i]][s] : IsPortFree(port)

\* Neither the registry nor the probe rejects slot s.
Available(i, s) ==
    /\ Ports[config[i]][s] \cap ActiveRegistryPorts(i) = {}
    /\ \A port \in Ports[config[i]][s] : IsPortFree(port)

Claim(c, s) ==
    [status |-> "reserved", fresh |-> TRUE, config |-> c, slot |-> s]

\* Allocate for a lab up: the first available slot is claimed; a plan with
\* duplicates ends the search with an error.
Allocate(i) ==
    /\ i \notin booting
    /\ \E s \in Slots :
          /\ Available(i, s)
          /\ \A t \in 0 .. s : Buildable(config[i], t)
          /\ \A t \in 0 .. (s - 1) : ~Available(i, t)
          /\ manifest' = [manifest EXCEPT ![i] = Claim(config[i], s)]
    /\ booting' = booting \cup {i}
    /\ UNCHANGED <<config, used, live, foreign, overrun>>

\* The ports in the files generated from the present configuration are bound,
\* those of them that nobody has.
Bind(i) ==
    live' = [live EXCEPT ![i] = @ \cup
        {port \in AllPorts(GeneratedFrom(i, config[i])) : IsPortFree(port)}]

\* A boot generates the configurations, starts containers and services, and
\* saves the running manifest; a service that cannot have its port exits.
BootSucceeds(i) ==
    /\ i \in booting
    /\ used' = [used EXCEPT ![i] = config[i]]
    /\ Bind(i)
    /\ manifest' = [manifest EXCEPT ![i].status = "running", ![i].fresh = TRUE]
    /\ booting' = booting \ {i}
    /\ UNCHANGED <<config, foreign, overrun>>

\* A boot that fails gives its claim back, and leaves what it had started.
BootFails(i) ==
    /\ i \in booting
    /\ \/ UNCHANGED <<used, live>>
       \/ /\ used' = [used EXCEPT ![i] = config[i]]
          /\ \/ Bind(i)
             \/ UNCHANGED live
    /\ manifest' = [manifest EXCEPT ![i].status = "stopped", ![i].fresh = TRUE]
    /\ booting' = booting \ {i}
    /\ UNCHANGED <<config, foreign, overrun>>

\* The boot is killed: claim, configurations and services stay as they are.
BootDies(i) ==
    /\ i \in booting
    /\ booting' = booting \ {i}
    /\ UNCHANGED <<config, manifest, used, live, foreign, overrun>>

\* xcli lab rebuild and the saves of the configuration editor generate the
\* configurations again, from the manifest that is there and the configuration
\* of now, and restart services on their ports.
Regenerate(i) ==
    /\ i \notin booting /\ HasManifest(i) /\ manifest[i].status = "running"
    /\ used' = [used EXCEPT ![i] = config[i]]
    /\ Bind(i)
    /\ UNCHANGED <<config, manifest, foreign, booting, overrun>>

Down(i) ==
    /\ i \notin booting /\ HasManifest(i)
    /\ live' = [live EXCEPT ![i] = {}]
    /\ manifest' = [manifest EXCEPT ![i].status = "stopped", ![i].fresh = TRUE]
    /\ UNCHANGED <<config, used, foreign, booting, overrun>>

Destroy(i) ==
    /\ i \notin booting /\ HasManifest(i)
    /\ live' = [live EXCEPT ![i] = {}]
    /\ manifest' = [manifest EXCEPT ![i] = NoManifest]
    /\ UNCHANGED <<config, used, foreign, booting, overrun>>

\* Services and containers end.
Exit(i) ==
    /\ live[i] # {}
    /\ live' = [live EXCEPT ![i] = {}]
    /\ UNCHANGED <<config, manifest, used, foreign, booting, overrun>>

\* Ten minutes after it was saved a reservation counts no more by itself.
Expire(i) ==
    /\ HasManifest(i) /\ manifest[i].status = "reserved" /\ manifest[i].fresh
    /\ manifest' = [manifest EXCEPT ![i].fresh = FALSE]
    /\ overrun' = (overrun \/ i \in booting)
    /\ UNCHANGED <<config, used, live, foreign, booting>>

\* Another program takes or leaves a port.
ForeignProgram(port) ==
    /\ \/ IsPortFree(port) /\ foreign' = foreign \cup {port}
       \/ port \in foreign /\ foreign' = foreign \ {port}
    /\ UNCHANGED <<config, manifest, used, live, booting, overrun>>

Next ==
    \/ \E i \in Instances :
          \/ EditConfig(i) \/ Allocate(i) \/ BootSucceeds(i) \/ BootFails(i)
          \/ BootDies(i) \/ Regenerate(i) \/ Down(i) \/ Destroy(i) \/ Exit(i)
          \/ Expire(i)
    \/ \E port \in ForeignPorts : ForeignProgram(port)

Spec == Init /\ [][Next]_vars

(***************************************************************************)
(* The reconciler.                                                         *)
(***************************************************************************)

\* Mutation of BackingExists: the ports are not looked at.
BackingExistsUnported(i) == FALSE

\* LiveState.BackingExists: a port of the manifest answers; its processes and
\* containers are known by the ports they have.
BackingExists(i) == ManifestPorts(i) \cap BoundPorts # {}

\* The status xcli lab list shows.
Reported(i) ==
    IF manifest[i].status \in {"running", "reserved"} /\ ~BackingExists(i)
    THEN "stale" ELSE manifest[i].status

(***************************************************************************)
(* Properties.                                                             *)
(***************************************************************************)

\* The manifest of i keeps its ports from others, whatever is bound.
Claims(i) ==
    /\ HasManifest(i)
    /\ \/ manifest[i].status = "running"
       \/ manifest[i].status = "reserved" /\ manifest[i].fresh

\* Instances of different configurations never claim a port in common, not
\* even in different slots, as long as no reservation ran out under a boot:
\* the allocator compares ports, not slots (allocator.go:101-107, 148-190).
ClaimsAreDisjoint ==
    ~overrun =>
        \A i, j \in Instances :
            i # j /\ Claims(i) /\ Claims(j) =>
                ManifestPorts(i) \cap ManifestPorts(j) = {}

\* No manifest has a port beyond those that exist.  Nothing in a plan is
\* compared with that limit: the slots grow by a thousand from whatever the
\* configuration says, and only the probe turns such a plan down
\* (allocator.go:109-116, 247-256).
PlansFitTheMachine ==
    \A i \in Instances :
        HasManifest(i) => \A port \in ManifestPorts(i) : port <= MaxPort

\* What keeps an old reservation's ports from other instances can be seen in
\* the list: the allocator, which binds ports, and the reconciler, which
\* connects to them, agree on it (allocator.go:192-206, reconcile.go:137-175).
BlockersAreListed ==
    \A i \in Instances :
        /\ IsActiveManifest(i)
        /\ manifest[i].status = "reserved" /\ ~manifest[i].fresh
        => Reported(i) # "stale"

\* The files a running instance was configured with name no port of another
\* one's, whatever was edited since its ports were allocated, as long as no
\* network was enabled: the ports of such a network are those of slot 0
\* (configgen/generator.go:69-116).
GeneratedPortsAreOwn ==
    ~overrun =>
        \A i, j \in Instances :
            /\ i # j
            /\ \A k \in {i, j} :
                  /\ HasManifest(k) /\ manifest[k].status = "running"
                  /\ Enabled(Says[used[k]]) \subseteq Enabled(Says[manifest[k].config])
            => AllPorts(GeneratedFrom(i, used[i])) \cap
                  AllPorts(GeneratedFrom(j, used[j])) = {}
=============================================================================
