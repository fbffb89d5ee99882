------------------------------- MODULE LabBoot -------------------------------
(***************************************************************************)
(* What `xcli lab up' brings up, phase by phase, on the state that earlier *)
(* commands left behind: containers, data in ClickHouse and Redis,         *)
(* generated files and services (pkg/orchestrator/orchestrator.go,         *)
(* pkg/infrastructure, pkg/builder).                                       *)
(*                                                                         *)
(* Containers and volumes outlive an xcli process, and most phases decide  *)
(* by looking at them whether there is something to do.  The model asks    *)
(* what a boot that ends well may rely on, after boots that failed half    *)
(* way, were killed, or worked on another configuration.                   *)
(***************************************************************************)
EXTENDS Lab

Names == Range(Networks)

VARIABLES
    config,      \* .xcli.yaml: the mode, the enabled networks, observability
    infra,       \* the infrastructure containers that answer on their port
    data,        \* what the volumes hold
    obs,         \* the observability containers that run
    onDisk,      \* the generated configuration of each network's engine
    engine,      \* the engines that run, with the configuration they have
    services,    \* some cbt-api, the back end or the front end runs
    manifest,    \* the instance has a manifest
    boot,        \* the boot in progress
    unmigrated,  \* auxiliary: a Start in local mode started containers, and
                 \* since then neither migrations nor a teardown went through
    edits

bootVars == <<config, infra, data, obs, onDisk, engine, services, manifest,
          boot, unmigrated, edits>>

Observers == {"prometheus", "grafana"}
Containers == {"clickhouse-cbt", "redis", "clickhouse-xatu"}

Configurations == [mode : {"local", "hybrid"}, nets : (SUBSET Names) \ {{}}, obs : BOOLEAN]

\* The Redis database of a network: its position among EnabledNetworks, the
\* enabled ones in the order of the configuration.  AutoSeedBoundsIfNeeded and
\* GenerateCBTConfig count alike.
Position(n) == CHOOSE i \in DOMAIN Networks : Networks[i] = n
EnabledUpTo(c, n) ==
    {i \in DOMAIN Networks : Networks[i] \in c.nets /\ i <= Position(n)}
Database(c, n) == Cardinality(EnabledUpTo(c, n))

\* Mutation of FileDatabase: the position among all networks.
FileDatabaseOfAll(c, n) == Position(n)

\* GenerateCBTConfig's own count.
FileDatabase(c, n) == Database(c, n)

Databases == 1..Len(Networks)

\* The volumes after a destroy.  bounds has the Redis databases with external
\* bounds among their keys, of whichever network.
Fresh == [migrated |-> FALSE, bounds |-> {}]

Files == [db : Databases, nets : SUBSET Names]
Idle == [pc |-> "idle", cfg |-> None, warned |-> {}, done |-> {}]

Phases == {"prerequisites", "external_ch", "conflicts", "build_xatu_cbt",
           "infrastructure", "ready", "migrate", "prometheus", "grafana", "health",
           "build_services", "network_setup", "bounds", "generate_configs",
           "build_cbt_api", "ports", "start_services", "finalize"}

BootTypeOK ==
    /\ config \in Configurations
    /\ infra \subseteq Containers /\ obs \subseteq Observers
    /\ data \in [migrated : BOOLEAN,
                 bounds : SUBSET Databases]
    /\ onDisk \in [Names -> Files \cup {None}]
    /\ engine \in [Names -> Files \cup {None}]
    /\ services \in BOOLEAN
    /\ manifest \in BOOLEAN
    /\ boot.pc \in Phases \cup {"idle"} /\ boot.cfg \in Configurations \cup {None}
    /\ boot.warned \cup boot.done \subseteq Names
    /\ unmigrated \in BOOLEAN /\ edits \in 0..MaxEdits

BootInit ==
    /\ config \in [mode : {"local", "hybrid"}, nets : {Names}, obs : {FALSE}]
    /\ infra = {} /\ data = Fresh /\ obs = {}
    /\ onDisk = [n \in Names |-> None] /\ engine = [n \in Names |-> None]
    /\ services = FALSE /\ manifest = FALSE /\ boot = Idle
    /\ unmigrated = FALSE /\ edits = 0

AtPhase(phase) == boot.pc = phase
Cfg == boot.cfg
Engines == {n \in Names : engine[n] # None}
Go(phase) == boot' = [boot EXCEPT !.pc = phase]

(***************************************************************************)
(* The user, the services and the machine.                                 *)
(***************************************************************************)

\* The configuration file changes: networks, mode or observability.
EditConfig ==
    /\ edits < MaxEdits /\ edits' = edits + 1
    /\ config' \in Configurations \ {config}
    /\ UNCHANGED <<infra, data, obs, onDisk, engine, services, manifest,
                   boot, unmigrated>>

\* A running engine scans its sources and writes bounds to its database.
EngineScans(n) ==
    /\ engine[n] # None /\ "redis" \in infra
    /\ data' = [data EXCEPT !.bounds = @ \cup {engine[n].db}]
    /\ UNCHANGED <<config, infra, obs, onDisk, engine, services, manifest,
                   boot, unmigrated, edits>>

\* An engine ends by itself.
EngineExits(n) ==
    /\ engine[n] # None /\ engine' = [engine EXCEPT ![n] = None]
    /\ UNCHANGED <<config, infra, data, obs, onDisk, services, manifest,
                   boot, unmigrated, edits>>

\* A container ends, as after a restart of Docker.
ContainerStops(c) ==
    /\ c \in infra /\ infra' = infra \ {c}
    /\ UNCHANGED <<config, data, obs, onDisk, engine, services, manifest,
                   boot, unmigrated, edits>>

(***************************************************************************)
(* Orchestrator.Up.                                                        *)
(***************************************************************************)

\* A boot loads the configuration and has a manifest, of its own reservation or
\* of an earlier boot; whose the port slot is, is InstanceRegistry's subject.
BeginBoot ==
    /\ AtPhase("idle") /\ manifest' = TRUE
    /\ boot' = [Idle EXCEPT !.pc = "prerequisites", !.cfg = config]
    /\ UNCHANGED <<config, infra, data, obs, onDisk, engine, services, unmigrated, edits>>

\* A phase fails or finds the context cancelled: the boot is over.
Fails == boot' = Idle

\* A phase with nothing to show for it that may fail.
Passes(phase, next) ==
    /\ AtPhase(phase)
    /\ \/ Go(next)
       \/ Fails
    /\ UNCHANGED <<config, infra, data, obs, onDisk, engine, services, manifest,
                   unmigrated, edits>>

\* validatePrerequisites: the repositories and the files a lab cannot do without.
Prerequisites ==
    Passes("prerequisites", IF Cfg.mode = "hybrid" THEN "external_ch" ELSE "conflicts")

\* TestExternalConnection: the query of the external ClickHouse, in hybrid mode.
ExternalClickHouse == Passes("external_ch", "conflicts")

\* Nothing of the lab may run.
Conflicts ==
    /\ AtPhase("conflicts")
    /\ IF Engines # {} \/ services THEN Fails ELSE Go("build_xatu_cbt")
    /\ UNCHANGED <<config, infra, data, obs, onDisk, engine, services, manifest,
                   unmigrated, edits>>

\* A build makes what it is asked for or stops the boot; with a binary that
\* exists and no force it has nothing to do.  Binaries are LabRebuild's subject.
BuildXatuCBT == Passes("build_xatu_cbt", "infrastructure")
BuildAll == Passes("build_services", "network_setup")
BuildCBTAPI == Passes("build_cbt_api", "ports")

\* Mutation of HealthCheck: the ports of hybrid mode for both modes.
HealthCheckOfHybrid(c) == {"clickhouse-cbt", "redis"}

\* What IsRunning and WaitForReady look at.
HealthCheck(c) ==
    IF c.mode = "local" THEN Containers ELSE {"clickhouse-cbt", "redis"}

\* IsRunning: all of them answer.
IsRunning(c) == HealthCheck(c) \subseteq infra

\* infrastructure.Start: with every port answering there is nothing to do;
\* otherwise `infra start' starts the containers, or some of them.
StartInfra ==
    /\ AtPhase("infrastructure")
    /\ IF IsRunning(Cfg)
       THEN Go("build_services") /\ UNCHANGED <<infra, unmigrated>>
       ELSE \/ /\ infra' = infra \cup HealthCheck(Cfg)
               /\ Go("ready")
               /\ unmigrated' = (unmigrated \/ Cfg.mode = "local")
            \/ /\ \E some \in SUBSET HealthCheck(Cfg) : infra' = infra \cup some
               /\ Fails /\ unmigrated' = (unmigrated \/ Cfg.mode = "local")
    /\ UNCHANGED <<config, data, obs, onDisk, engine, services, manifest, edits>>

\* After the containers answer: migrations in local mode, then observability.
AfterMigration(c) == IF c.obs THEN "prometheus" ELSE "build_services"
AfterReady(c) == IF c.mode = "local" THEN "migrate" ELSE AfterMigration(c)

\* Mutation of WaitForReady: no timeout.
WaitForReadyForEver ==
    /\ AtPhase("ready") /\ HealthCheck(Cfg) \subseteq infra
    /\ Go(AfterReady(Cfg))
    /\ UNCHANGED <<config, infra, data, obs, onDisk, engine, services, manifest,
                   unmigrated, edits>>

\* WaitForReady: every port answers, or two minutes go by.
WaitForReady ==
    /\ AtPhase("ready")
    /\ \/ /\ HealthCheck(Cfg) \subseteq infra
          /\ Go(AfterReady(Cfg))
       \/ Fails
    /\ UNCHANGED <<config, infra, data, obs, onDisk, engine, services, manifest,
                   unmigrated, edits>>

\* migrateXatu.
MigrateXatu ==
    /\ AtPhase("migrate")
    /\ \/ /\ data' = [data EXCEPT !.migrated = TRUE]
          /\ Go(AfterMigration(Cfg))
          /\ unmigrated' = FALSE
       \/ Fails /\ UNCHANGED <<data, unmigrated>>
    /\ UNCHANGED <<config, infra, obs, onDisk, engine, services, manifest, edits>>

\* startPrometheus and startGrafana: a container that does not run is removed,
\* created and started.  A failure on the way may have removed it.
StartContainer(s) == obs' = obs \cup {s}
StartContainerFails(s) == obs' \in {obs, obs \ {s}}

\* ObservabilityManager.Start, one container after the other.
StartObserver(s, next) ==
    /\ AtPhase(s)
    /\ \/ StartContainer(s) /\ Go(next)
       \/ StartContainerFails(s) /\ Fails
    /\ UNCHANGED <<config, infra, data, onDisk, engine, services, manifest,
                   unmigrated, edits>>

StartPrometheus == StartObserver("prometheus", "grafana")
StartGrafana == StartObserver("grafana", "health")

\* waitForHealth: both ports answer, or a minute goes by.
WaitForHealth ==
    /\ AtPhase("health")
    /\ \/ obs = Observers /\ Go("build_services")
       \/ Fails
    /\ UNCHANGED <<config, infra, data, obs, onDisk, engine, services, manifest,
                   unmigrated, edits>>

\* SetupNetwork of each enabled network; what fails is only logged.
SetupNetworks ==
    /\ AtPhase("network_setup") /\ Go("bounds")
    /\ UNCHANGED <<config, infra, data, obs, onDisk, engine, services, manifest,
                   unmigrated, edits>>

\* CheckNeedsSeeding of a network: its database has no bounds at all.
NeedsSeeding(n) == Database(Cfg, n) \notin data.bounds

\* SeedFromProduction of the networks that need it: some are written; what
\* fails, before or half way through an insertion, is only logged.
Seeds(written, warned) ==
    /\ written \subseteq {n \in Cfg.nets : NeedsSeeding(n)}
    /\ warned \subseteq {n \in Cfg.nets : NeedsSeeding(n)}
    /\ {n \in Cfg.nets : NeedsSeeding(n)} \subseteq written \cup warned

\* AutoSeedBoundsIfNeeded.
SeedBounds ==
    /\ AtPhase("bounds")
    /\ IF Cfg.mode = "local"
       THEN Go("generate_configs") /\ UNCHANGED data
       ELSE \E written, warned \in SUBSET Cfg.nets :
              /\ Seeds(written, warned)
              /\ data' = [data EXCEPT !.bounds = @ \cup {Database(Cfg, n) : n \in written}]
              /\ boot' = [boot EXCEPT !.pc = "generate_configs", !.warned = warned]
    /\ UNCHANGED <<config, infra, obs, onDisk, engine, services, manifest,
                   unmigrated, edits>>

\* GenerateCBTConfig.
EngineFile(c, n) == [db |-> FileDatabase(c, n), nets |-> c.nets]

\* GenerateRuntimeConfigs writes the engines' files network by network and
\* stops at the first that fails.
Generated(c, upTo) ==
    [n \in Names |->
        IF n \in c.nets /\ Database(c, n) <= upTo
        THEN EngineFile(c, n)
        ELSE onDisk[n]]

GenerateConfigs ==
    /\ AtPhase("generate_configs")
    /\ \/ /\ onDisk' = Generated(Cfg, Len(Networks))
          /\ Go("build_cbt_api")
       \/ Fails /\ \E i \in 0..Len(Networks) : onDisk' = Generated(Cfg, i)
    /\ UNCHANGED <<config, infra, data, obs, engine, services, manifest,
                   unmigrated, edits>>

\* The second look at the ports: another program may have taken one.
PortConflicts == Passes("ports", "start_services")

\* startServices, one after another: engines, cbt-apis, back end, front end.
\* The caller's context is not looked at any more.
StartServices ==
    /\ AtPhase("start_services")
    /\ LET todo == Cfg.nets \ boot.done IN
       \/ \E n \in todo :
             /\ \A m \in todo : Database(Cfg, n) <= Database(Cfg, m)
             /\ engine' = [engine EXCEPT ![n] = onDisk[n]]
             /\ boot' = [boot EXCEPT !.done = @ \cup {n}]
             /\ UNCHANGED services
       \/ /\ todo = {} /\ services' = TRUE
          /\ Go("finalize") /\ UNCHANGED engine
       \/ /\ Fails /\ UNCHANGED engine
          /\ services' \in IF todo = {} THEN {services, TRUE} ELSE {services}
    /\ UNCHANGED <<config, infra, data, obs, onDisk, manifest, unmigrated, edits>>

\* finalizeRuntimeManifest.
Finalize ==
    /\ AtPhase("finalize") /\ boot' = Idle
    /\ UNCHANGED <<config, infra, data, obs, onDisk, engine, services, manifest,
                   unmigrated, edits>>

\* The xcli process is killed.
Killed ==
    /\ ~AtPhase("idle") /\ boot' = Idle
    /\ UNCHANGED <<config, infra, data, obs, onDisk, engine, services,
                   manifest, unmigrated, edits>>

(***************************************************************************)
(* The other commands, on an instance that no boot works on.               *)
(***************************************************************************)

\* StopAll and the cleanup of orphans; what cannot be stopped is only logged.
StopsServices ==
    /\ \E left \in SUBSET Engines :
          engine' = [n \in Names |-> IF n \in left THEN engine[n] ELSE None]
    /\ services' = FALSE

\* stopObservability, when it is enabled now; failures are logged.
StopsObservability == obs' \in IF config.obs THEN SUBSET obs ELSE {obs}

\* Orchestrator.Down: when the containers do not stop the manifest stays.
Down ==
    /\ AtPhase("idle") /\ manifest
    /\ StopsServices /\ StopsObservability
    /\ \/ infra' = {} /\ unmigrated' = FALSE
       \/ infra' \in SUBSET infra /\ UNCHANGED unmigrated
    /\ UNCHANGED <<config, data, manifest, onDisk, boot, edits>>

\* infrastructure.Destroy: containers and volumes.
ResetInfra ==
    /\ infra' = {} /\ data' = Fresh /\ unmigrated' = FALSE

\* Orchestrator.Destroy: containers, volumes, generated files, manifest.  A
\* reset that fails has removed containers at most, or all of them and volumes.
Destroy ==
    /\ AtPhase("idle") /\ manifest
    /\ StopsServices /\ StopsObservability
    /\ \/ /\ ResetInfra
          /\ onDisk' = [n \in Names |-> None] /\ manifest' = FALSE
       \/ /\ infra' \in SUBSET infra /\ UNCHANGED <<unmigrated, onDisk, manifest>>
          /\ data' \in {data} \cup IF infra' = {} THEN {Fresh} ELSE {}
    /\ UNCHANGED <<config, boot, edits>>

\* lab reset redis: FLUSHALL.
ResetRedis ==
    /\ AtPhase("idle") /\ manifest /\ "redis" \in infra
    /\ data' = [data EXCEPT !.bounds = Fresh.bounds]
    /\ UNCHANGED <<config, infra, obs, onDisk, engine, services, manifest,
                   boot, unmigrated, edits>>

\* Orchestrator.StartService of an engine, on the file there is.
StartService(n) ==
    /\ AtPhase("idle") /\ manifest /\ n \in config.nets
    /\ engine[n] = None /\ onDisk[n] # None
    /\ engine' = [engine EXCEPT ![n] = onDisk[n]]
    /\ UNCHANGED <<config, infra, data, obs, onDisk, services, manifest,
                   boot, unmigrated, edits>>

\* GenerateConfigs outside a boot: lab rebuild and the configuration page.
Regenerate ==
    /\ AtPhase("idle") /\ manifest
    /\ \E i \in 0..Len(Networks) : onDisk' = Generated(config, i)
    /\ UNCHANGED <<config, infra, data, obs, engine, services, manifest,
                   boot, unmigrated, edits>>

\* Start, stop and restart of Prometheus or Grafana by itself.  A restart goes
\* on when the container could not be stopped, and finds it running.
ObserverAction(s) ==
    /\ AtPhase("idle") /\ config.obs /\ manifest
    /\ StartContainer(s) \/ StartContainerFails(s)
    /\ UNCHANGED <<config, infra, data, onDisk, engine, services, manifest, boot,
                   unmigrated, edits>>

-----------------------------------------------------------------------------

Step ==
    \/ Prerequisites \/ ExternalClickHouse \/ Conflicts \/ BuildXatuCBT
    \/ StartInfra \/ WaitForReady \/ MigrateXatu
    \/ StartPrometheus \/ StartGrafana \/ WaitForHealth
    \/ BuildAll \/ SetupNetworks \/ SeedBounds \/ GenerateConfigs
    \/ BuildCBTAPI \/ PortConflicts \/ StartServices \/ Finalize

BootNext ==
    \/ Step \/ Killed \/ EditConfig
    \/ BeginBoot
    \/ \E n \in Names : EngineScans(n) \/ EngineExits(n) \/ StartService(n)
    \/ \E c \in Containers : ContainerStops(c)
    \/ \E s \in Observers : ObserverAction(s)
    \/ Down \/ Destroy \/ ResetRedis \/ Regenerate

BootSpec == BootInit /\ [][BootNext]_bootVars

\* The commands a phase waits for end: WaitForReady and waitForHealth by their
\* timeouts, the others because the programs they run return.
BootFairSpec == BootSpec /\ WF_bootVars(Step)

(***************************************************************************)
(* Properties.                                                             *)
(***************************************************************************)

\* A local lab that has come up has its schema, unless it found containers
\* that an earlier Start had left before its migrations (manager.go:257-263
\* takes those for a lab that is set up): neither a change of mode, nor
\* a container that stopped, nor a destroy leads there by itself.
MigratedUnlessCutShort ==
    AtPhase("finalize") /\ Cfg.mode = "local" => data.migrated \/ unmigrated

\* A hybrid lab that has come up without a warning about a network gives the
\* engine of that network a database with bounds: the seeder and the
\* generator, in different packages, count the databases alike
\* (manager.go:769-770, generator.go:134-140).
EnginesHaveBounds ==
    /\ BootTypeOK
    /\ AtPhase("finalize") /\ Cfg.mode = "hybrid" =>
        \A n \in Cfg.nets \ boot.warned : onDisk[n].db \in data.bounds

\* Every boot returns, whatever state it found (the timeouts of Start).
BootReturns == ~AtPhase("idle") ~> AtPhase("idle")
=============================================================================
