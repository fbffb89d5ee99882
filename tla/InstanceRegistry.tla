--------------------------- MODULE InstanceRegistry ---------------------------
(***************************************************************************)
(* The lab instances of one machine: the registry of manifests every xcli  *)
(* process reads and writes (pkg/instance), the file lock under which a    *)
(* `lab up` claims a port slot, and the boot and teardown of an instance   *)
(* (pkg/orchestrator) as far as they touch the registry and the ports.     *)
(*                                                                         *)
(* A process is one xcli invocation: a command line run of up, down or     *)
(* destroy, or a command-center server, which keeps the manifest it        *)
(* resolved when it was launched for all its boots and stops.  Port plans  *)
(* are reduced to their slots: the plans of two slots share no port, those *)
(* of one slot share all.                                                  *)
(***************************************************************************)
EXTENDS Integers

CONSTANTS
    Instances,   \* lab instances, one per checkout
    Procs,       \* xcli processes
    MaxSlots,    \* the slots an Allocator tries (defaultMaxAllocationSlots)
    NoInstance,  \* no instance
    NoManifest,  \* an instance without a manifest file
    Free         \* the registry lock is held by nobody

ASSUME SlotsAssumption == MaxSlots \in Nat

ASSUME SentinelAssumption ==
    /\ NoInstance \notin Instances
    /\ NoManifest \notin [status : {"reserved", "running", "stopped"},
                          slot : 0 .. (MaxSlots - 1), fresh : BOOLEAN]
    /\ Free \notin Procs

Slots == 0 .. (MaxSlots - 1)
NoSlot == -1

VARIABLES
    manifest,   \* the registry: instance -> manifest file
    lock,       \* the process that holds registry.lock
    infra,      \* the slot whose ports an instance's containers have
    svcs,       \* the slots whose ports services of an instance have
    pc,         \* where a process is
    rt,         \* the runtime (manifest in memory) it works with
    job,        \* what it was called for
    taken,      \* the slots its Allocate found taken in the registry
    bypassed    \* auxiliary: something happened that the lock does not order

vars == <<manifest, lock, infra, svcs, pc, rt, job, taken, bypassed>>

\* fresh: the manifest was saved within the last reservationGracePeriod.
Manifest == [status : {"reserved", "running", "stopped"}, slot : Slots,
             fresh : BOOLEAN]
Reserved(s) == [status |-> "reserved", slot |-> s, fresh |-> TRUE]
Running(s)  == [status |-> "running", slot |-> s, fresh |-> TRUE]
Stopped(s)  == [status |-> "stopped", slot |-> s, fresh |-> TRUE]

Runtime == [inst : Instances \cup {NoInstance}, slot : Slots \cup {NoSlot},
            status : {"none", "created", "reserved", "running", "stopped"}]
NoRuntime == [inst |-> NoInstance, slot |-> NoSlot, status |-> "none"]

\* release: a failed Up gives the reservation back; port: where a
\* command-center server listens.
Job == [cc : BOOLEAN, op : {"none", "up", "down", "destroy"},
        release : BOOLEAN, port : Slots \cup {NoSlot}]
NoJob == [cc |-> FALSE, op |-> "none", release |-> FALSE, port |-> NoSlot]

InAllocate == {"scan", "take"}
InUp == {"up.check", "up.infra", "up.ports", "up.start", "up.save"}
InDown == {"down.stop", "down.orphans", "down.infra", "down.save"}

\* Values of every variable.
TypeOK ==
    /\ manifest \in [Instances -> Manifest \cup {NoManifest}]
    /\ lock \in Procs \cup {Free}
    /\ infra \in [Instances -> Slots \cup {NoSlot}]
    /\ svcs \in [Instances -> SUBSET Slots]
    /\ pc \in [Procs -> {"off", "ready", "up.cleanup"} \cup InAllocate
                        \cup InUp \cup InDown]
    /\ rt \in [Procs -> Runtime]
    /\ job \in [Procs -> Job]
    /\ taken \in [Procs -> SUBSET Slots]
    /\ bypassed \in BOOLEAN

Init ==
    /\ manifest = [i \in Instances |-> NoManifest]
    /\ lock = Free
    /\ infra = [i \in Instances |-> NoSlot]
    /\ svcs = [i \in Instances |-> {}]
    /\ pc = [p \in Procs |-> "off"]
    /\ rt = [p \in Procs |-> NoRuntime]
    /\ job = [p \in Procs |-> NoJob]
    /\ taken = [p \in Procs |-> {}]
    /\ bypassed = FALSE

(***************************************************************************)
(* Helpers.                                                                *)
(***************************************************************************)

HasManifest(i) == manifest[i] # NoManifest

\* Some process has a port of slot s: containers, services or a server.
Bound(s) ==
    \/ \E i \in Instances : infra[i] = s \/ s \in svcs[i]
    \/ \E p \in Procs : job[p].port = s

\* Mutation of IsActiveManifest: only reservations count.
IsActiveManifestReserved(i) ==
    /\ HasManifest(i)
    /\ manifest[i].status = "reserved"
    /\ manifest[i].fresh \/ Bound(manifest[i].slot)

\* A manifest that keeps other instances off its slot.  The PIDs a manifest
\* records are those of a running one, so a reservation is backed by ports.
IsActiveManifest(i) ==
    /\ HasManifest(i)
    /\ \/ manifest[i].status = "running"
       \/ /\ manifest[i].status = "reserved"
          /\ manifest[i].fresh \/ Bound(manifest[i].slot)

\* The manifest of i claims slot s, whatever is bound there.
Claims(i, s) ==
    /\ HasManifest(i) /\ manifest[i].slot = s
    /\ \/ manifest[i].status = "running"
       \/ manifest[i].status = "reserved" /\ manifest[i].fresh

Save(i, m) == manifest' = [manifest EXCEPT ![i] = m]

Delete(i) == manifest' = [manifest EXCEPT ![i] = NoManifest]

Goto(p, label) == pc' = [pc EXCEPT ![p] = label]

\* An operation ends: a server waits for the next, a command exits.
Done(p) ==
    IF job[p].cc
    THEN /\ Goto(p, "ready")
         /\ job' = [job EXCEPT ![p].op = "none", ![p].release = FALSE]
         /\ UNCHANGED taken
    ELSE /\ Goto(p, "off")
         /\ job' = [job EXCEPT ![p] = NoJob]
         /\ taken' = [taken EXCEPT ![p] = {}]

\* The runtime a finished operation leaves behind.
Leave(p, r) == rt' = [rt EXCEPT ![p] = IF job[p].cc THEN r ELSE NoRuntime]

\* Another process is working on instance i.
Contended(p, i) ==
    \E q \in Procs \ {p} : rt[q].inst = i /\ pc[q] \notin {"off", "ready"}

(***************************************************************************)
(* A process is launched and resolves the runtime of its instance.         *)
(***************************************************************************)

Launch(p, i, r, j, label) ==
    /\ pc[p] = "off"
    /\ rt' = [rt EXCEPT ![p] = r]
    /\ job' = [job EXCEPT ![p] = j]
    /\ Goto(p, label)
    /\ bypassed' = (bypassed \/ Contended(p, i))
    /\ UNCHANGED <<manifest, lock, infra, svcs, taken>>

\* NewRuntimeFromWorkspace: the slot is still to be allocated.
NewRuntime(i) == [inst |-> i, slot |-> NoSlot, status |-> "created"]

FromManifest(i) ==
    [inst |-> i, slot |-> manifest[i].slot, status |-> manifest[i].status]

ResolveRuntime(i) == IF HasManifest(i) THEN FromManifest(i) ELSE NewRuntime(i)

\* xcli lab up: a new manifest, whatever the registry has.
LabUp(p, i) == Launch(p, i, NewRuntime(i), [NoJob EXCEPT !.op = "up"], "scan")

\* xcli lab down and lab destroy work on the manifest they find.
LabDown(p, i, op) ==
    /\ HasManifest(i)
    /\ Launch(p, i, FromManifest(i), [NoJob EXCEPT !.op = op], "down.stop")

\* xcli cc: the manifest if there is one, else an allocation without a claim.
\* The server listens on the port of its slot, or on one it was told to use.
CommandCenter(p, i) ==
    IF HasManifest(i)
    THEN \E s \in {manifest[i].slot, NoSlot} :
            /\ \A q \in Procs : s = NoSlot \/ job[q].port # s
            /\ Launch(p, i, ResolveRuntime(i),
                      [NoJob EXCEPT !.cc = TRUE, !.port = s], "ready")
    ELSE Launch(p, i, ResolveRuntime(i), [NoJob EXCEPT !.cc = TRUE], "scan")

(***************************************************************************)
(* Allocate, under the registry lock.                                      *)
(***************************************************************************)

\* activeRegistryPorts: the slots of the other instances' active manifests.
ActiveSlots(i) ==
    {manifest[j].slot : j \in {k \in Instances \ {i} : IsActiveManifest(k)}}

\* Mutation of AllocateScans: the lock is not taken.
AllocateScansUnlocked(p) ==
    /\ pc[p] = "scan"
    /\ lock' = p
    /\ taken' = [taken EXCEPT ![p] = ActiveSlots(rt[p].inst)]
    /\ Goto(p, "take")
    /\ UNCHANGED <<manifest, infra, svcs, rt, job, bypassed>>

AllocateScans(p) ==
    /\ pc[p] = "scan" /\ lock = Free
    /\ lock' = p
    /\ taken' = [taken EXCEPT ![p] = ActiveSlots(rt[p].inst)]
    /\ Goto(p, "take")
    /\ UNCHANGED <<manifest, infra, svcs, rt, job, bypassed>>

\* Mutation of Candidates: the ports are not probed.
CandidatesUnprobed(p) == Slots \ taken[p]

\* The slots that neither the registry nor the port probe rejects.
Candidates(p) == {s \in Slots \ taken[p] : ~Bound(s)}

FirstCandidate(p, s) == s \in Candidates(p) /\ \A t \in Candidates(p) : s <= t

\* The first of them is taken: a lab up saves its claim before it unlocks.
AllocateTakes(p) ==
    /\ pc[p] = "take"
    /\ lock' = Free
    /\ \E s \in Slots :
          /\ FirstCandidate(p, s)
          /\ rt' = [rt EXCEPT ![p].slot = s,
                              ![p].status = IF job[p].cc THEN @ ELSE "reserved"]
          /\ IF job[p].cc
             THEN /\ UNCHANGED manifest
                  /\ \/ job' = [job EXCEPT ![p].port = s]
                     \/ UNCHANGED job
                  /\ Goto(p, "ready")
             ELSE /\ Save(rt[p].inst, Reserved(s))
                  /\ job' = [job EXCEPT ![p].release = TRUE]
                  /\ Goto(p, "up.check")
    /\ taken' = [taken EXCEPT ![p] = {}]
    /\ UNCHANGED <<infra, svcs, bypassed>>

\* No slot is left, or a file cannot be read or written: the command fails.
\* When only the local copy of the claim cannot be written the claim stays.
AllocateFails(p) ==
    /\ pc[p] = "take"
    /\ lock' = Free
    /\ \/ UNCHANGED manifest
       \/ \E s \in Slots : /\ ~job[p].cc /\ FirstCandidate(p, s)
                           /\ Save(rt[p].inst, Reserved(s))
    /\ rt' = [rt EXCEPT ![p] = NoRuntime]
    /\ job' = [job EXCEPT ![p] = NoJob]
    /\ taken' = [taken EXCEPT ![p] = {}]
    /\ Goto(p, "off")
    /\ UNCHANGED <<infra, svcs, bypassed>>

(***************************************************************************)
(* Up.  Every step may fail, for a reason of its own or because the        *)
(* context was cancelled.                                                  *)
(***************************************************************************)

\* Services have a port of slot s.
ServicePortsInUse(s) == \E i \in Instances : s \in svcs[i]

\* The command center boots with the runtime it has; what the registry says
\* of the slot by now is not looked at.
UpBegins(p) ==
    /\ pc[p] = "ready"
    /\ job' = [job EXCEPT ![p].op = "up",
                          ![p].release = (rt[p].status = "reserved")]
    /\ Goto(p, "up.check")
    /\ bypassed' = (\/ bypassed
                     \/ Contended(p, rt[p].inst)
                     \/ ~Claims(rt[p].inst, rt[p].slot))
    /\ UNCHANGED <<manifest, lock, infra, svcs, rt, taken>>

\* No service port is in use.  Up also refuses when its process manager lists a
\* process; the list may lack services of the instance that run on another slot.
UpChecks(p) ==
    /\ pc[p] = "up.check"
    /\ ~ServicePortsInUse(rt[p].slot)
    /\ Goto(p, "up.infra")
    /\ UNCHANGED <<manifest, lock, infra, svcs, rt, job, taken, bypassed>>

\* Infrastructure that answers on the slot's ports, whoever it belongs to, is
\* taken for running; otherwise the instance's containers are (re)created there.
UpStartsInfra(p) ==
    /\ pc[p] = "up.infra"
    /\ infra' = IF \E i \in Instances : infra[i] = rt[p].slot THEN infra
                ELSE [infra EXCEPT ![rt[p].inst] = rt[p].slot]
    /\ Goto(p, "up.ports")
    /\ UNCHANGED <<manifest, lock, svcs, rt, job, taken, bypassed>>

UpChecksPorts(p) ==
    /\ pc[p] = "up.ports"
    /\ ~ServicePortsInUse(rt[p].slot)
    /\ Goto(p, "up.start")
    /\ UNCHANGED <<manifest, lock, infra, svcs, rt, job, taken, bypassed>>

\* startServices: a service that finds its port taken exits again unnoticed.
UpStartsServices(p) ==
    /\ pc[p] = "up.start"
    /\ svcs' = IF ServicePortsInUse(rt[p].slot) THEN svcs
               ELSE [svcs EXCEPT ![rt[p].inst] = @ \cup {rt[p].slot}]
    /\ Goto(p, "up.save")
    /\ UNCHANGED <<manifest, lock, infra, rt, job, taken, bypassed>>

\* finalizeRuntimeManifest: the running manifest is saved unconditionally.
UpSaves(p) ==
    /\ pc[p] = "up.save"
    /\ Save(rt[p].inst, Running(rt[p].slot))
    /\ Leave(p, [rt[p] EXCEPT !.status = "running"])
    /\ Done(p)
    /\ UNCHANGED <<lock, infra, svcs, bypassed>>

\* releaseRuntimeReservation, deferred by an Up that began with a reservation;
\* a failed write is only logged.
ReleaseReservation(p) ==
    \/ job[p].release /\ Save(rt[p].inst, Stopped(rt[p].slot))
    \/ UNCHANGED manifest

\* Up returns an error; a cancelled lab up, which looked at its context last
\* before the ports were checked, still has its services to stop.
\* Save fails after the global manifest was written when the local copy of it
\* cannot be.
UpFails(p) ==
    /\ pc[p] \in InUp
    /\ \/ ReleaseReservation(p)
       \/ pc[p] = "up.save" /\ Save(rt[p].inst, Running(rt[p].slot))
    /\ LET r == IF job[p].release THEN [rt[p] EXCEPT !.status = "stopped"]
                ELSE rt[p]
       IN \/ Leave(p, r) /\ Done(p)
          \/ /\ ~job[p].cc /\ pc[p] \in {"up.check", "up.infra", "up.ports"}
             /\ Goto(p, "up.cleanup")
             /\ rt' = [rt EXCEPT ![p] = r]
             /\ UNCHANGED <<job, taken>>
    /\ UNCHANGED <<lock, infra, svcs, bypassed>>

\* StopServices after a cancelled lab up: the infrastructure stays.
UpCleansUp(p) ==
    /\ pc[p] = "up.cleanup"
    /\ \/ svcs' = [svcs EXCEPT ![rt[p].inst] = {}]
       \/ UNCHANGED svcs
    /\ Leave(p, rt[p]) /\ Done(p)
    /\ UNCHANGED <<manifest, lock, infra, bypassed>>

\* The orchestrator cannot be created: the claim stays behind.
UpNeverBegins(p) ==
    /\ pc[p] = "up.check" /\ ~job[p].cc
    /\ Leave(p, rt[p]) /\ Done(p)
    /\ UNCHANGED <<manifest, lock, infra, svcs, bypassed>>

(***************************************************************************)
(* Down and Destroy.                                                       *)
(***************************************************************************)

\* The command center stops the stack of its runtime.
DownBegins(p) ==
    /\ pc[p] = "ready"
    /\ job' = [job EXCEPT ![p].op = "down"]
    /\ Goto(p, "down.stop")
    /\ bypassed' = (bypassed \/ Contended(p, rt[p].inst))
    /\ UNCHANGED <<manifest, lock, infra, svcs, rt, taken>>

\* StopAll stops what the PID files of the instance name; its error is only
\* logged.
DownStops(p) ==
    /\ pc[p] = "down.stop"
    /\ \/ svcs' = [svcs EXCEPT ![rt[p].inst] = {}]
       \/ UNCHANGED svcs
    /\ Goto(p, "down.orphans")
    /\ UNCHANGED <<manifest, lock, infra, rt, job, taken, bypassed>>

\* cleanupOrphanedProcesses kills what has the service ports of the slot,
\* unless the port tool finds no process there.
DownKillsOrphans(p) ==
    /\ pc[p] = "down.orphans"
    /\ \/ svcs' = [i \in Instances |-> svcs[i] \ {rt[p].slot}]
       \/ UNCHANGED svcs
    /\ Goto(p, "down.infra")
    /\ UNCHANGED <<manifest, lock, infra, rt, job, taken, bypassed>>

\* The containers of the instance's Docker project stop; on an error Down
\* returns without having saved anything.
DownStopsInfra(p) ==
    /\ pc[p] = "down.infra"
    /\ \/ /\ infra' = [infra EXCEPT ![rt[p].inst] = NoSlot]
          /\ Goto(p, "down.save")
          /\ UNCHANGED <<rt, job, taken>>
       \/ Leave(p, rt[p]) /\ Done(p) /\ UNCHANGED infra
    /\ UNCHANGED <<manifest, lock, svcs, bypassed>>

\* markRuntimeStopped, or the removal of the manifest by Destroy.  The
\* runtime is changed first, and the write may fail.
DownSaves(p) ==
    /\ pc[p] = "down.save"
    /\ \/ job[p].op = "destroy" /\ Delete(rt[p].inst)
       \/ job[p].op # "destroy" /\ Save(rt[p].inst, Stopped(rt[p].slot))
       \/ UNCHANGED manifest
    /\ Leave(p, [rt[p] EXCEPT !.status = "stopped"])
    /\ Done(p)
    /\ UNCHANGED <<lock, infra, svcs, bypassed>>

(***************************************************************************)
(* The environment.                                                        *)
(***************************************************************************)

\* A process ends or is killed at any point; the lock goes with it, and what
\* it had started and saved stays.
Kill(p) ==
    /\ pc[p] # "off"
    /\ Goto(p, "off")
    /\ lock' = IF lock = p THEN Free ELSE lock
    /\ rt' = [rt EXCEPT ![p] = NoRuntime]
    /\ job' = [job EXCEPT ![p] = NoJob]
    /\ taken' = [taken EXCEPT ![p] = {}]
    /\ UNCHANGED <<manifest, infra, svcs, bypassed>>

\* The grace period of a reservation ends, perhaps under an Up that is still
\* building.
Expire(i) ==
    /\ HasManifest(i) /\ manifest[i].status = "reserved" /\ manifest[i].fresh
    /\ manifest' = [manifest EXCEPT ![i].fresh = FALSE]
    /\ bypassed' = (bypassed \/ \E p \in Procs : rt[p].inst = i /\ pc[p] \in InUp)
    /\ UNCHANGED <<lock, infra, svcs, pc, rt, job, taken>>

\* Services and containers exit, or somebody stops them.
ServicesExit(i) ==
    /\ svcs[i] # {}
    /\ \E s \in svcs[i] : svcs' = [svcs EXCEPT ![i] = @ \ {s}]
    /\ UNCHANGED <<manifest, lock, infra, pc, rt, job, taken, bypassed>>

InfraStops(i) ==
    /\ infra[i] # NoSlot
    /\ infra' = [infra EXCEPT ![i] = NoSlot]
    /\ UNCHANGED <<manifest, lock, svcs, pc, rt, job, taken, bypassed>>

(***************************************************************************)
(* The specification.                                                      *)
(***************************************************************************)

Called(p, i) == \/ LabUp(p, i)
                \/ \E op \in {"down", "destroy"} : LabDown(p, i, op)
                \/ CommandCenter(p, i)

Allocates(p) == AllocateScans(p) \/ AllocateTakes(p) \/ AllocateFails(p)

Ups(p) == \/ UpBegins(p) \/ UpChecks(p) \/ UpStartsInfra(p)
          \/ UpChecksPorts(p) \/ UpStartsServices(p) \/ UpSaves(p)
          \/ UpFails(p) \/ UpCleansUp(p) \/ UpNeverBegins(p)

Downs(p) == \/ DownBegins(p) \/ DownStops(p) \/ DownKillsOrphans(p)
            \/ DownStopsInfra(p) \/ DownSaves(p)

Next ==
    \/ \E p \in Procs : \/ \E i \in Instances : Called(p, i)
                       \/ Allocates(p) \/ Ups(p) \/ Downs(p) \/ Kill(p)
    \/ \E i \in Instances : Expire(i) \/ ServicesExit(i) \/ InfraStops(i)

Spec == Init /\ [][Next]_vars

(***************************************************************************)
(* Properties.                                                             *)
(***************************************************************************)

\* Two instances never hold fresh reservations of one slot, whatever crashed
\* or was called how: the claim is saved before the lock is released
\* (Allocate, allocator.go:80-132, and the saves that do not take the lock).
FreshReservationsAreExclusive ==
    \A i, j \in Instances :
        /\ i # j
        /\ HasManifest(i) /\ manifest[i].status = "reserved" /\ manifest[i].fresh
        /\ HasManifest(j) /\ manifest[j].status = "reserved" /\ manifest[j].fresh
        => manifest[i].slot # manifest[j].slot

\* The same of running instances, for whose manifests nothing takes the lock:
\* as long as every boot began with a claim of its slot, no two processes
\* worked on one instance and no reservation ran out under a boot, claims of
\* two instances are for different slots (allocator.go:148-190,
\* orchestrator.go:615-689).
SlotClaimsDiffer ==
    ~bypassed =>
        \A i, j \in Instances, s \in Slots :
            i # j => ~(Claims(i, s) /\ Claims(j, s))

\* Under the same conditions an Up finds its slot to itself at every step,
\* even when cancelled or killed runs have left containers and services
\* behind: it neither shares containers nor meets a foreign service
\* (the probe of allocator.go:109-116; orchestrator.go:288-321, 480-500;
\* infrastructure/manager.go:257-263).
UpsHaveTheirSlot ==
    ~bypassed =>
        \A p \in Procs : pc[p] \in InUp =>
            \A i \in Instances \ {rt[p].inst} :
                infra[i] # rt[p].slot /\ rt[p].slot \notin svcs[i]
=============================================================================
