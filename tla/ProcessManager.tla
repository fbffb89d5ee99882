---------------------------- MODULE ProcessManager ----------------------------
(***************************************************************************)
(* The process manager of xcli (pkg/process/manager.go): the table of      *)
(* service processes an xcli process keeps in memory, the mutex that       *)
(* guards it, the PID files it shares on disk with every other xcli        *)
(* process of the same state directory, the goroutine that waits for each  *)
(* child, and the operating-system processes themselves.                   *)
(*                                                                         *)
(* A manager is one xcli process (the command-center server, a command     *)
(* line run); a client is a goroutine of it that calls the Manager         *)
(* interface.  A step is what runs without another goroutine or another    *)
(* xcli process being able to see a difference: the file operations and    *)
(* the waits of one call are steps of their own.                           *)
(***************************************************************************)
EXTENDS Naturals, FiniteSets

CONSTANTS
    Managers,   \* the xcli processes that share one state directory
    Clients,    \* the goroutines that call a process manager
    Home,       \* the manager each client calls
    Names,      \* the service names
    Pids,       \* process identities; a PID is not reused in a behaviour
    NoEntry,    \* a name that is absent from m.processes
    NoFile,     \* a name with no <name>.pid file
    Torn,       \* a PID file that was truncated and not yet written
    NoPid,      \* no process
    NoName,     \* no service
    NoManager,  \* no manager
    Free        \* the mutex is held by nobody

ASSUME HomeAssumption == Home \in [Clients -> Managers]

ASSUME DistinctAssumption ==
    /\ NoFile \notin Pids
    /\ Torn \notin Pids
    /\ NoFile # Torn
    /\ NoPid \notin Pids
    /\ NoName \notin Names
    /\ NoManager \notin Managers
    /\ Free \notin Clients
    /\ NoEntry \notin [pid : Pids, cmd : BOOLEAN]

VARIABLES
    up,         \* the xcli process is running
    processes,  \* m.processes: per manager, name -> Process
    mu,         \* m.mu: the client that holds it
    pidFile,    \* the PID directory: name -> the PID in <name>.pid
    life,       \* the operating system's view of each process
    svc,        \* the service a process was started as
    parent,     \* the manager that started it
    mon,        \* the monitor goroutine of a process
    pc,         \* where a client is
    call        \* the arguments and locals of the client's call

vars == <<up, processes, mu, pidFile, life, svc, parent, mon, pc, call>>

Entry == [pid : Pids, cmd : BOOLEAN]
Started(p) == [pid |-> p, cmd |-> TRUE]       \* Cmd # nil
Loaded(p)  == [pid |-> p, cmd |-> FALSE]      \* Cmd = nil: read from a PID file

\* A client between two calls.
Quiet == [op |-> "none", name |-> NoName, target |-> NoPid, todo |-> {}]

\* The call a client is in: the operation, the service and process it works
\* on, and the names a loop has still to visit.
Calls == [op : {"none", "start", "stop", "restart", "stopall", "reload"},
          name : Names \cup {NoName}, target : Pids \cup {NoPid},
          todo : SUBSET Names]

\* The labels at which a client holds its manager's mutex, and the others.
Critical == {"start.trunc", "start.write", "stop.wait", "load", "load.rm"}
Outside  == {"idle", "start.lock", "stop.lock", "stopall.lock", "stopall.next",
             "reload.lock", "restart.read", "restart.sleep"}

\* Values of every variable.
TypeOK ==
    /\ up \in [Managers -> BOOLEAN]
    /\ processes \in [Managers -> [Names -> Entry \cup {NoEntry}]]
    /\ mu \in [Managers -> Clients \cup {Free}]
    /\ pidFile \in [Names -> Pids \cup {NoFile, Torn}]
    /\ life \in [Pids -> {"unborn", "alive", "zombie", "gone"}]
    /\ svc \in [Pids -> Names \cup {NoName}]
    /\ parent \in [Pids -> Managers \cup {NoManager}]
    /\ mon \in [Pids -> {"none", "born", "wait", "lock", "remove"}]
    /\ pc \in [Clients -> Critical \cup Outside]
    /\ call \in [Clients -> Calls]

Init ==
    /\ up = [m \in Managers |-> FALSE]
    /\ processes = [m \in Managers |-> [n \in Names |-> NoEntry]]
    /\ mu = [m \in Managers |-> Free]
    /\ pidFile = [n \in Names |-> NoFile]
    /\ life = [p \in Pids |-> "unborn"]
    /\ svc = [p \in Pids |-> NoName]
    /\ parent = [p \in Pids |-> NoManager]
    /\ mon = [p \in Pids |-> "none"]
    /\ pc = [c \in Clients |-> "idle"]
    /\ call = [c \in Clients |-> Quiet]

(***************************************************************************)
(* Helpers.                                                                *)
(***************************************************************************)

EntryOf(m, n) == processes[m][n]
HasEntry(m, n) == EntryOf(m, n) # NoEntry

\* isRunning: signal 0 reaches the process.  A zombie still answers; once
\* the monitor's Wait has reaped it, or init has, nothing does.
IsRunning(p) == life[p] \notin {"unborn", "gone"}

EntryRuns(m, n) == HasEntry(m, n) /\ IsRunning(EntryOf(m, n).pid)

WithEntry(m, n, e) == [processes EXCEPT ![m][n] = e]
Removed(n) == [pidFile EXCEPT ![n] = NoFile]

\* A process that stops is a zombie while a goroutine of its parent is there
\* to wait for it; otherwise init reaps it at once.
Killed(p) ==
    IF life[p] # "alive" THEN life
    ELSE [life EXCEPT ![p] = IF mon[p] = "none" THEN "gone" ELSE "zombie"]

\* Client c leaves its call.
Return(c) == /\ pc' = [pc EXCEPT ![c] = "idle"]
             /\ call' = [call EXCEPT ![c] = Quiet]

Goto(c, label) == pc' = [pc EXCEPT ![c] = label]

Unlock(c) == mu' = [mu EXCEPT ![Home[c]] = Free]
Lock(c)   == /\ mu[Home[c]] = Free
             /\ mu' = [mu EXCEPT ![Home[c]] = c]

(***************************************************************************)
(* A client calls an operation of the Manager interface.                   *)
(***************************************************************************)

Begin(c, op, n, label) ==
    /\ up[Home[c]] /\ pc[c] = "idle"
    /\ call' = [call EXCEPT ![c] = [Quiet EXCEPT !.op = op, !.name = n]]
    /\ Goto(c, label)
    /\ UNCHANGED <<up, processes, mu, pidFile, life, svc, parent, mon>>

CallStart(c)   == \E n \in Names : Begin(c, "start", n, "start.lock")
CallStop(c)    == \E n \in Names : Begin(c, "stop", n, "stop.lock")
CallRestart(c) == \E n \in Names : Begin(c, "restart", n, "restart.read")
CallStopAll(c) == Begin(c, "stopall", NoName, "stopall.lock")
CallReload(c)  == Begin(c, "reload", NoName, "reload.lock")

(***************************************************************************)
(* Start.  No caller passes a health checker, so the check is the no-op    *)
(* one.  The mutex is held from the test for a running process to the      *)
(* launch of the monitor goroutine.                                        *)
(***************************************************************************)

\* The name is running already, or the log file or the command cannot be
\* opened: a stale entry is deleted, and Start returns an error.
StartFails(c) ==
    LET m == Home[c] n == call[c].name IN
    /\ pc[c] = "start.lock" /\ mu[m] = Free
    /\ processes' = IF EntryRuns(m, n) THEN processes ELSE WithEntry(m, n, NoEntry)
    /\ Return(c)
    /\ UNCHANGED <<up, mu, pidFile, life, svc, parent, mon>>

\* The child is started and entered in the table.
StartSpawns(c, p) ==
    LET m == Home[c] n == call[c].name IN
    /\ pc[c] = "start.lock" /\ Lock(c)
    /\ ~EntryRuns(m, n)
    /\ life[p] = "unborn"
    /\ life' = [life EXCEPT ![p] = "alive"]
    /\ svc' = [svc EXCEPT ![p] = n]
    /\ parent' = [parent EXCEPT ![p] = m]
    /\ mon' = [mon EXCEPT ![p] = "born"]
    /\ processes' = WithEntry(m, n, Started(p))
    /\ call' = [call EXCEPT ![c].target = p]
    /\ Goto(c, "start.trunc")
    /\ UNCHANGED <<up, pidFile>>

\* savePID, first half: WriteFile opens the file and truncates it, or the
\* directory or the file cannot be opened, which is only logged.
SaveTruncates(c) ==
    /\ pc[c] = "start.trunc"
    /\ \/ pidFile' = [pidFile EXCEPT ![call[c].name] = Torn]
       \/ pidFile' = pidFile
    /\ Goto(c, "start.write")
    /\ UNCHANGED <<up, processes, mu, life, svc, parent, mon, call>>

\* savePID, second half: the content lands in the file if nobody unlinked it
\* in between.  Start then launches the monitor and returns.
SaveWrites(c) ==
    LET n == call[c].name p == call[c].target IN
    /\ pc[c] = "start.write"
    /\ \/ pidFile[n] # NoFile /\ pidFile' = [pidFile EXCEPT ![n] = p]
       \/ pidFile' = pidFile
    /\ mon' = [mon EXCEPT ![p] = "wait"]
    /\ Unlock(c) /\ Return(c)
    /\ UNCHANGED <<up, processes, life, svc, parent>>

(***************************************************************************)
(* Stop, on its own and as a step of Restart and StopAll.  The mutex is    *)
(* held until the process is gone.                                         *)
(***************************************************************************)

\* What the caller does with the result of Stop: Restart goes on after a
\* success; StopAll goes on in either case, unless its context is cancelled.
\* A context may be cancelled at any time, and once it is nothing is done
\* that would read it again, so a cancellation is a choice at each reading.
AfterStop(c, ok) ==
    \/ call[c].op = "restart" /\ ok /\ Goto(c, "restart.sleep") /\ UNCHANGED call
    \/ call[c].op = "stopall" /\ Goto(c, "stopall.next") /\ UNCHANGED call
    \/ ~(call[c].op = "restart" /\ ok) /\ Return(c)

\* Not in the table: "already stopped", success.
StopNothing(c) ==
    /\ pc[c] = "stop.lock" /\ mu[Home[c]] = Free
    /\ ~HasEntry(Home[c], call[c].name)
    /\ AfterStop(c, TRUE)
    /\ UNCHANGED <<up, processes, mu, pidFile, life, svc, parent, mon>>

\* SIGTERM reaches neither the process group nor the process: Stop returns
\* an error and leaves the entry.
StopSignalFails(c) ==
    LET m == Home[c] n == call[c].name IN
    /\ pc[c] = "stop.lock" /\ mu[m] = Free
    /\ HasEntry(m, n) /\ ~EntryRuns(m, n)
    /\ AfterStop(c, FALSE)
    /\ UNCHANGED <<up, processes, mu, pidFile, life, svc, parent, mon>>

\* SIGTERM is delivered; to the children of a leader that is gone, perhaps.
StopSignals(c) ==
    LET m == Home[c] n == call[c].name IN
    /\ pc[c] = "stop.lock" /\ Lock(c)
    /\ HasEntry(m, n)
    /\ call' = [call EXCEPT ![c].target = EntryOf(m, n).pid]
    /\ Goto(c, "stop.wait")
    /\ UNCHANGED <<up, processes, pidFile, life, svc, parent, mon>>

\* Entry and PID file go, the mutex is released and Stop succeeds.
StopRemoves(c) ==
    LET m == Home[c] n == call[c].name IN
    /\ processes' = WithEntry(m, n, NoEntry)
    /\ pidFile' = Removed(n)
    /\ Unlock(c) /\ AfterStop(c, TRUE)
    /\ UNCHANGED <<up, svc, parent, mon>>

\* The 100 ms poll finds the process gone.
StopPolls(c) ==
    /\ pc[c] = "stop.wait"
    /\ ~IsRunning(call[c].target)
    /\ StopRemoves(c)
    /\ UNCHANGED life

\* The context is cancelled: SIGKILL, and the context's error, at which
\* Restart and StopAll return too.
StopCancelled(c) ==
    /\ pc[c] = "stop.wait"
    /\ life' = Killed(call[c].target)
    /\ processes' = WithEntry(Home[c], call[c].name, NoEntry)
    /\ pidFile' = Removed(call[c].name)
    /\ Unlock(c) /\ Return(c)
    /\ UNCHANGED <<up, svc, parent, mon>>

\* Mutation of StopTimesOut: the wait for the process has no time limit.
StopWaitsOn(c) == FALSE /\ UNCHANGED vars

\* Thirty seconds have passed: SIGKILL.  When process.Kill finds nothing
\* left to kill, Stop returns its error and leaves the entry.
StopTimesOut(c) ==
    /\ pc[c] = "stop.wait"
    /\ life' = Killed(call[c].target)
    /\ \/ StopRemoves(c)
       \/ /\ Unlock(c) /\ AfterStop(c, FALSE)
          /\ UNCHANGED <<up, processes, pidFile, svc, parent, mon>>

(***************************************************************************)
(* Restart: the entry is read under the read lock, which is then released  *)
(* for Stop, a sleep of half a second, and Start.                          *)
(***************************************************************************)

RestartReads(c) ==
    LET m == Home[c] n == call[c].name IN
    /\ pc[c] = "restart.read" /\ mu[m] = Free
    /\ IF HasEntry(m, n) /\ EntryOf(m, n).cmd
       THEN Goto(c, "stop.lock") /\ UNCHANGED call
       ELSE Return(c)
    /\ UNCHANGED <<up, processes, mu, pidFile, life, svc, parent, mon>>

RestartWakes(c) ==
    /\ pc[c] = "restart.sleep"
    /\ Goto(c, "start.lock")
    /\ UNCHANGED <<up, processes, mu, pidFile, life, svc, parent, mon, call>>

(***************************************************************************)
(* Reading the PID directory: ReloadPIDs, the first half of StopAll, and   *)
(* NewManager.  The names are those of the files ReadDir returned.         *)
(***************************************************************************)

Files == {n \in Names : pidFile[n] # NoFile}

ScanDir(c, label) ==
    /\ pc[c] = label /\ Lock(c)
    /\ call' = [call EXCEPT ![c].todo = Files]
    /\ Goto(c, "load")
    /\ UNCHANGED <<up, processes, pidFile, life, svc, parent, mon>>

StopAllScans(c) == ScanDir(c, "stopall.lock")
ReloadScans(c) == ScanDir(c, "reload.lock")

\* loadPID: a file that names a running process becomes an entry; one that
\* cannot be parsed or names no process is removed in the next step; one that
\* is no longer there is passed over.
LoadPID(c, n) ==
    LET m == Home[c] p == pidFile[n] IN
    IF p \in Pids /\ IsRunning(p)
    THEN /\ processes' = WithEntry(m, n, Loaded(p))
         /\ call' = [call EXCEPT ![c].todo = @ \ {n}]
         /\ UNCHANGED pc
    ELSE /\ call' = [call EXCEPT ![c].todo = @ \ {n}, ![c].name = n]
         /\ Goto(c, IF p = NoFile THEN "load" ELSE "load.rm")
         /\ UNCHANGED processes

\* A PID-loaded entry is verified again: when its process has exited the
\* entry goes now and its file in the next step.
Verify(c, n) ==
    LET m == Home[c] IN
    IF EntryRuns(m, n)
    THEN /\ call' = [call EXCEPT ![c].todo = @ \ {n}]
         /\ UNCHANGED <<processes, pc>>
    ELSE /\ processes' = WithEntry(m, n, NoEntry)
         /\ call' = [call EXCEPT ![c].todo = @ \ {n}, ![c].name = n]
         /\ Goto(c, "load.rm")

\* An entry this manager started is left alone.
Skip(c, n) ==
    /\ call' = [call EXCEPT ![c].todo = @ \ {n}]
    /\ UNCHANGED <<processes, pc>>

\* Mutation of LoadFile: entries of started processes are read again too.
LoadFileOverCmd(c, n) ==
    /\ pc[c] = "load" /\ n \in call[c].todo
    /\ LoadPID(c, n)
    /\ UNCHANGED <<up, mu, pidFile, life, svc, parent, mon>>

LoadFile(c, n) ==
    LET m == Home[c] IN
    /\ pc[c] = "load" /\ n \in call[c].todo
    /\ \/ ~HasEntry(m, n) /\ LoadPID(c, n)
       \/ /\ HasEntry(m, n)
          /\ call[c].op = "stopall" \/ EntryOf(m, n).cmd
          /\ Skip(c, n)
       \/ /\ HasEntry(m, n)
          /\ call[c].op = "reload" /\ ~EntryOf(m, n).cmd
          /\ Verify(c, n)
    /\ UNCHANGED <<up, mu, pidFile, life, svc, parent, mon>>

\* removePID of a file that turned out stale.
LoadRemoves(c) ==
    /\ pc[c] = "load.rm"
    /\ pidFile' = Removed(call[c].name)
    /\ Goto(c, "load")
    /\ UNCHANGED <<up, processes, mu, life, svc, parent, mon, call>>

\* Every file was read: ReloadPIDs and NewManager return.
ReloadEnds(c) ==
    /\ pc[c] = "load" /\ call[c].todo = {} /\ call[c].op = "reload"
    /\ Unlock(c) /\ Return(c)
    /\ UNCHANGED <<up, processes, pidFile, life, svc, parent, mon>>

\* StopAll takes the names of the table and unlocks.
StopAllCollects(c) ==
    LET m == Home[c] IN
    /\ pc[c] = "load" /\ call[c].todo = {} /\ call[c].op = "stopall"
    /\ call' = [call EXCEPT ![c].todo = {n \in Names : HasEntry(m, n)}]
    /\ Unlock(c) /\ Goto(c, "stopall.next")
    /\ UNCHANGED <<up, processes, pidFile, life, svc, parent, mon>>

\* The next name of StopAll, in map order, or the end of the loop.
StopAllNext(c) ==
    /\ pc[c] = "stopall.next"
    /\ \/ /\ call[c].todo = {}
          /\ Return(c)
       \/ \E n \in call[c].todo :
             /\ call' = [call EXCEPT ![c].name = n, ![c].todo = @ \ {n}]
             /\ Goto(c, "stop.lock")
    /\ UNCHANGED <<up, processes, mu, pidFile, life, svc, parent, mon>>

(***************************************************************************)
(* The monitor goroutine of process p.                                     *)
(***************************************************************************)

\* Cmd.Wait reaps the child.
MonitorWaits(p) ==
    /\ mon[p] = "wait" /\ life[p] = "zombie"
    /\ life' = [life EXCEPT ![p] = "gone"]
    /\ mon' = [mon EXCEPT ![p] = "lock"]
    /\ UNCHANGED <<up, processes, mu, pidFile, svc, parent, pc, call>>

\* Mutation of MonitorDeletes: the goroutine ends without the deletion.
MonitorForgets(p) ==
    /\ mon[p] = "lock" /\ mu[parent[p]] = Free
    /\ mon' = [mon EXCEPT ![p] = "remove"]
    /\ UNCHANGED <<up, processes, mu, pidFile, life, svc, parent, pc, call>>

\* The entry of the name is deleted, whichever process it is for.
MonitorDeletes(p) ==
    /\ mon[p] = "lock" /\ mu[parent[p]] = Free
    /\ processes' = WithEntry(parent[p], svc[p], NoEntry)
    /\ mon' = [mon EXCEPT ![p] = "remove"]
    /\ UNCHANGED <<up, mu, pidFile, life, svc, parent, pc, call>>

\* The PID file of the name goes after the mutex was released.
MonitorRemoves(p) ==
    /\ mon[p] = "remove"
    /\ pidFile' = Removed(svc[p])
    /\ mon' = [mon EXCEPT ![p] = "none"]
    /\ UNCHANGED <<up, processes, mu, life, svc, parent, pc, call>>

(***************************************************************************)
(* The environment: services exit, and xcli processes come and go.         *)
(***************************************************************************)

\* A service exits, of itself or on a SIGTERM it obeys.
ServiceExits(p) ==
    /\ life[p] = "alive"
    /\ life' = Killed(p)
    /\ UNCHANGED <<up, processes, mu, pidFile, svc, parent, mon, pc, call>>

\* NewManager scans the PID directory into an empty table before anybody
\* else can use the manager.
Boot(c) ==
    LET m == Home[c] IN
    /\ ~up[m]
    /\ up' = [up EXCEPT ![m] = TRUE]
    /\ mu' = [mu EXCEPT ![m] = c]
    /\ call' = [call EXCEPT ![c] = [Quiet EXCEPT !.op = "reload", !.todo = Files]]
    /\ Goto(c, "load")
    /\ UNCHANGED <<processes, pidFile, life, svc, parent, mon>>

\* An xcli process ends or is killed, at any point: its memory and its
\* goroutines are lost, its services survive in their own process groups.
Exit(m) ==
    /\ up[m]
    /\ up' = [up EXCEPT ![m] = FALSE]
    /\ processes' = [processes EXCEPT ![m] = [n \in Names |-> NoEntry]]
    /\ mu' = [mu EXCEPT ![m] = Free]
    /\ pc' = [c \in Clients |-> IF Home[c] = m THEN "idle" ELSE pc[c]]
    /\ call' = [c \in Clients |-> IF Home[c] = m THEN Quiet ELSE call[c]]
    /\ mon' = [p \in Pids |-> IF parent[p] = m THEN "none" ELSE mon[p]]
    /\ life' = [p \in Pids |-> IF parent[p] = m /\ life[p] = "zombie"
                               THEN "gone" ELSE life[p]]
    /\ UNCHANGED <<pidFile, svc, parent>>

(***************************************************************************)
(* The specification.                                                      *)
(***************************************************************************)

\* What nothing obliges a client to: to call, and to cancel a call.
Calling(c) == \/ CallStart(c) \/ CallStop(c) \/ CallRestart(c)
              \/ CallStopAll(c) \/ CallReload(c) \/ StopCancelled(c)

\* The steps that wait for the mutex.
Locking(c) ==
    \/ StartFails(c) \/ (\E p \in Pids : StartSpawns(c, p))
    \/ StopNothing(c) \/ StopSignalFails(c) \/ StopSignals(c)
    \/ RestartReads(c) \/ StopAllScans(c) \/ ReloadScans(c)

\* The steps that do not.
Working(c) ==
    \/ SaveTruncates(c) \/ SaveWrites(c)
    \/ StopPolls(c) \/ StopTimesOut(c)
    \/ RestartWakes(c)
    \/ (\E n \in Names : LoadFile(c, n)) \/ LoadRemoves(c)
    \/ ReloadEnds(c) \/ StopAllCollects(c) \/ StopAllNext(c)

Monitor(p) == MonitorWaits(p) \/ MonitorDeletes(p) \/ MonitorRemoves(p)

Next ==
    \/ \E c \in Clients : Calling(c) \/ Locking(c) \/ Working(c) \/ Boot(c)
    \/ \E p \in Pids : Monitor(p) \/ ServiceExits(p)
    \/ \E m \in Managers : Exit(m)

Spec == Init /\ [][Next]_vars

\* Goroutines run, timers fire and Go's mutex starves nobody; nobody has to
\* make a call, a service need not exit and an xcli process need not end.
Fairness ==
    /\ \A c \in Clients : SF_vars(Locking(c)) /\ WF_vars(Working(c))
    /\ \A p \in Pids : /\ WF_vars(MonitorWaits(p))
                       /\ SF_vars(MonitorDeletes(p))
                       /\ WF_vars(MonitorRemoves(p))

FairSpec == Spec /\ Fairness

(***************************************************************************)
(* Properties.                                                             *)
(***************************************************************************)

\* A process that a manager entered in its table with its command is watched
\* by a goroutine that has not yet passed the point where it deletes the
\* entry, and was started by that manager under that name: no entry of a
\* started process can be left behind when the process exits (monitor,
\* manager.go:463-473, against every path that writes the table).
StartedEntriesAreWatched ==
    \A m \in Managers, n \in Names :
        HasEntry(m, n) /\ EntryOf(m, n).cmd =>
            LET p == EntryOf(m, n).pid IN
            /\ mon[p] \in {"born", "wait", "lock"}
            /\ svc[p] = n /\ parent[p] = m /\ up[m]

\* A manager loses the entry of a process that is alive only when the
\* process dies in the step, the manager's own xcli process ends, or the
\* monitor of an earlier process of the same name deletes the name: no
\* Start, Stop, StopAll, Restart or ReloadPIDs forgets a running service
\* (manager.go:84-91, 200-239, 253-265, 542-568).
LiveEntriesAreOnlyLostToMonitors ==
    [][\A m \in Managers, n \in Names :
          LET e == EntryOf(m, n) IN
          e # NoEntry /\ life[e.pid] = "alive" /\ EntryOf(m, n)' # e =>
            \/ life'[e.pid] # "alive"
            \/ ~up'[m]
            \/ \E q \in Pids \ {e.pid} :
                  /\ mon[q] = "lock" /\ mon'[q] = "remove"
                  /\ svc[q] = n /\ parent[q] = m]_vars

\* Every call returns, although Stop keeps the mutex for as long as the
\* process takes to exit: nobody waits for ever behind it (manager.go:200-239).
CallsReturn == \A c \in Clients : []<>(pc[c] = "idle")

\* An exited process that its manager started leaves the table, whatever
\* else happens to the name meanwhile (monitor, manager.go:463-473).
ExitedProcessesLeave ==
    \A m \in Managers, n \in Names, p \in Pids :
        []<>(EntryOf(m, n) = Started(p) => life[p] = "alive")
=============================================================================
