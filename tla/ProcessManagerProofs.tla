------------------------- MODULE ProcessManagerProofs -------------------------
(***************************************************************************)
(* Proofs about ProcessManager for any set of managers, clients, services  *)
(* and processes: its types, that the entry of a started process is always *)
(* watched by a goroutine that will delete it, and that a manager forgets  *)
(* a live service only through the monitor of an earlier one.              *)
(***************************************************************************)
EXTENDS ProcessManager, TLAPS

\* A client that is in a call, and an entry, belong to an xcli process that is
\* running; a client whose label says so holds the mutex.
MutexInv ==
    /\ \A c \in Clients : pc[c] # "idle" => up[Home[c]]
    /\ \A c \in Clients : pc[c] \in Critical => mu[Home[c]] = c
    /\ \A m \in Managers, n \in Names : HasEntry(m, n) => up[m]

\* The locals of a call are set where they are used.
LocalsInv ==
    \A c \in Clients :
        /\ pc[c] \in {"start.lock", "start.trunc", "start.write", "stop.lock",
                      "stop.wait", "load.rm", "restart.read", "restart.sleep"}
              => call[c].name \in Names
        /\ pc[c] \in {"start.trunc", "start.write"} =>
              call[c].target \in Pids /\ life[call[c].target] # "unborn"
        /\ pc[c] = "stop.wait" =>
              /\ HasEntry(Home[c], call[c].name)
              /\ EntryOf(Home[c], call[c].name).pid = call[c].target

\* Only a process that was started has a name, a parent and a monitor, and a
\* monitor that is past Wait has reaped it.
MonitorInv ==
    \A p \in Pids :
        /\ life[p] = "unborn" => mon[p] = "none"
        /\ life[p] # "unborn" => svc[p] \in Names /\ parent[p] \in Managers
        /\ mon[p] \in {"lock", "remove"} => life[p] = "gone"

\* The inductive invariant.
IInv == TypeOK /\ MutexInv /\ LocalsInv /\ MonitorInv /\ StartedEntriesAreWatched

\* The state between two calls is a well-formed call.
LEMMA QuietIsACall == Quiet \in Calls
  BY DistinctAssumption DEF Quiet, Calls

\* Updating a local of one call keeps every call well-formed.
LEMMA CallUpdates ==
    ASSUME call \in [Clients -> Calls], NEW c \in Clients
    PROVE  /\ [call EXCEPT ![c] = Quiet] \in [Clients -> Calls]
           /\ \A s \in SUBSET Names :
                 [call EXCEPT ![c].todo = s] \in [Clients -> Calls]
           /\ \A s \in SUBSET Names, n \in Names :
                 [call EXCEPT ![c].todo = s, ![c].name = n] \in [Clients -> Calls]
           /\ \A s \in SUBSET Names, n \in Names :
                 [call EXCEPT ![c].name = n, ![c].todo = s] \in [Clients -> Calls]
           /\ \A s \in SUBSET Names : [call EXCEPT ![c].todo = s] \in [Clients -> Calls]
           /\ \A p \in Pids : [call EXCEPT ![c].target = p] \in [Clients -> Calls]
<1>1. call[c] \in Calls
  OBVIOUS
<1>2. Quiet \in Calls
  BY QuietIsACall
<1> QED BY <1>1, <1>2 DEF Calls

\* After Stop its caller (Stop's own, Restart, StopAll) is at a label where it
\* does not hold the mutex, and only its own call changed.
LEMMA AfterStopType ==
    ASSUME TypeOK, NEW c \in Clients, NEW ok \in BOOLEAN, AfterStop(c, ok)
    PROVE /\ pc' \in [Clients -> Critical \cup Outside]
          /\ call' \in [Clients -> Calls]
          /\ pc'[c] \in Outside
          /\ \A d \in Clients \ {c} : pc'[d] = pc[d] /\ call'[d] = call[d]
          /\ pc'[c] # "idle" => call' = call
          /\ pc'[c] \in {"restart.sleep", "stopall.next", "idle"}
<1>1. [call EXCEPT ![c] = Quiet] \in [Clients -> Calls]
   BY CallUpdates DEF TypeOK
<1>2. CASE Goto(c, "restart.sleep") /\ UNCHANGED call
  BY <1>2 DEF Goto, TypeOK, Outside
<1>3. CASE Goto(c, "stopall.next") /\ UNCHANGED call
  BY <1>3 DEF Goto, TypeOK, Outside
<1>4. CASE Return(c)
  BY <1>1, <1>4 DEF Return, TypeOK, Outside
<1> QED BY <1>2, <1>3, <1>4 DEF AfterStop

\* A refused or failed Start (manager.go:85-116) keeps the invariant.
LEMMA StartFailsKeeps ==
    ASSUME IInv, NEW c \in Clients, StartFails(c)
    PROVE  IInv'
<1> USE HomeAssumption, DistinctAssumption
<1>1. TypeOK'
    BY DEF IInv, TypeOK, LocalsInv, Critical, Outside, Calls, Quiet,
       StartFails, Return, WithEntry
<1>2. MutexInv'
    BY DEF IInv, TypeOK, MutexInv, Critical, HasEntry, EntryOf,
       StartFails, Return, WithEntry
<1>3. LocalsInv'
    BY DEF IInv, TypeOK, LocalsInv, MutexInv, Critical, HasEntry, EntryOf,
       StartFails, Return, WithEntry
<1>4. MonitorInv'
    BY DEF IInv, MonitorInv, StartFails, Return, WithEntry
<1>5. StartedEntriesAreWatched'
    BY DEF IInv, StartedEntriesAreWatched, HasEntry, EntryOf, StartFails,
       Return, WithEntry
<1> QED BY <1>1, <1>2, <1>3, <1>4, <1>5 DEF IInv

\* Start's spawn and table entry (manager.go:112-126) keep the invariant.
LEMMA StartSpawnsKeeps ==
    ASSUME IInv, NEW c \in Clients, NEW p \in Pids, StartSpawns(c, p)
    PROVE  IInv'
<1> USE HomeAssumption, DistinctAssumption
<1>a. [call EXCEPT ![c].target = p] \in [Clients -> Calls]
    BY CallUpdates DEF IInv, TypeOK
<1>b. /\ pc' = [pc EXCEPT ![c] = "start.trunc"] /\ pc[c] = "start.lock"
      /\ mu[Home[c]] = Free /\ mu' = [mu EXCEPT ![Home[c]] = c]
      /\ processes' = [processes EXCEPT ![Home[c]][call[c].name] = Started(p)]
      /\ Started(p) \in Entry /\ call[c].name \in Names /\ Home[c] \in Managers
      /\ UNCHANGED up
    BY DEF IInv, LocalsInv, StartSpawns, Lock, Goto, WithEntry, Started, Entry
<1>1. TypeOK'
    BY <1>a, <1>b DEF IInv, TypeOK, Critical, Outside, StartSpawns
<1>2. MutexInv'
    BY <1>b DEF IInv, TypeOK, MutexInv, Critical, Outside, EntryOf, HasEntry
<1>3. LocalsInv'
    BY DEF IInv, TypeOK, LocalsInv, MutexInv, Critical, HasEntry, EntryOf,
       StartSpawns, Lock, Goto, WithEntry, Started
<1>4. MonitorInv'
    BY DEF IInv, TypeOK, LocalsInv, MonitorInv, StartSpawns, Lock, Goto,
       WithEntry, Started
<1>5. StartedEntriesAreWatched'
    BY DEF IInv, TypeOK, MonitorInv, MutexInv, StartedEntriesAreWatched,
       HasEntry, EntryOf, StartSpawns, Lock, Goto, WithEntry, Started
<1> QED BY <1>1, <1>2, <1>3, <1>4, <1>5 DEF IInv

\* The truncation in savePID (manager.go:516) keeps the invariant.
LEMMA SaveTruncatesKeeps ==
    ASSUME IInv, NEW c \in Clients, SaveTruncates(c)
    PROVE  IInv'
<1> USE HomeAssumption, DistinctAssumption
<1>1. TypeOK'
    BY DEF IInv, TypeOK, Critical, Outside, SaveTruncates, Goto
<1>2. MutexInv'
    BY DEF IInv, TypeOK, MutexInv, Critical, HasEntry, EntryOf,
       SaveTruncates, Goto
<1>3. LocalsInv'
    BY DEF IInv, TypeOK, LocalsInv, HasEntry, EntryOf, SaveTruncates, Goto
<1>4. MonitorInv'
    BY DEF IInv, MonitorInv, SaveTruncates, Goto
<1>5. StartedEntriesAreWatched'
    BY DEF IInv, StartedEntriesAreWatched, HasEntry, EntryOf,
       SaveTruncates, Goto
<1> QED BY <1>1, <1>2, <1>3, <1>4, <1>5 DEF IInv

\* The write in savePID and Start's return (manager.go:129-159, 516) keep the invariant.
LEMMA SaveWritesKeeps ==
    ASSUME IInv, NEW c \in Clients, SaveWrites(c)
    PROVE  IInv'
<1> USE HomeAssumption, DistinctAssumption
<1>1. TypeOK'
    BY DEF IInv, TypeOK, LocalsInv, Critical, Outside, Calls, Quiet,
       SaveWrites, Unlock, Return
<1>2. MutexInv'
    BY DEF IInv, TypeOK, MutexInv, Critical, HasEntry, EntryOf,
       SaveWrites, Unlock, Return
<1>3. LocalsInv'
    BY DEF IInv, TypeOK, LocalsInv, HasEntry, EntryOf, SaveWrites, Unlock,
       Return
<1>4. MonitorInv'
    BY DEF IInv, TypeOK, LocalsInv, MonitorInv, SaveWrites, Unlock, Return
<1>5. StartedEntriesAreWatched'
    BY DEF IInv, StartedEntriesAreWatched, HasEntry, EntryOf, SaveWrites,
       Unlock, Return
<1> QED BY <1>1, <1>2, <1>3, <1>4, <1>5 DEF IInv

\* Stop of an absent name (manager.go:167-171) keeps the invariant.
LEMMA StopNothingKeeps ==
    ASSUME IInv, NEW c \in Clients, StopNothing(c)
    PROVE  IInv'
<1> USE HomeAssumption, DistinctAssumption
<1>a. /\ pc' \in [Clients -> Critical \cup Outside]
      /\ call' \in [Clients -> Calls]
      /\ \A d \in Clients \ {c} : pc'[d] = pc[d] /\ call'[d] = call[d]
      /\ pc'[c] # "idle" => call' = call
      /\ pc'[c] \in {"restart.sleep", "stopall.next", "idle"}
    BY AfterStopType DEF IInv, StopNothing
<1>1. TypeOK'
    BY <1>a DEF IInv, TypeOK, StopNothing
<1>2. MutexInv'
    BY DEF IInv, TypeOK, MutexInv, Critical, HasEntry, EntryOf,
       StopNothing, AfterStop, Goto, Return
<1>3. LocalsInv'
    BY DEF IInv, TypeOK, LocalsInv, HasEntry, EntryOf, StopNothing,
       AfterStop, Goto, Return
<1>4. MonitorInv'
    BY DEF IInv, MonitorInv, StopNothing, AfterStop, Goto, Return
<1>5. StartedEntriesAreWatched'
    BY DEF IInv, StartedEntriesAreWatched, HasEntry, EntryOf, StopNothing,
       AfterStop, Goto, Return
<1> QED BY <1>1, <1>2, <1>3, <1>4, <1>5 DEF IInv

\* Stop whose SIGTERM is not delivered (manager.go:186-192) keeps the invariant.
LEMMA StopSignalFailsKeeps ==
    ASSUME IInv, NEW c \in Clients, StopSignalFails(c)
    PROVE  IInv'
<1> USE HomeAssumption, DistinctAssumption
<1>a. /\ pc' \in [Clients -> Critical \cup Outside]
      /\ call' \in [Clients -> Calls]
      /\ \A d \in Clients \ {c} : pc'[d] = pc[d] /\ call'[d] = call[d]
      /\ pc'[c] # "idle" => call' = call
      /\ pc'[c] \in {"restart.sleep", "stopall.next", "idle"}
    BY AfterStopType DEF IInv, StopSignalFails
<1>1. TypeOK'
    BY <1>a DEF IInv, TypeOK, StopSignalFails
<1>2. MutexInv'
    BY DEF IInv, TypeOK, MutexInv, Critical, HasEntry, EntryOf,
       StopSignalFails, AfterStop, Goto, Return
<1>3. LocalsInv'
    BY DEF IInv, TypeOK, LocalsInv, HasEntry, EntryOf, StopSignalFails,
       AfterStop, Goto, Return
<1>4. MonitorInv'
    BY DEF IInv, MonitorInv, StopSignalFails, AfterStop, Goto, Return
<1>5. StartedEntriesAreWatched'
    BY DEF IInv, StartedEntriesAreWatched, HasEntry, EntryOf,
       StopSignalFails, AfterStop, Goto, Return
<1> QED BY <1>1, <1>2, <1>3, <1>4, <1>5 DEF IInv

\* Stop's SIGTERM (manager.go:179-192) keeps the invariant.
LEMMA StopSignalsKeeps ==
    ASSUME IInv, NEW c \in Clients, StopSignals(c)
    PROVE  IInv'
<1> USE HomeAssumption, DistinctAssumption
<1>a. /\ call[c].name \in Names
      /\ call' = [call EXCEPT ![c].target = EntryOf(Home[c], call[c].name).pid]
      /\ EntryOf(Home[c], call[c].name).pid \in Pids
    <2>1. call[c].name \in Names /\ Home[c] \in Managers
      BY DEF IInv, LocalsInv, StopSignals
    <2>2. EntryOf(Home[c], call[c].name) \in Entry
      BY <2>1 DEF IInv, TypeOK, StopSignals, EntryOf, HasEntry
    <2> QED BY <2>1, <2>2 DEF StopSignals, Entry
<1>c. call' \in [Clients -> Calls]
    BY <1>a, CallUpdates DEF IInv, TypeOK
<1>b. /\ pc' = [pc EXCEPT ![c] = "stop.wait"] /\ pc[c] = "stop.lock"
      /\ mu[Home[c]] = Free /\ mu' = [mu EXCEPT ![Home[c]] = c]
      /\ UNCHANGED <<up, processes>> /\ Home[c] \in Managers
    BY DEF StopSignals, Lock, Goto
<1>1. TypeOK'
    BY <1>b, <1>c DEF IInv, TypeOK, Critical, Outside, StopSignals
<1>2. MutexInv'
    BY <1>b DEF IInv, TypeOK, MutexInv, Critical, Outside, EntryOf, HasEntry
<1>3. LocalsInv'
    BY DEF IInv, TypeOK, LocalsInv, HasEntry, EntryOf, StopSignals, Lock, Goto
<1>4. MonitorInv'
    BY DEF IInv, MonitorInv, StopSignals, Lock, Goto
<1>5. StartedEntriesAreWatched'
    BY DEF IInv, StartedEntriesAreWatched, HasEntry, EntryOf, StopSignals,
       Lock, Goto
<1> QED BY <1>1, <1>2, <1>3, <1>4, <1>5 DEF IInv

\* Stop's poll that finds the process gone (manager.go:230-236) keeps the invariant.
LEMMA StopPollsKeeps ==
    ASSUME IInv, NEW c \in Clients, StopPolls(c)
    PROVE  IInv'
<1> USE HomeAssumption, DistinctAssumption
<1>a. /\ pc' \in [Clients -> Critical \cup Outside]
      /\ call' \in [Clients -> Calls]
      /\ \A d \in Clients \ {c} : pc'[d] = pc[d] /\ call'[d] = call[d]
      /\ pc'[c] # "idle" => call' = call
      /\ pc'[c] \in {"restart.sleep", "stopall.next", "idle"}
    BY AfterStopType DEF IInv, StopPolls, StopRemoves
<1>1. TypeOK'
    BY <1>a DEF IInv, TypeOK, LocalsInv, StopPolls, StopRemoves,
       WithEntry, Removed, Unlock
<1>2. MutexInv'
    BY DEF IInv, TypeOK, MutexInv, Critical, HasEntry, EntryOf, StopPolls,
       StopRemoves, WithEntry, Removed, Unlock, AfterStop, Goto, Return
<1>3. LocalsInv'
    BY DEF IInv, TypeOK, LocalsInv, MutexInv, Critical, HasEntry, EntryOf,
       StopPolls, StopRemoves, WithEntry, Removed, Unlock, AfterStop,
       Goto, Return
<1>4. MonitorInv'
    BY DEF IInv, MonitorInv, StopPolls, StopRemoves, WithEntry, Removed,
       Unlock, AfterStop, Goto, Return
<1>5. StartedEntriesAreWatched'
    BY DEF IInv, StartedEntriesAreWatched, HasEntry, EntryOf, StopPolls,
       StopRemoves, WithEntry, Removed, Unlock, AfterStop, Goto, Return
<1> QED BY <1>1, <1>2, <1>3, <1>4, <1>5 DEF IInv

\* Stop under a cancelled context (manager.go:202-215) keeps the invariant.
LEMMA StopCancelledKeeps ==
    ASSUME IInv, NEW c \in Clients, StopCancelled(c)
    PROVE  IInv'
<1> USE HomeAssumption, DistinctAssumption
<1>1. TypeOK'
    BY DEF IInv, TypeOK, LocalsInv, Critical, Outside, Calls, Quiet,
       StopCancelled, WithEntry, Removed, Unlock, Return, Killed
<1>2. MutexInv'
    BY DEF IInv, TypeOK, MutexInv, Critical, HasEntry, EntryOf,
       StopCancelled, WithEntry, Removed, Unlock, Return, Killed
<1>3. LocalsInv'
    BY DEF IInv, TypeOK, LocalsInv, MutexInv, Critical, HasEntry, EntryOf,
       StopCancelled, WithEntry, Removed, Unlock, Return, Killed
<1>4. MonitorInv'
    BY DEF IInv, MonitorInv, StopCancelled, WithEntry, Removed, Unlock,
       Return, Killed
<1>5. StartedEntriesAreWatched'
    BY DEF IInv, StartedEntriesAreWatched, HasEntry, EntryOf,
       StopCancelled, WithEntry, Removed, Unlock, Return, Killed
<1> QED BY <1>1, <1>2, <1>3, <1>4, <1>5 DEF IInv

\* Stop's time-out (manager.go:216-229) keeps the invariant.
LEMMA StopTimesOutKeeps ==
    ASSUME IInv, NEW c \in Clients, StopTimesOut(c)
    PROVE  IInv'
<1> USE HomeAssumption, DistinctAssumption
<1>a. /\ pc' \in [Clients -> Critical \cup Outside]
      /\ call' \in [Clients -> Calls]
      /\ \A d \in Clients \ {c} : pc'[d] = pc[d] /\ call'[d] = call[d]
      /\ pc'[c] # "idle" => call' = call
      /\ pc'[c] \in {"restart.sleep", "stopall.next", "idle"}
    BY AfterStopType DEF IInv, StopTimesOut, StopRemoves
<1>b. /\ pc[c] = "stop.wait" /\ call[c].name \in Names /\ Home[c] \in Managers
      /\ mu' = [mu EXCEPT ![Home[c]] = Free]
      /\ processes' \in {processes,
             [processes EXCEPT ![Home[c]][call[c].name] = NoEntry]}
      /\ pidFile' \in {pidFile, [pidFile EXCEPT ![call[c].name] = NoFile]}
      /\ life' = Killed(call[c].target)
      /\ UNCHANGED <<up, svc, parent, mon>>
    BY DEF IInv, LocalsInv, StopTimesOut, StopRemoves, WithEntry, Removed,
       Unlock
<1>c. /\ life' \in [Pids -> {"unborn", "alive", "zombie", "gone"}]
      /\ \A p \in Pids : life'[p] = "unborn" <=> life[p] = "unborn"
    BY <1>b DEF IInv, TypeOK, Killed
<1>d. processes' \in [Managers -> [Names -> Entry \cup {NoEntry}]]
    <2>1. [processes[Home[c]] EXCEPT ![call[c].name] = NoEntry] \in [Names -> Entry \cup {NoEntry}]
      BY <1>b DEF IInv, TypeOK
    <2> QED BY <1>b, <2>1 DEF IInv, TypeOK
<1>e. \A m \in Managers, n \in Names :
         EntryOf(m, n)' # NoEntry => EntryOf(m, n)' = EntryOf(m, n)
    BY <1>b DEF IInv, TypeOK, EntryOf
<1>f. \A d \in Clients : pc[d] = "stop.wait" /\ d # c => Home[d] # Home[c]
    BY <1>b DEF IInv, TypeOK, MutexInv, Critical
<1>1. TypeOK'
    BY <1>a, <1>b, <1>c, <1>d DEF IInv, TypeOK
<1>2. MutexInv'
    BY <1>a, <1>b, <1>e DEF IInv, TypeOK, MutexInv, Critical, HasEntry
<1>3. LocalsInv'
    BY <1>a, <1>b, <1>c, <1>f DEF IInv, TypeOK, LocalsInv, HasEntry, EntryOf
<1>4. MonitorInv'
    BY DEF IInv, MonitorInv, StopTimesOut, StopRemoves, WithEntry,
       Removed, Unlock, AfterStop, Goto, Return, Killed
<1>5. StartedEntriesAreWatched'
    BY <1>b, <1>e DEF IInv, TypeOK, StartedEntriesAreWatched, HasEntry
<1> QED BY <1>1, <1>2, <1>3, <1>4, <1>5 DEF IInv

\* Restart's read of the entry (manager.go:306-325) keeps the invariant.
LEMMA RestartReadsKeeps ==
    ASSUME IInv, NEW c \in Clients, RestartReads(c)
    PROVE  IInv'
<1> USE HomeAssumption, DistinctAssumption
<1>a. [call EXCEPT ![c] = Quiet] \in [Clients -> Calls]
    BY CallUpdates DEF IInv, TypeOK
<1>1. TypeOK'
    BY <1>a DEF IInv, TypeOK, Critical, Outside, RestartReads, Goto, Return
<1>2. MutexInv'
    BY DEF IInv, TypeOK, MutexInv, Critical, HasEntry, EntryOf,
       RestartReads, Goto, Return
<1>3. LocalsInv'
    BY DEF IInv, TypeOK, LocalsInv, HasEntry, EntryOf, RestartReads, Goto,
       Return
<1>4. MonitorInv'
    BY DEF IInv, MonitorInv, RestartReads, Goto, Return
<1>5. StartedEntriesAreWatched'
    BY DEF IInv, StartedEntriesAreWatched, HasEntry, EntryOf,
       RestartReads, Goto, Return
<1> QED BY <1>1, <1>2, <1>3, <1>4, <1>5 DEF IInv

\* The end of Restart's sleep (manager.go:333) keeps the invariant.
LEMMA RestartWakesKeeps ==
    ASSUME IInv, NEW c \in Clients, RestartWakes(c)
    PROVE  IInv'
<1> USE HomeAssumption, DistinctAssumption
<1>1. TypeOK'
    BY DEF IInv, TypeOK, Critical, Outside, RestartWakes, Goto
<1>2. MutexInv'
    BY DEF IInv, TypeOK, MutexInv, Critical, HasEntry, EntryOf,
       RestartWakes, Goto
<1>3. LocalsInv'
    BY DEF IInv, TypeOK, LocalsInv, HasEntry, EntryOf, RestartWakes, Goto
<1>4. MonitorInv'
    BY DEF IInv, MonitorInv, RestartWakes, Goto
<1>5. StartedEntriesAreWatched'
    BY DEF IInv, StartedEntriesAreWatched, HasEntry, EntryOf,
       RestartWakes, Goto
<1> QED BY <1>1, <1>2, <1>3, <1>4, <1>5 DEF IInv

\* StopAll's lock and directory read (manager.go:248-251) keep the invariant.
LEMMA StopAllScansKeeps ==
    ASSUME IInv, NEW c \in Clients, StopAllScans(c)
    PROVE  IInv'
<1> USE HomeAssumption, DistinctAssumption
<1>a. [call EXCEPT ![c].todo = Files] \in [Clients -> Calls]
    BY CallUpdates DEF IInv, TypeOK, Files
<1>b. /\ pc' = [pc EXCEPT ![c] = "load"] /\ pc[c] = "stopall.lock"
      /\ mu[Home[c]] = Free /\ mu' = [mu EXCEPT ![Home[c]] = c]
      /\ UNCHANGED <<up, processes>> /\ Home[c] \in Managers
    BY DEF StopAllScans, ScanDir, Lock, Goto
<1>1. TypeOK'
    BY <1>a, <1>b DEF IInv, TypeOK, Critical, Outside, StopAllScans, ScanDir
<1>2. MutexInv'
    BY <1>b DEF IInv, TypeOK, MutexInv, Critical, Outside, EntryOf, HasEntry
<1>3. LocalsInv'
    BY DEF IInv, TypeOK, LocalsInv, HasEntry, EntryOf, StopAllScans,
       ScanDir, Lock, Goto, Files
<1>4. MonitorInv'
    BY DEF IInv, MonitorInv, StopAllScans, ScanDir, Lock, Goto, Files
<1>5. StartedEntriesAreWatched'
    BY DEF IInv, StartedEntriesAreWatched, HasEntry, EntryOf,
       StopAllScans, ScanDir, Lock, Goto, Files
<1> QED BY <1>1, <1>2, <1>3, <1>4, <1>5 DEF IInv

\* ReloadPIDs' lock and directory read (manager.go:436-439, 537) keep the invariant.
LEMMA ReloadScansKeeps ==
    ASSUME IInv, NEW c \in Clients, ReloadScans(c)
    PROVE  IInv'
<1> USE HomeAssumption, DistinctAssumption
<1>a. [call EXCEPT ![c].todo = Files] \in [Clients -> Calls]
    BY CallUpdates DEF IInv, TypeOK, Files
<1>b. /\ pc' = [pc EXCEPT ![c] = "load"] /\ pc[c] = "reload.lock"
      /\ mu[Home[c]] = Free /\ mu' = [mu EXCEPT ![Home[c]] = c]
      /\ UNCHANGED <<up, processes>> /\ Home[c] \in Managers
    BY DEF ReloadScans, ScanDir, Lock, Goto
<1>1. TypeOK'
    BY <1>a, <1>b DEF IInv, TypeOK, Critical, Outside, ReloadScans, ScanDir
<1>2. MutexInv'
    BY <1>b DEF IInv, TypeOK, MutexInv, Critical, Outside, EntryOf, HasEntry
<1>3. LocalsInv'
    BY DEF IInv, TypeOK, LocalsInv, HasEntry, EntryOf, ReloadScans,
       ScanDir, Lock, Goto, Files
<1>4. MonitorInv'
    BY DEF IInv, MonitorInv, ReloadScans, ScanDir, Lock, Goto, Files
<1>5. StartedEntriesAreWatched'
    BY DEF IInv, StartedEntriesAreWatched, HasEntry, EntryOf, ReloadScans,
       ScanDir, Lock, Goto, Files
<1> QED BY <1>1, <1>2, <1>3, <1>4, <1>5 DEF IInv

\* One file of a directory scan (manager.go:253-265, 542-568, 572-621) keeps the
\* invariant: at most one place of the table changes, to an entry without command.
LEMMA LoadFileKeeps ==
    ASSUME IInv, NEW c \in Clients, NEW n \in Names, LoadFile(c, n)
    PROVE  IInv'
<1> USE HomeAssumption, DistinctAssumption
<1>a. /\ pc[c] = "load" /\ Home[c] \in Managers
      /\ up[Home[c]] /\ mu[Home[c]] = c
      /\ UNCHANGED <<up, mu, pidFile, life, svc, parent, mon>>
    BY DEF IInv, MutexInv, Critical, LoadFile
<1>b. LoadPID(c, n) \/ Verify(c, n) \/ Skip(c, n)
    BY DEF LoadFile
<1>c. \/ UNCHANGED pc
      \/ pc' = [pc EXCEPT ![c] = "load"]
      \/ pc' = [pc EXCEPT ![c] = "load.rm"] /\ call' = [call EXCEPT ![c].todo = @ \ {n}, ![c].name = n]
    BY <1>b DEF LoadPID, Verify, Skip, Goto
<1>d. \/ call' = [call EXCEPT ![c].todo = @ \ {n}]
      \/ call' = [call EXCEPT ![c].todo = @ \ {n}, ![c].name = n]
    BY <1>b DEF LoadPID, Verify, Skip
<1>e. /\ call' \in [Clients -> Calls]
      /\ \A d \in Clients \ {c} : call'[d] = call[d]
      /\ pc'[c] = "load.rm" => call'[c].name = n
    <2>1. call[c].todo \ {n} \in SUBSET Names
      BY DEF IInv, TypeOK, Calls
    <2>2. call' \in [Clients -> Calls]
      <3>1. [call EXCEPT ![c].todo = call[c].todo \ {n}] \in [Clients -> Calls]
        BY <2>1, CallUpdates DEF IInv, TypeOK
      <3>2. [call EXCEPT ![c].todo = call[c].todo \ {n}, ![c].name = n] \in [Clients -> Calls]
        BY <2>1, CallUpdates DEF IInv, TypeOK
      <3> QED BY <1>d, <3>1, <3>2
    <2>3. pc'[c] = "load.rm" => call'[c].name = n
      BY <1>a, <1>c DEF IInv, TypeOK, Calls
    <2> QED BY <1>d, <2>2, <2>3 DEF IInv, TypeOK
<1>f. PICK e \in Entry \cup {NoEntry} :
          /\ processes' = [processes EXCEPT ![Home[c]][n] = e]
          /\ e = EntryOf(Home[c], n) \/ e = NoEntry \/ ~e.cmd
    <2>1. CASE UNCHANGED processes
      <3>1. /\ EntryOf(Home[c], n) \in Entry \cup {NoEntry}
            /\ processes = [processes EXCEPT ![Home[c]][n] = EntryOf(Home[c], n)]
        BY <1>a DEF IInv, TypeOK, EntryOf
      <3> QED BY <2>1, <3>1
    <2>2. CASE processes' = WithEntry(Home[c], n, NoEntry)
      BY <2>2 DEF WithEntry
    <2>3. CASE /\ pidFile[n] \in Pids
               /\ processes' = WithEntry(Home[c], n, Loaded(pidFile[n]))
      <3>1. Loaded(pidFile[n]) \in Entry /\ ~Loaded(pidFile[n]).cmd
        BY <2>3 DEF Loaded, Entry
      <3> QED BY <2>3, <3>1 DEF WithEntry
    <2> QED BY <1>b, <2>1, <2>2, <2>3 DEF LoadPID, Verify, Skip
<1>g. \A d \in Clients \ {c} : pc'[d] = pc[d] /\ (pc[d] \in Critical => Home[d] # Home[c])
    BY <1>a, <1>c DEF IInv, TypeOK, MutexInv
<1>h. pc' \in [Clients -> Critical \cup Outside] /\ pc'[c] \in {"load", "load.rm"}
    BY <1>a, <1>c DEF IInv, TypeOK, Critical
<1>i. processes' \in [Managers -> [Names -> Entry \cup {NoEntry}]]
    <2>1. processes[Home[c]] \in [Names -> Entry \cup {NoEntry}]
      BY <1>a DEF IInv, TypeOK
    <2>2. [processes[Home[c]] EXCEPT ![n] = e] \in [Names -> Entry \cup {NoEntry}]
      BY <2>1
    <2> QED BY <1>a, <1>f, <2>2 DEF IInv, TypeOK
<1>j. \A m \in Managers, k \in Names :
          EntryOf(m, k)' # EntryOf(m, k) => /\ m = Home[c] /\ k = n
                                           /\ EntryOf(m, k)' = e
    BY <1>a, <1>f DEF IInv, TypeOK, EntryOf
<1>1. TypeOK'
    BY <1>a, <1>e, <1>h, <1>i DEF IInv, TypeOK
<1>2. MutexInv'
    BY <1>a, <1>g, <1>h, <1>j DEF IInv, MutexInv, HasEntry, Critical
<1>3. LocalsInv'
    BY <1>a, <1>e, <1>g, <1>h, <1>j DEF IInv, TypeOK, LocalsInv, HasEntry,
       Critical
<1>4. MonitorInv'
    BY <1>a DEF IInv, MonitorInv
<1>5. StartedEntriesAreWatched'
    BY <1>a, <1>f, <1>j DEF IInv, StartedEntriesAreWatched, HasEntry
<1> QED BY <1>1, <1>2, <1>3, <1>4, <1>5 DEF IInv

\* The removal of a stale PID file (manager.go:558, 590, 602, 609) keeps the invariant.
LEMMA LoadRemovesKeeps ==
    ASSUME IInv, NEW c \in Clients, LoadRemoves(c)
    PROVE  IInv'
<1> USE HomeAssumption, DistinctAssumption
<1>1. TypeOK'
    BY DEF IInv, TypeOK, Critical, Outside, LoadRemoves, Removed, Goto
<1>2. MutexInv'
    BY DEF IInv, TypeOK, MutexInv, Critical, HasEntry, EntryOf,
       LoadRemoves, Removed, Goto
<1>3. LocalsInv'
    BY DEF IInv, TypeOK, LocalsInv, HasEntry, EntryOf, LoadRemoves,
       Removed, Goto
<1>4. MonitorInv'
    BY DEF IInv, MonitorInv, LoadRemoves, Removed, Goto
<1>5. StartedEntriesAreWatched'
    BY DEF IInv, StartedEntriesAreWatched, HasEntry, EntryOf, LoadRemoves,
       Removed, Goto
<1> QED BY <1>1, <1>2, <1>3, <1>4, <1>5 DEF IInv

\* The return of ReloadPIDs and NewManager keeps the invariant.
LEMMA ReloadEndsKeeps ==
    ASSUME IInv, NEW c \in Clients, ReloadEnds(c)
    PROVE  IInv'
<1> USE HomeAssumption, DistinctAssumption
<1>1. TypeOK'
    BY DEF IInv, TypeOK, LocalsInv, Critical, Outside, Calls, Quiet,
       ReloadEnds, Unlock, Return
<1>2. MutexInv'
    BY DEF IInv, TypeOK, MutexInv, Critical, HasEntry, EntryOf,
       ReloadEnds, Unlock, Return
<1>3. LocalsInv'
    BY DEF IInv, TypeOK, LocalsInv, HasEntry, EntryOf, ReloadEnds, Unlock,
       Return
<1>4. MonitorInv'
    BY DEF IInv, MonitorInv, ReloadEnds, Unlock, Return
<1>5. StartedEntriesAreWatched'
    BY DEF IInv, StartedEntriesAreWatched, HasEntry, EntryOf, ReloadEnds,
       Unlock, Return
<1> QED BY <1>1, <1>2, <1>3, <1>4, <1>5 DEF IInv

\* StopAll's collection of names (manager.go:267-273) keeps the invariant.
LEMMA StopAllCollectsKeeps ==
    ASSUME IInv, NEW c \in Clients, StopAllCollects(c)
    PROVE  IInv'
<1> USE HomeAssumption, DistinctAssumption
<1>a. call' \in [Clients -> Calls]
    <2>1. {n \in Names : HasEntry(Home[c], n)} \in SUBSET Names
      OBVIOUS
    <2> QED BY <2>1, CallUpdates DEF IInv, TypeOK, StopAllCollects
<1>1. TypeOK'
    BY <1>a DEF IInv, TypeOK, Critical, Outside, StopAllCollects, Unlock, Goto
<1>2. MutexInv'
    BY DEF IInv, TypeOK, MutexInv, Critical, HasEntry, EntryOf,
       StopAllCollects, Unlock, Goto
<1>3. LocalsInv'
    BY DEF IInv, TypeOK, LocalsInv, HasEntry, EntryOf, StopAllCollects,
       Unlock, Goto
<1>4. MonitorInv'
    BY DEF IInv, MonitorInv, StopAllCollects, Unlock, Goto
<1>5. StartedEntriesAreWatched'
    BY DEF IInv, StartedEntriesAreWatched, HasEntry, EntryOf,
       StopAllCollects, Unlock, Goto
<1> QED BY <1>1, <1>2, <1>3, <1>4, <1>5 DEF IInv

\* The loop of StopAll (manager.go:280-301) keeps the invariant.
LEMMA StopAllNextKeeps ==
    ASSUME IInv, NEW c \in Clients, StopAllNext(c)
    PROVE  IInv'
<1> USE HomeAssumption, DistinctAssumption
<1>a. /\ pc[c] = "stopall.next"
      /\ UNCHANGED <<up, processes, mu, pidFile, life, svc, parent, mon>>
    BY DEF StopAllNext
<1>b. \/ Return(c)
      \/ /\ pc' = [pc EXCEPT ![c] = "stop.lock"]
         /\ \E n \in Names : call' = [call EXCEPT ![c].name = n, ![c].todo = @ \ {n}]
    BY DEF IInv, TypeOK, Calls, StopAllNext, Goto
<1>c. call[c].todo \in SUBSET Names
    BY DEF IInv, TypeOK, Calls
<1>d. /\ call' \in [Clients -> Calls]
      /\ \A d \in Clients \ {c} : call'[d] = call[d]
      /\ pc'[c] = "stop.lock" => call'[c].name \in Names
    <2>1. CASE Return(c)
      BY <2>1, CallUpdates DEF IInv, TypeOK, Return
    <2>2. CASE \E n \in Names : call' = [call EXCEPT ![c].name = n, ![c].todo = @ \ {n}]
      <3>1. PICK n \in Names : call' = [call EXCEPT ![c].name = n, ![c].todo = @ \ {n}]
        BY <2>2
      <3>2. call[c].todo \ {n} \in SUBSET Names
        BY <1>c
      <3>3. call' \in [Clients -> Calls]
        BY <3>1, <3>2, CallUpdates DEF IInv, TypeOK
      <3>4. call'[c].name = n /\ \A d \in Clients \ {c} : call'[d] = call[d]
        BY <3>1 DEF IInv, TypeOK, Calls
      <3> QED BY <3>3, <3>4
    <2> QED BY <1>b, <2>1, <2>2
<1>e. /\ pc' \in [Clients -> Critical \cup Outside]
      /\ pc'[c] \in {"idle", "stop.lock"}
      /\ \A d \in Clients \ {c} : pc'[d] = pc[d]
    BY <1>b DEF IInv, TypeOK, Outside, Return
<1>1. TypeOK'
    BY <1>a, <1>d, <1>e DEF IInv, TypeOK
<1>2. MutexInv'
    BY <1>a, <1>e DEF IInv, MutexInv, Critical, HasEntry, EntryOf
<1>3. LocalsInv'
    BY <1>a, <1>d, <1>e DEF IInv, LocalsInv, HasEntry, EntryOf
<1>4. MonitorInv'
    BY DEF IInv, MonitorInv, StopAllNext, Goto, Return
<1>5. StartedEntriesAreWatched'
    BY DEF IInv, StartedEntriesAreWatched, HasEntry, EntryOf, StopAllNext,
       Goto, Return
<1> QED BY <1>1, <1>2, <1>3, <1>4, <1>5 DEF IInv

\* The monitor's Wait (manager.go:466) keeps the invariant.
LEMMA MonitorWaitsKeeps ==
    ASSUME IInv, NEW p \in Pids, MonitorWaits(p)
    PROVE  IInv'
<1> USE HomeAssumption, DistinctAssumption
<1>1. TypeOK'
    BY DEF IInv, TypeOK, Critical, Outside, MonitorWaits
<1>2. MutexInv'
    BY DEF IInv, TypeOK, MutexInv, Critical, HasEntry, EntryOf, MonitorWaits
<1>3. LocalsInv'
    BY DEF IInv, TypeOK, LocalsInv, HasEntry, EntryOf, MonitorWaits
<1>4. MonitorInv'
    BY DEF IInv, TypeOK, MonitorInv, MonitorWaits
<1>5. StartedEntriesAreWatched'
    BY DEF IInv, StartedEntriesAreWatched, HasEntry, EntryOf, MonitorWaits
<1> QED BY <1>1, <1>2, <1>3, <1>4, <1>5 DEF IInv

\* The monitor's deletion by name (manager.go:468-470) keeps the invariant: an
\* entry that is still there afterwards is for a process of another name or manager.
LEMMA MonitorDeletesKeeps ==
    ASSUME IInv, NEW p \in Pids, MonitorDeletes(p)
    PROVE  IInv'
<1> USE HomeAssumption, DistinctAssumption
<1>1. TypeOK'
    BY DEF IInv, TypeOK, Critical, Outside, MonitorDeletes, WithEntry
<1>2. MutexInv'
    BY DEF IInv, TypeOK, MutexInv, Critical, HasEntry, EntryOf,
       MonitorDeletes, WithEntry
<1>3. LocalsInv'
    BY DEF IInv, TypeOK, LocalsInv, MutexInv, Critical, HasEntry, EntryOf,
       MonitorDeletes, WithEntry
<1>4. MonitorInv'
    BY DEF IInv, MonitorInv, MonitorDeletes, WithEntry
<1>5. StartedEntriesAreWatched'
    BY DEF IInv, TypeOK, StartedEntriesAreWatched, HasEntry, EntryOf,
       MonitorDeletes, WithEntry
<1> QED BY <1>1, <1>2, <1>3, <1>4, <1>5 DEF IInv

\* The monitor's removal of the PID file (manager.go:473) keeps the invariant.
LEMMA MonitorRemovesKeeps ==
    ASSUME IInv, NEW p \in Pids, MonitorRemoves(p)
    PROVE  IInv'
<1> USE HomeAssumption, DistinctAssumption
<1>1. TypeOK'
    BY DEF IInv, TypeOK, Critical, Outside, MonitorRemoves, Removed
<1>2. MutexInv'
    BY DEF IInv, TypeOK, MutexInv, Critical, HasEntry, EntryOf,
       MonitorRemoves, Removed
<1>3. LocalsInv'
    BY DEF IInv, TypeOK, LocalsInv, HasEntry, EntryOf, MonitorRemoves, Removed
<1>4. MonitorInv'
    BY DEF IInv, MonitorInv, MonitorRemoves, Removed
<1>5. StartedEntriesAreWatched'
    BY DEF IInv, StartedEntriesAreWatched, HasEntry, EntryOf,
       MonitorRemoves, Removed
<1> QED BY <1>1, <1>2, <1>3, <1>4, <1>5 DEF IInv

\* The exit of a service keeps the invariant.
LEMMA ServiceExitsKeeps ==
    ASSUME IInv, NEW p \in Pids, ServiceExits(p)
    PROVE  IInv'
<1> USE HomeAssumption, DistinctAssumption
<1>1. TypeOK'
    BY DEF IInv, TypeOK, Critical, Outside, ServiceExits, Killed
<1>2. MutexInv'
    BY DEF IInv, TypeOK, MutexInv, Critical, HasEntry, EntryOf,
       ServiceExits, Killed
<1>3. LocalsInv'
    BY DEF IInv, TypeOK, LocalsInv, HasEntry, EntryOf, ServiceExits, Killed
<1>4. MonitorInv'
    BY DEF IInv, MonitorInv, ServiceExits, Killed
<1>5. StartedEntriesAreWatched'
    BY DEF IInv, StartedEntriesAreWatched, HasEntry, EntryOf,
       ServiceExits, Killed
<1> QED BY <1>1, <1>2, <1>3, <1>4, <1>5 DEF IInv

\* NewManager's start (manager.go:65-77) keeps the invariant.
LEMMA BootKeeps ==
    ASSUME IInv, NEW c \in Clients, Boot(c)
    PROVE  IInv'
<1> USE HomeAssumption, DistinctAssumption
<1>a. /\ Home[c] \in Managers /\ ~up[Home[c]]
      /\ up' = [up EXCEPT ![Home[c]] = TRUE]
      /\ mu' = [mu EXCEPT ![Home[c]] = c]
      /\ pc' = [pc EXCEPT ![c] = "load"]
      /\ UNCHANGED processes
    BY DEF Boot, Goto
<1>b. \A d \in Clients : Home[d] = Home[c] => pc[d] = "idle"
    BY <1>a DEF IInv, MutexInv
<1>1. TypeOK'
    BY DEF IInv, TypeOK, LocalsInv, Critical, Outside, Calls, Quiet, Boot,
       Goto, Files
<1>2. MutexInv'
    BY <1>a, <1>b DEF IInv, TypeOK, MutexInv, Critical, HasEntry, EntryOf
<1>3. LocalsInv'
    BY DEF IInv, TypeOK, LocalsInv, HasEntry, EntryOf, Boot, Goto, Files
<1>4. MonitorInv'
    BY DEF IInv, MonitorInv, Boot, Goto, Files
<1>5. StartedEntriesAreWatched'
    BY DEF IInv, StartedEntriesAreWatched, HasEntry, EntryOf, Boot, Goto,
       Files
<1> QED BY <1>1, <1>2, <1>3, <1>4, <1>5 DEF IInv

\* The end of an xcli process keeps the invariant.
LEMMA ExitKeeps ==
    ASSUME IInv, NEW m \in Managers, Exit(m)
    PROVE  IInv'
<1> USE HomeAssumption, DistinctAssumption
<1>1. TypeOK'
    BY DEF IInv, TypeOK, LocalsInv, Critical, Outside, Calls, Quiet, Exit
<1>2. MutexInv'
    BY DEF IInv, TypeOK, MutexInv, Critical, HasEntry, EntryOf, Exit
<1>3. LocalsInv'
    BY DEF IInv, TypeOK, LocalsInv, HasEntry, EntryOf, Exit
<1>4. MonitorInv'
    BY DEF IInv, MonitorInv, Exit
<1>5. StartedEntriesAreWatched'
    BY DEF IInv, TypeOK, MutexInv, LocalsInv, MonitorInv,
       StartedEntriesAreWatched, Entry, EntryOf, HasEntry, Exit
<1> QED BY <1>1, <1>2, <1>3, <1>4, <1>5 DEF IInv

\* A call of the Manager interface keeps the invariant.
LEMMA CallsKeep ==
    ASSUME IInv, NEW c \in Clients,
           NEW op \in {"start", "stop", "restart", "stopall", "reload"},
           NEW n \in Names \cup {NoName},
           NEW label \in {"start.lock", "stop.lock", "restart.read",
                          "stopall.lock", "reload.lock"},
           label \in {"start.lock", "stop.lock", "restart.read"} => n \in Names,
           Begin(c, op, n, label)
    PROVE  IInv'
<1> USE HomeAssumption, DistinctAssumption
<1>1. /\ call' = [call EXCEPT ![c] = [Quiet EXCEPT !.op = op, !.name = n]]
      /\ pc' = [pc EXCEPT ![c] = label] /\ pc[c] = "idle" /\ up[Home[c]]
      /\ UNCHANGED <<up, processes, mu, pidFile, life, svc, parent, mon>>
    BY DEF Begin, Goto
<1>2. [Quiet EXCEPT !.op = op, !.name = n] \in Calls
    BY DEF Quiet, Calls
<1>3. /\ call' \in [Clients -> Calls]
      /\ call'[c].name = n
      /\ \A d \in Clients \ {c} : call'[d] = call[d]
    BY <1>1, <1>2 DEF IInv, TypeOK, Quiet
<1>4. TypeOK'
    BY <1>1, <1>3 DEF IInv, TypeOK, Outside
<1>5. MutexInv'
    BY <1>1 DEF IInv, TypeOK, MutexInv, Critical, HasEntry, EntryOf
<1>6. LocalsInv'
    BY <1>1, <1>3 DEF IInv, TypeOK, LocalsInv, HasEntry, EntryOf
<1>7. MonitorInv'
    BY <1>1 DEF IInv, MonitorInv
<1>8. StartedEntriesAreWatched'
    BY <1>1 DEF IInv, StartedEntriesAreWatched, HasEntry, EntryOf
<1> QED BY <1>4, <1>5, <1>6, <1>7, <1>8 DEF IInv

\* A step that changes nothing keeps the invariant.
LEMMA StutterKeeps ==
    ASSUME IInv, UNCHANGED vars
    PROVE  IInv'
BY DEF IInv, TypeOK, MutexInv, LocalsInv, MonitorInv,
   StartedEntriesAreWatched,
       HasEntry, EntryOf, vars

\* The initial state, with no xcli process running, satisfies the invariant.
LEMMA InitEstablishes == Init => IInv
<1> SUFFICES ASSUME Init PROVE IInv
  OBVIOUS
<1> USE HomeAssumption, DistinctAssumption
<1>1. TypeOK
  BY QuietIsACall DEF Init, TypeOK, Outside
<1>2. MutexInv /\ LocalsInv /\ MonitorInv /\ StartedEntriesAreWatched
  BY DEF Init, MutexInv, LocalsInv, MonitorInv, StartedEntriesAreWatched,
         Critical, HasEntry, EntryOf
<1> QED BY <1>1, <1>2 DEF IInv

\* Every step keeps the invariant.
LEMMA NextKeeps == IInv /\ [Next]_vars => IInv'
<1> SUFFICES ASSUME IInv, [Next]_vars PROVE IInv'
  OBVIOUS
<1>1. ASSUME NEW c \in Clients, Calling(c) PROVE IInv'
  <2>1. CASE CallStart(c)
    BY <2>1, CallsKeep DEF CallStart
  <2>2. CASE CallStop(c)
    BY <2>2, CallsKeep DEF CallStop
  <2>3. CASE CallRestart(c)
    BY <2>3, CallsKeep DEF CallRestart
  <2>4. CASE CallStopAll(c)
    BY <2>4, CallsKeep DEF CallStopAll
  <2>5. CASE CallReload(c)
    BY <2>5, CallsKeep DEF CallReload
  <2>6. CASE StopCancelled(c)
    BY <2>6, StopCancelledKeeps
  <2> QED BY <1>1, <2>1, <2>2, <2>3, <2>4, <2>5, <2>6 DEF Calling
<1>2. ASSUME NEW c \in Clients, Locking(c) PROVE IInv'
  BY <1>2, StartFailsKeeps, StartSpawnsKeeps, StopNothingKeeps,
     StopSignalFailsKeeps, StopSignalsKeeps, RestartReadsKeeps,
     StopAllScansKeeps, ReloadScansKeeps DEF Locking
<1>3. ASSUME NEW c \in Clients, Working(c) PROVE IInv'
  BY <1>3, SaveTruncatesKeeps, SaveWritesKeeps, StopPollsKeeps,
     StopTimesOutKeeps, RestartWakesKeeps, LoadFileKeeps, LoadRemovesKeeps,
     ReloadEndsKeeps, StopAllCollectsKeeps, StopAllNextKeeps DEF Working
<1>4. ASSUME NEW p \in Pids, Monitor(p) \/ ServiceExits(p) PROVE IInv'
  BY <1>4, MonitorWaitsKeeps, MonitorDeletesKeeps, MonitorRemovesKeeps,
     ServiceExitsKeeps DEF Monitor
<1> QED BY <1>1, <1>2, <1>3, <1>4, BootKeeps, ExitKeeps, StutterKeeps DEF Next

\* The inductive invariant holds in every reachable state.
THEOREM Invariance == Spec => []IInv
BY InitEstablishes, NextKeeps, PTL DEF Spec

\* The types of the model, for every value of its constants.
THEOREM TypeCorrect == Spec => []TypeOK
<1>1. IInv => TypeOK
  BY DEF IInv
<1> QED BY <1>1, Invariance, PTL

\* No entry of a started process is ever left without a goroutine that will
\* delete it, however many managers, goroutines and services there are.
THEOREM WatchedEntries == Spec => []StartedEntriesAreWatched
<1>1. IInv => StartedEntriesAreWatched
  BY DEF IInv
<1> QED BY <1>1, Invariance, PTL

\* The step of LiveEntriesAreOnlyLostToMonitors.
LosesOnlyToMonitors ==
    \A m \in Managers, n \in Names :
        LET e == EntryOf(m, n) IN
        e # NoEntry /\ life[e.pid] = "alive" /\ EntryOf(m, n)' # e =>
          \/ life'[e.pid] # "alive"
          \/ ~up'[m]
          \/ \E q \in Pids \ {e.pid} :
                /\ mon[q] = "lock" /\ mon'[q] = "remove"
                /\ svc[q] = n /\ parent[q] = m

\* A step that writes at most one place of the table, where no live process
\* is entered or the process there is not alive afterwards, loses nothing.
LEMMA WritesOnePlace ==
    ASSUME IInv, NEW m \in Managers, NEW n \in Names, NEW e,
           processes' = processes \/ processes' = WithEntry(m, n, e),
           EntryRuns(m, n) => \/ life'[EntryOf(m, n).pid] # "alive"
                              \/ processes' = processes
    PROVE  LosesOnlyToMonitors
<1>1. ASSUME NEW k \in Managers, NEW l \in Names, EntryOf(k, l)' # EntryOf(k, l)
      PROVE  k = m /\ l = n /\ processes' # processes
  BY <1>1 DEF IInv, TypeOK, EntryOf, WithEntry
<1> QED BY <1>1 DEF LosesOnlyToMonitors, EntryRuns, IsRunning, HasEntry

\* Every step of a state that satisfies the invariant loses live entries only
\* to monitors: the argument for Stop is that the mutex it keeps through its wait
\* (manager.go:163-165) pins the entry it is going to delete.
LEMMA NextLosesOnlyToMonitors == IInv /\ [Next]_vars => LosesOnlyToMonitors
<1> SUFFICES ASSUME IInv, [Next]_vars PROVE LosesOnlyToMonitors
  OBVIOUS
<1> USE HomeAssumption, DistinctAssumption
<1>0. CASE UNCHANGED processes
  BY <1>0 DEF LosesOnlyToMonitors, EntryOf
<1>1. ASSUME NEW c \in Clients, StartFails(c) PROVE LosesOnlyToMonitors
  <2>1. call[c].name \in Names /\ Home[c] \in Managers
    BY <1>1 DEF IInv, LocalsInv, StartFails
  <2> QED BY <1>1, <2>1, WritesOnePlace DEF StartFails
<1>2. ASSUME NEW c \in Clients, NEW p \in Pids, StartSpawns(c, p)
      PROVE LosesOnlyToMonitors
  <2>1. call[c].name \in Names /\ Home[c] \in Managers
    BY <1>2 DEF IInv, LocalsInv, StartSpawns
  <2> QED BY <1>2, <2>1, WritesOnePlace DEF StartSpawns
<1>3. ASSUME NEW c \in Clients, StopPolls(c) PROVE LosesOnlyToMonitors
  <2>1. /\ call[c].name \in Names /\ Home[c] \in Managers
        /\ EntryOf(Home[c], call[c].name).pid = call[c].target
    BY <1>3 DEF IInv, LocalsInv, StopPolls
  <2> QED BY <1>3, <2>1, WritesOnePlace DEF StopPolls, StopRemoves, EntryRuns
<1>4. ASSUME NEW c \in Clients, StopCancelled(c) \/ StopTimesOut(c)
      PROVE LosesOnlyToMonitors
  <2>1. /\ call[c].name \in Names /\ Home[c] \in Managers
        /\ EntryOf(Home[c], call[c].name).pid = call[c].target
    BY <1>4 DEF IInv, LocalsInv, StopCancelled, StopTimesOut
  <2>2. life' = Killed(call[c].target)
    BY <1>4 DEF StopCancelled, StopTimesOut
  <2>3. EntryRuns(Home[c], call[c].name) => call[c].target \in Pids
    BY <2>1 DEF IInv, TypeOK, EntryRuns, HasEntry, EntryOf, Entry
  <2>4. EntryRuns(Home[c], call[c].name) => life'[call[c].target] # "alive"
    BY <2>2, <2>3 DEF IInv, TypeOK, Killed
  <2>5. \/ processes' = processes
        \/ processes' = WithEntry(Home[c], call[c].name, NoEntry)
    BY <1>4 DEF StopCancelled, StopTimesOut, StopRemoves
  <2> QED BY <2>1, <2>4, <2>5, WritesOnePlace
<1>5. ASSUME NEW c \in Clients, NEW n \in Names, LoadFile(c, n)
      PROVE LosesOnlyToMonitors
  <2>1. EntryRuns(Home[c], n) => processes' = processes
    BY <1>5 DEF LoadFile, Verify, Skip, EntryRuns
  <2>2. \/ processes' = processes
        \/ processes' = WithEntry(Home[c], n, NoEntry)
        \/ processes' = WithEntry(Home[c], n, Loaded(pidFile[n]))
    BY <1>5 DEF LoadFile, LoadPID, Verify, Skip
  <2> QED BY <2>1, <2>2, WritesOnePlace
<1>6. ASSUME NEW q \in Pids, MonitorDeletes(q) PROVE LosesOnlyToMonitors
  <2>1. /\ life[q] = "gone" /\ svc[q] \in Names /\ parent[q] \in Managers
        /\ mon[q] = "lock" /\ mon'[q] = "remove"
    BY <1>6 DEF IInv, TypeOK, MonitorInv, MonitorDeletes
  <2>2. ASSUME NEW m \in Managers, NEW n \in Names, EntryOf(m, n)' # EntryOf(m, n)
        PROVE  m = parent[q] /\ n = svc[q]
    BY <1>6, <2>1, <2>2 DEF IInv, TypeOK, MonitorDeletes, WithEntry, EntryOf
  <2> QED BY <2>1, <2>2 DEF LosesOnlyToMonitors
<1>7. ASSUME NEW m \in Managers, Exit(m) PROVE LosesOnlyToMonitors
  <2>1. ~up'[m] /\ \A k \in Managers \ {m} : processes'[k] = processes[k]
    BY <1>7 DEF IInv, TypeOK, Exit
  <2> QED BY <2>1 DEF LosesOnlyToMonitors, EntryOf
<1>8. ASSUME NEW c \in Clients, Calling(c) PROVE LosesOnlyToMonitors
  BY <1>8, <1>0, <1>4 DEF Calling, CallStart, CallStop, CallRestart,
     CallStopAll, CallReload, Begin
<1>9. ASSUME NEW c \in Clients, Locking(c) PROVE LosesOnlyToMonitors
  BY <1>9, <1>0, <1>1, <1>2 DEF Locking, StopNothing, StopSignalFails,
     StopSignals, RestartReads, StopAllScans, ReloadScans, ScanDir
<1>10. ASSUME NEW c \in Clients, Working(c) PROVE LosesOnlyToMonitors
  BY <1>10, <1>0, <1>3, <1>4, <1>5 DEF Working, SaveTruncates, SaveWrites,
     RestartWakes, LoadRemoves, ReloadEnds, StopAllCollects, StopAllNext
<1>11. ASSUME NEW p \in Pids, Monitor(p) \/ ServiceExits(p)
       PROVE LosesOnlyToMonitors
  BY <1>11, <1>0, <1>6 DEF Monitor, MonitorWaits, MonitorRemoves, ServiceExits
<1>12. ASSUME NEW c \in Clients, Boot(c) PROVE LosesOnlyToMonitors
  BY <1>12, <1>0 DEF Boot
<1> QED BY <1>0, <1>7, <1>8, <1>9, <1>10, <1>11, <1>12 DEF Next, vars

\* No operation of the manager forgets a live service: only the monitor of
\* an earlier process of the same name can, for every value of the constants.
THEOREM LiveEntriesKept == Spec => LiveEntriesAreOnlyLostToMonitors
<1>1. IInv /\ [Next]_vars => [LosesOnlyToMonitors]_vars
  BY NextLosesOnlyToMonitors
<1>2. Spec => [][LosesOnlyToMonitors]_vars
  BY <1>1, Invariance, PTL DEF Spec
<1> QED BY <1>2 DEF LiveEntriesAreOnlyLostToMonitors, LosesOnlyToMonitors
=============================================================================
