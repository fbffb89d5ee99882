------------------------------ MODULE LabRebuild ------------------------------
(***************************************************************************)
(* The commands that work on single services of a lab: xcli lab rebuild    *)
(* <project> (stack/lab.go) with the builder (builder/manager.go) and the  *)
(* orchestrator's RestartAllServices, and xcli lab start, stop and restart *)
(* <service>.                                                              *)
(*                                                                         *)
(* What a build, a generated file or a process is made from is its edition *)
(* of the source it came from; the user edits sources and configuration at *)
(* any time, steps fail, and services exit on their own.  One command runs *)
(* at a time (ProcessManager has several of them on one process table).    *)
(***************************************************************************)
EXTENDS Lab

CONSTANT Neighbour   \* the cbt-api of another lab instance

ASSUME NoneAssumption ==
    /\ None \notin Nat /\ Neighbour \notin Nat
    /\ None \notin [binary : Nat \cup {None}, config : Nat \cup {None}]

\* All the networks are enabled here.
Enabled == ToSet(Networks)

Cbt(n) == <<"cbt", n>>
Api(n) == <<"cbt-api", n>>
Backend == <<"lab-backend", "lab">>
Frontend == <<"lab-frontend", "lab">>

Services == {Cbt(n) : n \in Enabled} \cup {Api(n) : n \in Enabled}
              \cup {Backend, Frontend}
FirstApi == Api(Networks[1])

CbtServices == [i \in DOMAIN Networks |-> Cbt(Networks[i])]
ApiServices == [i \in DOMAIN Networks |-> Api(Networks[i])]

\* What RestartAllServices stops and then starts, in this order.
RestartList == CbtServices \o ApiServices \o <<Backend>>

Repos == {"xatu-cbt", "cbt", "cbt-api", "lab-backend"}
Sources == Repos \cup {"config"}
Projects == {"all", "cbt", "cbt-api", "lab-backend", "lab-frontend"}
Single == {"start", "stop", "restart"}

Edition == 0 .. MaxEdits

VARIABLES
    source,    \* the edition of every repository, and of .xcli.yaml
    binary,    \* of every repository: the edition bin/ was built from
    apiConfig, \* the edition of the config file cbt-api's code was generated with
    file,      \* of every service with a config file: its edition
    types,     \* the cbt-api the API types of the front end were generated from
    run,       \* of every service: the process that runs
    table,     \* the command's process table
    command,   \* the command that runs, and how far it is
    begun,     \* auxiliary: the sources when the command began
    kept,      \* auxiliary: what ran then and has not ended by itself since
    slotZero   \* the instance has the ports of slot 0

vars == <<source, binary, apiConfig, file, types, run, table, command, begun,
          kept, slotZero>>
made == <<binary, apiConfig, file, types>>

Configured == Services \ {Frontend}

Steps == {"protos", "xatu-cbt", "cbt-api", "cbt", "lab-backend", "configs",
          "check", "stop all", "start all", "wait", "types", "build", "stop",
          "start", "over"}

Failures == {"protos", "xatu-cbt", "cbt-api", "other"}

Process == [binary : Edition \cup {None}, config : Edition \cup {None}]

TypeOK ==
    /\ source \in [Sources -> Edition]
    /\ binary \in [Repos -> Edition]
    /\ apiConfig \in Edition \cup {None}
    /\ file \in [Configured -> Edition]
    /\ types \in Edition \cup {None, Neighbour}
    /\ run \in [Services -> Process \cup {None}]
    /\ table \subseteq Services
    /\ command.kind \in Projects \cup Single /\ command.step \in Steps
    /\ command.todo \in Seq(Services) /\ command.failures \subseteq Failures
    /\ begun \in [Sources -> Edition]
    /\ kept \subseteq Services
    /\ slotZero \in BOOLEAN

Up == {s \in Services : run[s] # None}

\* A lab that was booted: everything is built and up to date, some services
\* run.
Init ==
    /\ source = [r \in Sources |-> 0]
    /\ binary = [r \in Repos |-> 0]
    /\ apiConfig = 0
    /\ file = [s \in Configured |-> 0]
    /\ types = 0
    /\ \E up \in SUBSET Services :
          /\ run = [s \in Services |->
                       IF s \in up THEN [binary |-> 0, config |-> 0] ELSE None]
          /\ kept = up
    /\ begun = source
    /\ table = {}
    /\ command = [kind |-> "all", step |-> "over", todo |-> <<>>, failures |-> {}]
    /\ slotZero \in BOOLEAN

-------------------------------------------------------------------------------
(* The user, and the services themselves. *)

Edits == source["xatu-cbt"] + source["cbt"] + source["cbt-api"]
           + source["lab-backend"] + source["config"]

Edit(r) ==
    /\ Edits < MaxEdits
    /\ source' = [source EXCEPT ![r] = @ + 1]
    /\ UNCHANGED <<made, run, table, command, begun, kept, slotZero>>

Exit(s) ==
    /\ run[s] # None
    /\ run' = [run EXCEPT ![s] = None]
    /\ kept' = kept \ {s}
    /\ UNCHANGED <<source, made, table, command, begun, slotZero>>

FirstStep(kind) ==
    CASE kind = "all" -> "protos"
      [] kind \in Projects \ {"all"} -> "build"
      [] kind \in {"stop", "restart"} -> "stop"
      [] kind = "start" -> "start"

\* The services a project's rebuild restarts one by one.
ToRestart(kind) ==
    CASE kind = "all" -> RestartList
      [] kind = "cbt" -> CbtServices
      [] kind = "cbt-api" -> ApiServices
      [] kind = "lab-backend" -> <<Backend>>
      [] kind = "lab-frontend" -> <<Frontend>>

\* A command begins: a new process manager loads the PID files of the services
\* that are alive.  The service named by start, stop and restart is valid.
Begin(kind, todo) ==
    /\ command.step = "over"
    /\ command' = [kind |-> kind, step |-> FirstStep(kind), todo |-> todo,
                   failures |-> {}]
    /\ table' = Up
    /\ begun' = source
    /\ kept' = Up
    /\ UNCHANGED <<source, made, run, slotZero>>

Rebuild(kind) == Begin(kind, ToRestart(kind))
Service(kind, s) == Begin(kind, <<s>>)

-------------------------------------------------------------------------------
(* Parts of steps. *)

At(step) == command.step = step
Goto(step) == command' = [command EXCEPT !.step = step]
\* A result without success goes into the report; later steps ask for those of
\* the first three.
Fail(what, step) ==
    command' = [command EXCEPT !.step = step, !.failures = @ \cup {what}]
Failed(what) == what \in command.failures

\* make, go build or pnpm build the binary of r, or fail and leave what was
\* there.
Make(r, next, otherwise) ==
    \/ binary' = [binary EXCEPT ![r] = source[r]] /\ next
    \/ UNCHANGED binary /\ otherwise

\* The generated code of cbt-api is removed and generated again, with the config
\* file of the first network.
GenerateProtos(next, otherwise) ==
    \/ apiConfig' = file[FirstApi] /\ next
    \/ apiConfig' = None /\ otherwise

\* BuildCBTAPI: the code is generated, then the binary built.
MakeApi(next, otherwise) ==
    GenerateProtos(Make("cbt-api", next, otherwise), UNCHANGED binary /\ otherwise)

\* BuildLabFrontend: the API types come from the cbt-api that answers on the
\* port the configuration gives, without the instance's slot.
MakeTypes(next, otherwise) ==
    \/ /\ IF slotZero THEN run[FirstApi] # None /\ types' = run[FirstApi].binary
                      ELSE types' = Neighbour
       /\ next
    \/ UNCHANGED types /\ otherwise

\* proc.Stop, and the orphan cleanup of StopService: a service that is not in
\* the table is stopped already; one that has ended since it was loaded cannot
\* be signalled.
StopOk(s) == s \notin table \/ run[s] # None

StopProcess(s) ==
    /\ run' = IF s \in table THEN [run EXCEPT ![s] = None] ELSE run
    /\ table' = IF StopOk(s) THEN table \ {s} ELSE table

\* startCBTEngine and the others, and proc.Start: no live process of that name
\* may be in the table; the spawn itself can fail.
StartOk(s) == s \in table => run[s] = None

Spawned(s) ==
    IF s = Frontend THEN [binary |-> None, config |-> None]
    ELSE [binary |-> binary[s[1]], config |-> file[s]]

StartProcess(s) ==
    /\ StartOk(s)
    /\ run' = [run EXCEPT ![s] = Spawned(s)]
    /\ table' = table \cup {s}

Done == Tail(command.todo)
Advance(step) == command' = [command EXCEPT !.step = step, !.todo = Done]

-------------------------------------------------------------------------------
(* runFullRebuild: xcli lab rebuild all, and xatu-cbt. *)

\* The protos of xatu-cbt are removed and generated again, from the cluster the
\* mode calls for; nothing else of this state depends on them.
Protos ==
    /\ At("protos")
    /\ Goto("xatu-cbt") \/ Fail("protos", "xatu-cbt")
    /\ UNCHANGED <<source, made, run, table, begun, kept, slotZero>>

XatuCbt ==
    /\ At("xatu-cbt")
    /\ IF Failed("protos") THEN Fail("xatu-cbt", "cbt-api") /\ UNCHANGED binary
       ELSE Make("xatu-cbt", Goto("cbt-api"), Fail("xatu-cbt", "cbt-api"))
    /\ UNCHANGED <<source, apiConfig, file, types, run, table, begun, kept, slotZero>>

CbtApi ==
    /\ At("cbt-api")
    /\ IF Failed("xatu-cbt")
       THEN Fail("cbt-api", "cbt") /\ UNCHANGED <<binary, apiConfig>>
       ELSE MakeApi(Goto("cbt"), Fail("cbt-api", "cbt"))
    /\ UNCHANGED <<source, file, types, run, table, begun, kept, slotZero>>

\* Mutation of Remaining: a failure does not get into the report.
RemainingUnreported(r, next) ==
    /\ At(r)
    /\ Make(r, Goto(next), Goto(next))
    /\ UNCHANGED <<source, apiConfig, file, types, run, table, begun, kept, slotZero>>

\* cbt, then lab-backend, whatever failed before.
Remaining(r, next) ==
    /\ At(r)
    /\ Make(r, Goto(next), Fail("other", next))
    /\ UNCHANGED <<source, apiConfig, file, types, run, table, begun, kept, slotZero>>

\* The order GenerateConfigs writes the files in.
FileOrder ==
    [i \in 1 .. 2 * Len(Networks) |->
        IF i % 2 = 1 THEN Cbt(Networks[(i + 1) \div 2]) ELSE Api(Networks[i \div 2])]
      \o <<Backend>>

\* The first k files are written; an error ends the step there.
Configs ==
    /\ At("configs")
    /\ \E k \in 0 .. Len(FileOrder) :
          /\ file' = [s \in Configured |->
                        IF \E i \in 1 .. k : FileOrder[i] = s
                        THEN source["config"] ELSE file[s]]
          /\ \/ k = Len(FileOrder) /\ Goto("check")
             \/ Fail("other", "check")
    /\ UNCHANGED <<source, binary, apiConfig, types, run, table, begun, kept, slotZero>>

\* AreServicesRunning: an engine or API is in the process table.
Check ==
    /\ At("check")
    /\ IF \E n \in Enabled : Cbt(n) \in table \/ Api(n) \in table
       THEN Goto("stop all") ELSE Goto("over")
    /\ UNCHANGED <<source, made, run, table, begun, kept, slotZero>>

\* RestartAllServices: stop everything on the list, whatever comes of it ...
StopAll ==
    /\ At("stop all")
    /\ StopProcess(Head(command.todo))
    /\ IF Done # <<>> THEN Advance("stop all")
       ELSE command' = [command EXCEPT !.step = "start all", !.todo = RestartList]
    /\ UNCHANGED <<source, made, begun, kept, slotZero>>

\* Mutation of StartAll: the front end is generated after a failed cbt-api
\* build too.
StartAllUngated ==
    /\ At("start all")
    /\ \/ /\ StartProcess(Head(command.todo))
          /\ Advance(IF Done # <<>> THEN "start all" ELSE "wait")
       \/ /\ Fail("other", "over")
          /\ UNCHANGED <<run, table>>
    /\ UNCHANGED <<source, made, begun, kept, slotZero>>

\* Mutation of StartAll: the services after a failing start are started too,
\* and the error of the last one is returned.
StartAllLastError ==
    /\ At("start all")
    /\ \/ /\ StartProcess(Head(command.todo))
          /\ Advance(IF Done # <<>> THEN "start all" ELSE
                     IF Failed("cbt-api") THEN "over" ELSE "wait")
       \/ /\ Advance(IF Done # <<>> THEN "start all" ELSE "over")
          /\ UNCHANGED <<run, table>>
    /\ UNCHANGED <<source, made, begun, kept, slotZero>>

\* ... and start it again, up to the first failure.  The front end is left out
\* after a failure here or of the cbt-api build, which the report has already.
StartAll ==
    /\ At("start all")
    /\ \/ /\ StartProcess(Head(command.todo))
          /\ Advance(IF Done # <<>> THEN "start all" ELSE
                     IF Failed("cbt-api") THEN "over" ELSE "wait")
       \/ /\ Fail("other", "over")
          /\ UNCHANGED <<run, table>>
    /\ UNCHANGED <<source, made, begun, kept, slotZero>>

\* WaitForCBTAPIReady asks the first network's cbt-api for 30 seconds.
Wait ==
    /\ At("wait")
    /\ \/ run[FirstApi] # None /\ Goto("types")
       \/ Fail("other", "over")
    /\ UNCHANGED <<source, made, run, table, begun, kept, slotZero>>

\* The types are generated; the restart of the front end follows.
Types ==
    /\ At("types")
    /\ MakeTypes(command' = [command EXCEPT !.step = "stop", !.todo = <<Frontend>>],
                 Fail("other", "over"))
    /\ UNCHANGED <<source, binary, apiConfig, file, run, table, begun, kept, slotZero>>

-------------------------------------------------------------------------------
(* The projects, and the commands on one service. *)

\* A project that does not build ends the command with an error.
Build ==
    /\ At("build")
    /\ \/ /\ command.kind \in {"cbt", "lab-backend"}
          /\ Make(command.kind, Goto("stop"), Fail("other", "over"))
          /\ UNCHANGED <<apiConfig, types>>
       \/ /\ command.kind = "cbt-api"
          /\ MakeApi(Goto("stop"), Fail("other", "over"))
          /\ UNCHANGED types
       \/ /\ command.kind = "lab-frontend"
          /\ MakeTypes(Goto("stop"), Fail("other", "over"))
          /\ UNCHANGED <<binary, apiConfig>>
    /\ UNCHANGED <<source, file, run, table, begun, kept, slotZero>>

\* A failure to restart a service is the command's failure in restart, stop and
\* start, and no more than a message in every rebuild.
Unrestarted ==
    IF command.kind \in Single
    THEN Fail("other", "over")
    ELSE Advance(IF Done # <<>> THEN "stop" ELSE "over")

\* The first half of Restart; all of StopService.
Stop ==
    /\ At("stop")
    /\ StopProcess(Head(command.todo))
    /\ IF ~StopOk(Head(command.todo)) THEN Unrestarted
       ELSE IF command.kind = "stop" THEN Advance("over")
       ELSE Goto("start")
    /\ UNCHANGED <<source, made, begun, kept, slotZero>>

\* The second half of Restart; all of StartService.
Start ==
    /\ At("start")
    /\ \/ /\ StartProcess(Head(command.todo))
          /\ Advance(IF Done # <<>> THEN "stop" ELSE "over")
       \/ /\ Unrestarted
          /\ UNCHANGED <<run, table>>
    /\ UNCHANGED <<source, made, begun, kept, slotZero>>

Next ==
    \/ \E r \in Sources : Edit(r)
    \/ \E s \in Services : Exit(s)
    \/ \E kind \in Projects : Rebuild(kind)
    \/ \E kind \in Single, s \in Services : Service(kind, s)
    \/ Protos \/ XatuCbt \/ CbtApi
    \/ Remaining("cbt", "lab-backend") \/ Remaining("lab-backend", "configs")
    \/ Configs \/ Check \/ StopAll \/ StartAll \/ Wait \/ Types
    \/ Build \/ Stop \/ Start

Spec == Init /\ [][Next]_vars

-------------------------------------------------------------------------------
(* Properties. *)

Succeeded(kind) == command.kind = kind /\ At("over") /\ command.failures = {}

\* When rebuild all reports success, no engine and no cbt-api is left that
\* runs a binary or a configuration from before: although every step goes on
\* after the failure of most others, none of them can be missed by the report
\* (stack/lab.go:1315-1608).
SuccessIsCurrent ==
    /\ TypeOK
    /\ Succeeded("all") =>
        \A s \in Up \cap (ToSet(CbtServices) \cup ToSet(ApiServices)) :
            /\ run[s].binary >= begun[s[1]]
            /\ run[s].config >= begun["config"]

\* The types of the front end, when they come from the lab's own cbt-api, come
\* from one that this rebuild built and restarted: not from the one before a
\* failed build or a failed restart (lab.go:1521-1590).
TypesFollowTheBuild ==
    [][At("types") /\ At("stop")' /\ types' # Neighbour =>
          types' >= begun["cbt-api"]]_vars

\* A service that rebuild all stopped and could not start again is in its
\* report: what ran before and did not end by itself runs after a success
\* (orchestrator.go:1417-1501).  The restart of the front
\* end is the one step whose failure is not in the report (lab.go:1572-1576).
NoServiceLostSilently ==
    Succeeded("all") => kept \ {Frontend} \subseteq Up
=============================================================================
