-------------------------------- MODULE Release --------------------------------
(***************************************************************************)
(* xcli lab release (commands/lab_release.go) with the release service     *)
(* (release/*.go): one or several projects are released on GitHub, what    *)
(* others depend on first, and their builds are watched.                   *)
(*                                                                         *)
(* GitHub and gh are outside the repository: a repository has a list of    *)
(* workflow runs, the run of a release appears some time after it, and     *)
(* other people's pushes and releases make runs too.  A call of gh may     *)
(* fail, before or after it had its effect, and fails once the user has    *)
(* interrupted xcli.  The order of the arguments is the user's, so the     *)
(* projects of one phase are taken in any order.  --yes and --no-deps only *)
(* leave out questions that may be answered as if they had been given, so  *)
(* they are not modelled.                                                  *)
(***************************************************************************)
EXTENDS Naturals, Sequences, FiniteSets

CONSTANTS
    Projects,     \* constants.ReleasableProjects
    Semver,       \* those released by a version
    Dependencies, \* of every project: those it depends on
    MaxOthers,    \* bound: runs and releases made by others
    None,         \* nothing: no run found, no version, not done
    Unknown       \* the version of a project that could not be fetched

ASSUME ProjectsAssumption == IsFiniteSet(Projects) /\ Semver \subseteq Projects
ASSUME DependenciesAssumption ==
    /\ Dependencies \in [Projects -> SUBSET Projects]
    /\ \A p \in Projects : \A d \in Dependencies[p] : Dependencies[d] = {}
ASSUME NoneAssumption ==
    None \notin Projects \cup Nat \cup {"ok", "error", "success", "failure", "timed out", "begun",
                     "polling", "released", "failed", "timed_out", "skipped"}
ASSUME BoundAssumption == MaxOthers \in Nat

VARIABLES
    runs,        \* GitHub: the workflow runs of every repository, oldest first
    version,     \* GitHub: the number of the latest release of every project
    coming,      \* GitHub: who has triggered runs that are not listed yet
    others,      \* how much others have done so far
    step,        \* what the command does next
    multi,       \* it releases several projects
    watching,    \* it was not called with --no-watch
    selected,    \* the projects to release
    seen,        \* the versions fetched at the beginning
    plan,        \* the projects with a release configuration
    todo,        \* those of the phase that are not released yet
    current,     \* the one whose run is being looked up or waited for
    runOf,       \* the run found for a project: its place in runs
    watch,       \* how far WatchRun is for a project
    report,      \* the status of every project in the report
    failedDeps,  \* the dependencies that failed
    exit,        \* how the command ended
    interrupted, \* the context of the command is cancelled
    published    \* auxiliary: what this command released or triggered

github == <<runs, version, coming, others>>
command == <<step, multi, watching, selected, seen, plan, todo, current, runOf, watch,
             report, failedDeps, exit>>
vars == <<github, command, interrupted, published>>

Results == {"success", "failure", "timed out", "error"}
Statuses == {"released", "failed", "timed_out", "skipped", "success"}
Phases == {"phase 1", "phase 2", "phase 3"}
Steps == Phases \cup {"begin", "preflight", "missing", "dependencies", "plan",
                      "confirm", "single", "watch", "over"}

TypeOK ==
    /\ \A p \in Projects :
          runs[p] \in Seq([by : {"us", "else"}, state : {"running", "success", "failure"}])
    /\ version \in [Projects -> Nat]
    /\ coming \in [Projects -> Seq({"us", "else"})] /\ others \in 0 .. MaxOthers
    /\ step \in Steps
    /\ multi \in BOOLEAN /\ watching \in BOOLEAN
    /\ selected \subseteq Projects /\ plan \subseteq selected /\ todo \subseteq selected
    /\ seen \in [Projects -> Nat \cup {Unknown}]
    /\ current \in Projects \cup {None}
    /\ \A p \in Projects : runOf[p] \in DOMAIN runs[p] \cup {None}
    /\ watch \in [Projects -> Results \cup {None, "begun", "polling"}]
    /\ report \in [Projects -> Statuses \cup {None}]
    /\ failedDeps \subseteq Projects
    /\ exit \in {None, "ok", "error"} /\ (exit # None <=> step = "over")
    /\ interrupted \in BOOLEAN
    /\ published \subseteq Projects

Init ==
    /\ \E unreleased \in SUBSET Semver :
          /\ version = [p \in Projects |-> IF p \in unreleased THEN 0 ELSE 1]
          /\ runs = [p \in Projects |-> IF p \in unreleased THEN <<>>
                                       ELSE <<[by |-> "else", state |-> "success"]>>]
    /\ coming = [p \in Projects |-> <<>>]
    /\ others = 0
    /\ step = "begin"
    /\ multi \in BOOLEAN /\ watching \in BOOLEAN
    /\ selected \in SUBSET Projects \ {{}}
    /\ ~multi => Cardinality(selected) = 1
    /\ seen = [p \in Projects |-> Unknown]
    /\ plan = {} /\ todo = {} /\ failedDeps = {}
    /\ current = None
    /\ runOf = [p \in Projects |-> None]
    /\ watch = [p \in Projects |-> None]
    /\ report = [p \in Projects |-> None]
    /\ exit = None
    /\ interrupted = FALSE
    /\ published = {}

-------------------------------------------------------------------------------
(* GitHub, and the user's interrupt.  Before the last question has been        *)
(* answered they can do nothing that they could not do right after it; once    *)
(* the run of a project has been looked up, only that run is ever seen again.  *)

Busy == step \in Phases \cup {"single", "watch"}

\* A push or a release by somebody else.
SomebodyElse(p) ==
    /\ Busy /\ others < MaxOthers /\ runOf[p] = None
    /\ others' = others + 1
    /\ coming' = [coming EXCEPT ![p] = Append(@, "else")]
    /\ \/ UNCHANGED version
       \/ p \in Semver /\ version' = [version EXCEPT ![p] = @ + 1]
    /\ UNCHANGED <<runs, command, interrupted, published>>

RunAppears(p) ==
    /\ Busy /\ coming[p] # <<>> /\ runOf[p] = None
    /\ runs' = [runs EXCEPT ![p] = Append(@, [by |-> Head(coming[p]), state |-> "running"])]
    /\ coming' = [coming EXCEPT ![p] = Tail(@)]
    /\ UNCHANGED <<version, others, command, interrupted, published>>

RunCompletes(p) == \E state \in {"success", "failure"} :
    /\ Busy /\ runOf[p] # None /\ runs[p][runOf[p]].state = "running"
    /\ runs' = [runs EXCEPT ![p][runOf[p]].state = state]
    /\ UNCHANGED <<version, coming, others, command, interrupted, published>>

Interrupt ==
    /\ Busy /\ ~interrupted
    /\ interrupted' = TRUE
    /\ UNCHANGED <<github, command, published>>

-------------------------------------------------------------------------------
(* Versions and dependencies. *)

\* ParseVersion: "unknown" and "no releases" are no versions.
Parses(v) == v \notin {Unknown, 0}
Bumped(v) == v + 1

GetDependencies(p) == Dependencies[p]

\* CheckMissingDependencies for one project.
Missing(p) == GetDependencies(p) \ {p}

\* AnalyzeDependencies: only relations between selected projects count.
DependsOn(p) == GetDependencies(p) \cap selected
NeedsWait(p) == \E q \in selected : p \in DependsOn(q)

\* SplitByDependencyPhase.
PhaseOf(p) == IF NeedsWait(p) THEN "phase 1"
              ELSE IF DependsOn(p) # {} THEN "phase 2"
              ELSE "phase 3"
In(phase) == {p \in selected : PhaseOf(p) = phase}

-------------------------------------------------------------------------------
(* The questions before the first release. *)

Begun == <<github, todo, current, runOf, watch, report, failedDeps, interrupted,
           published>>

Ends(how) == step' = "over" /\ exit' = how
Goes(to) == step' = to /\ UNCHANGED exit

\* runRelease: CheckPrerequisites, GetProjectInfo and the selection.  A version
\* that cannot be fetched is "unknown"; those of other projects are only shown.
Begin ==
    /\ step = "begin"
    /\ \/ Ends("error") /\ UNCHANGED seen
       \/ /\ ~interrupted
          /\ Goes("preflight")
          /\ \E failed \in SUBSET (Semver \cap UNION {Missing(p) \cup {p} : p \in selected}) :
                seen' = [p \in Projects |-> IF p \in failed THEN Unknown ELSE version[p]]
    /\ UNCHANGED <<Begun, multi, watching, selected, plan>>

\* runPreflightChecks: a question unless nothing is suspicious.
Preflight ==
    /\ step = "preflight"
    /\ Goes("missing") \/ Ends("error")
    /\ UNCHANGED <<Begun, multi, watching, selected, seen, plan>>

\* promptMissingDependencies: a single release may become a multiple one.
AskAboutMissing ==
    /\ step = "missing"
    /\ \/ Goes(IF multi THEN "dependencies" ELSE "single") /\ UNCHANGED <<multi, selected>>
       \/ /\ ~multi
          /\ \E p \in selected :
                /\ Missing(p) # {}
                /\ \/ /\ selected' = Missing(p) \cup {p} /\ multi' = TRUE
                      /\ Goes("dependencies")
                   \/ Ends("error") /\ UNCHANGED <<multi, selected>>
    /\ UNCHANGED <<Begun, watching, seen, plan>>

\* promptDependencyConfirmation: dependencies the user does not want are dropped.
AskAboutDependencies ==
    /\ step = "dependencies"
    /\ LET asked == {p \in selected : NeedsWait(p)}
       IN \/ /\ \E dropped \in SUBSET asked : selected' = selected \ dropped
             /\ Goes("plan")
          \/ asked # {} /\ Ends("error") /\ UNCHANGED selected
    /\ UNCHANGED <<Begun, multi, watching, seen, plan>>

\* runMultiRelease: the release configurations.  A project whose version does
\* not parse is left out with a warning.
Collect ==
    /\ step = "plan"
    /\ plan' = {p \in selected : p \in Semver => Parses(seen[p])}
    /\ \/ plan' # {} /\ Goes("confirm")
       \/ Ends("error")
    /\ UNCHANGED <<Begun, multi, watching, selected, seen>>

Confirm ==
    /\ step = "confirm"
    /\ \/ /\ step' = "phase 1" /\ todo' = In("phase 1")
          /\ UNCHANGED exit
       \/ (Ends("ok") \/ Ends("error")) /\ UNCHANGED todo
    /\ UNCHANGED <<github, multi, watching, selected, seen, plan, current, runOf, watch,
                   report, failedDeps, interrupted, published>>

-------------------------------------------------------------------------------
(* Releasing one project: ReleaseSemver, ReleaseWorkflow. *)

Sets(f, p, v) == [f EXCEPT ![p] = v]

\* The call that creates the release has its effect.
ReleaseSemver(p) ==
    /\ p \in Semver /\ Parses(version[p])
    /\ version' = Sets(version, p, Bumped(version[p]))

ReleaseWorkflow(p) == p \notin Semver /\ UNCHANGED version

Publishes(p) ==
    /\ ~interrupted
    /\ ReleaseSemver(p) \/ ReleaseWorkflow(p)
    /\ coming' = Sets(coming, p, Append(coming[p], "us"))
    /\ published' = published \cup {p}
    /\ UNCHANGED <<runs, others>>

NothingPublished == UNCHANGED <<github, published>>

\* getLatestWorkflowRun, getWorkflowRun: whatever run is the latest one.
Found(p) == {None} \cup IF interrupted THEN {} ELSE DOMAIN runs[p] \cap {Len(runs[p])}

-------------------------------------------------------------------------------
(* WatchRun. *)

\* finalizeWatchResult: the conclusion of the run.
Conclusion(p) == runs[p][runOf[p]].state

Watches(p, result) ==
    /\ watch' = Sets(watch, p, result)
    /\ UNCHANGED <<github, step, multi, watching, selected, seen, plan, todo, current, runOf,
                   report, failedDeps, exit, interrupted, published>>

\* The immediate check: an error ends the watch.
FirstCheck(p) ==
    /\ watch[p] = "begun"
    /\ \/ Watches(p, "error")
       \/ /\ ~interrupted
          /\ Watches(p, IF Conclusion(p) = "running" THEN "polling" ELSE Conclusion(p))

\* A tick of the ticker that finds the run completed; errors are tried again.
Poll(p) ==
    /\ watch[p] = "polling" /\ ~interrupted /\ Conclusion(p) # "running"
    /\ Watches(p, Conclusion(p))

\* A mutant: the deadline is compared after the answer of GitHub only.
TimesOutWhenAnswered(p) ==
    watch[p] = "polling" /\ Conclusion(p) # "running" /\ Watches(p, "timed out")

TimesOut(p) == watch[p] = "polling" /\ Watches(p, "timed out")

WatchIsCancelled(p) == watch[p] = "polling" /\ interrupted /\ Watches(p, "error")

-------------------------------------------------------------------------------
(* The phases of runMultiRelease. *)

\* UpdateWithWatchResult.
StatusOf(result) == CASE result = "success" -> "success"
                      [] result = "timed out" -> "timed_out"
                      [] OTHER -> "failed"

\* WatchMultiple replaces the result of a watch that ended with an error, a
\* timeout among them, by one of its own.
MultiResult(result) == IF result = "timed out" THEN "error" ELSE result

DependencyFailed(p) == DependsOn(p) \cap failedDeps # {}

\* AddRelease, AddSkipped and the update of an entry.
Reports(p, status) == report' = Sets(report, p, status)

Untouched == UNCHANGED <<step, multi, watching, selected, seen, plan, runOf, watch,
                         exit, interrupted>>

Takes(phase, p) ==
    /\ step = phase /\ current = None /\ p \in todo
    /\ todo' = todo \ {p}

\* executeRelease: released, to be looked up, or failed, with or without effect.
Executes(p) ==
    /\ p \in plan
    /\ \/ Publishes(p) /\ Reports(p, "released") /\ current' = p
       \/ /\ Publishes(p) \/ NothingPublished
          /\ Reports(p, "failed") /\ UNCHANGED current

PassesOver(p) == p \notin plan /\ NothingPublished /\ UNCHANGED <<report, current>>

\* executePhase1.
ReleaseDependency(p) ==
    /\ Takes("phase 1", p)
    /\ Executes(p) \/ PassesOver(p)
    /\ failedDeps' = IF report'[p] = "failed" THEN failedDeps \cup {p} ELSE failedDeps
    /\ Untouched

\* executePhase2: a failed dependency comes before everything else.
ReleaseDependent(p) ==
    /\ Takes("phase 2", p)
    /\ IF DependencyFailed(p)
       THEN /\ Reports(p, "skipped")
            /\ NothingPublished /\ UNCHANGED current
       ELSE Executes(p) \/ PassesOver(p)
    /\ UNCHANGED failedDeps /\ Untouched

\* executePhase3.
ReleaseIndependent(p) ==
    /\ Takes("phase 3", p)
    /\ Executes(p) \/ PassesOver(p)
    /\ UNCHANGED failedDeps /\ Untouched

\* A mutant: phase 1 does not note a build that failed.
DependencyWatchedOnly(p) ==
    /\ step = "phase 1" /\ current = p /\ watch[p] \in Results
    /\ Reports(p, StatusOf(watch[p]))
    /\ current' = None
    /\ UNCHANGED <<github, step, multi, watching, selected, seen, plan, todo, runOf,
                   watch, failedDeps, exit, interrupted, published>>

\* The lookup of the run some seconds after the release; phase 1 waits for it.
LookUp(p) == \E run \in Found(p) :
    /\ step \in Phases /\ current = p /\ watch[p] = None
    /\ runOf' = Sets(runOf, p, run)
    /\ LET waits == step = "phase 1" /\ run # None /\ watching
       IN /\ watch' = IF waits THEN Sets(watch, p, "begun") ELSE watch
          /\ current' = IF waits THEN p ELSE None
    /\ UNCHANGED <<github, step, multi, watching, selected, seen, plan, todo, report,
                   failedDeps, exit, interrupted, published>>

DependencyWatched(p) ==
    /\ step = "phase 1" /\ current = p /\ watch[p] \in Results
    /\ Reports(p, StatusOf(watch[p]))
    /\ failedDeps' = IF watch[p] = "success" THEN failedDeps ELSE failedDeps \cup {p}
    /\ current' = None
    /\ UNCHANGED <<github, step, multi, watching, selected, seen, plan, todo, runOf, watch,
                   exit, interrupted, published>>

\* What is left to watch after the phases.
WatchItems == {p \in In("phase 2") \cup In("phase 3") : runOf[p] # None}

\* A mutant: a build that timed out is not counted.
FailedOutright(statuses) == {p \in Projects : statuses[p] = "failed"}

\* ReleaseReport.Failed decides how the command ends.
Failed(statuses) == {p \in Projects : statuses[p] \in {"failed", "timed_out"}}

Verdict(statuses) == IF Failed(statuses) = {} THEN "ok" ELSE "error"

EndPhase ==
    /\ step \in Phases /\ current = None /\ todo = {}
    /\ \/ /\ step = "phase 1" /\ Goes("phase 2") /\ todo' = In("phase 2")
          /\ UNCHANGED watch
       \/ /\ step = "phase 2" /\ Goes("phase 3") /\ todo' = In("phase 3")
          /\ UNCHANGED watch
       \/ /\ step = "phase 3" /\ watching /\ WatchItems # {}
          /\ Goes("watch") /\ UNCHANGED todo
          /\ watch' = [p \in Projects |-> IF p \in WatchItems THEN "begun" ELSE watch[p]]
       \/ /\ step = "phase 3" /\ ~(watching /\ WatchItems # {})
          /\ Ends(Verdict(report)) /\ UNCHANGED <<todo, watch>>
    /\ UNCHANGED <<github, multi, watching, selected, seen, plan, current, runOf, report,
                   failedDeps, interrupted, published>>

\* The watches of the goroutines of WatchMultiple are over.
AllWatched ==
    /\ step = "watch" /\ multi
    /\ \A p \in WatchItems : watch[p] \in Results
    /\ report' = [p \in Projects |->
                    IF p \in WatchItems THEN StatusOf(MultiResult(watch[p])) ELSE report[p]]
    /\ Ends(Verdict(report'))
    /\ UNCHANGED <<github, multi, watching, selected, seen, plan, todo, current, runOf, watch,
                   failedDeps, interrupted, published>>

-------------------------------------------------------------------------------
(* runSingleRelease. *)

\* handleSemverRelease, handleWorkflowRelease: the questions, then the release.
ReleaseSingle(p) ==
    /\ step = "single" /\ current = None /\ selected = {p}
    /\ \/ /\ Publishes(p) \/ NothingPublished
          /\ Ends("error") /\ UNCHANGED current
       \/ /\ p \in Semver => Parses(seen[p])
          /\ Publishes(p) /\ current' = p /\ UNCHANGED <<step, exit>>
    /\ UNCHANGED <<multi, watching, selected, seen, plan, todo, runOf, watch, report,
                   failedDeps, interrupted>>

\* The end of the command does not depend on how the build ends.
LookUpSingle(p) == \E run \in Found(p) :
    /\ step = "single" /\ current = p
    /\ runOf' = Sets(runOf, p, run)
    /\ IF run # None /\ watching
       THEN Goes("watch") /\ watch' = Sets(watch, p, "begun")
       ELSE Ends("ok") /\ UNCHANGED watch
    /\ UNCHANGED <<github, multi, watching, selected, seen, plan, todo, current, report,
                   failedDeps, interrupted, published>>

SingleWatched ==
    /\ step = "watch" /\ ~multi /\ watch[current] \in Results
    /\ Ends("ok")
    /\ UNCHANGED <<github, multi, watching, selected, seen, plan, todo, current, runOf, watch,
                   report, failedDeps, interrupted, published>>

-------------------------------------------------------------------------------
Asking == Begin \/ Preflight \/ AskAboutMissing \/ AskAboutDependencies \/ Collect
            \/ Confirm

Watching(p) == FirstCheck(p) \/ Poll(p) \/ TimesOut(p) \/ WatchIsCancelled(p)

Running == \/ EndPhase \/ AllWatched \/ SingleWatched
           \/ \E p \in Projects :
                 \/ ReleaseDependency(p) \/ ReleaseDependent(p) \/ ReleaseIndependent(p)
                 \/ LookUp(p) \/ DependencyWatched(p)
                 \/ ReleaseSingle(p) \/ LookUpSingle(p)

\* The command returned.
Over == step = "over" /\ UNCHANGED vars

Next == \/ Asking \/ Running \/ Interrupt \/ Over
        \/ \E p \in Projects :
              Watching(p) \/ SomebodyElse(p) \/ RunAppears(p) \/ RunCompletes(p)

Spec == Init /\ [][Next]_vars

\* The user answers, the code goes on, and time passes for a watch; GitHub need
\* not complete any run.
FairSpec == /\ Spec /\ WF_vars(Asking) /\ WF_vars(Running)
            /\ \A p \in Projects : WF_vars(Watching(p))

-------------------------------------------------------------------------------
\* The run that was found is the one this command made.
OwnRun(p) == runOf[p] # None /\ runs[p][runOf[p]].by = "us"

\* A project is released only when everything it depends on and that is released
\* with it was built successfully - where the build was to be watched and the run
\* found was its own (executePhase1, executePhase2).
DependentsFollow ==
    multi =>
       \A p \in published : \A d \in DependsOn(p) \cap plan :
          /\ d \in published
          /\ watching /\ OwnRun(d) => Conclusion(d) = "success"

\* A multiple release that ends without an error has released everything it
\* planned, and no build it watched had another end than success
\* (ReleaseReport.Failed, UpdateWithWatchResult).
NoFailureIsSwallowed ==
    /\ TypeOK
    /\ exit = "ok" /\ published # {} /\ multi =>
          \A p \in plan : /\ p \in published
                          /\ watching /\ runOf[p] # None => Conclusion(p) = "success"

\* The command ends, whatever GitHub does (WatchRun's deadline).
ReleaseReturns == <>(step = "over")
================================================================================
