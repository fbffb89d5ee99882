----------------------------- MODULE ReleaseProofs -----------------------------
(***************************************************************************)
(* The order and the verdict of a multiple release, for any projects and   *)
(* dependencies: nothing is released before the builds of what it depends  *)
(* on, and no failure is lost on the way to the command's end.             *)
(***************************************************************************)
EXTENDS Release, TLAPS

(***************************************************************************)
(* The inductive invariant.                                                *)
(***************************************************************************)

Early == {"begin", "preflight", "missing", "dependencies", "plan", "confirm"}
Releasing == multi /\ step \in Phases \cup {"watch"}

Run == [by : {"us", "else"}, state : {"running", "success", "failure"}]

\* TypeOK, with the domains of the functions.
Types ==
    /\ runs \in [Projects -> Seq(Run)]
    /\ version \in [Projects -> Nat]
    /\ coming \in [Projects -> Seq({"us", "else"})] /\ others \in 0 .. MaxOthers
    /\ step \in Steps
    /\ multi \in BOOLEAN /\ watching \in BOOLEAN
    /\ selected \subseteq Projects /\ plan \subseteq selected /\ todo \subseteq selected
    /\ seen \in [Projects -> Nat \cup {Unknown}]
    /\ current \in Projects \cup {None}
    /\ runOf \in [Projects -> Nat \cup {None}]
    /\ \A p \in Projects : runOf[p] \in DOMAIN runs[p] \cup {None}
    /\ watch \in [Projects -> Results \cup {None, "begun", "polling"}]
    /\ report \in [Projects -> Statuses \cup {None}]
    /\ failedDeps \subseteq Projects
    /\ exit \in {None, "ok", "error"} /\ (exit # None <=> step = "over")
    /\ interrupted \in BOOLEAN
    /\ published \subseteq Projects

\* Nothing has happened before the last question is answered.
Course ==
    /\ step \in Early =>
          /\ published = {} /\ todo = {} /\ failedDeps = {} /\ current = None
          /\ \A p \in Projects : report[p] = None /\ runOf[p] = None /\ watch[p] = None
    /\ step \in Early \ {"confirm"} => plan = {}
    /\ step \in {"dependencies", "plan", "confirm"} \cup Phases => multi
    /\ step = "single" => ~multi /\ \A p \in Projects : runOf[p] = None /\ watch[p] = None

\* What a watch has ended with is how the run ended.
WatchesTell ==
    \A p \in Projects :
        /\ watch[p] # None => runOf[p] # None
        /\ watch[p] = "success" => Conclusion(p) = "success"

\* The projects whose turn has come.
HasTurn(p) ==
    \/ step = "phase 1" /\ PhaseOf(p) = "phase 1"
    \/ step = "phase 2" /\ PhaseOf(p) \in {"phase 1", "phase 2"}
    \/ step \in {"phase 3", "watch"}

CurrentOK ==
    /\ step \in Phases => todo \subseteq In(step)
    /\ step = "watch" => todo = {} /\ current = None
    /\ current # None =>
          /\ current \in plan /\ current \notin todo /\ PhaseOf(current) = step
          /\ current \in published /\ report[current] = "released"
          /\ current \notin failedDeps
          /\ watch[current] = None => runOf[current] = None

\* Every project that had its turn is in the report, as what became of it.
Settled(p) ==
    \/ report[p] \in {"failed", "timed_out"}
    \/ report[p] = "skipped" /\ DependencyFailed(p)
    \/ report[p] \in {"released", "success"} /\ p \in published

ReportOK ==
    /\ \A p \in plan : HasTurn(p) /\ p \notin todo => Settled(p)
    /\ \A p \in published : p \in selected /\ HasTurn(p) /\ p \notin todo
    /\ \A p \in Projects : runOf[p] # None => p \in published

\* What failed in the first phase is known to the second.
DependenciesOK ==
    /\ \A d \in failedDeps :
          PhaseOf(d) = "phase 1" /\ report[d] \in {"failed", "timed_out"} /\ d \notin todo
    /\ \A d \in Projects :
          PhaseOf(d) = "phase 1" /\ report[d] \in {"failed", "timed_out"} => d \in failedDeps
    /\ \A d \in Projects :
          watching /\ PhaseOf(d) = "phase 1" /\ runOf[d] # None /\ d # current =>
             d \in failedDeps \/ Conclusion(d) = "success"

NoFailure ==
    step = "over" /\ exit = "ok" /\ published # {} /\ multi =>
        \A p \in plan : /\ p \in published
                        /\ watching /\ runOf[p] # None => Conclusion(p) = "success"

Work == Releasing => CurrentOK /\ ReportOK /\ DependenciesOK

IInv == Types /\ Course /\ WatchesTell /\ Work /\ DependentsFollow /\ NoFailure

(***************************************************************************)
(* The phases.                                                             *)
(***************************************************************************)

\* What others depend on depends on nothing, and comes first.
LEMMA PhasesSplit ==
    ASSUME selected \subseteq Projects, NEW p \in Projects
    PROVE  /\ PhaseOf(p) \in Phases
           /\ PhaseOf(p) # "phase 2" => p \notin selected \/ DependsOn(p) = {}
           /\ PhaseOf(p) = "phase 1" => DependsOn(p) = {}
           /\ p \in selected => \A d \in DependsOn(p) :
                 d \in selected /\ PhaseOf(d) = "phase 1" /\ DependsOn(d) = {}
<1>1. \A q \in Projects : \A d \in Dependencies[q] : d \in Projects /\ Dependencies[d] = {}
    BY DependenciesAssumption
<1>2. PhaseOf(p) \in Phases
    BY DEF PhaseOf, Phases
<1>3. ASSUME NeedsWait(p) PROVE DependsOn(p) = {}
    BY <1>1, <1>3 DEF NeedsWait, DependsOn, GetDependencies
<1>4. PhaseOf(p) = "phase 1" => NeedsWait(p)
    BY DEF PhaseOf
<1>5. PhaseOf(p) = "phase 3" => DependsOn(p) = {}
    BY DEF PhaseOf
<1>6. ASSUME p \in selected, NEW d \in DependsOn(p)
      PROVE  d \in selected /\ PhaseOf(d) = "phase 1" /\ DependsOn(d) = {}
    <2>1. d \in selected /\ NeedsWait(d)
        BY <1>6 DEF NeedsWait, DependsOn
    <2>2. Dependencies[d] = {}
        BY <1>1, <1>6 DEF DependsOn, GetDependencies
    <2> QED
        BY <2>1, <2>2 DEF PhaseOf, DependsOn, GetDependencies
<1> QED
    BY <1>2, <1>3, <1>4, <1>5, <1>6 DEF Phases

\* The phases are those of the projects that were selected.
LEMMA SamePhases ==
    ASSUME selected' = selected
    PROVE  /\ \A p : PhaseOf(p)' = PhaseOf(p) /\ DependsOn(p)' = DependsOn(p)
           /\ \A phase : In(phase)' = In(phase)
BY DEF PhaseOf, NeedsWait, DependsOn, GetDependencies, In

(***************************************************************************)
(* GitHub, the watches and the questions.                                  *)
(***************************************************************************)

\* Nothing but the runs changes, and a conclusion stays.
LEMMA CommandStays ==
    ASSUME IInv, Types', UNCHANGED <<command, published>>,
           \A p \in Projects : runOf[p] # None =>
               /\ Conclusion(p) = "success" => Conclusion(p)' = "success"
               /\ OwnRun(p)' => OwnRun(p)
    PROVE  IInv'
<1>1. UNCHANGED <<step, multi, watching, selected, seen, plan, todo, current, runOf, watch,
                  report, failedDeps, exit, published>>
    BY DEF command
<1>2. \A p : PhaseOf(p)' = PhaseOf(p) /\ DependsOn(p)' = DependsOn(p)
    BY <1>1, SamePhases
<1>3. \A phase : In(phase)' = In(phase)
    BY <1>1, SamePhases
<1>4. Course'
    BY <1>1 DEF IInv, Course, Early, Phases
<1>5. WatchesTell'
    <2>1. \A p \in Projects : watch[p] = "success" => watch[p] # None
        BY NoneAssumption
    <2> QED
        BY <1>1, <2>1 DEF IInv, WatchesTell
<1>6. Work'
    <2> SUFFICES ASSUME Releasing' PROVE CurrentOK' /\ ReportOK' /\ DependenciesOK'
        BY DEF Work
    <2>1. CurrentOK /\ ReportOK /\ DependenciesOK
        BY <1>1 DEF IInv, Work, Releasing, Phases
    <2>2. CurrentOK'
        BY <1>1, <1>2, <1>3, <2>1 DEF CurrentOK, Phases
    <2>3. ReportOK'
        BY <1>1, <1>2, <2>1 DEF ReportOK, Settled, DependencyFailed, HasTurn
    <2>4. DependenciesOK'
        BY <1>1, <1>2, <2>1 DEF DependenciesOK
    <2> QED
        BY <2>2, <2>3, <2>4
<1>7. DependentsFollow'
    <2> SUFFICES ASSUME multi, NEW p \in published, NEW d \in DependsOn(p) \cap plan,
                        watching, OwnRun(d)'
                 PROVE  d \in published /\ Conclusion(d)' = "success"
        BY <1>1, <1>2 DEF DependentsFollow, IInv
    <2>1. d \in Projects /\ runOf[d] # None
        BY <1>1 DEF IInv, Types, OwnRun
    <2>2. OwnRun(d)
        BY <2>1
    <2> QED
        BY <2>1, <2>2 DEF IInv, DependentsFollow
<1>8. NoFailure'
    <2>1. plan \subseteq Projects
        BY DEF IInv, Types
    <2> QED
        BY <1>1, <2>1 DEF IInv, NoFailure
<1> QED
    BY <1>4, <1>5, <1>6, <1>7, <1>8 DEF IInv

LEMMA GitHubKeeps ==
    ASSUME IInv,
           \/ Interrupt
           \/ \E p \in Projects : SomebodyElse(p) \/ RunAppears(p) \/ RunCompletes(p)
    PROVE  IInv'
<1>1. UNCHANGED <<command, published>>
    BY DEF SomebodyElse, RunAppears, RunCompletes, Interrupt
<1>2. UNCHANGED <<step, multi, watching, selected, seen, plan, todo, current, runOf, watch,
                  report, failedDeps, exit, published>>
    BY <1>1 DEF command
<1>3. Types
    BY DEF IInv
<1>4. ASSUME NEW p \in Projects, SomebodyElse(p) PROVE IInv'
    <2>1. Append(coming[p], "else") \in Seq({"us", "else"})
        BY <1>3 DEF Types
    <2>2. coming' \in [Projects -> Seq({"us", "else"})]
        BY <1>3, <1>4, <2>1 DEF Types, SomebodyElse
    <2>3. version' \in [Projects -> Nat]
        <3>1. version[p] + 1 \in Nat
            BY <1>3 DEF Types
        <3>2. version' = version \/ version' = [version EXCEPT ![p] = version[p] + 1]
            BY <1>4 DEF SomebodyElse
        <3> QED
            BY <1>3, <3>1, <3>2 DEF Types
    <2>4. others' \in 0 .. MaxOthers
        BY <1>3, <1>4, BoundAssumption DEF Types, SomebodyElse
    <2>5. Types'
        BY <1>2, <1>3, <1>4, <2>2, <2>3, <2>4 DEF Types, SomebodyElse
    <2> QED
        BY <1>1, <1>2, <1>4, <2>5, CommandStays DEF SomebodyElse, Conclusion, OwnRun
<1>5. ASSUME NEW p \in Projects, RunAppears(p) PROVE IInv'
    <2> DEFINE run == [by |-> Head(coming[p]), state |-> "running"]
    <2>1. run \in Run /\ Tail(coming[p]) \in Seq({"us", "else"})
        BY <1>3, <1>5 DEF Types, RunAppears, Run
    <2>2. runs[p] \in Seq(Run)
        BY <1>3 DEF Types
    <2>3. runs' = [runs EXCEPT ![p] = Append(runs[p], run)]
        BY <1>5 DEF RunAppears
    <2> HIDE DEF run
    <2>4. Append(runs[p], run) \in Seq(Run)
        BY <2>1, <2>2
    <2>5. runs' \in [Projects -> Seq(Run)]
        BY <1>3, <2>3, <2>4 DEF Types
    <2>6. coming' \in [Projects -> Seq({"us", "else"})]
        BY <1>3, <1>5, <2>1 DEF Types, RunAppears
    <2>7. \A q \in Projects : runOf[q] # None => runs'[q] = runs[q]
        BY <1>3, <1>5, <2>3 DEF Types, RunAppears
    <2>8. Types'
        BY <1>2, <1>3, <1>5, <2>5, <2>6, <2>7 DEF Types, RunAppears
    <2> QED
        BY <1>1, <1>2, <2>7, <2>8, CommandStays DEF Conclusion, OwnRun
<1>6. ASSUME NEW p \in Projects, RunCompletes(p) PROVE IInv'
    <2> DEFINE i == runOf[p]
    <2>1. PICK state \in {"success", "failure"} :
             runs' = [runs EXCEPT ![p][runOf[p]].state = state]
        BY <1>6 DEF RunCompletes
    <2>2. /\ runs[p] \in Seq(Run) /\ i \in DOMAIN runs[p] /\ Conclusion(p) = "running"
        BY <1>3, <1>6 DEF Types, RunCompletes, Conclusion
    <2>3. /\ runs'[p] = [runs[p] EXCEPT ![i].state = state]
          /\ \A q \in Projects \ {p} : runs'[q] = runs[q]
        BY <1>3, <2>1 DEF Types
    <2>4. runs[p][i] \in Run
        BY <2>2
    <2> DEFINE run == [runs[p][i] EXCEPT !.state = state]
    <2>5. run \in Run /\ run.by = runs[p][i].by
        BY <2>4 DEF Run
    <2>6. runs'[p] = [runs[p] EXCEPT ![i] = run]
        BY <2>3
    <2> HIDE DEF run, i
    <2>7. runs'[p] \in Seq(Run) /\ DOMAIN runs'[p] = DOMAIN runs[p] /\ runs'[p][i] = run
        BY <2>2, <2>5, <2>6
    <2>8. runs' \in [Projects -> Seq(Run)]
        <3>1. runs' = [runs EXCEPT ![p] = runs'[p]]
            BY <1>3, <2>1 DEF Types
        <3> QED
            BY <1>3, <2>7, <3>1 DEF Types
    <2>9. Types'
        BY <1>2, <1>3, <1>6, <2>3, <2>7, <2>8 DEF Types, RunCompletes
    <2>10. \A q \in Projects : runOf[q] # None =>
               /\ Conclusion(q) = "success" => Conclusion(q)' = "success"
               /\ OwnRun(q)' => OwnRun(q)
        BY <1>2, <2>2, <2>3, <2>5, <2>7 DEF Conclusion, OwnRun, i
    <2> QED
        BY <1>1, <2>9, <2>10, CommandStays
<1>7. CASE Interrupt
    <2>1. UNCHANGED github /\ interrupted' \in BOOLEAN
        BY <1>7 DEF Interrupt
    <2>2. Types'
        BY <1>2, <1>3, <2>1 DEF Types, github
    <2> QED
        BY <1>1, <1>2, <2>1, <2>2, CommandStays DEF github, Conclusion, OwnRun
<1> QED
    BY <1>4, <1>5, <1>6, <1>7

\* A watch goes on, or ends with what GitHub says, or with an error.
LEMMA WatchingKeeps ==
    ASSUME IInv, NEW p \in Projects, Watching(p)
    PROVE  IInv'
<1>1. PICK result \in Results \cup {"polling"} :
          /\ watch' = [watch EXCEPT ![p] = result]
          /\ watch[p] \in {"begun", "polling"}
          /\ result = "success" => Conclusion(p) = "success"
    <2>1. Types /\ WatchesTell /\ (watch[p] \in {"begun", "polling"} => watch[p] # None)
        BY NoneAssumption DEF IInv
    <2>2. watch[p] \in {"begun", "polling"}
        BY DEF Watching, FirstCheck, Poll, TimesOut, WatchIsCancelled
    <2>3. runOf[p] # None
        BY <2>1, <2>2 DEF WatchesTell
    <2>4. runs[p] \in Seq(Run) /\ runOf[p] \in DOMAIN runs[p]
        BY <2>1, <2>3 DEF Types
    <2>5. runs[p][runOf[p]] \in Run
        BY <2>4
    <2>6. Conclusion(p) \in {"running", "success", "failure"}
        BY <2>5 DEF Conclusion, Run
    <2> DEFINE seenNow == IF Conclusion(p) = "running" THEN "polling" ELSE Conclusion(p)
    <2>7. CASE Watches(p, "error")
        <3> DEFINE end == "error"
        <3>1. end \in Results \cup {"polling"} /\ end # "success"
            BY DEF Results
        <3>2. watch' = [watch EXCEPT ![p] = end]
            BY <2>7 DEF Watches, Sets
        <3> HIDE DEF end
        <3> QED
            BY <2>2, <3>1, <3>2
    <2>8. CASE Watches(p, seenNow)
        <3>1. seenNow \in Results \cup {"polling"} /\ (seenNow = "success" => Conclusion(p) = "success")
            BY <2>6 DEF Results
        <3> HIDE DEF seenNow
        <3> QED
            BY <2>2, <2>8, <3>1 DEF Watches, Sets
    <2>9. CASE Watches(p, "timed out")
        <3> DEFINE end == "timed out"
        <3>1. end \in Results \cup {"polling"} /\ end # "success"
            BY DEF Results
        <3>2. watch' = [watch EXCEPT ![p] = end]
            BY <2>9 DEF Watches, Sets
        <3> HIDE DEF end
        <3> QED
            BY <2>2, <3>1, <3>2
    <2> QED
        BY <2>7, <2>8, <2>9 DEF Watching, FirstCheck, Poll, TimesOut, WatchIsCancelled
<1>2. /\ watch' = [watch EXCEPT ![p] = result]
      /\ UNCHANGED <<github, step, multi, watching, selected, seen, plan, todo, current, runOf,
                     report, failedDeps, exit, interrupted, published>>
    BY <1>1 DEF Watching, FirstCheck, Poll, TimesOut, WatchIsCancelled, Watches
<1>3. UNCHANGED <<runs, version, coming, others>>
    BY <1>2 DEF github
<1>4. Types /\ Course /\ WatchesTell
    BY DEF IInv
<1>5. Types'
    BY <1>1, <1>2, <1>3, <1>4 DEF Types
<1>6. watch[p] # None /\ runOf[p] # None /\ result # None
    BY <1>1, <1>4, NoneAssumption DEF WatchesTell, Results
<1>7. \A q \in Projects : watch'[q] = IF q = p THEN result ELSE watch[q]
    BY <1>2, <1>4 DEF Types
<1>8. Course'
    BY <1>2, <1>4, <1>6 DEF Course, Phases
<1>9. WatchesTell'
    BY <1>1, <1>2, <1>3, <1>4, <1>6, <1>7 DEF WatchesTell, Conclusion
<1>10. /\ \A q : PhaseOf(q)' = PhaseOf(q) /\ DependsOn(q)' = DependsOn(q)
       /\ \A phase : In(phase)' = In(phase)
       /\ \A q : Conclusion(q)' = Conclusion(q) /\ OwnRun(q)' = OwnRun(q)
    BY <1>2, <1>3, SamePhases DEF Conclusion, OwnRun
<1>11. Work'
    <2> SUFFICES ASSUME Releasing' PROVE CurrentOK' /\ ReportOK' /\ DependenciesOK'
        BY DEF Work
    <2>1. CurrentOK /\ ReportOK /\ DependenciesOK
        BY <1>2 DEF IInv, Work, Releasing
    <2>2. CurrentOK'
        BY <1>2, <1>4, <1>6, <1>7, <1>10, <2>1 DEF CurrentOK, Types
    <2>3. ReportOK'
        BY <1>2, <1>10, <2>1 DEF ReportOK, Settled, DependencyFailed, HasTurn
    <2>4. DependenciesOK'
        BY <1>2, <1>10, <2>1 DEF DependenciesOK
    <2> QED
        BY <2>2, <2>3, <2>4
<1>12. DependentsFollow' /\ NoFailure'
    BY <1>2, <1>10 DEF IInv, DependentsFollow, NoFailure
<1> QED
    BY <1>5, <1>8, <1>9, <1>11, <1>12 DEF IInv

\* The questions, before anything is released.
LEMMA AskingKeeps ==
    ASSUME IInv, Asking
    PROVE  IInv'
<1>1. Types /\ Course /\ WatchesTell
    BY DEF IInv
<1>2. step \in Early
    BY DEF Asking, Begin, Preflight, AskAboutMissing, AskAboutDependencies, Collect, Confirm, Early
<1>3. UNCHANGED <<runs, version, coming, others, current, runOf, watch, report, failedDeps,
                  interrupted, published, watching>>
    BY DEF Asking, Begin, Preflight, AskAboutMissing, AskAboutDependencies, Collect, Confirm,
       Begun, github
<1>4. /\ published = {} /\ todo = {} /\ failedDeps = {} /\ current = None
      /\ \A p \in Projects : report[p] = None /\ runOf[p] = None /\ watch[p] = None
    BY <1>1, <1>2 DEF Course
<1>5. exit = None /\ step # "over"
    BY <1>1, <1>2 DEF Types, Early
<1>6. ASSUME Types',
             step' \in Early => todo' = {},
             step' \in Early \ {"confirm"} => plan' = {},
             step' \in {"dependencies", "plan", "confirm"} => multi',
             step' = "single" => ~multi',
             step' \in Phases => multi' /\ step' = "phase 1" /\ todo' = In("phase 1")'
                                 /\ UNCHANGED <<selected, plan>>,
             step' # "watch"
      PROVE  IInv'
    <2>1. Course'
        BY <1>3, <1>4, <1>6 DEF Course
    <2>2. WatchesTell'
        BY <1>3, <1>4, NoneAssumption DEF WatchesTell
    <2>3. Work'
        <3> SUFFICES ASSUME Releasing' PROVE CurrentOK' /\ ReportOK' /\ DependenciesOK'
            BY DEF Work
        <3>1. step' = "phase 1" /\ todo' = In("phase 1")'
            BY <1>6 DEF Releasing
        <3>2. CurrentOK'
            BY <1>3, <1>4, <3>1 DEF CurrentOK
        <3>3. ReportOK'
            BY <1>3, <1>4, <1>6, <3>1 DEF ReportOK, HasTurn, In, Types
        <3>4. DependenciesOK'
            BY <1>3, <1>4, NoneAssumption DEF DependenciesOK
        <3> QED
            BY <3>2, <3>3, <3>4
    <2>4. DependentsFollow' /\ NoFailure'
        BY <1>3, <1>4 DEF DependentsFollow, NoFailure
    <2> QED
        BY <1>6, <2>1, <2>2, <2>3, <2>4 DEF IInv
<1>7. None \notin {"ok", "error"}
    BY NoneAssumption
<1>8. \A p \in Projects : Missing(p) \subseteq Projects
    BY DependenciesAssumption DEF Missing, GetDependencies
<1>9. CASE Begin
    <2>1. seen' \in [Projects -> Nat \cup {Unknown}]
        BY <1>1, <1>9 DEF Types, Begin
    <2>2. Types'
        BY <1>1, <1>3, <1>5, <1>7, <1>9, <2>1 DEF Types, Begin, Begun, Ends, Goes, Steps
    <2> QED
        BY <1>1, <1>4, <1>6, <1>9, <2>2 DEF Begin, Begun, Ends, Goes, Course, Early, Phases
<1>10. CASE Preflight
    <2>1. Types'
        BY <1>1, <1>3, <1>5, <1>7, <1>10 DEF Types, Preflight, Begun, Ends, Goes, Steps
    <2> QED
        BY <1>1, <1>4, <1>6, <1>10, <2>1 DEF Preflight, Begun, Ends, Goes, Course, Early, Phases
<1>11. CASE AskAboutMissing
    <2>1. plan = {}
        BY <1>1, <1>11 DEF Course, AskAboutMissing, Early
    <2>2. selected' \subseteq Projects /\ multi' \in BOOLEAN
        BY <1>1, <1>8, <1>11 DEF Types, AskAboutMissing
    <2>3. Types'
        BY <1>1, <1>3, <1>4, <1>5, <1>7, <1>11, <2>1, <2>2 DEF Types, AskAboutMissing, Begun, Ends, Goes, Steps
    <2> QED
        BY <1>1, <1>4, <1>6, <1>11, <2>1, <2>3 DEF AskAboutMissing, Begun, Ends, Goes, Early, Phases, Types
<1>12. CASE AskAboutDependencies
    <2>1. plan = {} /\ multi
        BY <1>1, <1>12 DEF Course, AskAboutDependencies, Early
    <2>2. selected' \subseteq Projects
        BY <1>1, <1>12 DEF Types, AskAboutDependencies
    <2>3. Types'
        BY <1>1, <1>3, <1>4, <1>5, <1>7, <1>12, <2>1, <2>2
        DEF Types, AskAboutDependencies, Begun, Ends, Goes, Steps
    <2> QED
        BY <1>4, <1>6, <1>12, <2>1, <2>3 DEF AskAboutDependencies, Begun, Ends, Goes, Early, Phases
<1>13. CASE Collect
    <2>1. multi /\ plan' \subseteq selected
        BY <1>1, <1>13 DEF Course, Collect
    <2>2. Types'
        BY <1>1, <1>3, <1>5, <1>7, <1>13, <2>1 DEF Types, Collect, Begun, Ends, Goes, Steps
    <2> QED
        BY <1>4, <1>6, <1>13, <2>1, <2>2 DEF Collect, Begun, Ends, Goes, Early, Phases
<1>14. CASE Confirm
    <2>1. multi /\ UNCHANGED <<multi, selected, seen, plan>>
        BY <1>1, <1>14 DEF Course, Confirm
    <2>2. todo' \subseteq selected /\ In("phase 1")' = In("phase 1")
        BY <1>1, <1>14, <2>1, SamePhases DEF Types, Confirm, In
    <2>3. Types'
        BY <1>1, <1>3, <1>5, <1>7, <1>14, <2>1, <2>2 DEF Types, Confirm, Ends, Steps, Phases
    <2>4. \/ step' = "over" /\ UNCHANGED todo
          \/ step' = "phase 1" /\ todo' = In("phase 1")'
        BY <1>14, <2>2 DEF Confirm, Ends
    <2>5. step' \notin Early /\ step' # "single" /\ step' # "watch"
        BY <2>4 DEF Early
    <2>6. step' \in Phases => step' = "phase 1" /\ todo' = In("phase 1")'
        BY <2>4 DEF Phases
    <2>7. step' \notin {"dependencies", "plan", "confirm"}
        BY <2>4
    <2> QED
        BY <1>6, <2>1, <2>3, <2>5, <2>6, <2>7
<1> QED
    BY <1>9, <1>10, <1>11, <1>12, <1>13, <1>14 DEF Asking

(***************************************************************************)
(* The releases.                                                           *)
(***************************************************************************)

\* A release, done or failed, with or without effect.
LEMMA PublishKeeps ==
    ASSUME Types, NEW p \in Projects, Publishes(p) \/ NothingPublished
    PROVE  /\ version' \in [Projects -> Nat]
           /\ coming' \in [Projects -> Seq({"us", "else"})]
           /\ others' = others /\ runs' = runs
           /\ published \subseteq published' /\ published' \subseteq published \cup {p}
           /\ Publishes(p) => p \in published'
<1>1. CASE NothingPublished
    BY <1>1 DEF NothingPublished, github, Types, Publishes
<1>2. CASE Publishes(p)
    <2>1. version[p] \in Nat /\ version[p] + 1 \in Nat
        BY DEF Types
    <2>2. version' = version \/ version' = [version EXCEPT ![p] = version[p] + 1]
        BY <1>2 DEF Publishes, ReleaseSemver, ReleaseWorkflow, Bumped, Sets
    <2>3. version' \in [Projects -> Nat]
        BY <2>1, <2>2 DEF Types
    <2>4. Append(coming[p], "us") \in Seq({"us", "else"})
        BY DEF Types
    <2>5. coming' = [coming EXCEPT ![p] = Append(coming[p], "us")]
        BY <1>2 DEF Publishes, Sets
    <2>6. coming' \in [Projects -> Seq({"us", "else"})]
        BY <2>4, <2>5 DEF Types
    <2> QED
        BY <1>2, <2>3, <2>6 DEF Publishes
<1> QED
    BY <1>1, <1>2

\* A project that is waiting for its turn has been left alone.
LEMMA WaitsUntouched ==
    ASSUME IInv, Releasing, NEW p \in todo
    PROVE  /\ p \notin published /\ p \notin failedDeps
           /\ runOf[p] = None /\ watch[p] = None
BY DEF IInv, Work, ReportOK, DependenciesOK, Types, WatchesTell

\* A project has its turn: it is released, fails, is skipped or passed over.
LEMMA TurnKeeps ==
    ASSUME IInv, NEW p \in Projects,
           ReleaseDependency(p) \/ ReleaseDependent(p) \/ ReleaseIndependent(p)
    PROVE  IInv'
<1>1. /\ step \in Phases /\ current = None /\ p \in todo /\ todo' = todo \ {p}
      /\ UNCHANGED <<step, multi, watching, selected, seen, plan, runOf, watch, exit, interrupted>>
    BY DEF ReleaseDependency, ReleaseDependent, ReleaseIndependent, Takes, Phases, Untouched
<1>2. Types /\ Course /\ WatchesTell /\ DependentsFollow
    BY DEF IInv
<1>3. multi /\ Releasing
    BY <1>1, <1>2 DEF Course, Releasing
<1>4. CurrentOK /\ ReportOK /\ DependenciesOK
    BY <1>3 DEF IInv, Work
<1>5. p \in selected /\ PhaseOf(p) = step
    BY <1>1, <1>4 DEF CurrentOK, In
<1>6. p \notin published /\ p \notin failedDeps /\ runOf[p] = None /\ watch[p] = None
    BY <1>1, <1>3, WaitsUntouched
<1>7. DependsOn(p) = {} \/ step = "phase 2"
    BY <1>2, <1>5, PhasesSplit DEF Types
<1>8. /\ Publishes(p) \/ NothingPublished
      /\ Publishes(p) => p \in plan /\ ~DependencyFailed(p)
    <2>1. Executes(p) => p \in plan /\ (Publishes(p) \/ NothingPublished)
        BY DEF Executes
    <2>2. PassesOver(p) => NothingPublished
        BY DEF PassesOver
    <2>3. ~(Publishes(p) /\ NothingPublished)
        BY <1>6 DEF Publishes, NothingPublished
    <2>4. step # "phase 2" => ~DependencyFailed(p)
        BY <1>7 DEF DependencyFailed
    <2> QED
        BY <2>1, <2>2, <2>3, <2>4 DEF ReleaseDependency, ReleaseDependent, ReleaseIndependent, Takes
<1>9. /\ version' \in [Projects -> Nat]
      /\ coming' \in [Projects -> Seq({"us", "else"})]
      /\ others' = others /\ runs' = runs
      /\ published \subseteq published' /\ published' \subseteq published \cup {p}
      /\ p \in published' => p \in plan /\ ~DependencyFailed(p)
      /\ Publishes(p) => p \in published'
    BY <1>2, <1>6, <1>8, PublishKeeps DEF NothingPublished
<1>10. PICK status \in Statuses \cup {None} :
          /\ report' = [report EXCEPT ![p] = status]
          /\ \/ /\ status = "released" /\ p \in plan /\ p \in published' /\ current' = p
             \/ /\ status = "failed" /\ current' = None
             \/ /\ status = "skipped" /\ DependencyFailed(p) /\ current' = None
             \/ /\ status = report[p] /\ p \notin plan /\ current' = None
    <2>1. report = [report EXCEPT ![p] = report[p]] /\ report[p] \in Statuses \cup {None}
        BY <1>2 DEF Types
    <2>2. CASE Executes(p)
        <3>1. CASE Publishes(p) /\ Reports(p, "released") /\ current' = p
            <4> DEFINE status == "released"
            <4>1. status \in Statuses \cup {None} /\ report' = [report EXCEPT ![p] = status]
                BY <3>1 DEF Statuses, Reports, Sets
            <4>2. status = "released" /\ p \in plan /\ p \in published' /\ current' = p
                BY <2>2, <3>1, <1>9 DEF Executes
            <4> HIDE DEF status
            <4> QED
                BY <4>1, <4>2
        <3>2. CASE Reports(p, "failed") /\ UNCHANGED current
            <4> DEFINE status == "failed"
            <4>1. status \in Statuses \cup {None} /\ report' = [report EXCEPT ![p] = status]
                BY <3>2 DEF Statuses, Reports, Sets
            <4>2. status = "failed" /\ current' = None
                BY <1>1, <3>2
            <4> HIDE DEF status
            <4> QED
                BY <4>1, <4>2
        <3> QED
            BY <2>2, <3>1, <3>2 DEF Executes
    <2>3. CASE PassesOver(p)
        BY <1>1, <2>1, <2>3 DEF PassesOver
    <2>4. CASE DependencyFailed(p) /\ Reports(p, "skipped") /\ UNCHANGED current
        <3> DEFINE status == "skipped"
        <3>1. status \in Statuses \cup {None} /\ report' = [report EXCEPT ![p] = status]
            BY <2>4 DEF Statuses, Reports, Sets
        <3>2. status = "skipped" /\ DependencyFailed(p) /\ current' = None
            BY <1>1, <2>4
        <3> HIDE DEF status
        <3> QED
            BY <3>1, <3>2
    <2> QED
        BY <2>2, <2>3, <2>4 DEF ReleaseDependency, ReleaseDependent, ReleaseIndependent
<1>11. \A q \in Projects : report'[q] = IF q = p THEN status ELSE report[q]
    BY <1>2, <1>10 DEF Types
<1>12. failedDeps' = IF step = "phase 1" /\ status = "failed" THEN failedDeps \cup {p} ELSE failedDeps
    <2>1. CASE ReleaseDependency(p)
        <3>1. step = "phase 1" /\ report'[p] = status
              /\ failedDeps' = IF report'[p] = "failed" THEN failedDeps \cup {p} ELSE failedDeps
            BY <1>11, <2>1 DEF ReleaseDependency, Takes
        <3> QED
            BY <3>1
    <2>2. CASE ReleaseDependent(p) \/ ReleaseIndependent(p)
        BY <2>2 DEF ReleaseDependent, ReleaseIndependent, Takes
    <2> QED
        BY <2>1, <2>2
<1>13. /\ \A q : PhaseOf(q)' = PhaseOf(q) /\ DependsOn(q)' = DependsOn(q)
       /\ \A phase : In(phase)' = In(phase)
       /\ \A q : Conclusion(q)' = Conclusion(q) /\ OwnRun(q)' = OwnRun(q)
    BY <1>1, <1>9, SamePhases DEF Conclusion, OwnRun
<1>14. Types'
    <2>1. report' \in [Projects -> Statuses \cup {None}]
        BY <1>2, <1>10 DEF Types
    <2>2. current' \in Projects \cup {None} /\ failedDeps' \subseteq Projects
        BY <1>2, <1>10, <1>12 DEF Types
    <2> QED
        BY <1>1, <1>2, <1>9, <2>1, <2>2 DEF Types
<1>15. Course' /\ WatchesTell'
    BY <1>1, <1>2, <1>3, <1>13 DEF Course, WatchesTell, Phases, Early
<1>16. CurrentOK'
    <2>1. ASSUME current' # None
          PROVE  /\ current' = p /\ p \in plan /\ p \in published' /\ status = "released"
                 /\ p \notin failedDeps'
        BY <1>6, <1>10, <1>12, <2>1
    <2> QED
        BY <1>1, <1>4, <1>5, <1>6, <1>11, <1>13, <2>1 DEF CurrentOK, Phases
<1>17. ReportOK'
    <2>1. \A q \in Projects : HasTurn(q)' = HasTurn(q)
        BY <1>1, <1>13 DEF HasTurn
    <2>2. ASSUME NEW q \in plan, HasTurn(q), q \notin todo'
          PROVE  Settled(q)'
        <3>1. CASE q = p
            BY <1>9, <1>10, <1>11, <1>12, <1>13, <2>2, <3>1 DEF Settled, DependencyFailed
        <3>2. CASE q # p
            <4>1. Settled(q) /\ q \in Projects
                BY <1>1, <1>2, <1>4, <2>2, <3>2 DEF ReportOK, Types
            <4> QED
                BY <1>9, <1>11, <1>12, <1>13, <3>2, <4>1 DEF Settled, DependencyFailed
        <3> QED
            BY <3>1, <3>2
    <2>3. HasTurn(p)
        BY <1>1, <1>5 DEF HasTurn, Phases
    <2>4. \A q \in published' : q \in selected /\ HasTurn(q) /\ q \notin todo'
        BY <1>1, <1>4, <1>5, <1>9, <2>3 DEF ReportOK
    <2>5. plan \subseteq Projects /\ published' \subseteq Projects
        BY <1>1, <1>14 DEF Types
    <2> QED
        BY <1>1, <1>4, <1>9, <2>1, <2>2, <2>4, <2>5 DEF ReportOK
<1>18. DependenciesOK'
    <2>1. ASSUME NEW d \in failedDeps'
          PROVE  PhaseOf(d) = "phase 1" /\ report'[d] \in {"failed", "timed_out"} /\ d \notin todo'
        BY <1>1, <1>2, <1>4, <1>5, <1>6, <1>11, <1>12, <2>1 DEF DependenciesOK, Types
    <2>2. ASSUME NEW d \in Projects, PhaseOf(d) = "phase 1", report'[d] \in {"failed", "timed_out"}
          PROVE  d \in failedDeps'
        BY <1>4, <1>5, <1>10, <1>11, <1>12, <2>2 DEF DependenciesOK
    <2>3. ASSUME NEW d \in Projects, watching, PhaseOf(d) = "phase 1", runOf[d] # None, d # current'
          PROVE  d \in failedDeps' \/ Conclusion(d) = "success"
        <3>1. d # current
            BY <1>1, <2>3, NoneAssumption
        <3> QED
            BY <1>4, <1>12, <2>3, <3>1 DEF DependenciesOK
    <2> QED
        BY <1>1, <1>13, <2>1, <2>2, <2>3 DEF DependenciesOK
<1>19. DependentsFollow'
    <2> SUFFICES ASSUME NEW q \in published', NEW d \in DependsOn(q) \cap plan
                 PROVE  /\ d \in published'
                        /\ watching /\ OwnRun(d) => Conclusion(d) = "success"
        BY <1>1, <1>13 DEF DependentsFollow
    <2>1. CASE q \in published
        BY <1>2, <1>3, <1>9, <2>1 DEF DependentsFollow
    <2>2. CASE q = p
        <3>1. d \in selected /\ PhaseOf(d) = "phase 1" /\ DependsOn(d) = {} /\ d \in Projects
            BY <1>2, <1>5, <2>2, PhasesSplit DEF Types
        <3>2. step = "phase 2" /\ d \notin failedDeps
            BY <1>7, <1>9, <2>2 DEF DependencyFailed
        <3>3. HasTurn(d) /\ d \notin todo
            BY <1>4, <3>1, <3>2 DEF HasTurn, CurrentOK, In, Phases
        <3>4. Settled(d) /\ report[d] \notin {"failed", "timed_out"}
            BY <1>4, <3>1, <3>2, <3>3 DEF ReportOK, DependenciesOK
        <3>5. d \in published
            BY <3>1, <3>4 DEF Settled, DependencyFailed
        <3>6. watching /\ runOf[d] # None => Conclusion(d) = "success"
            BY <1>1, <1>4, <3>1, <3>2, NoneAssumption DEF DependenciesOK
        <3> QED
            BY <1>9, <3>5, <3>6 DEF OwnRun
    <2> QED
        BY <1>9, <2>1, <2>2
<1>20. NoFailure'
    BY <1>1 DEF NoFailure, Phases
<1> QED
    BY <1>14, <1>15, <1>16, <1>17, <1>18, <1>19, <1>20 DEF IInv, Work

\* The run of a release is looked up, and found or not.
LEMMA LookUpKeeps ==
    ASSUME IInv, NEW p \in Projects, LookUp(p)
    PROVE  IInv'
<1>1. /\ step \in Phases /\ current = p /\ watch[p] = None
      /\ UNCHANGED <<runs, version, coming, others, step, multi, watching, selected, seen, plan,
                     todo, report, failedDeps, exit, interrupted, published>>
    BY DEF LookUp, github
<1>2. Types /\ Course /\ WatchesTell /\ DependentsFollow
    BY DEF IInv
<1>3. multi /\ Releasing
    BY <1>1, <1>2 DEF Course, Releasing
<1>4. CurrentOK /\ ReportOK /\ DependenciesOK
    BY <1>3 DEF IInv, Work
<1>5. current # None /\ p # None
    BY <1>1, NoneAssumption
<1>6. /\ p \in plan /\ PhaseOf(p) = step /\ p \in published /\ report[p] = "released"
      /\ p \notin failedDeps /\ p \notin todo /\ runOf[p] = None
    BY <1>1, <1>4, <1>5 DEF CurrentOK
<1>7. PICK run \in Found(p) :
          /\ runOf' = [runOf EXCEPT ![p] = run]
          /\ LET waits == step = "phase 1" /\ run # None /\ watching
             IN /\ watch' = IF waits THEN [watch EXCEPT ![p] = "begun"] ELSE watch
                /\ current' = IF waits THEN p ELSE None
    BY DEF LookUp, Sets
<1> DEFINE waits == step = "phase 1" /\ run # None /\ watching
<1>8. run \in (Nat \cup {None}) /\ run \in DOMAIN runs[p] \cup {None}
    <2>1. runs[p] \in Seq(Run)
        BY <1>2 DEF Types
    <2>2. run = None \/ run \in DOMAIN runs[p]
        BY DEF Found
    <2>3. DOMAIN runs[p] \subseteq Nat
        BY <2>1
    <2> QED
        BY <2>2, <2>3
<1>9. /\ \A q \in Projects : runOf'[q] = IF q = p THEN run ELSE runOf[q]
      /\ \A q \in Projects : watch'[q] = IF q = p /\ waits THEN "begun" ELSE watch[q]
      /\ current' = IF waits THEN p ELSE None
    BY <1>2, <1>7 DEF Types
<1>10. /\ \A q : PhaseOf(q)' = PhaseOf(q) /\ DependsOn(q)' = DependsOn(q)
       /\ \A phase : In(phase)' = In(phase)
    BY <1>1, SamePhases
<1>11. \A q \in Projects \ {p} : Conclusion(q)' = Conclusion(q) /\ OwnRun(q)' = OwnRun(q)
    BY <1>1, <1>9 DEF Conclusion, OwnRun
<1>12. "begun" # None /\ "begun" # "success" /\ None # "success"
    BY NoneAssumption
<1>13. Types'
    <2>1. runOf' \in [Projects -> Nat \cup {None}]
        BY <1>2, <1>7, <1>8 DEF Types
    <2>2. watch' \in [Projects -> Results \cup {None, "begun", "polling"}]
        BY <1>2, <1>7 DEF Types
    <2>3. current' \in Projects \cup {None}
        BY <1>9
    <2>4. \A q \in Projects : runOf'[q] \in DOMAIN runs[q] \cup {None}
        BY <1>2, <1>8, <1>9 DEF Types
    <2> QED
        BY <1>1, <1>2, <2>1, <2>2, <2>3, <2>4 DEF Types
<1>14. Course'
    BY <1>1, <1>2, <1>3 DEF Course, Phases, Early
<1>15. WatchesTell'
    BY <1>1, <1>2, <1>9, <1>11, <1>12 DEF WatchesTell
<1>16. CurrentOK'
    <2>1. ASSUME current' # None PROVE current' = p /\ watch'[p] = "begun"
        BY <1>9, <2>1
    <2> QED
        BY <1>1, <1>4, <1>6, <1>10, <1>12, <2>1 DEF CurrentOK, Phases
<1>17. ReportOK'
    BY <1>1, <1>4, <1>6, <1>9, <1>10 DEF ReportOK, Settled, DependencyFailed, HasTurn
<1>18. DependenciesOK'
    <2>1. ASSUME NEW d \in Projects, watching, PhaseOf(d) = "phase 1", runOf'[d] # None, d # current'
          PROVE  d \in failedDeps \/ Conclusion(d)' = "success"
        <3>1. CASE d = p
            BY <1>6, <1>9, <2>1, <3>1
        <3>2. CASE d # p
            BY <1>1, <1>4, <1>9, <1>11, <2>1, <3>2 DEF DependenciesOK
        <3> QED
            BY <3>1, <3>2
    <2> QED
        BY <1>1, <1>4, <1>10, <2>1 DEF DependenciesOK
<1>19. DependentsFollow'
    <2> SUFFICES ASSUME NEW q \in published, NEW d \in DependsOn(q) \cap plan
                 PROVE  /\ d \in published
                        /\ watching /\ OwnRun(d)' => Conclusion(d)' = "success"
        BY <1>1, <1>10 DEF DependentsFollow
    <2>1. /\ d \in published /\ d \in Projects
          /\ watching /\ OwnRun(d) => Conclusion(d) = "success"
        BY <1>2, <1>3 DEF DependentsFollow, Types
    <2>2. d # p
        <3>1. q \in selected /\ q \in Projects /\ HasTurn(q)
            BY <1>2, <1>4 DEF ReportOK, Types
        <3>2. PhaseOf(d) = "phase 1" /\ PhaseOf(q) # "phase 1"
            BY <1>2, <3>1, PhasesSplit DEF Types
        <3> QED
            BY <1>1, <1>6, <3>1, <3>2 DEF HasTurn, Phases
    <2> QED
        BY <1>11, <2>1, <2>2
<1>20. NoFailure'
    BY <1>1 DEF NoFailure, Phases
<1> QED
    BY <1>13, <1>14, <1>15, <1>16, <1>17, <1>18, <1>19, <1>20 DEF IInv, Work

\* The watch of a dependency's build has ended.
LEMMA DependencyWatchedKeeps ==
    ASSUME IInv, NEW p \in Projects, DependencyWatched(p)
    PROVE  IInv'
<1>1. /\ step = "phase 1" /\ current = p /\ watch[p] \in Results
      /\ report' = [report EXCEPT ![p] = StatusOf(watch[p])]
      /\ failedDeps' = IF watch[p] = "success" THEN failedDeps ELSE failedDeps \cup {p}
      /\ current' = None
      /\ UNCHANGED <<runs, version, coming, others, step, multi, watching, selected, seen, plan,
                     todo, runOf, watch, exit, interrupted, published>>
    BY DEF DependencyWatched, Reports, Sets, github
<1>2. Types /\ Course /\ WatchesTell /\ DependentsFollow
    BY DEF IInv
<1>3. multi /\ Releasing
    BY <1>1, <1>2 DEF Course, Releasing, Phases
<1>4. CurrentOK /\ ReportOK /\ DependenciesOK
    BY <1>3 DEF IInv, Work
<1>5. current # None
    BY <1>1, NoneAssumption
<1>6. /\ p \in plan /\ PhaseOf(p) = "phase 1" /\ p \in published
      /\ p \notin todo /\ p \notin failedDeps
    BY <1>1, <1>4, <1>5 DEF CurrentOK
<1>7. /\ StatusOf(watch[p]) \in {"success", "failed", "timed_out"}
      /\ StatusOf(watch[p]) = "success" <=> watch[p] = "success"
    BY DEF StatusOf
<1>8. \A q \in Projects : report'[q] = IF q = p THEN StatusOf(watch[p]) ELSE report[q]
    BY <1>1, <1>2 DEF Types
<1>9. /\ \A q : PhaseOf(q)' = PhaseOf(q) /\ DependsOn(q)' = DependsOn(q)
      /\ \A phase : In(phase)' = In(phase)
      /\ \A q : Conclusion(q)' = Conclusion(q) /\ OwnRun(q)' = OwnRun(q)
    BY <1>1, SamePhases DEF Conclusion, OwnRun
<1>10. Types'
    <2>1. report' \in [Projects -> Statuses \cup {None}]
        BY <1>1, <1>2, <1>7 DEF Types, Statuses
    <2> QED
        BY <1>1, <1>2, <2>1 DEF Types
<1>11. Course' /\ WatchesTell'
    BY <1>1, <1>2, <1>3, <1>9 DEF Course, WatchesTell, Phases, Early
<1>12. CurrentOK'
    BY <1>1, <1>4, <1>9 DEF CurrentOK, Phases
<1>13. ReportOK'
    <2>1. ASSUME NEW q \in plan, HasTurn(q), q \notin todo PROVE Settled(q)'
        <3>1. CASE q = p
            BY <1>1, <1>6, <1>7, <1>8, <1>2, <3>1 DEF Settled, Types
        <3>2. CASE q # p
            <4>1. Settled(q) /\ q \in Projects
                BY <1>2, <1>4, <2>1 DEF ReportOK, Types
            <4> QED
                BY <1>1, <1>8, <1>9, <3>2, <4>1 DEF Settled, DependencyFailed
        <3> QED
            BY <3>1, <3>2
    <2> QED
        BY <1>1, <1>4, <1>9, <2>1 DEF ReportOK, HasTurn
<1>14. DependenciesOK'
    <2>1. ASSUME NEW d \in failedDeps'
          PROVE  PhaseOf(d) = "phase 1" /\ report'[d] \in {"failed", "timed_out"} /\ d \notin todo
        <3>1. CASE d = p
            BY <1>1, <1>6, <1>7, <1>8, <2>1, <3>1
        <3>2. CASE d # p
            BY <1>1, <1>2, <1>4, <1>8, <2>1, <3>2 DEF DependenciesOK, Types
        <3> QED
            BY <3>1, <3>2
    <2>2. ASSUME NEW d \in Projects, PhaseOf(d) = "phase 1", report'[d] \in {"failed", "timed_out"}
          PROVE  d \in failedDeps'
        BY <1>1, <1>4, <1>7, <1>8, <2>2 DEF DependenciesOK
    <2>3. ASSUME NEW d \in Projects, watching, PhaseOf(d) = "phase 1", runOf[d] # None
          PROVE  d \in failedDeps' \/ Conclusion(d) = "success"
        <3>1. CASE d = p
            BY <1>1, <1>2, <3>1 DEF WatchesTell
        <3>2. CASE d # p
            BY <1>1, <1>4, <2>3, <3>2 DEF DependenciesOK
        <3> QED
            BY <3>1, <3>2
    <2> QED
        BY <1>1, <1>9, <2>1, <2>2, <2>3 DEF DependenciesOK
<1>15. DependentsFollow'
    BY <1>1, <1>2, <1>9 DEF DependentsFollow
<1>16. NoFailure'
    BY <1>1 DEF NoFailure
<1> QED
    BY <1>10, <1>11, <1>12, <1>13, <1>14, <1>15, <1>16 DEF IInv, Work

\* A phase ends; the last one with the watches or with the verdict.
LEMMA EndPhaseKeeps ==
    ASSUME IInv, EndPhase
    PROVE  IInv'
<1>1. /\ step \in Phases /\ current = None /\ todo = {}
      /\ UNCHANGED <<runs, version, coming, others, multi, watching, selected, seen, plan, current,
                     runOf, report, failedDeps, interrupted, published>>
    BY DEF EndPhase, github
<1>2. Types /\ Course /\ WatchesTell /\ DependentsFollow
    BY DEF IInv
<1>3. multi /\ Releasing
    BY <1>1, <1>2 DEF Course, Releasing
<1>4. CurrentOK /\ ReportOK /\ DependenciesOK
    BY <1>3 DEF IInv, Work
<1>5. /\ \A q : PhaseOf(q)' = PhaseOf(q) /\ DependsOn(q)' = DependsOn(q)
      /\ \A phase : In(phase)' = In(phase)
      /\ \A q : Conclusion(q)' = Conclusion(q) /\ OwnRun(q)' = OwnRun(q)
    BY <1>1, SamePhases DEF Conclusion, OwnRun
<1>6. exit = None
    BY <1>1, <1>2 DEF Types, Phases
<1>7. DependentsFollow'
    BY <1>1, <1>2, <1>5 DEF DependentsFollow
<1>8. DependenciesOK' \/ todo' # {}
    BY <1>1, <1>4, <1>5 DEF DependenciesOK
<1>9. ASSUME NEW next \in {"phase 2", "phase 3"}, step' = next, todo' = In(next),
             UNCHANGED <<watch, exit>>,
             \A q \in selected : HasTurn(q)' => HasTurn(q) \/ PhaseOf(q) = next,
             \A q \in Projects : HasTurn(q) => HasTurn(q)' /\ (q \in selected => PhaseOf(q) # next)
      PROVE  IInv'
    <2>1. Types'
        BY <1>1, <1>2, <1>6, <1>9 DEF Types, In, Steps, Phases
    <2>2. Course' /\ WatchesTell'
        BY <1>1, <1>2, <1>3, <1>5, <1>9 DEF Course, WatchesTell, Phases, Early
    <2>3. CurrentOK'
        BY <1>1, <1>5, <1>9 DEF CurrentOK
    <2>4. ReportOK'
        <3>1. ASSUME NEW q \in plan, HasTurn(q)', q \notin todo' PROVE Settled(q)'
            <4>1. q \in selected /\ PhaseOf(q) # next
                BY <1>2, <1>9, <3>1 DEF Types, In
            <4>2. Settled(q)
                BY <1>1, <1>4, <1>9, <3>1, <4>1 DEF ReportOK
            <4> QED
                BY <1>1, <1>5, <4>2 DEF Settled, DependencyFailed
        <3>2. ASSUME NEW q \in published PROVE q \in selected /\ HasTurn(q)' /\ q \notin todo'
            BY <1>2, <1>4, <1>9, <3>2 DEF ReportOK, In, Types
        <3> QED
            BY <1>1, <1>4, <3>1, <3>2 DEF ReportOK
    <2>5. DependenciesOK'
        BY <1>1, <1>4, <1>5, <1>9 DEF DependenciesOK, In
    <2>6. NoFailure'
        BY <1>9 DEF NoFailure
    <2> QED
        BY <1>7, <2>1, <2>2, <2>3, <2>4, <2>5, <2>6 DEF IInv, Work
<1>10. CASE step = "phase 1" /\ Goes("phase 2") /\ todo' = In("phase 2") /\ UNCHANGED watch
    BY <1>5, <1>9, <1>10 DEF Goes, HasTurn
<1>11. CASE step = "phase 2" /\ Goes("phase 3") /\ todo' = In("phase 3") /\ UNCHANGED watch
    <2>1. \A q \in Projects : PhaseOf(q) \in Phases
        BY <1>2, PhasesSplit DEF Types
    <2> QED
        BY <1>2, <1>5, <1>9, <1>11, <2>1 DEF Goes, HasTurn, Phases, Types
<1>12. CASE /\ step = "phase 3" /\ watching /\ WatchItems # {}
            /\ Goes("watch") /\ UNCHANGED todo
            /\ watch' = [p \in Projects |-> IF p \in WatchItems THEN "begun" ELSE watch[p]]
    <2>1. step' = "watch" /\ UNCHANGED <<exit, todo>>
        BY <1>12 DEF Goes
    <2>2. watch' \in [Projects -> Results \cup {None, "begun", "polling"}]
        BY <1>2, <1>12 DEF Types
    <2>3. Types'
        BY <1>1, <1>2, <1>6, <2>1, <2>2 DEF Types, Steps
    <2>4. Course'
        BY <2>1 DEF Course, Early, Phases
    <2>5. WatchesTell'
        BY <1>1, <1>2, <1>5, <1>12 DEF WatchesTell, WatchItems
    <2>6. CurrentOK'
        BY <1>1, <2>1 DEF CurrentOK, Phases
    <2>7. ReportOK'
        BY <1>1, <1>4, <1>5, <1>12, <2>1 DEF ReportOK, Settled, DependencyFailed, HasTurn
    <2>8. DependenciesOK'
        BY <1>1, <1>8, <2>1
    <2>9. NoFailure'
        BY <2>1 DEF NoFailure
    <2> QED
        BY <1>7, <2>3, <2>4, <2>5, <2>6, <2>7, <2>8, <2>9 DEF IInv, Work
<1>13. CASE /\ step = "phase 3" /\ ~(watching /\ WatchItems # {})
            /\ Ends(Verdict(report)) /\ UNCHANGED <<todo, watch>>
    <2>1. step' = "over" /\ exit' = Verdict(report) /\ Verdict(report) \in {"ok", "error"}
        BY <1>13 DEF Ends, Verdict
    <2>2. Types'
        BY <1>1, <1>2, <1>13, <2>1, NoneAssumption DEF Types, Steps
    <2>3. Course'
        BY <2>1 DEF Course, Early, Phases
    <2>4. WatchesTell'
        BY <1>1, <1>2, <1>5, <1>13 DEF WatchesTell
    <2>5. Work'
        BY <2>1 DEF Work, Releasing, Phases
    <2>6. NoFailure'
        <3> SUFFICES ASSUME exit' = "ok", NEW p \in plan
                     PROVE  /\ p \in published
                            /\ watching /\ runOf[p] # None => Conclusion(p) = "success"
            BY <1>1, <1>5 DEF NoFailure
        <3>1. Failed(report) = {} /\ p \in Projects /\ p \in selected
            BY <1>2, <2>1 DEF Verdict, Types
        <3>2. failedDeps = {}
            BY <1>2, <1>4, <3>1 DEF DependenciesOK, Failed, Types
        <3>3. Settled(p)
            BY <1>1, <1>4, <1>13 DEF ReportOK, HasTurn
        <3>4. p \in published
            BY <3>1, <3>2, <3>3 DEF Settled, DependencyFailed, Failed
        <3>5. ASSUME watching, runOf[p] # None PROVE Conclusion(p) = "success"
            <4>1. PhaseOf(p) = "phase 1"
                BY <1>2, <1>13, <3>1, <3>5, PhasesSplit DEF WatchItems, In, Phases, Types
            <4> QED
                BY <1>1, <1>4, <3>1, <3>2, <3>5, <4>1, NoneAssumption DEF DependenciesOK
        <3> QED
            BY <3>4, <3>5
    <2> QED
        BY <1>7, <2>2, <2>3, <2>4, <2>5, <2>6 DEF IInv
<1> QED
    BY <1>10, <1>11, <1>12, <1>13 DEF EndPhase

\* The watches are over, and the report gets their results.
LEMMA AllWatchedKeeps ==
    ASSUME IInv, AllWatched
    PROVE  IInv'
<1>1. /\ step = "watch" /\ multi
      /\ \A p \in WatchItems : watch[p] \in Results
      /\ report' = [p \in Projects |->
            IF p \in WatchItems THEN StatusOf(MultiResult(watch[p])) ELSE report[p]]
      /\ step' = "over" /\ exit' = Verdict(report')
      /\ UNCHANGED <<runs, version, coming, others, multi, watching, selected, seen, plan, todo, current,
                     runOf, watch, failedDeps, interrupted, published>>
    BY DEF AllWatched, Ends, github
<1>2. Types /\ Course /\ WatchesTell /\ DependentsFollow
    BY DEF IInv
<1>3. CurrentOK /\ ReportOK /\ DependenciesOK
    BY <1>1 DEF IInv, Work, Releasing
<1>4. /\ \A q : DependsOn(q)' = DependsOn(q)
      /\ \A q : Conclusion(q)' = Conclusion(q) /\ OwnRun(q)' = OwnRun(q)
    BY <1>1, SamePhases DEF Conclusion, OwnRun
<1>5. /\ \A result : StatusOf(MultiResult(result)) \in {"success", "failed", "timed_out"}
      /\ \A result : StatusOf(MultiResult(result)) = "success" => result = "success"
    BY DEF StatusOf, MultiResult
<1>6. Types'
    <2>1. report' \in [Projects -> Statuses \cup {None}]
        BY <1>1, <1>2, <1>5 DEF Types, Statuses
    <2>2. exit' \in {"ok", "error"}
        BY <1>1 DEF Verdict
    <2> QED
        BY <1>1, <1>2, <2>1, <2>2, NoneAssumption DEF Types, Steps
<1>7. Course'
    BY <1>1 DEF Course, Early, Phases
<1>8. WatchesTell' /\ DependentsFollow'
    BY <1>1, <1>2, <1>4 DEF WatchesTell, DependentsFollow
<1>9. Work'
    BY <1>1 DEF Work, Releasing, Phases
<1>10. NoFailure'
    <2> SUFFICES ASSUME exit' = "ok", NEW p \in plan
                 PROVE  /\ p \in published
                        /\ watching /\ runOf[p] # None => Conclusion(p) = "success"
        BY <1>1, <1>4 DEF NoFailure
    <2>1. /\ \A q \in Projects : report'[q] \notin {"failed", "timed_out"}
          /\ p \in Projects /\ p \in selected /\ current = None
        BY <1>1, <1>2, <1>3 DEF Verdict, Failed, Types, CurrentOK
    <2>2. \A q \in failedDeps : q \notin WatchItems /\ q \in Projects
        BY <1>2, <1>3 DEF DependenciesOK, WatchItems, In, Types
    <2>3. failedDeps = {}
        BY <1>1, <1>3, <2>1, <2>2 DEF DependenciesOK
    <2>4. Settled(p)
        BY <1>1, <1>3 DEF ReportOK, HasTurn, CurrentOK
    <2>5. p \in published
        <3>1. CASE runOf[p] # None
            BY <1>3, <2>1, <3>1 DEF ReportOK
        <3>2. CASE runOf[p] = None
            <4>1. report[p] = report'[p]
                BY <1>1, <2>1, <3>2 DEF WatchItems
            <4> QED
                BY <2>1, <2>3, <2>4, <4>1 DEF Settled, DependencyFailed
        <3> QED
            BY <3>1, <3>2
    <2>6. ASSUME watching, runOf[p] # None PROVE Conclusion(p) = "success"
        <3>1. CASE PhaseOf(p) = "phase 1"
            BY <1>3, <2>1, <2>3, <2>6, <3>1, NoneAssumption DEF DependenciesOK
        <3>2. CASE PhaseOf(p) # "phase 1"
            <4>1. p \in WatchItems
                BY <1>2, <2>1, <2>6, <3>2, PhasesSplit DEF WatchItems, In, Phases, Types
            <4>2. watch[p] = "success"
                BY <1>1, <1>5, <2>1, <4>1
            <4> QED
                BY <1>2, <2>1, <4>2 DEF WatchesTell
        <3> QED
            BY <3>1, <3>2
    <2> QED
        BY <2>5, <2>6
<1> QED
    BY <1>6, <1>7, <1>8, <1>9, <1>10 DEF IInv

\* A release of one project.
LEMMA SingleKeeps ==
    ASSUME IInv, SingleWatched \/ \E p \in Projects : ReleaseSingle(p) \/ LookUpSingle(p)
    PROVE  IInv'
<1>1. Types /\ Course /\ WatchesTell
    BY DEF IInv
<1>2. ~multi /\ UNCHANGED <<multi, watching, selected, seen, plan, todo, report, failedDeps, interrupted>>
    BY <1>1 DEF Course, ReleaseSingle, LookUpSingle, SingleWatched
<1>3. ASSUME Types', step' \in {"single", "watch", "over"}, WatchesTell',
             step' = "single" => \A q \in Projects : runOf'[q] = None /\ watch'[q] = None
      PROVE  IInv'
    <2>1. Course'
        BY <1>2, <1>3 DEF Course, Early, Phases
    <2>2. Work' /\ DependentsFollow' /\ NoFailure'
        BY <1>2 DEF Work, Releasing, DependentsFollow, NoFailure
    <2> QED
        BY <1>3, <2>1, <2>2 DEF IInv
<1>4. None \notin {"ok", "error", "success", "begun"}
    BY NoneAssumption
<1>5. ASSUME NEW p \in Projects, ReleaseSingle(p) PROVE IInv'
    <2>1. step = "single" /\ UNCHANGED <<runOf, watch>>
        BY <1>5 DEF ReleaseSingle
    <2>2. \A q \in Projects : runOf[q] = None /\ watch[q] = None
        BY <1>1, <2>1 DEF Course
    <2>3. /\ version' \in [Projects -> Nat]
          /\ coming' \in [Projects -> Seq({"us", "else"})]
          /\ others' = others /\ runs' = runs /\ published' \subseteq published \cup {p}
        BY <1>1, <1>5, PublishKeeps DEF ReleaseSingle
    <2>4. /\ step' \in {"single", "over"} /\ current' \in {current, p}
          /\ exit' \in {None, "ok", "error"} /\ (exit' # None <=> step' = "over")
        BY <1>1, <1>4, <1>5, <2>1 DEF ReleaseSingle, Ends, Types
    <2>5. Types'
        BY <1>1, <1>2, <2>1, <2>3, <2>4 DEF Types, Steps
    <2>6. WatchesTell'
        BY <1>4, <2>1, <2>2 DEF WatchesTell
    <2> QED
        BY <1>3, <2>1, <2>2, <2>4, <2>5, <2>6
<1>6. ASSUME NEW p \in Projects, LookUpSingle(p) PROVE IInv'
    <2>1. step = "single" /\ UNCHANGED <<runs, version, coming, others, current, published>>
        BY <1>6 DEF LookUpSingle, github
    <2>2. \A q \in Projects : runOf[q] = None /\ watch[q] = None
        BY <1>1, <2>1 DEF Course
    <2>3. PICK run \in Found(p) :
            /\ runOf' = [runOf EXCEPT ![p] = run]
            /\ IF run # None /\ watching
               THEN step' = "watch" /\ exit' = exit /\ watch' = [watch EXCEPT ![p] = "begun"]
               ELSE step' = "over" /\ exit' = "ok" /\ UNCHANGED watch
        BY <1>6 DEF LookUpSingle, Sets, Goes, Ends
    <2>4. run \in (Nat \cup {None}) /\ run \in DOMAIN runs[p] \cup {None}
        <3>1. runs[p] \in Seq(Run) /\ (run = None \/ run \in DOMAIN runs[p])
            BY <1>1 DEF Types, Found
        <3>2. DOMAIN runs[p] \subseteq Nat
            BY <3>1
        <3> QED
            BY <3>1, <3>2
    <2>5. /\ \A q \in Projects : runOf'[q] = IF q = p THEN run ELSE runOf[q]
          /\ \A q \in Projects :
                watch'[q] = IF q = p /\ run # None /\ watching THEN "begun" ELSE watch[q]
        BY <1>1, <2>3 DEF Types
    <2>6. Types'
        <3>1. runOf' \in [Projects -> Nat \cup {None}]
            BY <1>1, <2>3, <2>4 DEF Types
        <3>2. watch' \in [Projects -> Results \cup {None, "begun", "polling"}]
            BY <1>1, <2>3 DEF Types
        <3>3. \A q \in Projects : runOf'[q] \in DOMAIN runs[q] \cup {None}
            BY <1>1, <2>4, <2>5 DEF Types
        <3>4. /\ step' \in {"watch", "over"} /\ exit' \in {None, "ok"}
              /\ (exit' # None <=> step' = "over")
            BY <1>1, <1>4, <2>1, <2>3 DEF Types
        <3> QED
            BY <1>1, <1>2, <2>1, <3>1, <3>2, <3>3, <3>4 DEF Types, Steps
    <2>7. WatchesTell'
        BY <1>4, <2>2, <2>5 DEF WatchesTell
    <2>8. step' \in {"watch", "over"}
        BY <2>3
    <2> QED
        BY <1>3, <2>6, <2>7, <2>8
<1>7. CASE SingleWatched
    <2>1. /\ step' = "over" /\ exit' = "ok"
          /\ UNCHANGED <<runs, version, coming, others, current, runOf, watch, published>>
        BY <1>7 DEF SingleWatched, Ends, github
    <2>2. Types'
        BY <1>1, <1>2, <1>4, <2>1 DEF Types, Steps
    <2>3. WatchesTell'
        BY <1>1, <2>1 DEF WatchesTell, Conclusion
    <2> QED
        BY <1>3, <2>1, <2>2, <2>3
<1> QED
    BY <1>5, <1>6, <1>7

(***************************************************************************)
(* The specification.                                                      *)
(***************************************************************************)

LEMMA InitIInv ==
    Init => IInv
<1> SUFFICES ASSUME Init PROVE IInv
    OBVIOUS
<1>1. Types
    <2>1. version \in [Projects -> Nat]
        BY DEF Init
    <2>2. runs \in [Projects -> Seq(Run)]
        <3>1. PICK unreleased \in SUBSET Semver :
                runs = [p \in Projects |-> IF p \in unreleased THEN <<>>
                                           ELSE <<[by |-> "else", state |-> "success"]>>]
            BY DEF Init
        <3>2. [by |-> "else", state |-> "success"] \in Run
            BY DEF Run
        <3>3. <<>> \in Seq(Run) /\ <<[by |-> "else", state |-> "success"]>> \in Seq(Run)
            BY <3>2
        <3> QED
            BY <3>1, <3>3
    <2>3. coming \in [Projects -> Seq({"us", "else"})]
        BY DEF Init
    <2>4. others \in 0 .. MaxOthers
        BY BoundAssumption DEF Init
    <2> QED
        BY <2>1, <2>2, <2>3, <2>4 DEF Init, Types, Steps
<1>2. Course
    BY DEF Init, Course, Early, Phases
<1>3. WatchesTell
    BY NoneAssumption DEF Init, WatchesTell
<1>4. Work
    BY DEF Init, Work, Releasing, Phases
<1>5. DependentsFollow /\ NoFailure
    BY DEF Init, DependentsFollow, NoFailure
<1> QED
    BY <1>1, <1>2, <1>3, <1>4, <1>5 DEF IInv

LEMMA NextIInv ==
    IInv /\ [Next]_vars => IInv'
<1> SUFFICES ASSUME IInv, [Next]_vars PROVE IInv'
    OBVIOUS
<1>1. CASE UNCHANGED vars
    <2>1. UNCHANGED <<command, published, github, interrupted>>
        BY <1>1 DEF vars
    <2>2. Types'
        BY <2>1 DEF IInv, Types, command, github
    <2> QED
        BY <2>1, <2>2, CommandStays DEF Conclusion, OwnRun, command, github
<1>2. CASE Running
    <2>1. CASE \E p \in Projects : ReleaseDependency(p) \/ ReleaseDependent(p) \/ ReleaseIndependent(p)
        BY <2>1, TurnKeeps
    <2>2. CASE \E p \in Projects : LookUp(p) \/ DependencyWatched(p)
        BY <2>2, LookUpKeeps, DependencyWatchedKeeps
    <2>3. CASE SingleWatched \/ \E p \in Projects : ReleaseSingle(p) \/ LookUpSingle(p)
        BY <2>3, SingleKeeps
    <2> QED
        BY <1>2, <2>1, <2>2, <2>3, EndPhaseKeeps, AllWatchedKeeps DEF Running
<1>3. CASE Asking
    BY <1>3, AskingKeeps
<1>4. CASE Interrupt
    BY <1>4, GitHubKeeps
<1>5. CASE Over
    BY <1>1, <1>5 DEF Over
<1>6. CASE \E p \in Projects : Watching(p) \/ SomebodyElse(p) \/ RunAppears(p) \/ RunCompletes(p)
    BY <1>6, WatchingKeeps, GitHubKeeps
<1> QED
    BY <1>1, <1>2, <1>3, <1>4, <1>5, <1>6 DEF Next

LEMMA SpecIInv ==
    Spec => []IInv
BY InitIInv, NextIInv, PTL DEF Spec

\* A project is released only when what it depends on was released before and,
\* where its build was watched and is the one this command made, was built
\* successfully (executePhase1 and executePhase2, commands/lab_release.go).
THEOREM DependentsWait ==
    Spec => []DependentsFollow
<1>1. IInv => DependentsFollow
    BY DEF IInv
<1> QED
    BY <1>1, SpecIInv, PTL

\* A multiple release that ends without an error has released all it planned,
\* and no build it watched has failed, timed out or been lost; and types
\* (ReleaseReport.Failed and UpdateWithWatchResult, release/report.go).
THEOREM FailuresReported ==
    Spec => []NoFailureIsSwallowed
<1>1. IInv => NoFailureIsSwallowed
    <2> SUFFICES ASSUME IInv PROVE NoFailureIsSwallowed
        OBVIOUS
    <2>1. TypeOK
        BY DEF IInv, Types, TypeOK, Run
    <2>2. exit = "ok" => step = "over"
        BY NoneAssumption DEF IInv, Types
    <2> QED
        BY <2>1, <2>2 DEF IInv, NoFailure, NoFailureIsSwallowed
<1> QED
    BY <1>1, SpecIInv, PTL
=============================================================================
