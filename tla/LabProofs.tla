------------------------------ MODULE LabProofs ------------------------------
(***************************************************************************)
(* What holds of a rebuild and of a boot of the lab, for any networks and  *)
(* any number of edits.                                                    *)
(***************************************************************************)
EXTENDS LabRebuild, LabBoot, FiniteSetTheorems, TLAPS

(***************************************************************************)
(* The inductive invariant of the rebuild.                                 *)
(***************************************************************************)

Restarted == ToSet(RestartList)
EngineServices == ToSet(CbtServices) \cup ToSet(ApiServices)

\* TypeOK, with the command as a record.
RebuildTypes ==
    /\ TypeOK
    /\ command \in [kind : Projects \cup Single, step : Steps,
                    todo : Seq(Services), failures : SUBSET Failures]
    /\ command.step \in {"build", "stop all", "start all", "stop", "start"} =>
          command.todo # <<>>
    /\ command.kind # "all" => command.step \in {"build", "stop", "start", "over"}

\* Sources only get newer, and what runs was started from some edition of them.
Editions ==
    /\ \A r \in Sources : begun[r] <= source[r]
    /\ \A s \in Up \ {Frontend} : run[s].binary \in Nat /\ run[s].config \in Nat

Starting == {"start all", "wait", "types", "stop", "start", "over"}
Checked == {"check", "stop all"} \cup Starting
MadeCbt == {"lab-backend", "configs"} \cup Checked
MadeApi == {"cbt"} \cup MadeCbt
Begun == {"protos", "xatu-cbt", "cbt-api"} \cup MadeApi

\* What was built and written since the command began, unless the report has
\* the failure.
Making ==
    /\ command.step \in Begun
    /\ command.step \in MadeApi /\ ~Failed("cbt-api") =>
          binary["cbt-api"] >= begun["cbt-api"]
    /\ command.step \in MadeCbt /\ ~Failed("other") => binary["cbt"] >= begun["cbt"]
    /\ command.step \in Checked /\ ~Failed("other") =>
          \A s \in Configured : file[s] >= begun["config"]

\* The restarts: nothing runs that the process table does not know, what has
\* been stopped is not up, and what has been started since is current.
Restarting ==
    /\ command.step \in {"stop", "start"} => command.todo = <<Frontend>>
    /\ command.step \in Begun \ Starting => Up \subseteq table
    /\ command.step \in Begun \ ({"stop all"} \cup Starting) =>
          kept \subseteq Up /\ command.todo = RestartList
    /\ command.step = "stop all" => Up \cap Restarted \subseteq ToSet(command.todo)
    /\ command.step = "start all" =>
          (kept \cap Restarted) \ ToSet(command.todo) \subseteq Up
    /\ command.step \in {"wait", "types", "stop", "start"} => kept \ {Frontend} \subseteq Up
    /\ command.step \in {"wait", "types"} => ~Failed("cbt-api")

Current ==
    \A s \in Up \cap EngineServices :
        /\ ~Failed("cbt-api") /\ s \in ToSet(ApiServices) => run[s].binary >= begun["cbt-api"]
        /\ ~Failed("other") /\ s \in ToSet(CbtServices) => run[s].binary >= begun["cbt"]
        /\ ~Failed("other") => run[s].config >= begun["config"]

Success == At("over") /\ command.failures = {} => kept \ {Frontend} \subseteq Up

Rebuilding ==
    command.kind = "all" =>
        /\ Making /\ Restarting /\ Success
        /\ command.step \in Starting => Current

RebuildInv == RebuildTypes /\ Editions /\ Rebuilding

(***************************************************************************)
(* The lists of services.                                                  *)
(***************************************************************************)

LEMMA HeadAndTail ==
    ASSUME NEW S, NEW q \in Seq(S), q # <<>>
    PROVE  /\ Head(q) \in S /\ Tail(q) \in Seq(S)
           /\ ToSet(q) = {Head(q)} \cup ToSet(Tail(q))
<1>1. Len(q) \in Nat /\ Len(q) > 0 /\ DOMAIN q = 1 .. Len(q)
    OBVIOUS
<1>2. Head(q) = q[1] /\ Head(q) \in S
    BY <1>1
<1>3. /\ Tail(q) \in Seq(S) /\ Len(Tail(q)) = Len(q) - 1
      /\ \A i \in 1 .. Len(q) - 1 : Tail(q)[i] = q[i + 1]
    BY <1>1
<1>4. ASSUME NEW x \in ToSet(q), x # Head(q)
      PROVE  x \in ToSet(Tail(q))
    <2>1. PICK i \in 1 .. Len(q) : x = q[i]
        BY <1>1 DEF ToSet
    <2>2. i # 1 /\ i - 1 \in 1 .. Len(q) - 1
        BY <1>1, <1>2, <1>4, <2>1
    <2>3. Tail(q)[i - 1] = x
        BY <1>3, <2>1, <2>2
    <2>4. i - 1 \in DOMAIN Tail(q)
        BY <1>1, <1>3, <2>2
    <2> QED
        BY <2>3, <2>4 DEF ToSet
<1>5. ASSUME NEW x \in ToSet(Tail(q))
      PROVE  x \in ToSet(q)
    <2>1. PICK i \in 1 .. Len(q) - 1 : x = Tail(q)[i]
        BY <1>1, <1>3 DEF ToSet
    <2>2. i + 1 \in 1 .. Len(q) /\ x = q[i + 1]
        BY <1>1, <1>3, <2>1
    <2> QED
        BY <1>1, <2>2 DEF ToSet
<1>6. Head(q) \in ToSet(q)
    BY <1>1, <1>2 DEF ToSet
<1> QED
    BY <1>2, <1>3, <1>4, <1>5, <1>6

LEMMA NothingToDo ==
    ToSet(<<>>) = {}
BY DEF ToSet

LEMMA Concatenation ==
    ASSUME NEW S, NEW p \in Seq(S), NEW q \in Seq(S)
    PROVE  p \o q \in Seq(S) /\ ToSet(p \o q) = ToSet(p) \cup ToSet(q)
<1>1. /\ Len(p) \in Nat /\ DOMAIN p = 1 .. Len(p)
      /\ Len(q) \in Nat /\ DOMAIN q = 1 .. Len(q)
    OBVIOUS
<1>2. p \o q \in Seq(S) /\ Len(p \o q) = Len(p) + Len(q)
    OBVIOUS
<1>3. \A i \in 1 .. Len(p) : i \in DOMAIN (p \o q) /\ (p \o q)[i] = p[i]
    BY <1>1, <1>2
<1>4. \A i \in 1 .. Len(q) :
         Len(p) + i \in DOMAIN (p \o q) /\ (p \o q)[Len(p) + i] = q[i]
    BY <1>1, <1>2
<1>5. ASSUME NEW x \in ToSet(p \o q)
      PROVE  x \in ToSet(p) \cup ToSet(q)
    <2>1. PICK i \in 1 .. Len(p) + Len(q) : x = (p \o q)[i]
        BY <1>1, <1>2 DEF ToSet
    <2>2. CASE i \in 1 .. Len(p)
        BY <1>1, <1>3, <2>1, <2>2 DEF ToSet
    <2>3. CASE i \notin 1 .. Len(p)
        <3>1. i - Len(p) \in 1 .. Len(q) /\ i = Len(p) + (i - Len(p))
            BY <1>1, <2>1, <2>3
        <3>2. x = q[i - Len(p)]
            BY <1>4, <2>1, <3>1
        <3> QED
            BY <1>1, <3>1, <3>2 DEF ToSet
    <2> QED
        BY <2>2, <2>3
<1>6. ToSet(p) \subseteq ToSet(p \o q)
    BY <1>1, <1>3 DEF ToSet
<1>7. ToSet(q) \subseteq ToSet(p \o q)
    BY <1>1, <1>4 DEF ToSet
<1> QED
    BY <1>2, <1>5, <1>6, <1>7

\* What a rebuild of everything restarts.
LEMMA Lists ==
    /\ RestartList \in Seq(Services) /\ RestartList # <<>>
    /\ Services = Restarted \cup {Frontend} /\ Frontend \notin Restarted
    /\ EngineServices \subseteq Restarted /\ Restarted = Configured
    /\ FirstApi \in ToSet(ApiServices)
    /\ \A s \in ToSet(CbtServices) : s \in Services /\ s[1] = "cbt"
    /\ \A s \in ToSet(ApiServices) : s \in Services /\ s[1] = "cbt-api"
    /\ \A s \in Configured : s[1] \in Repos
<1> DEFINE N == Len(Networks)
<1>1. N \in Nat /\ N > 0 /\ DOMAIN Networks = 1 .. N
    BY NetworksAssumption
<1>2. Enabled = {Networks[i] : i \in 1 .. N}
    BY <1>1 DEF Enabled, ToSet
<1>3. /\ CbtServices \in Seq(Services)
      /\ ToSet(CbtServices) = {Cbt(n) : n \in Enabled}
    BY <1>1, <1>2 DEF CbtServices, Services, ToSet
<1>4. /\ ApiServices \in Seq(Services)
      /\ ToSet(ApiServices) = {Api(n) : n \in Enabled}
    BY <1>1, <1>2 DEF ApiServices, Services, ToSet
<1>5. Backend \in Services /\ <<Backend>> \in Seq(Services) /\ ToSet(<<Backend>>) = {Backend}
    BY DEF Services, ToSet
<1>6. /\ CbtServices \o ApiServices \in Seq(Services)
      /\ ToSet(CbtServices \o ApiServices) = ToSet(CbtServices) \cup ToSet(ApiServices)
    BY <1>3, <1>4, Concatenation
<1>7. /\ RestartList \in Seq(Services)
      /\ Restarted = ToSet(CbtServices) \cup ToSet(ApiServices) \cup {Backend}
    <2> DEFINE both == CbtServices \o ApiServices
               last == <<Backend>>
    <2>1. RestartList = both \o last
        BY DEF RestartList
    <2>2. both \in Seq(Services) /\ last \in Seq(Services)
        BY <1>5, <1>6
    <2> HIDE DEF both, last
    <2>3. both \o last \in Seq(Services) /\ ToSet(both \o last) = ToSet(both) \cup ToSet(last)
        BY <2>2, Concatenation
    <2> QED
        BY <1>5, <1>6, <2>1, <2>3 DEF Restarted, both, last
<1>8. RestartList # <<>>
    BY <1>7, NothingToDo DEF Restarted
<1>9. /\ \A n \in Enabled : Cbt(n)[1] = "cbt" /\ Api(n)[1] = "cbt-api"
      /\ Backend[1] = "lab-backend" /\ Frontend[1] = "lab-frontend"
    BY DEF Cbt, Api, Backend, Frontend
<1>10. \A s \in Restarted : s[1] \in Repos /\ s[1] # "lab-frontend"
    BY <1>3, <1>4, <1>7, <1>9 DEF Repos
<1>11. Services = Restarted \cup {Frontend} /\ Frontend \notin Restarted
    BY <1>3, <1>4, <1>7, <1>9, <1>10 DEF Services
<1>12. FirstApi \in ToSet(ApiServices)
    BY <1>1, <1>2, <1>4 DEF FirstApi
<1>13. /\ \A s \in ToSet(CbtServices) : s[1] = "cbt" /\ s \in Restarted
       /\ \A s \in ToSet(ApiServices) : s[1] = "cbt-api" /\ s \in Restarted
    BY <1>3, <1>4, <1>7, <1>9
<1>14. Configured = Restarted
    BY <1>11 DEF Configured
<1> QED
    BY <1>7, <1>8, <1>10, <1>11, <1>12, <1>13, <1>14 DEF EngineServices

(***************************************************************************)
(* The user and the services.                                              *)
(***************************************************************************)

LEMMA RebuildInit ==
    ASSUME Init
    PROVE  RebuildInv
<1>1. /\ source = [r \in Sources |-> 0] /\ begun = source /\ table = {}
      /\ command = [kind |-> "all", step |-> "over", todo |-> <<>>, failures |-> {}]
      /\ binary = [r \in Repos |-> 0] /\ file = [s \in Configured |-> 0]
      /\ apiConfig = 0 /\ types = 0 /\ slotZero \in BOOLEAN
    BY DEF Init
<1>2. PICK up \in SUBSET Services :
          /\ run = [s \in Services |->
                       IF s \in up THEN [binary |-> 0, config |-> 0] ELSE None]
          /\ kept = up
    BY DEF Init
<1>3. 0 \in Edition
    BY EditsAssumption DEF Edition
<1>4. [binary |-> 0, config |-> 0] \in Process /\ [binary |-> 0, config |-> 0] # None
    BY <1>3, NoneAssumption DEF Process
<1>5. Up = kept /\ \A s \in Up : run[s] = [binary |-> 0, config |-> 0]
    BY <1>2, <1>4 DEF Up
<1>6. RebuildTypes
    <2>1. run \in [Services -> Process \cup {None}]
        BY <1>2, <1>4
    <2>2. command \in [kind : Projects \cup Single, step : Steps,
                       todo : Seq(Services), failures : SUBSET Failures]
        BY <1>1 DEF Projects, Single, Steps, Failures
    <2> QED
        BY <1>1, <1>2, <1>3, <2>1, <2>2 DEF RebuildTypes, TypeOK
<1>7. Editions
    BY <1>1, <1>5, EditsAssumption DEF Editions
<1>8. Current
    <2>1. \A s \in Up : run[s].binary = 0 /\ run[s].config = 0
        BY <1>5
    <2>2. begun["cbt"] = 0 /\ begun["cbt-api"] = 0 /\ begun["config"] = 0
        BY <1>1 DEF Sources, Repos
    <2> QED
        BY <2>1, <2>2 DEF Current
<1>9. Making /\ Restarting /\ Success
    <2>1. begun["cbt"] = 0 /\ begun["cbt-api"] = 0 /\ begun["config"] = 0
        BY <1>1 DEF Sources, Repos
    <2>2. binary["cbt"] = 0 /\ binary["cbt-api"] = 0 /\ \A s \in Configured : file[s] = 0
        BY <1>1 DEF Repos
    <2>3. Making
        <3>1. /\ binary["cbt-api"] >= begun["cbt-api"] /\ binary["cbt"] >= begun["cbt"]
              /\ \A s \in Configured : file[s] >= begun["config"]
            BY <2>1, <2>2
        <3> QED
            BY <1>1, <3>1 DEF Making, Begun, MadeApi, MadeCbt, Checked, Starting
    <2>4. Restarting
        BY <1>1 DEF Restarting, Begun, MadeApi, MadeCbt, Checked, Starting
    <2> QED
        BY <1>5, <2>3, <2>4 DEF Success
<1> QED
    BY <1>6, <1>7, <1>8, <1>9 DEF RebuildInv, Rebuilding

\* Sources are edited, and nothing else changes.
LEMMA EditKeeps ==
    ASSUME RebuildInv, NEW r \in Sources, Edit(r)
    PROVE  RebuildInv'
<1>1. /\ Edits < MaxEdits /\ source' = [source EXCEPT ![r] = @ + 1]
      /\ UNCHANGED <<binary, apiConfig, file, types, run, table, command, begun, kept, slotZero>>
    BY DEF Edit, made
<1>2. RebuildTypes /\ Editions /\ Rebuilding
    BY DEF RebuildInv
<1>3. source \in [Sources -> 0 .. MaxEdits] /\ begun \in [Sources -> 0 .. MaxEdits]
    BY <1>2 DEF RebuildTypes, TypeOK, Edition
<1>4. source[r] < MaxEdits
    <2>1. \A x \in Sources : source[x] \in Nat
        BY <1>3, EditsAssumption
    <2> QED
        BY <1>1, <2>1, EditsAssumption DEF Edits, Sources, Repos
<1>5. source' \in [Sources -> Edition]
    BY <1>1, <1>3, <1>4, EditsAssumption DEF Edition
<1>6. RebuildTypes'
    BY <1>1, <1>2, <1>5 DEF RebuildTypes, TypeOK
<1>7. Editions'
    <2>1. \A x \in Sources : source[x] <= source'[x] /\ source[x] \in Nat /\ source'[x] \in Nat
             /\ begun[x] \in Nat
        BY <1>1, <1>3, EditsAssumption
    <2>2. \A x \in Sources : begun[x] <= source'[x]
        BY <1>2, <2>1 DEF Editions
    <2> QED
        BY <1>1, <1>2, <2>2 DEF Editions, Up
<1>8. Rebuilding'
    BY <1>1, <1>2 DEF Rebuilding, Making, Restarting, Success, Current, Up, Failed, At
<1> QED
    BY <1>6, <1>7, <1>8 DEF RebuildInv

\* A service ends by itself: it is neither up nor kept.
LEMMA ExitKeeps ==
    ASSUME RebuildInv, NEW s \in Services, Exit(s)
    PROVE  RebuildInv'
<1>1. /\ run' = [run EXCEPT ![s] = None] /\ kept' = kept \ {s}
      /\ UNCHANGED <<source, binary, apiConfig, file, types, table, command, begun, slotZero>>
    BY DEF Exit, made
<1>2. RebuildTypes /\ Editions /\ Rebuilding /\ run \in [Services -> Process \cup {None}]
    BY DEF RebuildInv, RebuildTypes, TypeOK
<1>3. Up' = Up \ {s} /\ \A x \in Up' : run'[x] = run[x]
    BY <1>1, <1>2 DEF Up
<1>4. RebuildTypes'
    BY <1>1, <1>2 DEF RebuildTypes, TypeOK
<1>5. Editions'
    BY <1>1, <1>2, <1>3 DEF Editions
<1>6. Rebuilding'
    <2>1. Making => Making'
        BY <1>1 DEF Making, Failed
    <2>2. Restarting => Restarting'
        BY <1>1, <1>3 DEF Restarting, Failed
    <2>3. Success => Success'
        BY <1>1, <1>3 DEF Success, At
    <2>4. Current => Current'
        BY <1>1, <1>3 DEF Current, Failed
    <2> QED
        BY <1>1, <1>2, <2>1, <2>2, <2>3, <2>4 DEF Rebuilding
<1> QED
    BY <1>4, <1>5, <1>6 DEF RebuildInv

\* A command begins: the process table has what is up.
LEMMA BeginKeeps ==
    ASSUME RebuildInv, NEW kind \in Projects \cup Single, NEW todo \in Seq(Services),
           todo # <<>>, kind = "all" => todo = RestartList, Begin(kind, todo)
    PROVE  RebuildInv'
<1>1. /\ command' = [kind |-> kind, step |-> FirstStep(kind), todo |-> todo, failures |-> {}]
      /\ table' = Up /\ begun' = source /\ kept' = Up
      /\ UNCHANGED <<source, binary, apiConfig, file, types, run, slotZero>>
    BY DEF Begin, made
<1>2. RebuildTypes /\ Editions /\ source \in [Sources -> 0 .. MaxEdits]
    BY DEF RebuildInv, RebuildTypes, TypeOK, Edition
<1>3. /\ FirstStep(kind) \in Steps /\ (kind = "all" => FirstStep(kind) = "protos")
      /\ kind # "all" => FirstStep(kind) \in {"build", "stop", "start"}
    BY DEF FirstStep, Steps, Projects, Single
<1>4. Up' = Up /\ Up \subseteq Services
    BY <1>1 DEF Up
<1>5. RebuildTypes'
    <2>1. command' \in [kind : Projects \cup Single, step : Steps,
                        todo : Seq(Services), failures : SUBSET Failures]
        BY <1>1, <1>3
    <2>2. TypeOK'
        BY <1>1, <1>2, <1>4, <2>1 DEF RebuildTypes, TypeOK, Edition
    <2>3. /\ command'.kind = kind /\ command'.step = FirstStep(kind) /\ command'.todo = todo
        BY <1>1
    <2> QED
        BY <1>3, <2>1, <2>2, <2>3 DEF RebuildTypes
<1>6. Editions'
    <2>1. \A r \in Sources : source[r] <= source[r]
        BY <1>2, EditsAssumption
    <2> QED
        BY <1>1, <1>2, <1>4, <2>1 DEF Editions
<1>7. Rebuilding'
    <2> SUFFICES ASSUME kind = "all"
                 PROVE  Making' /\ Restarting' /\ Success' /\ (command'.step \notin Starting)
        BY <1>1 DEF Rebuilding
    <2>1. command'.step = "protos" /\ command'.todo = RestartList
        BY <1>1, <1>3
    <2> QED
        BY <1>1, <1>4, <2>1
           DEF Making, Restarting, Success, At, Begun, MadeApi, MadeCbt, Checked, Starting
<1> QED
    BY <1>5, <1>6, <1>7 DEF RebuildInv

(***************************************************************************)
(* What a step of the command does with the sources' editions.             *)
(***************************************************************************)

\* The command goes on, and at most a failure more is in the report.
Proceeds ==
    /\ command' \in [kind : {command.kind}, step : Steps, todo : Seq(Services),
                     failures : SUBSET Failures]
    /\ command.failures \subseteq command'.failures

\* A step that builds and writes: nothing is started or stopped.
LEMMA BuildingTypes ==
    ASSUME RebuildInv, Proceeds,
           UNCHANGED <<source, run, table, begun, kept, slotZero>>,
           binary' \in [Repos -> Edition], apiConfig' \in Edition \cup {None},
           file' \in [Configured -> Edition], types' \in Edition \cup {None, Neighbour},
           command'.step \in {"build", "stop all", "start all", "stop", "start"} =>
              command'.todo # <<>>,
           command.kind # "all" => command'.step \in {"build", "stop", "start", "over"}
    PROVE  RebuildTypes' /\ Editions' /\ Up' = Up
<1>1. RebuildTypes /\ Editions
    BY DEF RebuildInv
<1>2. Up' = Up
    BY DEF Up
<1>3. command' \in [kind : Projects \cup Single, step : Steps,
                    todo : Seq(Services), failures : SUBSET Failures]
    <2>1. command.kind \in Projects \cup Single
        BY <1>1 DEF RebuildTypes
    <2> QED
        BY <2>1 DEF Proceeds
<1>4. command'.kind = command.kind
    BY DEF Proceeds
<1> QED
    BY <1>1, <1>2, <1>3, <1>4 DEF RebuildTypes, TypeOK, Editions

LEMMA MadeFromSource ==
    ASSUME RebuildInv, NEW r \in Repos
    PROVE  /\ [binary EXCEPT ![r] = source[r]] \in [Repos -> Edition]
           /\ [binary EXCEPT ![r] = source[r]][r] >= begun[r]
           /\ \A x \in Repos \ {r} : [binary EXCEPT ![r] = source[r]][x] = binary[x]
<1>1. /\ binary \in [Repos -> Edition] /\ source \in [Sources -> Edition]
      /\ begun \in [Sources -> Edition] /\ \A x \in Sources : begun[x] <= source[x]
    BY DEF RebuildInv, RebuildTypes, TypeOK, Editions
<1>2. r \in Sources
    BY DEF Sources
<1>3. source[r] >= begun[r]
    BY <1>1, <1>2, EditsAssumption DEF Edition
<1> QED
    BY <1>1, <1>2, <1>3

\* What the command is, as a record.
LEMMA CommandIs ==
    ASSUME RebuildInv
    PROVE  /\ command \in [kind : Projects \cup Single, step : Steps,
                           todo : Seq(Services), failures : SUBSET Failures]
           /\ \A step \in Steps :
                 Goto(step) => Proceeds /\ command'.step = step /\ command'.todo = command.todo
                               /\ command'.failures = command.failures
           /\ \A step \in Steps, what \in Failures :
                 Fail(what, step) =>
                     Proceeds /\ command'.step = step /\ command'.todo = command.todo
                     /\ command'.failures = command.failures \cup {what}
<1>1. command \in [kind : Projects \cup Single, step : Steps,
                   todo : Seq(Services), failures : SUBSET Failures]
    BY DEF RebuildInv, RebuildTypes
<1>2. ASSUME NEW step \in Steps, Goto(step)
      PROVE  Proceeds /\ command'.step = step /\ command'.todo = command.todo
             /\ command'.failures = command.failures
    BY <1>1, <1>2 DEF Goto, Proceeds
<1>3. ASSUME NEW step \in Steps, NEW what \in Failures, Fail(what, step)
      PROVE  Proceeds /\ command'.step = step /\ command'.todo = command.todo
             /\ command'.failures = command.failures \cup {what}
    BY <1>1, <1>3 DEF Fail, Proceeds
<1> QED
    BY <1>1, <1>2, <1>3

(***************************************************************************)
(* The builds of a rebuild of everything.                                  *)
(***************************************************************************)

\* The steps before the restarts.
Building == Begun \ ({"stop all"} \cup Starting)

\* A step among those before the restarts only has to keep what was made.
LEMMA BuildingKeeps ==
    ASSUME RebuildInv, Proceeds, command'.todo = command.todo,
           UNCHANGED <<source, run, table, begun, kept, slotZero>>,
           binary' \in [Repos -> Edition], apiConfig' \in Edition \cup {None},
           file' \in [Configured -> Edition], UNCHANGED types,
           command.step \in Building, command'.step \in Building,
           command.kind = "all" => Making'
    PROVE  RebuildInv'
<1>1. /\ command'.step \notin {"build", "stop all", "start all", "stop", "start", "over"}
      /\ command'.step \notin Starting /\ command'.step \in Begun
    BY DEF Building, Begun, MadeApi, MadeCbt, Checked, Starting
<1>2. RebuildTypes' /\ Editions' /\ Up' = Up
    <2>1. command.kind = "all"
        BY DEF RebuildInv, RebuildTypes, Building, Begun, MadeApi, MadeCbt, Checked, Starting
    <2> QED
        BY <1>1, <2>1, BuildingTypes DEF RebuildInv, RebuildTypes, TypeOK
<1>3. command'.kind = command.kind
    BY DEF Proceeds
<1>4. command.kind = "all" => Restarting'
    <2> SUFFICES ASSUME command.kind = "all"
                 PROVE  Restarting'
        OBVIOUS
    <2>1. Up \subseteq table /\ kept \subseteq Up /\ command.todo = RestartList
        BY DEF RebuildInv, Rebuilding, Restarting, Building
    <2> QED
        BY <1>1, <1>2, <2>1 DEF Restarting, Starting
<1>5. Success'
    BY <1>1 DEF Success, At
<1> QED
    BY <1>1, <1>2, <1>3, <1>4, <1>5 DEF RebuildInv, Rebuilding

LEMMA ProtosKeeps ==
    ASSUME RebuildInv, Protos
    PROVE  RebuildInv'
<1>1. /\ command.step = "protos" /\ Proceeds /\ command'.step = "xatu-cbt"
      /\ command'.todo = command.todo
      /\ UNCHANGED <<source, binary, apiConfig, file, types, run, table, begun, kept, slotZero>>
    BY CommandIs DEF Protos, At, made, Steps, Failures
<1>2. Making'
    BY <1>1 DEF Making, Begun, MadeApi, MadeCbt, Checked, Starting
<1>3. command.step \in Building /\ command'.step \in Building
    BY <1>1 DEF Building, Begun, MadeApi, MadeCbt, Checked, Starting
<1> QED
    BY <1>1, <1>2, <1>3, BuildingKeeps DEF RebuildInv, RebuildTypes, TypeOK

LEMMA XatuCbtKeeps ==
    ASSUME RebuildInv, XatuCbt
    PROVE  RebuildInv'
<1>1. /\ command.step = "xatu-cbt" /\ Proceeds /\ command'.step = "cbt-api"
      /\ command'.todo = command.todo
      /\ UNCHANGED <<source, apiConfig, file, types, run, table, begun, kept, slotZero>>
    BY CommandIs DEF XatuCbt, Make, At, Steps, Failures
<1>2. binary' = binary \/ binary' = [binary EXCEPT !["xatu-cbt"] = source["xatu-cbt"]]
    BY DEF XatuCbt, Make
<1>3. binary' \in [Repos -> Edition]
    BY <1>2, MadeFromSource DEF RebuildInv, RebuildTypes, TypeOK, Repos
<1>4. Making'
    BY <1>1 DEF Making, Begun, MadeApi, MadeCbt, Checked, Starting
<1>5. command.step \in Building /\ command'.step \in Building
    BY <1>1 DEF Building, Begun, MadeApi, MadeCbt, Checked, Starting
<1> QED
    BY <1>1, <1>3, <1>4, <1>5, BuildingKeeps DEF RebuildInv, RebuildTypes, TypeOK

LEMMA CbtApiKeeps ==
    ASSUME RebuildInv, CbtApi
    PROVE  RebuildInv'
<1>1. /\ command.step = "cbt-api" /\ Proceeds /\ command'.step = "cbt"
      /\ command'.todo = command.todo
      /\ UNCHANGED <<source, file, types, run, table, begun, kept, slotZero>>
    BY CommandIs DEF CbtApi, MakeApi, GenerateProtos, Make, At, Steps, Failures
<1>2. file[FirstApi] \in Edition
    BY Lists DEF RebuildInv, RebuildTypes, TypeOK, EngineServices
<1>3. /\ apiConfig' \in Edition \cup {None}
      /\ binary' \in [Repos -> Edition]
      /\ "cbt-api" \notin command'.failures => binary'["cbt-api"] >= begun["cbt-api"]
    <2>1. CASE Failed("xatu-cbt")
        BY <2>1, CommandIs DEF CbtApi, RebuildInv, RebuildTypes, TypeOK, Steps, Failures
    <2>2. CASE ~Failed("xatu-cbt")
        <3>1. MakeApi(Goto("cbt"), Fail("cbt-api", "cbt"))
            BY <2>2 DEF CbtApi
        <3>2. /\ apiConfig' = None \/ apiConfig' = file[FirstApi]
              /\ \/ binary' = [binary EXCEPT !["cbt-api"] = source["cbt-api"]]
                 \/ binary' = binary /\ Fail("cbt-api", "cbt")
            BY <3>1 DEF MakeApi, GenerateProtos, Make
        <3>3. Fail("cbt-api", "cbt") => "cbt-api" \in command'.failures
            BY CommandIs DEF Steps, Failures
        <3> QED
            BY <1>2, <3>2, <3>3, MadeFromSource DEF RebuildInv, RebuildTypes, TypeOK, Repos
    <2> QED
        BY <2>1, <2>2
<1>4. Making'
    BY <1>1, <1>3 DEF Making, Begun, MadeApi, MadeCbt, Checked, Starting, Failed
<1>5. command.step \in Building /\ command'.step \in Building
    BY <1>1 DEF Building, Begun, MadeApi, MadeCbt, Checked, Starting
<1> QED
    BY <1>1, <1>3, <1>4, <1>5, BuildingKeeps DEF RebuildInv, RebuildTypes, TypeOK

LEMMA RemainingKeeps ==
    ASSUME RebuildInv,
           NEW r \in {"cbt", "lab-backend"}, NEW next,
           r = "cbt" => next = "lab-backend", r = "lab-backend" => next = "configs",
           Remaining(r, next)
    PROVE  RebuildInv'
<1>1. /\ command.step = r /\ Proceeds /\ command'.step = next
      /\ command'.todo = command.todo
      /\ UNCHANGED <<source, apiConfig, file, types, run, table, begun, kept, slotZero>>
    <2>1. next \in Steps /\ (Goto(next) \/ Fail("other", next))
        BY DEF Remaining, Make, Steps
    <2>2. Proceeds /\ command'.step = next /\ command'.todo = command.todo
        BY <2>1, CommandIs DEF Failures
    <2> QED
        BY <2>2 DEF Remaining, At
<1>2. \/ binary' = [binary EXCEPT ![r] = source[r]]
      \/ binary' = binary /\ "other" \in command'.failures
    BY CommandIs DEF Remaining, Make, Steps, Failures
<1>3. binary' \in [Repos -> Edition] /\ binary'["cbt-api"] = binary["cbt-api"]
    <2>1. r \in Repos /\ "cbt-api" \in Repos \ {r}
        BY DEF Repos
    <2>2. binary \in [Repos -> Edition]
        BY DEF RebuildInv, RebuildTypes, TypeOK
    <2> QED
        BY <1>2, <2>1, <2>2, MadeFromSource
<1>4. command.kind = "all" => Making'
    <2> SUFFICES ASSUME command.kind = "all"
                 PROVE  Making'
        OBVIOUS
    <2>1. "cbt-api" \notin command'.failures => binary["cbt-api"] >= begun["cbt-api"]
        BY <1>1 DEF RebuildInv, Rebuilding, Making, MadeApi, MadeCbt, Failed, Proceeds
    <2>2. "other" \notin command'.failures => binary'["cbt"] >= begun["cbt"]
        <3>1. CASE r = "cbt"
            BY <1>2, <3>1, MadeFromSource DEF Repos
        <3>2. CASE r = "lab-backend"
            <4>1. "other" \notin command.failures => binary["cbt"] >= begun["cbt"]
                BY <1>1, <3>2 DEF RebuildInv, Rebuilding, Making, MadeCbt, Failed
            <4>2. binary'["cbt"] = binary["cbt"]
                BY <1>2, <3>2, MadeFromSource DEF Repos
            <4> QED
                BY <1>1, <4>1, <4>2 DEF Proceeds
        <3> QED
            BY <3>1, <3>2
    <2> QED
        BY <1>1, <1>3, <2>1, <2>2 DEF Making, Begun, MadeApi, MadeCbt, Checked, Starting, Failed
<1>5. command.step \in Building /\ command'.step \in Building
    BY <1>1 DEF Building, Begun, MadeApi, MadeCbt, Checked, Starting
<1> QED
    BY <1>1, <1>3, <1>4, <1>5, BuildingKeeps DEF RebuildInv, RebuildTypes, TypeOK

\* GenerateConfigs writes the files of all services, or fails.
LEMMA FilesInOrder ==
    /\ FileOrder \in Seq(Configured)
    /\ \A s \in Configured : \E i \in 1 .. Len(FileOrder) : FileOrder[i] = s
<1> DEFINE N == Len(Networks)
           engineFiles == [i \in 1 .. 2 * N |->
               IF i % 2 = 1 THEN Cbt(Networks[(i + 1) \div 2]) ELSE Api(Networks[i \div 2])]
           last == <<Backend>>
<1>1. N \in Nat /\ DOMAIN Networks = 1 .. N /\ Enabled = {Networks[i] : i \in 1 .. N}
    BY NetworksAssumption DEF Enabled, ToSet
<1>2. /\ \A n \in Enabled : Cbt(n) \in Configured /\ Api(n) \in Configured
      /\ Backend \in Configured
      /\ \A s \in Configured \ {Backend} : \E n \in Enabled : s = Cbt(n) \/ s = Api(n)
    <2>1. \A n : Cbt(n)[1] = "cbt" /\ Api(n)[1] = "cbt-api"
        BY DEF Cbt, Api
    <2>2. Backend[1] = "lab-backend" /\ Frontend[1] = "lab-frontend"
        BY DEF Backend, Frontend
    <2> QED
        BY <2>1, <2>2 DEF Configured, Services
<1>3. \A i \in 1 .. 2 * N : /\ i % 2 = 1 => (i + 1) \div 2 \in 1 .. N
                            /\ i % 2 # 1 => i \div 2 \in 1 .. N
    BY <1>1
<1>4. \A i \in 1 .. 2 * N : engineFiles[i] \in Configured
    BY <1>1, <1>2, <1>3
<1>5. engineFiles \in Seq(Configured) /\ DOMAIN engineFiles = 1 .. 2 * N
    <2>1. engineFiles \in [1 .. 2 * N -> Configured] /\ 2 * N \in Nat
        BY <1>1, <1>4
    <2> QED
        BY <2>1
<1>6. ASSUME NEW n \in Enabled
      PROVE  Cbt(n) \in ToSet(engineFiles) /\ Api(n) \in ToSet(engineFiles)
    <2>1. PICK j \in 1 .. N : n = Networks[j]
        BY <1>1
    <2>2. /\ 2 * j - 1 \in 1 .. 2 * N /\ (2 * j - 1) % 2 = 1 /\ ((2 * j - 1) + 1) \div 2 = j
          /\ 2 * j \in 1 .. 2 * N /\ (2 * j) % 2 # 1 /\ (2 * j) \div 2 = j
        BY <1>1, <2>1
    <2>3. engineFiles[2 * j - 1] = Cbt(n) /\ engineFiles[2 * j] = Api(n)
        BY <2>1, <2>2
    <2> HIDE DEF engineFiles
    <2> QED
        BY <1>5, <2>2, <2>3 DEF ToSet
<1>7. last \in Seq(Configured) /\ ToSet(last) = {Backend}
    BY <1>2 DEF ToSet
<1>8. FileOrder = engineFiles \o last
    BY DEF FileOrder
<1> HIDE DEF engineFiles, last
<1>9. FileOrder \in Seq(Configured) /\ ToSet(FileOrder) = ToSet(engineFiles) \cup {Backend}
    BY <1>5, <1>7, <1>8, Concatenation
<1>10. \A s \in Configured : s \in ToSet(FileOrder)
    BY <1>2, <1>6, <1>9
<1> QED
    BY <1>9, <1>10 DEF ToSet

LEMMA ConfigsKeeps ==
    ASSUME RebuildInv, Configs
    PROVE  RebuildInv'
<1>1. PICK k \in 0 .. Len(FileOrder) :
          /\ file' = [s \in Configured |->
                        IF \E i \in 1 .. k : FileOrder[i] = s
                        THEN source["config"] ELSE file[s]]
          /\ \/ k = Len(FileOrder) /\ Goto("check")
             \/ Fail("other", "check")
    BY DEF Configs
<1>2. /\ command.step = "configs" /\ Proceeds /\ command'.step = "check"
      /\ command'.todo = command.todo
      /\ UNCHANGED <<source, binary, apiConfig, types, run, table, begun, kept, slotZero>>
      /\ k = Len(FileOrder) \/ "other" \in command'.failures
    BY <1>1, CommandIs DEF Configs, At, Steps, Failures
<1>3. file' \in [Configured -> Edition]
    BY <1>1 DEF RebuildInv, RebuildTypes, TypeOK, Sources
<1>4. k = Len(FileOrder) => \A s \in Configured : file'[s] = source["config"]
    BY <1>1, FilesInOrder
<1>5. source["config"] >= begun["config"]
    BY EditsAssumption DEF RebuildInv, RebuildTypes, TypeOK, Editions, Sources, Edition
<1>6. command.kind = "all" => Making'
    <2> SUFFICES ASSUME command.kind = "all"
                 PROVE  Making'
        OBVIOUS
    <2>1. /\ "cbt-api" \notin command.failures => binary["cbt-api"] >= begun["cbt-api"]
          /\ "other" \notin command.failures => binary["cbt"] >= begun["cbt"]
        BY <1>2 DEF RebuildInv, Rebuilding, Making, MadeApi, MadeCbt, Failed
    <2>2. command.failures \subseteq command'.failures
        BY <1>2 DEF Proceeds
    <2>3. "other" \notin command'.failures => \A s \in Configured : file'[s] >= begun["config"]
        BY <1>2, <1>4, <1>5
    <2> QED
        BY <1>2, <2>1, <2>2, <2>3 DEF Making, Begun, MadeApi, MadeCbt, Checked, Starting, Failed
<1>7. command.step \in Building /\ command'.step \in Building
    BY <1>2 DEF Building, Begun, MadeApi, MadeCbt, Checked, Starting
<1> QED
    BY <1>2, <1>3, <1>6, <1>7, BuildingKeeps DEF RebuildInv, RebuildTypes, TypeOK

(***************************************************************************)
(* The restarts.                                                           *)
(***************************************************************************)

\* AreServicesRunning: without an engine or API in the table none is up.
LEMMA CheckKeeps ==
    ASSUME RebuildInv, Check
    PROVE  RebuildInv'
<1>1. /\ command.step = "check" /\ Proceeds /\ command'.todo = command.todo
      /\ command'.failures = command.failures
      /\ UNCHANGED <<source, binary, apiConfig, file, types, run, table, begun, kept, slotZero>>
      /\ \/ command'.step = "stop all"
         \/ command'.step = "over" /\ \A n \in Enabled : Cbt(n) \notin table /\ Api(n) \notin table
    <2>1. /\ command.step = "check"
          /\ UNCHANGED <<source, binary, apiConfig, file, types, run, table, begun, kept, slotZero>>
          /\ \/ Goto("stop all")
             \/ Goto("over") /\ \A n \in Enabled : Cbt(n) \notin table /\ Api(n) \notin table
        BY DEF Check, At, made
    <2>2. \A step \in {"stop all", "over"} :
             Goto(step) => Proceeds /\ command'.step = step /\ command'.todo = command.todo
                           /\ command'.failures = command.failures
        BY CommandIs DEF Steps
    <2> QED
        BY <2>1, <2>2
<1>2. /\ command.kind = "all" /\ Making /\ Restarting
      /\ Up \subseteq table /\ kept \subseteq Up /\ command.todo = RestartList
    BY <1>1 DEF RebuildInv, RebuildTypes, Rebuilding, Restarting, Begun, MadeApi, MadeCbt,
                Checked, Starting
<1>3. RebuildTypes' /\ Editions' /\ Up' = Up
    BY <1>1, <1>2, BuildingTypes, Lists DEF RebuildInv, RebuildTypes, TypeOK
<1>4. command'.kind = "all"
    BY <1>1, <1>2 DEF Proceeds
<1>5. Making'
    BY <1>1, <1>2 DEF Making, Begun, MadeApi, MadeCbt, Checked, Starting, Failed
<1>6. Restarting' /\ Success'
    <2>1. Up \subseteq Services /\ Restarted \subseteq ToSet(RestartList)
        BY DEF Up, Restarted
    <2> QED
        BY <1>1, <1>2, <1>3, <2>1 DEF Restarting, Success, At, Starting
<1>7. command'.step \in Starting => Current'
    <2> SUFFICES ASSUME command'.step = "over"
                 PROVE  Up \cap EngineServices = {}
        BY <1>1, <1>3 DEF Current, Starting
    <2>1. \A n \in Enabled : Cbt(n) \notin table /\ Api(n) \notin table
        BY <1>1
    <2>2. \A s \in EngineServices : \E n \in Enabled : s = Cbt(n) \/ s = Api(n)
        BY NetworksAssumption
           DEF EngineServices, CbtServices, ApiServices, ToSet, Enabled
    <2> QED
        BY <1>2, <2>1, <2>2
<1> QED
    BY <1>3, <1>4, <1>5, <1>6, <1>7 DEF RebuildInv, Rebuilding

\* A process is stopped, if the table has it.
LEMMA Stopping ==
    ASSUME RebuildTypes, NEW s \in Services, StopProcess(s)
    PROVE  /\ run' \in [Services -> Process \cup {None}] /\ table' \subseteq Services
           /\ Up' \subseteq Up /\ \A x \in Up' : run'[x] = run[x]
           /\ Up \ {s} \subseteq Up' /\ table \ {s} \subseteq table'
           /\ s \in table => s \notin Up'
           /\ StopOk(s) => table' = table \ {s}
<1>1. run \in [Services -> Process \cup {None}] /\ table \subseteq Services
    BY DEF RebuildTypes, TypeOK
<1> QED
    BY <1>1 DEF StopProcess, StopOk, Up

LEMMA StopAllKeeps ==
    ASSUME RebuildInv, StopAll
    PROVE  RebuildInv'
<1> DEFINE s == Head(command.todo)
<1>1. /\ command.step = "stop all" /\ StopProcess(s)
      /\ UNCHANGED <<source, binary, apiConfig, file, types, begun, kept, slotZero>>
    BY DEF StopAll, At, made
<1>2. /\ RebuildTypes /\ Editions /\ command.kind = "all" /\ Making /\ Restarting
      /\ command.todo \in Seq(Services) /\ command.todo # <<>>
      /\ command \in [kind : Projects \cup Single, step : Steps,
                      todo : Seq(Services), failures : SUBSET Failures]
    BY <1>1 DEF RebuildInv, RebuildTypes, Rebuilding
<1>3. /\ s \in Services /\ Tail(command.todo) \in Seq(Services)
      /\ ToSet(command.todo) = {s} \cup ToSet(Tail(command.todo))
    BY <1>2, HeadAndTail
<1>4. /\ command' \in [kind : {"all"}, step : {"stop all", "start all"}, todo : Seq(Services),
                       failures : SUBSET Failures]
      /\ command'.failures = command.failures /\ command'.todo # <<>>
      /\ command'.step = "stop all" => command'.todo = Tail(command.todo)
      /\ command'.step = "start all" =>
            command'.todo = RestartList /\ Tail(command.todo) = <<>>
    BY <1>2, <1>3, Lists DEF StopAll, Advance, Done
<1>5. /\ run' \in [Services -> Process \cup {None}] /\ table' \subseteq Services
      /\ Up' \subseteq Up /\ \A x \in Up' : run'[x] = run[x]
      /\ Up \ {s} \subseteq Up' /\ table \ {s} \subseteq table'
      /\ s \in table => s \notin Up'
    BY <1>1, <1>2, <1>3, Stopping
<1>6. RebuildTypes'
    BY <1>1, <1>2, <1>4, <1>5 DEF RebuildTypes, TypeOK, Steps, Projects
<1>7. Editions'
    BY <1>1, <1>2, <1>5 DEF Editions
<1>8. /\ Up \subseteq table /\ Up \cap Restarted \subseteq ToSet(command.todo)
    BY <1>1, <1>2 DEF Restarting, Begun, MadeApi, MadeCbt, Checked, Starting
<1>9. Up' \subseteq table' /\ Up' \cap Restarted \subseteq ToSet(Tail(command.todo))
    BY <1>3, <1>5, <1>8
<1>10. Making'
    BY <1>1, <1>2, <1>4 DEF Making, Begun, MadeApi, MadeCbt, Checked, Starting, Failed
<1>11. Restarting' /\ Success'
    <2>1. Success'
        BY <1>4 DEF Success, At
    <2>2. ToSet(RestartList) = Restarted
        BY DEF Restarted
    <2> QED
        BY <1>4, <1>9, <2>1, <2>2 DEF Restarting, Starting
<1>12. command'.step \in Starting => Current'
    <2> SUFFICES ASSUME command'.step = "start all"
                 PROVE  Up' \cap EngineServices = {}
        BY <1>4 DEF Current, Starting
    <2> QED
        BY <1>4, <1>9, NothingToDo, Lists
<1> QED
    BY <1>6, <1>7, <1>10, <1>11, <1>12 DEF RebuildInv, Rebuilding

\* A process is started: it is what has been built and written.
LEMMA Spawning ==
    ASSUME RebuildTypes, NEW s \in Services, StartProcess(s)
    PROVE  /\ run' \in [Services -> Process \cup {None}] /\ table' = table \cup {s}
           /\ Up' = Up \cup {s} /\ \A x \in Up' \ {s} : run'[x] = run[x]
           /\ s \in Configured =>
                 /\ run'[s].binary = binary[s[1]] /\ run'[s].config = file[s]
                 /\ run'[s].binary \in Edition /\ run'[s].config \in Edition
<1>1. /\ run \in [Services -> Process \cup {None}]
      /\ binary \in [Repos -> Edition] /\ file \in [Configured -> Edition]
    BY DEF RebuildTypes, TypeOK
<1>2. run' = [run EXCEPT ![s] = Spawned(s)] /\ table' = table \cup {s}
    BY DEF StartProcess
<1>3. s \in Configured => s[1] \in Repos /\ s # Frontend
    BY Lists DEF Configured
<1>4. s \notin Configured => s = Frontend
    BY DEF Configured
<1>5. /\ s \in Configured => Spawned(s) = [binary |-> binary[s[1]], config |-> file[s]]
      /\ s \notin Configured => Spawned(s) = [binary |-> None, config |-> None]
    BY <1>3, <1>4 DEF Spawned
<1>6. Spawned(s) \in Process
    BY <1>1, <1>3, <1>5 DEF Process
<1>7. Process \subseteq [binary : Nat \cup {None}, config : Nat \cup {None}]
    BY EditsAssumption DEF Process, Edition
<1>8. Spawned(s) # None
    BY <1>6, <1>7, NoneAssumption
<1>9. Up' = Up \cup {s}
    BY <1>1, <1>2, <1>6, <1>8 DEF Up
<1>10. run'[s] = Spawned(s) /\ \A x \in Services \ {s} : run'[x] = run[x]
    BY <1>1, <1>2
<1>11. run' \in [Services -> Process \cup {None}]
    BY <1>1, <1>2, <1>6
<1>12. Up' \subseteq Services
    BY DEF Up
<1> QED
    BY <1>1, <1>2, <1>3, <1>5, <1>9, <1>10, <1>11, <1>12

\* A service is started, and what it is is current unless the report has why not.
LEMMA StartAllKeeps ==
    ASSUME RebuildInv, StartAll
    PROVE  RebuildInv'
<1> DEFINE s == Head(command.todo)
<1>1. /\ command.step = "start all"
      /\ UNCHANGED <<source, binary, apiConfig, file, types, begun, kept, slotZero>>
    BY DEF StartAll, At, made
<1>2. /\ RebuildTypes /\ Editions /\ command.kind = "all" /\ Making /\ Restarting /\ Current
      /\ command.todo \in Seq(Services) /\ command.todo # <<>>
      /\ command \in [kind : Projects \cup Single, step : Steps,
                      todo : Seq(Services), failures : SUBSET Failures]
    BY <1>1 DEF RebuildInv, RebuildTypes, Rebuilding, Starting
<1>3. /\ s \in Services /\ Tail(command.todo) \in Seq(Services)
      /\ ToSet(command.todo) = {s} \cup ToSet(Tail(command.todo))
    BY <1>2, HeadAndTail
<1>4. CASE Fail("other", "over") /\ UNCHANGED <<run, table>>
    <2>1. /\ Proceeds /\ command'.step = "over" /\ "other" \in command'.failures
          /\ command'.todo = command.todo /\ command'.kind = "all"
          /\ command'.failures = command.failures \cup {"other"}
        BY <1>2, <1>4, CommandIs DEF Steps, Failures, Proceeds
    <2>2. RebuildTypes' /\ Editions' /\ Up' = Up
        BY <1>1, <1>2, <1>4, <2>1, BuildingTypes DEF RebuildInv, RebuildTypes, TypeOK
    <2>3. Making' /\ Restarting' /\ Success'
        BY <1>1, <1>2, <2>1
           DEF Making, Restarting, Success, At, Begun, MadeApi, MadeCbt, Checked, Starting, Failed
    <2>4. Current'
        BY <1>1, <1>2, <1>4, <2>1, <2>2 DEF Current, Failed
    <2> QED
        BY <2>1, <2>2, <2>3, <2>4 DEF RebuildInv, Rebuilding
<1>5. CASE /\ StartProcess(s)
           /\ Advance(IF Done # <<>> THEN "start all" ELSE
                      IF Failed("cbt-api") THEN "over" ELSE "wait")
    <2>1. /\ command' \in [kind : {"all"}, step : {"start all", "over", "wait"},
                           todo : Seq(Services), failures : SUBSET Failures]
          /\ command'.failures = command.failures
          /\ command'.todo = Tail(command.todo)
          /\ command'.step = "start all" => command'.todo # <<>>
          /\ command'.step # "start all" => Tail(command.todo) = <<>>
          /\ command'.step = "over" <=> "cbt-api" \in command.failures /\ command'.step # "start all"
        BY <1>2, <1>3, <1>5 DEF Advance, Done, Failed
    <2>2. /\ run' \in [Services -> Process \cup {None}] /\ table' = table \cup {s}
          /\ Up' = Up \cup {s} /\ \A x \in Up' \ {s} : run'[x] = run[x]
          /\ s \in Configured =>
                /\ run'[s].binary = binary[s[1]] /\ run'[s].config = file[s]
                /\ run'[s].binary \in Edition /\ run'[s].config \in Edition
        BY <1>2, <1>3, <1>5, Spawning
    <2>3. RebuildTypes'
        BY <1>1, <1>2, <1>3, <2>1, <2>2 DEF RebuildTypes, TypeOK, Steps, Projects
    <2>4. Editions'
        <3>1. s # Frontend => run'[s].binary \in Nat /\ run'[s].config \in Nat
            BY <1>3, <2>2, EditsAssumption DEF Configured, Edition
        <3> QED
            BY <1>1, <1>2, <2>2, <3>1 DEF Editions
    <2>5. Making'
        BY <1>1, <1>2, <2>1 DEF Making, Begun, MadeApi, MadeCbt, Checked, Starting, Failed
    <2>6. (kept \cap Restarted) \ ToSet(Tail(command.todo)) \subseteq Up'
        BY <1>1, <1>2, <1>3, <2>2 DEF Restarting
    <2>7. Tail(command.todo) = <<>> => kept \ {Frontend} \subseteq Up'
        BY <1>2, <2>6, NothingToDo, Lists DEF RebuildTypes, TypeOK
    <2>8. Restarting' /\ Success'
        BY <1>1, <2>1, <2>6, <2>7 DEF Restarting, Success, At, Starting, Failed
    <2>9. Current'
        <3>1. /\ "cbt-api" \notin command.failures => binary["cbt-api"] >= begun["cbt-api"]
              /\ "other" \notin command.failures => binary["cbt"] >= begun["cbt"]
              /\ "other" \notin command.failures =>
                    \A x \in Configured : file[x] >= begun["config"]
            BY <1>1, <1>2 DEF Making, MadeApi, MadeCbt, Checked, Starting, Failed
        <3>2. ASSUME NEW x \in Up' \cap EngineServices
              PROVE  /\ "cbt-api" \notin command.failures /\ x \in ToSet(ApiServices) =>
                           run'[x].binary >= begun["cbt-api"]
                     /\ "other" \notin command.failures /\ x \in ToSet(CbtServices) =>
                           run'[x].binary >= begun["cbt"]
                     /\ "other" \notin command.failures => run'[x].config >= begun["config"]
            <4>1. CASE x = s
                <5>1. x \in Configured
                    BY <3>2, Lists
                <5> QED
                    BY <2>2, <3>1, <4>1, <5>1, Lists
            <4>2. CASE x # s
                BY <1>2, <2>2, <3>2, <4>2 DEF Current, Failed
            <4> QED
                BY <4>1, <4>2
        <3> QED
            BY <1>1, <2>1, <3>2 DEF Current, Failed
    <2> QED
        BY <2>1, <2>3, <2>4, <2>5, <2>8, <2>9 DEF RebuildInv, Rebuilding
<1> QED
    BY <1>4, <1>5 DEF StartAll

LEMMA WaitKeeps ==
    ASSUME RebuildInv, Wait
    PROVE  RebuildInv'
<1>1. /\ command.step = "wait" /\ Proceeds /\ command'.todo = command.todo
      /\ \/ command'.step = "types" /\ command'.failures = command.failures
         \/ command'.step = "over" /\ "other" \in command'.failures
      /\ UNCHANGED <<source, binary, apiConfig, file, types, run, table, begun, kept, slotZero>>
    <2>1. /\ Goto("types") => Proceeds /\ command'.step = "types"
                /\ command'.todo = command.todo /\ command'.failures = command.failures
          /\ Fail("other", "over") => Proceeds /\ command'.step = "over"
                /\ command'.todo = command.todo /\ "other" \in command'.failures
        BY CommandIs DEF Steps, Failures
    <2>2. /\ command.step = "wait" /\ (Goto("types") \/ Fail("other", "over"))
          /\ UNCHANGED <<source, binary, apiConfig, file, types, run, table, begun, kept, slotZero>>
        BY DEF Wait, At, made
    <2> QED
        BY <2>1, <2>2
<1>2. command.kind = "all" /\ Making /\ Restarting /\ Current
    BY <1>1 DEF RebuildInv, RebuildTypes, Rebuilding, Starting
<1>3. RebuildTypes' /\ Editions' /\ Up' = Up
    BY <1>1, <1>2, BuildingTypes DEF RebuildInv, RebuildTypes, TypeOK
<1>4. command'.kind = "all" /\ command.failures \subseteq command'.failures
    BY <1>1, <1>2 DEF Proceeds
<1>5. Making' /\ Restarting' /\ Success'
    BY <1>1, <1>2, <1>3, <1>4
       DEF Making, Restarting, Success, At, Begun, MadeApi, MadeCbt, Checked, Starting, Failed
<1>6. Current'
    BY <1>1, <1>2, <1>3, <1>4 DEF Current, Failed
<1> QED
    BY <1>3, <1>4, <1>5, <1>6 DEF RebuildInv, Rebuilding

LEMMA TypesKeeps ==
    ASSUME RebuildInv, Types
    PROVE  RebuildInv'
<1>1. /\ command.step = "types" /\ UNCHANGED <<source, binary, apiConfig, file, run, table,
                                               begun, kept, slotZero>>
      /\ \/ /\ command' = [command EXCEPT !.step = "stop", !.todo = <<Frontend>>]
            /\ \/ run[FirstApi] # None /\ types' = run[FirstApi].binary
               \/ types' = Neighbour
         \/ UNCHANGED types /\ Fail("other", "over")
    BY DEF Types, At, MakeTypes
<1>2. /\ command.kind = "all" /\ Making /\ Restarting /\ Current /\ Frontend \in Services
      /\ command \in [kind : Projects \cup Single, step : Steps,
                      todo : Seq(Services), failures : SUBSET Failures]
    BY <1>1 DEF RebuildInv, RebuildTypes, Rebuilding, Starting, Services
<1>3. /\ Proceeds /\ command'.kind = "all" /\ command.failures \subseteq command'.failures
      /\ \/ command'.step = "stop" /\ command'.todo = <<Frontend>>
         \/ command'.step = "over" /\ "other" \in command'.failures
    <2>1. CASE command' = [command EXCEPT !.step = "stop", !.todo = <<Frontend>>]
        <3>1. command' = [kind |-> command.kind, step |-> "stop", todo |-> <<Frontend>>,
                          failures |-> command.failures]
            BY <1>2, <2>1
        <3>2. <<Frontend>> \in Seq(Services)
            BY <1>2
        <3> QED
            BY <1>2, <3>1, <3>2 DEF Proceeds, Steps
    <2>2. CASE Fail("other", "over")
        BY <1>2, <2>2, CommandIs DEF Proceeds, Steps, Failures
    <2> QED
        BY <1>1, <2>1, <2>2
<1>4. types' \in Edition \cup {None, Neighbour} /\ <<Frontend>> # <<>>
    <2>1. ASSUME run[FirstApi] # None
          PROVE  run[FirstApi].binary \in Edition \cup {None}
        <3>1. FirstApi \in Services
            BY Lists
        <3> QED
            BY <2>1, <3>1 DEF RebuildInv, RebuildTypes, TypeOK, Process
    <2> QED
        BY <1>1, <2>1 DEF RebuildInv, RebuildTypes, TypeOK
<1>5. RebuildTypes' /\ Editions' /\ Up' = Up
    BY <1>1, <1>2, <1>3, <1>4, BuildingTypes DEF RebuildInv, RebuildTypes, TypeOK
<1>6. Making' /\ Restarting' /\ Success'
    BY <1>1, <1>2, <1>3, <1>5
       DEF Making, Restarting, Success, At, Begun, MadeApi, MadeCbt, Checked, Starting, Failed
<1>7. Current'
    BY <1>1, <1>2, <1>3, <1>5 DEF Current, Failed
<1> QED
    BY <1>3, <1>5, <1>6, <1>7 DEF RebuildInv, Rebuilding

(***************************************************************************)
(* The projects, and the commands on one service.                          *)
(***************************************************************************)

\* The rebuild of a project builds it; of everything it goes another way.
LEMMA BuildKeeps ==
    ASSUME RebuildInv, Build
    PROVE  RebuildInv'
<1>1. /\ command.step = "build"
      /\ Goto("stop") \/ Fail("other", "over")
      /\ UNCHANGED <<source, file, run, table, begun, kept, slotZero>>
    BY DEF Build, At, Make, MakeApi, GenerateProtos, MakeTypes
<1>2. command.kind # "all" /\ command.todo # <<>>
    BY <1>1 DEF RebuildInv, RebuildTypes, Rebuilding, Making, Begun, MadeApi, MadeCbt,
                Checked, Starting
<1>3. Proceeds /\ command'.step \in {"stop", "over"} /\ command'.todo = command.todo
    BY <1>1, CommandIs DEF Steps, Failures
<1>4. /\ file[FirstApi] \in Edition
      /\ run[FirstApi] # None => run[FirstApi].binary \in Edition \cup {None}
    <2>1. FirstApi \in Services /\ FirstApi \in Configured
        BY Lists DEF EngineServices
    <2> QED
        BY <2>1 DEF RebuildInv, RebuildTypes, TypeOK, Process
<1>5. /\ binary' \in [Repos -> Edition] /\ apiConfig' \in Edition \cup {None}
      /\ types' \in Edition \cup {None, Neighbour}
    <2>1. /\ binary \in [Repos -> Edition] /\ apiConfig \in Edition \cup {None}
          /\ types \in Edition \cup {None, Neighbour}
        BY DEF RebuildInv, RebuildTypes, TypeOK
    <2>2. CASE /\ command.kind \in {"cbt", "lab-backend"}
               /\ Make(command.kind, Goto("stop"), Fail("other", "over"))
               /\ UNCHANGED <<apiConfig, types>>
        <3>1. \/ binary' = binary
              \/ command.kind \in Repos
                 /\ binary' = [binary EXCEPT ![command.kind] = source[command.kind]]
            BY <2>2 DEF Make, Repos
        <3>2. binary' \in [Repos -> Edition]
            BY <2>1, <3>1, MadeFromSource
        <3> QED
            BY <2>1, <2>2, <3>2
    <2>3. CASE MakeApi(Goto("stop"), Fail("other", "over")) /\ UNCHANGED types
        <3>1. /\ \/ binary' = binary
                 \/ binary' = [binary EXCEPT !["cbt-api"] = source["cbt-api"]]
              /\ apiConfig' = None \/ apiConfig' = file[FirstApi]
            BY <2>3 DEF MakeApi, GenerateProtos, Make
        <3>2. binary' \in [Repos -> Edition]
            BY <2>1, <3>1, MadeFromSource DEF Repos
        <3> QED
            BY <1>4, <2>1, <2>3, <3>1, <3>2
    <2>4. CASE MakeTypes(Goto("stop"), Fail("other", "over")) /\ UNCHANGED <<binary, apiConfig>>
        BY <1>4, <2>1, <2>4 DEF MakeTypes
    <2> QED
        BY <2>2, <2>3, <2>4 DEF Build
<1>6. RebuildTypes' /\ Editions' /\ Up' = Up
    BY <1>1, <1>2, <1>3, <1>5, BuildingTypes DEF RebuildInv, RebuildTypes, TypeOK
<1>7. command'.kind # "all"
    BY <1>2, <1>3 DEF Proceeds
<1> QED
    BY <1>6, <1>7 DEF RebuildInv, Rebuilding

\* Where the command is when the head of its list has been stopped or started,
\* or could not be.
LEMMA Advancing ==
    ASSUME RebuildInv, command.step \in {"stop", "start"},
           \/ Unrestarted
           \/ Advance("over")
           \/ Advance(IF Done # <<>> THEN "stop" ELSE "over")
           \/ command.step = "stop" /\ Goto("start")
    PROVE  /\ command' \in [kind : {command.kind}, step : {"stop", "start", "over"},
                            todo : Seq(Services), failures : SUBSET Failures]
           /\ command.failures \subseteq command'.failures
           /\ command'.step \in {"stop", "start"} => command'.todo # <<>>
           /\ command.kind = "all" => command'.step # "stop"
           /\ command'.step = "start" => command'.todo = command.todo
<1>1. /\ command \in [kind : Projects \cup Single, step : Steps,
                      todo : Seq(Services), failures : SUBSET Failures]
      /\ command.todo # <<>> /\ command.todo \in Seq(Services)
    BY DEF RebuildInv, RebuildTypes
<1>2. Tail(command.todo) \in Seq(Services)
    BY <1>1, HeadAndTail
<1>3. command.kind = "all" => Tail(command.todo) = <<>> /\ "all" \notin Single
    <2>1. Tail(<<Frontend>>) = <<>>
        OBVIOUS
    <2> QED
        BY <2>1 DEF RebuildInv, Rebuilding, Restarting, Single
<1>4. ASSUME NEW step \in {"stop", "over"}, Advance(step)
      PROVE  /\ command' \in [kind : {command.kind}, step : {step},
                              todo : Seq(Services), failures : SUBSET Failures]
             /\ command'.failures = command.failures /\ command'.todo = Tail(command.todo)
    BY <1>1, <1>2, <1>4 DEF Advance, Done
<1>5. CASE Advance("over")
    BY <1>4, <1>5
<1>6. CASE Advance(IF Done # <<>> THEN "stop" ELSE "over")
    BY <1>3, <1>4, <1>6 DEF Done
<1>7. CASE command.step = "stop" /\ Goto("start")
    BY <1>1, <1>7 DEF Goto
<1>8. CASE Fail("other", "over")
    BY <1>1, <1>8 DEF Fail, Failures
<1> QED
    BY <1>5, <1>6, <1>7, <1>8 DEF Unrestarted

\* The first half of a restart, or a stop.
LEMMA StopKeeps ==
    ASSUME RebuildInv, Stop
    PROVE  RebuildInv'
<1> DEFINE s == Head(command.todo)
<1>1. /\ command.step = "stop" /\ StopProcess(s)
      /\ UNCHANGED <<source, binary, apiConfig, file, types, begun, kept, slotZero>>
      /\ Unrestarted \/ Advance("over") \/ Goto("start")
    BY DEF Stop, At, made
<1>2. RebuildTypes /\ Editions /\ command.todo \in Seq(Services) /\ command.todo # <<>>
    BY <1>1 DEF RebuildInv, RebuildTypes
<1>3. s \in Services
    BY <1>2, HeadAndTail
<1>4. /\ command' \in [kind : {command.kind}, step : {"stop", "start", "over"},
                       todo : Seq(Services), failures : SUBSET Failures]
      /\ command.failures \subseteq command'.failures
      /\ command'.step \in {"stop", "start"} => command'.todo # <<>>
      /\ command.kind = "all" => command'.step # "stop"
      /\ command'.step = "start" => command'.todo = command.todo
    BY <1>1, Advancing
<1>5. /\ run' \in [Services -> Process \cup {None}] /\ table' \subseteq Services
      /\ Up' \subseteq Up /\ \A x \in Up' : run'[x] = run[x]
      /\ Up \ {s} \subseteq Up'
    BY <1>1, <1>2, <1>3, Stopping
<1>6. RebuildTypes' /\ Editions'
    <2>1. command' \in [kind : Projects \cup Single, step : Steps,
                        todo : Seq(Services), failures : SUBSET Failures]
        BY <1>2, <1>4 DEF RebuildTypes, Steps
    <2> QED
        BY <1>1, <1>2, <1>4, <1>5, <2>1 DEF RebuildTypes, TypeOK, Editions
<1>7. ASSUME command.kind = "all"
      PROVE  Making' /\ Restarting' /\ Success' /\ Current'
    <2>1. /\ Making /\ Restarting /\ Current /\ s = Frontend
          /\ command.todo = <<Frontend>> /\ kept \ {Frontend} \subseteq Up
        BY <1>1, <1>7 DEF RebuildInv, Rebuilding, Restarting, Starting
    <2>2. kept \ {Frontend} \subseteq Up'
        BY <1>5, <2>1
    <2>3. Making'
        BY <1>1, <1>4, <2>1 DEF Making, Begun, MadeApi, MadeCbt, Checked, Starting, Failed
    <2>4. Restarting' /\ Success'
        BY <1>1, <1>4, <1>7, <2>1, <2>2 DEF Restarting, Success, Starting
    <2>5. Current'
        BY <1>1, <1>4, <1>5, <2>1 DEF Current, Failed
    <2> QED
        BY <2>3, <2>4, <2>5
<1> QED
    BY <1>4, <1>6, <1>7 DEF RebuildInv, Rebuilding

\* The second half of a restart, or a start.
LEMMA StartKeeps ==
    ASSUME RebuildInv, Start
    PROVE  RebuildInv'
<1> DEFINE s == Head(command.todo)
<1>1. /\ command.step = "start"
      /\ UNCHANGED <<source, binary, apiConfig, file, types, begun, kept, slotZero>>
      /\ Unrestarted \/ Advance(IF Done # <<>> THEN "stop" ELSE "over")
      /\ StartProcess(s) \/ UNCHANGED <<run, table>>
    BY DEF Start, At, made
<1>2. RebuildTypes /\ Editions /\ command.todo \in Seq(Services) /\ command.todo # <<>>
    BY <1>1 DEF RebuildInv, RebuildTypes
<1>3. s \in Services
    BY <1>2, HeadAndTail
<1>4. /\ command' \in [kind : {command.kind}, step : {"stop", "start", "over"},
                       todo : Seq(Services), failures : SUBSET Failures]
      /\ command.failures \subseteq command'.failures
      /\ command'.step \in {"stop", "start"} => command'.todo # <<>>
      /\ command.kind = "all" => command'.step # "stop"
      /\ command'.step = "start" => command'.todo = command.todo
    BY <1>1, Advancing
<1>5. /\ run' \in [Services -> Process \cup {None}] /\ table' \subseteq Services
      /\ Up \subseteq Up' /\ Up' \subseteq Up \cup {s}
      /\ \A x \in Up' \ {s} : run'[x] = run[x]
      /\ s \in Up' \ {Frontend} => run'[s].binary \in Nat /\ run'[s].config \in Nat
    <2>1. CASE StartProcess(s)
        <3>1. /\ run' \in [Services -> Process \cup {None}] /\ table' = table \cup {s}
              /\ Up' = Up \cup {s} /\ \A x \in Up' \ {s} : run'[x] = run[x]
              /\ s \in Configured => run'[s].binary \in Edition /\ run'[s].config \in Edition
            BY <1>2, <1>3, <2>1, Spawning
        <3>2. s # Frontend => run'[s].binary \in Nat /\ run'[s].config \in Nat
            BY <1>3, <3>1, EditsAssumption DEF Configured, Edition
        <3> QED
            BY <1>2, <1>3, <3>1, <3>2 DEF RebuildTypes, TypeOK
    <2>2. CASE UNCHANGED <<run, table>>
        BY <1>2, <2>2 DEF RebuildTypes, TypeOK, Editions, Up
    <2> QED
        BY <1>1, <2>1, <2>2
<1>6. RebuildTypes' /\ Editions'
    <2>1. command' \in [kind : Projects \cup Single, step : Steps,
                        todo : Seq(Services), failures : SUBSET Failures]
        BY <1>2, <1>4 DEF RebuildTypes, Steps
    <2> QED
        BY <1>1, <1>2, <1>4, <1>5, <2>1 DEF RebuildTypes, TypeOK, Editions
<1>7. ASSUME command.kind = "all"
      PROVE  Making' /\ Restarting' /\ Success' /\ Current'
    <2>1. /\ Making /\ Restarting /\ Current /\ s = Frontend
          /\ command.todo = <<Frontend>> /\ kept \ {Frontend} \subseteq Up
        BY <1>1, <1>7 DEF RebuildInv, Rebuilding, Restarting, Starting
    <2>2. kept \ {Frontend} \subseteq Up'
        BY <1>5, <2>1
    <2>3. Making'
        BY <1>1, <1>4, <2>1 DEF Making, Begun, MadeApi, MadeCbt, Checked, Starting, Failed
    <2>4. Restarting' /\ Success'
        BY <1>1, <1>4, <1>7, <2>1, <2>2 DEF Restarting, Success, Starting
    <2>5. Current'
        BY <1>1, <1>4, <1>5, <2>1, Lists DEF Current, Failed
    <2> QED
        BY <2>3, <2>4, <2>5
<1> QED
    BY <1>4, <1>6, <1>7 DEF RebuildInv, Rebuilding

LEMMA RebuildNext ==
    ASSUME RebuildInv, [Next]_vars
    PROVE  RebuildInv'
<1>1. CASE UNCHANGED vars
    <2>1. UNCHANGED <<source, binary, apiConfig, file, types, run, table, command, begun, kept,
                      slotZero>>
        BY <1>1 DEF vars
    <2>2. RebuildTypes'
        BY <2>1 DEF RebuildInv, RebuildTypes, TypeOK
    <2>3. Editions' /\ Rebuilding'
        BY <2>1 DEF RebuildInv, Editions, Rebuilding, Making, Restarting, Success, Current, Up,
                    Failed, At
    <2> QED
        BY <2>2, <2>3 DEF RebuildInv
<1>2. CASE \E kind \in Projects : Rebuild(kind)
    <2>1. PICK kind \in Projects : Rebuild(kind)
        BY <1>2
    <2>2. /\ CbtServices \in Seq(Services) /\ CbtServices # <<>>
          /\ ApiServices \in Seq(Services) /\ ApiServices # <<>>
        BY NetworksAssumption DEF CbtServices, ApiServices, Services, Enabled, ToSet
    <2>3. Backend \in Services /\ Frontend \in Services
        BY DEF Services
    <2>4. ToRestart(kind) \in Seq(Services) /\ ToRestart(kind) # <<>>
          /\ (kind = "all" => ToRestart(kind) = RestartList)
        <3>1. \A s \in Services : <<s>> \in Seq(Services) /\ <<s>> # <<>>
            OBVIOUS
        <3> QED
            BY <2>2, <2>3, <3>1, Lists DEF ToRestart, Projects
    <2> QED
        BY <2>1, <2>4, BeginKeeps DEF Rebuild
<1>3. CASE \E kind \in Single, s \in Services : Service(kind, s)
    <2>1. PICK kind \in Single, s \in Services : Service(kind, s)
        BY <1>3
    <2>2. <<s>> \in Seq(Services) /\ <<s>> # <<>> /\ kind # "all"
        BY DEF Single
    <2> QED
        BY <2>1, <2>2, BeginKeeps DEF Service
<1>4. CASE Remaining("cbt", "lab-backend") \/ Remaining("lab-backend", "configs")
    BY <1>4, RemainingKeeps
<1> QED
    BY <1>1, <1>2, <1>3, <1>4, EditKeeps, ExitKeeps, ProtosKeeps, XatuCbtKeeps, CbtApiKeeps,
       ConfigsKeeps, CheckKeeps, StopAllKeeps, StartAllKeeps, WaitKeeps, TypesKeeps,
       BuildKeeps, StopKeeps, StartKeeps DEF Next

LEMMA RebuildInvariant ==
    Spec => []RebuildInv
BY RebuildInit, RebuildNext, PTL DEF Spec

(***************************************************************************)
(* The theorems on the rebuild.                                            *)
(***************************************************************************)

\* When rebuild all reports success, no engine and no cbt-api is left that
\* runs a binary or a configuration from before (runFullRebuild,
\* stack/lab.go).
THEOREM RebuildIsCurrent ==
    Spec => []SuccessIsCurrent
<1>1. RebuildInv => SuccessIsCurrent
    <2> SUFFICES ASSUME RebuildInv
                 PROVE  SuccessIsCurrent
        OBVIOUS
    <2>1. TypeOK
        BY DEF RebuildInv, RebuildTypes
    <2>2. ASSUME Succeeded("all"), NEW s \in Up \cap (ToSet(CbtServices) \cup ToSet(ApiServices))
          PROVE  run[s].binary >= begun[s[1]] /\ run[s].config >= begun["config"]
        BY <2>2, Lists
           DEF RebuildInv, Rebuilding, Succeeded, At, Starting, Current, EngineServices, Failed
    <2> QED
        BY <2>1, <2>2 DEF SuccessIsCurrent
<1> QED
    BY <1>1, RebuildInvariant, PTL

\* A service that rebuild all stopped and could not start again is in its
\* report, the front end left aside (RestartAllServices,
\* orchestrator/orchestrator.go).
THEOREM LossesReported ==
    Spec => []NoServiceLostSilently
<1>1. RebuildInv => NoServiceLostSilently
    BY DEF RebuildInv, Rebuilding, Success, NoServiceLostSilently, Succeeded
<1> QED
    BY <1>1, RebuildInvariant, PTL

\* The front end's types are generated from a cbt-api that this rebuild built
\* and restarted (runFullRebuild, stack/lab.go).
THEOREM TypesFollow ==
    Spec => TypesFollowTheBuild
<1>1. ASSUME RebuildInv, [Next]_vars
      PROVE  [At("types") /\ At("stop")' /\ types' # Neighbour =>
                 types' >= begun["cbt-api"]]_vars
    <2> SUFFICES ASSUME Next, At("types"), At("stop")', types' # Neighbour
                 PROVE  types' >= begun["cbt-api"]
        BY <1>1
    <2>1. Types
        <3>1. command.step = "types" /\ command'.step = "stop"
            BY DEF At
        <3>2. command' # command
            BY <3>1
        <3>3. CASE \E r \in Sources : Edit(r)
            BY <3>2, <3>3 DEF Edit
        <3>4. CASE \E s \in Services : Exit(s)
            BY <3>2, <3>4 DEF Exit
        <3>5. CASE \/ \E kind \in Projects : Rebuild(kind)
                   \/ \E kind \in Single, s \in Services : Service(kind, s)
            BY <3>1, <3>5 DEF Rebuild, Service, Begin
        <3>6. CASE Protos \/ XatuCbt \/ CbtApi
                   \/ Remaining("cbt", "lab-backend") \/ Remaining("lab-backend", "configs")
                   \/ Configs \/ Check \/ StopAll \/ StartAll \/ Wait \/ Build \/ Stop \/ Start
            BY <3>1, <3>6 DEF Protos, XatuCbt, CbtApi, Remaining, Configs, Check, StopAll, StartAll,
                              Wait, Build, Stop, Start, At
        <3> QED
            BY <3>3, <3>4, <3>5, <3>6 DEF Next
    <2>2. ~Fail("other", "over")
        BY <1>1, CommandIs DEF At, Steps, Failures
    <2>3. run[FirstApi] # None /\ types' = run[FirstApi].binary
        BY <2>1, <2>2 DEF Types, MakeTypes
    <2>4. FirstApi \in Up /\ FirstApi \in EngineServices /\ FirstApi \in ToSet(ApiServices)
        BY <2>3, Lists DEF Up, EngineServices
    <2>5. /\ command.kind = "all" /\ Restarting /\ Current
        BY <1>1 DEF RebuildInv, RebuildTypes, Rebuilding, At, Starting
    <2>6. ~Failed("cbt-api")
        BY <2>5 DEF Restarting, At
    <2> QED
        BY <2>3, <2>4, <2>5, <2>6 DEF Current
<1> QED
    BY <1>1, RebuildInvariant, PTL DEF Spec, TypesFollowTheBuild

(***************************************************************************)
(* The boot.  LabBoot has the lab's networks and the bound of edits in     *)
(* common with LabRebuild, and a state of its own.                         *)
(***************************************************************************)

\* TypeOK, with the boot as a record that has a configuration.
BootTypes ==
    /\ BootTypeOK
    /\ boot \in [pc : Phases \cup {"idle"}, cfg : Configurations \cup {None},
                 warned : SUBSET Names, done : SUBSET Names]
    /\ boot.pc # "idle" => boot.cfg \in Configurations

\* The phases after the infrastructure, those after the seeding, and those
\* after the configurations.
Installed == Phases \ {"prerequisites", "external_ch", "conflicts", "build_xatu_cbt",
                            "infrastructure"}
Written == {"build_cbt_api", "ports", "start_services", "finalize"}
Seeded == {"generate_configs"} \cup Written

\* The containers of a local lab say that there is a schema, or was a Start that
\* did not get that far.
SchemaKnown ==
    "clickhouse-xatu" \in infra \/ (boot.pc \in Installed /\ boot.cfg.mode = "local") =>
        data.migrated \/ unmigrated

\* The seeder leaves out only networks it warns about.
BoundsKnown ==
    boot.pc \in Seeded /\ boot.cfg.mode = "hybrid" =>
        \A n \in boot.cfg.nets \ boot.warned : Database(boot.cfg, n) \in data.bounds

FilesWritten ==
    boot.pc \in Written =>
        \A n \in boot.cfg.nets : onDisk[n] = EngineFile(boot.cfg, n)

BootInv == BootTypes /\ SchemaKnown /\ BoundsKnown /\ FilesWritten

\* An enabled network has a position among the enabled ones.
LEMMA DatabaseInRange ==
    ASSUME NEW c \in Configurations, NEW n \in c.nets
    PROVE  Database(c, n) \in 1 .. Len(Networks)
<1> DEFINE upTo == EnabledUpTo(c, n)
<1>1. Len(Networks) \in Nat /\ DOMAIN Networks = 1 .. Len(Networks)
    BY NetworksAssumption
<1>2. n \in Names
    BY DEF Configurations
<1>3. \E i \in DOMAIN Networks : Networks[i] = n
    BY <1>2 DEF Names, Range
<1>4. Position(n) \in DOMAIN Networks /\ Networks[Position(n)] = n
    BY <1>3 DEF Position
<1>5. Position(n) \in upTo
    BY <1>1, <1>4 DEF EnabledUpTo
<1>6. upTo \subseteq 1 .. Len(Networks)
    BY <1>1 DEF EnabledUpTo
<1>7. IsFiniteSet(1 .. Len(Networks)) /\ Cardinality(1 .. Len(Networks)) = Len(Networks)
    <2>1. /\ IsFiniteSet(1 .. Len(Networks))
          /\ Cardinality(1 .. Len(Networks)) =
                IF 1 > Len(Networks) THEN 0 ELSE Len(Networks) - 1 + 1
        BY <1>1, FS_Interval
    <2> QED
        BY <1>1, <2>1
<1> HIDE DEF upTo
<1>8. /\ IsFiniteSet(upTo) /\ Cardinality(upTo) \in Nat
      /\ Cardinality(upTo) <= Len(Networks)
    BY <1>6, <1>7, FS_Subset, FS_CardinalityType
<1>9. Cardinality(upTo) # 0
    BY <1>5, <1>8, FS_EmptySet
<1>10. Database(c, n) = Cardinality(upTo)
    BY DEF Database, upTo
<1> QED
    BY <1>1, <1>8, <1>9, <1>10

(***************************************************************************)
(* What the actions of LabBoot keep.                                       *)
(***************************************************************************)

LEMMA BootStarts ==
    ASSUME BootInit
    PROVE  BootInv
<1>1. /\ config \in [mode : {"local", "hybrid"}, nets : {Names}, obs : {FALSE}]
      /\ infra = {} /\ obs = {}
      /\ data = [migrated |-> FALSE, bounds |-> {}]
      /\ onDisk = [n \in Names |-> None] /\ engine = [n \in Names |-> None]
      /\ services = FALSE /\ manifest = FALSE /\ unmigrated = FALSE /\ edits = 0
      /\ boot = [pc |-> "idle", cfg |-> None, warned |-> {}, done |-> {}]
    BY DEF BootInit, Fresh, Idle
<1>2. Names # {}
    <2>1. 1 \in DOMAIN Networks
        BY NetworksAssumption
    <2> QED
        BY <2>1 DEF Names, Range
<1>3. config \in Configurations
    BY <1>1, <1>2 DEF Configurations
<1>4. edits \in 0 .. MaxEdits
    BY <1>1, EditsAssumption
<1>5. BootTypes
    BY <1>1, <1>3, <1>4 DEF BootTypes, BootTypeOK
<1> QED
    BY <1>1, <1>5
       DEF BootInv, SchemaKnown, BoundsKnown, FilesWritten, Installed, Seeded, Written, Phases

\* A phase is over, and what it leaves behind is on screen.
LEMMA Passing ==
    ASSUME BootInv, boot.pc # "idle",
           UNCHANGED <<config, infra, data, onDisk, engine, services, manifest, unmigrated, edits>>,
           obs' \subseteq Observers,
           \/ boot' = Idle
           \/ \E next \in Phases :
                 /\ boot' = [boot EXCEPT !.pc = next]
                 /\ next \in Installed =>
                       \/ boot.pc \in Installed
                       \/ boot.cfg.mode = "local" => "clickhouse-xatu" \in infra
                 /\ next \in Seeded => boot.pc \in Seeded \/ boot.cfg.mode # "hybrid"
                 /\ next \in Written => boot.pc \in Written
    PROVE  BootInv'
<1>1. /\ boot \in [pc : Phases \cup {"idle"}, cfg : Configurations \cup {None},
                   warned : SUBSET Names, done : SUBSET Names]
      /\ boot.cfg \in Configurations
    BY DEF BootInv, BootTypes
<1>2. CASE boot' = Idle
    <2>1. boot' = [pc |-> "idle", cfg |-> None, warned |-> {}, done |-> {}]
        BY <1>2 DEF Idle
    <2>2. BootTypes'
        BY <2>1 DEF BootInv, BootTypes, BootTypeOK
    <2>3. "idle" \notin Installed /\ "idle" \notin Seeded /\ "idle" \notin Written
        BY DEF Installed, Seeded, Written, Phases
    <2> QED
        BY <2>1, <2>2, <2>3 DEF BootInv, SchemaKnown, BoundsKnown, FilesWritten
<1>3. ASSUME NEW next \in Phases, boot' = [boot EXCEPT !.pc = next],
             next \in Installed =>
                 \/ boot.pc \in Installed
                 \/ boot.cfg.mode = "local" => "clickhouse-xatu" \in infra,
             next \in Seeded => boot.pc \in Seeded \/ boot.cfg.mode # "hybrid",
             next \in Written => boot.pc \in Written
      PROVE  BootInv'
    <2>1. boot' = [pc |-> next, cfg |-> boot.cfg, warned |-> boot.warned, done |-> boot.done]
        BY <1>1, <1>3
    <2>2. BootTypes'
        BY <1>1, <2>1 DEF BootInv, BootTypes, BootTypeOK
    <2>3. SchemaKnown'
        BY <1>3, <2>1 DEF BootInv, SchemaKnown
    <2>4. BoundsKnown'
        BY <1>3, <2>1 DEF BootInv, BoundsKnown, Database, EnabledUpTo
    <2>5. FilesWritten'
        BY <1>3, <2>1 DEF BootInv, FilesWritten
    <2> QED
        BY <2>2, <2>3, <2>4, <2>5 DEF BootInv
<1> QED
    BY <1>2, <1>3

\* Whatever happens while no boot works on the instance.
LEMMA Idling ==
    ASSUME BootInv, boot.pc = "idle", boot' = boot,
           UNCHANGED <<config, edits>>,
           infra' \subseteq Containers, obs' \subseteq Observers,
           data' \in [migrated : BOOLEAN, bounds : SUBSET Databases],
           onDisk' \in [Names -> Files \cup {None}],
           engine' \in [Names -> Files \cup {None}],
           services' \in BOOLEAN, manifest' \in BOOLEAN, unmigrated' \in BOOLEAN,
           "clickhouse-xatu" \in infra' => data'.migrated \/ unmigrated'
    PROVE  BootInv'
<1>1. BootTypes'
    BY DEF BootInv, BootTypes, BootTypeOK
<1>2. "idle" \notin Installed /\ "idle" \notin Seeded /\ "idle" \notin Written
    BY DEF Installed, Seeded, Written, Phases
<1> QED
    BY <1>1, <1>2 DEF BootInv, SchemaKnown, BoundsKnown, FilesWritten

\* The phases that look at something and decide how the boot goes on.
LEMMA PhasesKeep ==
    ASSUME BootInv,
           \/ Prerequisites \/ ExternalClickHouse \/ Conflicts
           \/ BuildXatuCBT \/ BuildAll \/ BuildCBTAPI \/ PortConflicts
           \/ WaitForReady \/ StartPrometheus \/ StartGrafana
           \/ WaitForHealth \/ SetupNetworks \/ Finalize \/ Killed
    PROVE  BootInv'
<1> USE DEF Go, Fails, AtPhase, Cfg
<1>1. obs \subseteq Observers
    BY DEF BootInv, BootTypes, BootTypeOK
<1>2. CASE Prerequisites
    BY <1>1, <1>2, Passing
       DEF Prerequisites, Passes, Installed, Seeded, Written, Phases
<1>3. CASE ExternalClickHouse
    BY <1>1, <1>3, Passing
       DEF ExternalClickHouse, Passes, Installed, Seeded, Written, Phases
<1>4. CASE Conflicts
    BY <1>1, <1>4, Passing
       DEF Conflicts, Installed, Seeded, Written, Phases
<1>5. CASE BuildXatuCBT
    BY <1>1, <1>5, Passing
       DEF BuildXatuCBT, Passes, Installed, Seeded, Written, Phases
<1>6. CASE BuildAll
    BY <1>1, <1>6, Passing
       DEF BuildAll, Passes, Installed, Seeded, Written, Phases
<1>7. CASE BuildCBTAPI
    BY <1>1, <1>7, Passing
       DEF BuildCBTAPI, Passes, Installed, Seeded, Written, Phases
<1>8. CASE PortConflicts
    BY <1>1, <1>8, Passing
       DEF PortConflicts, Passes, Installed, Seeded, Written, Phases
<1>9. CASE WaitForReady
    BY <1>1, <1>9, Passing
       DEF WaitForReady, AfterReady, AfterMigration,
           Installed, Seeded, Written, Phases
<1>10. CASE StartPrometheus
    <2>1. obs' \subseteq Observers
        BY <1>1, <1>10 DEF StartPrometheus, StartObserver, StartContainer,
                           StartContainerFails, Observers
    <2> QED
        BY <2>1, <1>10, Passing
           DEF StartPrometheus, StartObserver, Installed, Seeded, Written, Phases
<1>11. CASE StartGrafana
    <2>1. obs' \subseteq Observers
        BY <1>1, <1>11 DEF StartGrafana, StartObserver, StartContainer,
                           StartContainerFails, Observers
    <2> QED
        BY <2>1, <1>11, Passing
           DEF StartGrafana, StartObserver, Installed, Seeded, Written, Phases
<1>12. CASE WaitForHealth
    BY <1>1, <1>12, Passing
       DEF WaitForHealth, Installed, Seeded, Written, Phases
<1>13. CASE SetupNetworks
    BY <1>1, <1>13, Passing
       DEF SetupNetworks, Installed, Seeded, Written, Phases
<1>14. CASE Finalize
    BY <1>1, <1>14, Passing DEF Finalize
<1>15. CASE Killed
    BY <1>1, <1>15, Passing DEF Killed
<1> QED
    BY <1>2, <1>3, <1>4, <1>5, <1>6, <1>7, <1>8, <1>9, <1>10, <1>11, <1>12, <1>13, <1>14, <1>15

\* The containers of a local lab, started or only some of them.
LEMMA StartInfraKeeps ==
    ASSUME BootInv, StartInfra
    PROVE  BootInv'
<1> USE DEF Go, Fails, AtPhase, Cfg
<1>1. /\ boot \in [pc : Phases \cup {"idle"}, cfg : Configurations \cup {None},
                   warned : SUBSET Names, done : SUBSET Names]
      /\ boot.pc = "infrastructure" /\ boot.cfg \in Configurations
      /\ obs \subseteq Observers
    BY DEF BootInv, BootTypes, BootTypeOK, StartInfra
<1>2. CASE IsRunning(boot.cfg)
    <2>1. boot.cfg.mode = "local" => "clickhouse-xatu" \in infra
        BY <1>2 DEF IsRunning, HealthCheck, Containers
    <2> QED
        BY <1>1, <1>2, <2>1, Passing
           DEF StartInfra, Installed, Seeded, Written, Phases
<1>3. CASE ~IsRunning(boot.cfg)
    <2>1. /\ UNCHANGED <<config, data, obs, onDisk, engine, services, manifest, edits>>
          /\ \E some \in SUBSET HealthCheck(boot.cfg) : infra' = infra \cup some
          /\ unmigrated' = (unmigrated \/ boot.cfg.mode = "local")
          /\ \/ boot' = [boot EXCEPT !.pc = "ready"]
             \/ boot' = Idle
        BY <1>3 DEF StartInfra
    <2>2. /\ infra' \subseteq Containers
          /\ "clickhouse-xatu" \in infra' => "clickhouse-xatu" \in infra \/ boot.cfg.mode = "local"
        BY <2>1 DEF HealthCheck, Containers, BootInv, BootTypes, BootTypeOK
    <2>3. unmigrated' \in BOOLEAN
        BY <2>1 DEF BootInv, BootTypes, BootTypeOK
    <2>4. \/ boot' = [pc |-> "ready", cfg |-> boot.cfg, warned |-> boot.warned,
                      done |-> boot.done]
          \/ boot' = [pc |-> "idle", cfg |-> None, warned |-> {}, done |-> {}]
        BY <1>1, <2>1 DEF Idle
    <2>5. boot'.pc \notin Seeded /\ boot'.pc \notin Written /\ "idle" \notin Installed
        BY <2>4 DEF Installed, Seeded, Written, Phases
    <2>6. BootTypes'
        BY <1>1, <2>1, <2>2, <2>3, <2>4 DEF BootInv, BootTypes, BootTypeOK, Phases
    <2>7. SchemaKnown'
        <3>1. CASE boot.cfg.mode = "local"
            BY <2>1, <3>1 DEF SchemaKnown
        <3>2. CASE boot.cfg.mode # "local"
            <4>1. unmigrated' = unmigrated /\ data' = data
                BY <2>1, <2>3, <3>2 DEF BootInv, BootTypes, BootTypeOK
            <4>2. "clickhouse-xatu" \in infra' => "clickhouse-xatu" \in infra
                BY <2>2, <3>2
            <4>3. boot'.pc \in Installed => boot'.cfg.mode # "local"
                BY <2>4, <2>5, <3>2
            <4> QED
                BY <4>1, <4>2, <4>3 DEF BootInv, SchemaKnown
        <3> QED
            BY <3>1, <3>2
    <2> QED
        BY <2>5, <2>6, <2>7 DEF BootInv, BoundsKnown, FilesWritten
<1> QED
    BY <1>2, <1>3

LEMMA MigrateXatuKeeps ==
    ASSUME BootInv, MigrateXatu
    PROVE  BootInv'
<1> USE DEF Go, Fails, AtPhase, Cfg
<1>1. /\ boot \in [pc : Phases \cup {"idle"}, cfg : Configurations \cup {None},
                   warned : SUBSET Names, done : SUBSET Names]
      /\ boot.pc = "migrate" /\ boot.cfg \in Configurations
      /\ obs \subseteq Observers
      /\ data \in [migrated : BOOLEAN, bounds : SUBSET Databases]
    BY DEF BootInv, BootTypes, BootTypeOK, MigrateXatu
<1>2. CASE boot' = Idle /\ UNCHANGED <<data, unmigrated>>
    BY <1>1, <1>2, Passing DEF MigrateXatu
<1>3. CASE /\ data' = [data EXCEPT !.migrated = TRUE]
           /\ boot' = [boot EXCEPT !.pc = AfterMigration(boot.cfg)]
           /\ unmigrated' = FALSE
    <2>1. boot'.pc \in {"prometheus", "build_services"}
          /\ boot' = [pc |-> boot'.pc, cfg |-> boot.cfg, warned |-> boot.warned,
                      done |-> boot.done]
          /\ data' = [migrated |-> TRUE, bounds |-> data.bounds]
        BY <1>1, <1>3 DEF AfterMigration
    <2>2. BootTypes'
        BY <1>1, <1>3, <2>1 DEF BootInv, BootTypes, BootTypeOK, Phases, MigrateXatu
    <2> QED
        BY <2>1, <2>2
           DEF BootInv, SchemaKnown, BoundsKnown, FilesWritten, Seeded, Written
<1> QED
    BY <1>2, <1>3 DEF MigrateXatu

\* Every network that needed bounds has them or a warning.
LEMMA SeedBoundsKeeps ==
    ASSUME BootInv, SeedBounds
    PROVE  BootInv'
<1> USE DEF Go, Fails, AtPhase, Cfg
<1>1. /\ boot \in [pc : Phases \cup {"idle"}, cfg : Configurations \cup {None},
                   warned : SUBSET Names, done : SUBSET Names]
      /\ boot.pc = "bounds" /\ boot.cfg \in Configurations
      /\ obs \subseteq Observers
      /\ data \in [migrated : BOOLEAN, bounds : SUBSET Databases]
    BY DEF BootInv, BootTypes, BootTypeOK, SeedBounds
<1>2. CASE boot.cfg.mode = "local"
    BY <1>1, <1>2, Passing
       DEF SeedBounds, Installed, Seeded, Written, Phases
<1>3. CASE boot.cfg.mode # "local"
    <2> DEFINE missing == {n \in boot.cfg.nets : Database(boot.cfg, n) \notin data.bounds}
    <2>1. PICK written \in SUBSET boot.cfg.nets, warned \in SUBSET boot.cfg.nets :
             /\ missing \subseteq written \cup warned
             /\ data' = [data EXCEPT !.bounds =
                            @ \cup {Database(boot.cfg, n) : n \in written}]
             /\ boot' = [boot EXCEPT !.pc = "generate_configs", !.warned = warned]
        BY <1>3 DEF SeedBounds, Seeds, NeedsSeeding
    <2>2. boot' = [pc |-> "generate_configs", cfg |-> boot.cfg, warned |-> warned,
                   done |-> boot.done]
          /\ data' = [migrated |-> data.migrated,
                      bounds |-> data.bounds \cup {Database(boot.cfg, n) : n \in written}]
        BY <1>1, <2>1
    <2>3. boot.cfg.nets \subseteq Names
        BY <1>1 DEF Configurations
    <2>4. data'.bounds \subseteq Databases
        BY <1>1, <2>1, <2>2, DatabaseInRange DEF Databases
    <2>5. BootTypes'
        <3>1. boot' \in [pc : Phases \cup {"idle"}, cfg : Configurations \cup {None},
                         warned : SUBSET Names, done : SUBSET Names]
            BY <1>1, <2>1, <2>2, <2>3 DEF Phases
        <3>2. data' \in [migrated : BOOLEAN, bounds : SUBSET Databases]
            BY <1>1, <2>2, <2>4
        <3>3. UNCHANGED <<config, infra, obs, onDisk, engine, services, manifest,
                          unmigrated, edits>>
            BY DEF SeedBounds
        <3> QED
            BY <1>1, <2>2, <3>1, <3>2, <3>3 DEF BootInv, BootTypes, BootTypeOK
    <2>6. SchemaKnown'
        BY <1>1, <1>3, <2>2 DEF BootInv, SchemaKnown, Installed, Phases, SeedBounds
    <2>7. \A n \in boot.cfg.nets \ warned : Database(boot.cfg, n) \in data'.bounds
        BY <2>1, <2>2
    <2>8. BoundsKnown'
        BY <2>2, <2>7 DEF BoundsKnown, Database, EnabledUpTo
    <2>9. FilesWritten'
        BY <2>2 DEF FilesWritten, Written
    <2> QED
        BY <2>5, <2>6, <2>8, <2>9 DEF BootInv
<1> QED
    BY <1>2, <1>3

\* What the generator has written so far is a file of a network it may have.
LEMMA GeneratedFiles ==
    ASSUME BootInv, NEW c \in Configurations, NEW i
    PROVE  Generated(c, i) \in [Names -> Files \cup {None}]
<1>1. \A n \in c.nets : EngineFile(c, n) \in Files
    <2>1. c.nets \in SUBSET Names
        BY DEF Configurations
    <2> QED
        BY <2>1, DatabaseInRange
           DEF EngineFile, FileDatabase, Files, Databases
<1>2. onDisk \in [Names -> Files \cup {None}]
    BY DEF BootInv, BootTypes, BootTypeOK
<1> QED
    BY <1>1, <1>2 DEF Generated

LEMMA GenerateConfigsKeeps ==
    ASSUME BootInv, GenerateConfigs
    PROVE  BootInv'
<1> USE DEF Go, Fails, AtPhase, Cfg
<1>1. /\ boot \in [pc : Phases \cup {"idle"}, cfg : Configurations \cup {None},
                   warned : SUBSET Names, done : SUBSET Names]
      /\ boot.pc = "generate_configs" /\ boot.cfg \in Configurations
    BY DEF BootInv, BootTypes, BootTypeOK, GenerateConfigs
<1>2. /\ UNCHANGED <<config, infra, data, obs, engine, services, manifest, unmigrated, edits>>
      /\ onDisk' \in [Names -> Files \cup {None}]
    BY <1>1, GeneratedFiles DEF GenerateConfigs
<1>3. CASE onDisk' = Generated(boot.cfg, Len(Networks))
           /\ boot' = [boot EXCEPT !.pc = "build_cbt_api"]
    <2>1. boot' = [pc |-> "build_cbt_api", cfg |-> boot.cfg, warned |-> boot.warned,
                   done |-> boot.done]
        BY <1>1, <1>3
    <2>2. BootTypes'
        BY <1>1, <1>2, <2>1 DEF BootInv, BootTypes, BootTypeOK, Phases
    <2>3. SchemaKnown'
        BY <1>1, <1>2, <2>1 DEF BootInv, SchemaKnown, Installed, Phases
    <2>4. BoundsKnown'
        BY <1>1, <1>2, <2>1
           DEF BootInv, BoundsKnown, Seeded, Written, Database, EnabledUpTo
    <2>5. ASSUME NEW n \in boot.cfg.nets
          PROVE  onDisk'[n] = EngineFile(boot.cfg, n)
        <3>1. n \in Names
            BY <1>1 DEF Configurations
        <3>2. Database(boot.cfg, n) <= Len(Networks)
            BY <1>1, DatabaseInRange, NetworksAssumption
        <3> QED
            BY <1>3, <3>1, <3>2 DEF Generated
    <2>6. FilesWritten'
        BY <2>1, <2>5
           DEF FilesWritten, EngineFile, FileDatabase, Database, EnabledUpTo
    <2> QED
        BY <2>2, <2>3, <2>4, <2>6 DEF BootInv
<1>4. CASE boot' = Idle
    <2>1. boot' = [pc |-> "idle", cfg |-> None, warned |-> {}, done |-> {}]
        BY <1>4 DEF Idle
    <2>2. BootTypes'
        BY <1>2, <2>1 DEF BootInv, BootTypes, BootTypeOK
    <2>3. "idle" \notin Installed /\ "idle" \notin Seeded /\ "idle" \notin Written
        BY DEF Installed, Seeded, Written, Phases
    <2> QED
        BY <1>2, <2>1, <2>2, <2>3 DEF BootInv, SchemaKnown, BoundsKnown, FilesWritten
<1> QED
    BY <1>3, <1>4 DEF GenerateConfigs

LEMMA StartServicesKeeps ==
    ASSUME BootInv, StartServices
    PROVE  BootInv'
<1> USE DEF Go, Fails, AtPhase, Cfg
<1>1. /\ boot \in [pc : Phases \cup {"idle"}, cfg : Configurations \cup {None},
                   warned : SUBSET Names, done : SUBSET Names]
      /\ boot.pc = "start_services" /\ boot.cfg \in Configurations
      /\ boot.cfg.nets \subseteq Names
      /\ onDisk \in [Names -> Files \cup {None}]
      /\ engine \in [Names -> Files \cup {None}]
      /\ services \in BOOLEAN
    BY DEF BootInv, BootTypes, BootTypeOK, StartServices, Configurations
<1>2. UNCHANGED <<config, infra, data, obs, onDisk, manifest, unmigrated, edits>>
    BY DEF StartServices
<1>3. engine' \in [Names -> Files \cup {None}] /\ services' \in BOOLEAN
    BY <1>1 DEF StartServices
<1>4. \/ \E n \in boot.cfg.nets : boot' = [boot EXCEPT !.done = @ \cup {n}]
      \/ boot' = [boot EXCEPT !.pc = "finalize"]
      \/ boot' = Idle
    BY DEF StartServices
<1>5. \/ /\ boot'.pc \in {"start_services", "finalize"}
         /\ boot' = [pc |-> boot'.pc, cfg |-> boot.cfg, warned |-> boot.warned,
                     done |-> boot'.done]
         /\ boot'.done \subseteq Names
      \/ boot' = [pc |-> "idle", cfg |-> None, warned |-> {}, done |-> {}]
    BY <1>1, <1>4 DEF Idle
<1>6. BootTypes'
    BY <1>1, <1>2, <1>3, <1>5 DEF BootInv, BootTypes, BootTypeOK, Phases
<1>7. /\ "start_services" \in Installed \cap Seeded \cap Written
      /\ "idle" \notin Installed /\ "idle" \notin Seeded /\ "idle" \notin Written
    BY DEF Installed, Seeded, Written, Phases
<1>8. SchemaKnown'
    BY <1>1, <1>2, <1>5, <1>7 DEF BootInv, SchemaKnown
<1>9. BoundsKnown'
    BY <1>1, <1>2, <1>5, <1>7 DEF BootInv, BoundsKnown, Database, EnabledUpTo
<1>10. FilesWritten'
    BY <1>1, <1>2, <1>5, <1>7
       DEF BootInv, FilesWritten, EngineFile, FileDatabase, Database,
           EnabledUpTo
<1> QED
    BY <1>6, <1>8, <1>9, <1>10 DEF BootInv

LEMMA BootBeginKeeps ==
    ASSUME BootInv, BeginBoot
    PROVE  BootInv'
<1>1. /\ boot' = [pc |-> "prerequisites", cfg |-> config, warned |-> {}, done |-> {}]
      /\ UNCHANGED <<config, infra, data, obs, onDisk, engine, services, unmigrated, edits>>
      /\ manifest' = TRUE
    BY DEF BeginBoot, Idle
<1>2. BootTypes'
    BY <1>1 DEF BootInv, BootTypes, BootTypeOK, Phases
<1>3. "prerequisites" \notin Installed \cup Seeded \cup Written
    BY DEF Installed, Seeded, Written, Phases
<1> QED
    BY <1>1, <1>2, <1>3 DEF BootInv, SchemaKnown, BoundsKnown, FilesWritten

\* What may happen under a boot in progress: the user's editor, an engine that
\* scans or ends, a container that stops.
LEMMA AnyTimeKeeps ==
    ASSUME BootInv, boot' = boot,
           config' \in Configurations, edits' \in 0 .. MaxEdits,
           infra' \subseteq infra,
           data.bounds \subseteq data'.bounds, data'.migrated = data.migrated,
           data' \in [migrated : BOOLEAN, bounds : SUBSET Databases],
           engine' \in [Names -> Files \cup {None}],
           UNCHANGED <<obs, onDisk, services, manifest, unmigrated>>
    PROVE  BootInv'
<1>1. BootTypes'
    BY DEF BootInv, BootTypes, BootTypeOK
<1>2. SchemaKnown'
    BY DEF BootInv, SchemaKnown
<1>3. BoundsKnown'
    BY DEF BootInv, BoundsKnown, Database, EnabledUpTo
<1>4. FilesWritten'
    BY DEF BootInv, FilesWritten
<1> QED
    BY <1>1, <1>2, <1>3, <1>4 DEF BootInv

LEMMA OutsideKeeps ==
    ASSUME BootInv,
           \/ EditConfig
           \/ \E n \in Names : EngineScans(n) \/ EngineExits(n)
           \/ \E c \in Containers : ContainerStops(c)
    PROVE  BootInv'
<1>1. /\ config \in Configurations /\ edits \in 0 .. MaxEdits /\ MaxEdits \in Nat
      /\ data \in [migrated : BOOLEAN, bounds : SUBSET Databases]
      /\ engine \in [Names -> Files \cup {None}]
    BY EditsAssumption DEF BootInv, BootTypes, BootTypeOK
<1>2. CASE EditConfig
    BY <1>1, <1>2, AnyTimeKeeps DEF EditConfig
<1>3. ASSUME NEW n \in Names, EngineScans(n)
      PROVE  BootInv'
    <2>1. engine[n] \in Files /\ engine[n].db \in Databases
        BY <1>1, <1>3 DEF EngineScans, Files
    <2>2. data' = [migrated |-> data.migrated, bounds |-> data.bounds \cup {engine[n].db}]
        BY <1>1, <1>3 DEF EngineScans
    <2> QED
        BY <1>1, <1>3, <2>1, <2>2, AnyTimeKeeps DEF EngineScans
<1>4. ASSUME NEW n \in Names, EngineExits(n)
      PROVE  BootInv'
    BY <1>1, <1>4, AnyTimeKeeps DEF EngineExits
<1>5. ASSUME NEW c \in Containers, ContainerStops(c)
      PROVE  BootInv'
    BY <1>1, <1>5, AnyTimeKeeps DEF ContainerStops
<1> QED
    BY <1>2, <1>3, <1>4, <1>5

\* The other commands.
LEMMA CommandsKeep ==
    ASSUME BootInv,
           \/ Down \/ Destroy \/ ResetRedis \/ Regenerate
           \/ \E n \in Names : StartService(n)
           \/ \E s \in Observers : ObserverAction(s)
    PROVE  BootInv'
<1> USE DEF AtPhase
<1>1. /\ config \in Configurations
      /\ infra \subseteq Containers /\ obs \subseteq Observers
      /\ data \in [migrated : BOOLEAN, bounds : SUBSET Databases]
      /\ onDisk \in [Names -> Files \cup {None}]
      /\ engine \in [Names -> Files \cup {None}]
      /\ services \in BOOLEAN /\ manifest \in BOOLEAN /\ unmigrated \in BOOLEAN
      /\ "clickhouse-xatu" \in infra => data.migrated \/ unmigrated
    BY DEF BootInv, BootTypes, BootTypeOK, SchemaKnown
<1>2. Fresh \in [migrated : BOOLEAN, bounds : SUBSET Databases]
    BY DEF Fresh
<1>3. StopsServices =>
          engine' \in [Names -> Files \cup {None}] /\ services' \in BOOLEAN
    BY <1>1 DEF StopsServices
<1>4. StopsObservability => obs' \subseteq Observers
    BY <1>1 DEF StopsObservability
<1>5. CASE Down
    <2>1. /\ infra' \subseteq infra /\ unmigrated' \in BOOLEAN
          /\ "clickhouse-xatu" \in infra' => unmigrated' = unmigrated
        BY <1>1, <1>5 DEF Down
    <2> QED
        BY <1>1, <1>3, <1>4, <1>5, <2>1, Idling DEF Down
<1>6. CASE Destroy
    <2>1. /\ infra' \subseteq infra /\ unmigrated' \in BOOLEAN /\ manifest' \in BOOLEAN
          /\ data' \in {data, Fresh}
          /\ onDisk' \in [Names -> Files \cup {None}]
          /\ "clickhouse-xatu" \in infra' => unmigrated' = unmigrated /\ data' = data
        BY <1>1, <1>6 DEF Destroy, ResetInfra
    <2> QED
        BY <1>1, <1>2, <1>3, <1>4, <1>6, <2>1, Idling DEF Destroy
<1>7. CASE ResetRedis
    <2>1. data' = [migrated |-> data.migrated, bounds |-> {}]
        BY <1>1, <1>7 DEF ResetRedis, Fresh
    <2> QED
        BY <1>1, <1>7, <2>1, Idling DEF ResetRedis
<1>8. CASE Regenerate
    <2>1. onDisk' \in [Names -> Files \cup {None}]
        BY <1>1, <1>8, GeneratedFiles DEF Regenerate
    <2> QED
        BY <1>1, <1>8, <2>1, Idling DEF Regenerate
<1>9. ASSUME NEW n \in Names, StartService(n)
      PROVE  BootInv'
    <2>1. engine' \in [Names -> Files \cup {None}]
        BY <1>1, <1>9 DEF StartService
    <2> QED
        BY <1>1, <1>9, <2>1, Idling DEF StartService
<1>10. ASSUME NEW s \in Observers, ObserverAction(s)
       PROVE  BootInv'
    <2>1. obs' \subseteq Observers
        BY <1>1, <1>10 DEF ObserverAction, StartContainer, StartContainerFails
    <2> QED
        BY <1>1, <1>10, <2>1, Idling DEF ObserverAction
<1> QED
    BY <1>5, <1>6, <1>7, <1>8, <1>9, <1>10

LEMMA BootSteps ==
    ASSUME BootInv, [BootNext]_bootVars
    PROVE  BootInv'
<1>1. CASE Step
    BY <1>1, PhasesKeep, StartInfraKeeps, MigrateXatuKeeps, SeedBoundsKeeps,
       GenerateConfigsKeeps, StartServicesKeeps DEF Step
<1>2. CASE Killed
    BY <1>2, PhasesKeep
<1>3. CASE BeginBoot
    BY <1>3, BootBeginKeeps
<1>4. CASE \/ EditConfig
           \/ \E n \in Names : EngineScans(n) \/ EngineExits(n)
           \/ \E c \in Containers : ContainerStops(c)
    BY <1>4, OutsideKeeps
<1>5. CASE \/ Down \/ Destroy \/ ResetRedis \/ Regenerate
           \/ \E n \in Names : StartService(n)
           \/ \E s \in Observers : ObserverAction(s)
    BY <1>5, CommandsKeep
<1>6. CASE UNCHANGED bootVars
    BY <1>6 DEF bootVars, BootInv, BootTypes, BootTypeOK, SchemaKnown, BoundsKnown, FilesWritten,
                EngineFile, FileDatabase, Database, EnabledUpTo
<1> QED
    BY <1>1, <1>2, <1>3, <1>4, <1>5, <1>6 DEF BootNext

LEMMA BootInvariant == BootSpec => []BootInv
<1> QED
    BY BootStarts, BootSteps, PTL DEF BootSpec, bootVars

\* A local lab that has come up has its schema, unless it took over what a Start
\* that never reached its migrations had left: for any networks, configurations
\* and history of boots, kills, failures and teardowns (manager.go:257-263).
THEOREM SchemaOfALocalLab == BootSpec => []MigratedUnlessCutShort
<1>1. BootInv => MigratedUnlessCutShort
    BY DEF BootInv, SchemaKnown, Installed, Phases, MigratedUnlessCutShort,
           AtPhase, Cfg
<1> QED
    BY <1>1, BootInvariant, PTL

\* An engine of a hybrid lab that came up without a warning has bounds: what the
\* generator calls a network's database is what the seeder calls it
\* (manager.go:769-770, generator.go:134-140).
THEOREM BoundsOfAHybridLab == BootSpec => []EnginesHaveBounds
<1>1. ASSUME BootInv, boot.pc = "finalize", boot.cfg.mode = "hybrid",
             NEW n \in boot.cfg.nets \ boot.warned
      PROVE  onDisk[n].db \in data.bounds
    <2>1. onDisk[n] = EngineFile(boot.cfg, n)
        BY <1>1 DEF BootInv, FilesWritten, Written
    <2>2. Database(boot.cfg, n) \in data.bounds
        BY <1>1 DEF BootInv, BoundsKnown, Seeded, Written
    <2> QED
        BY <2>1, <2>2 DEF EngineFile, FileDatabase
<1>2. BootInv => EnginesHaveBounds
    BY <1>1 DEF BootInv, BootTypes, EnginesHaveBounds, AtPhase, Cfg
<1> QED
    BY <1>2, BootInvariant, PTL
=============================================================================
