----------------------------- MODULE ServerProofs -----------------------------
(***************************************************************************)
(* Proofs about the server of the command center (pkg/cc), for any number  *)
(* of requests, services, streams and turns.                               *)
(*                                                                         *)
(* StackControl: the status always has somebody who will write it again,   *)
(* keeps operations apart and is truthful as long as no boot is cancelled, *)
(* a cancel function belongs to a boot that has not returned, and          *)
(* StackControl implements StackOps.  CommandCenter: its channels outlive  *)
(* their senders until the server stops, and a stream at work can be found *)
(* and stopped.  DiagnoseSession: the answers to turns are kept apart.     *)
(***************************************************************************)
EXTENDS StackControl, CommandCenter, DiagnoseSession, FiniteSetTheorems, TLAPS

(***************************************************************************)
(* Stack operations.                                                       *)
(***************************************************************************)

UpLabels == InUp \cup {"register", "up.ok", "up.err", "defer", "done"}
DownLabels == {"down", "down.ok", "down.err", "done"}

\* A goroutine is where a goroutine of its kind can be.
KindOfLabel ==
    \A o \in Ops :
        /\ kind[o] = "none" <=> pc[o] = "new"
        /\ kind[o] = "up" => pc[o] \in UpLabels
        /\ kind[o] \in {"down", "cancel"} => pc[o] \in DownLabels
        /\ kind[o] = "restart" => pc[o] \in UpLabels \cup DownLabels

\* Exclusiveness without counting.
Alone ==
    ~overlapped =>
        /\ \A a, b \in Working : a = b
        /\ Working # {} <=> status \in Transitional
        /\ \A a, b \in progress : a = b
        /\ Working # {} => progress \subseteq Working

\* A boot that is about to report its success has the stack up.
BootedIsUp ==
    ~overlapped => \A o \in Ops : pc[o] = "up.ok" => stack = "up"

\* The inductive invariant.
IInv == /\ TypeOK /\ KindOfLabel
        /\ TransitionalOnlyWhileWorking /\ CancelIsForLiveBoot
        /\ Alone /\ BootedIsUp /\ RunningIsNotDown

\* The parts that every step needs.
Typed == TypeOK /\ KindOfLabel

-------------------------------------------------------------------------------

LEMMA NoOpIsNoRequest == NoOp \notin Ops
BY DEF NoOp, Ops

LEMMA AcceptTyped ==
    ASSUME Typed, NEW o \in Ops, NEW k, NEW newStatus, NEW label,
           Accept(o, k, newStatus, label), Fresh \/ overlapped' = TRUE,
           \/ k = "up" /\ label = "register"
           \/ k \in {"down", "restart", "cancel"} /\ label = "down",
           newStatus \in Transitional, lastError' \in BOOLEAN,
           cancelBoot' \in Ops \cup {NoOp}, cancelled' \in SUBSET Ops
    PROVE  Typed'
<1>1. TypeOK'
  BY DEF Typed, TypeOK, Accept, Goto, Fresh, Transitional, Unfinished, InUp, InDown
<1>2. KindOfLabel'
  BY DEF Typed, TypeOK, KindOfLabel, Accept, Goto, UpLabels, DownLabels, InUp
<1> QED BY <1>1, <1>2 DEF Typed

LEMMA RequestsTyped ==
    ASSUME Typed, NEW o \in Ops, Request(o)
    PROVE  Typed'
<1>0. cancelBoot \in Ops \cup {NoOp} /\ cancelled \in SUBSET Ops /\ lastError \in BOOLEAN
  BY DEF Typed, TypeOK
<1>1. CASE PostStackUp(o)
  BY <1>0, <1>1, AcceptTyped DEF PostStackUp, Transitional
<1>2. CASE PostStackDown(o)
  BY <1>0, <1>2, AcceptTyped DEF PostStackDown, Transitional
<1>3. CASE PostStackRestart(o)
  BY <1>0, <1>3, AcceptTyped DEF PostStackRestart, Transitional
<1>4. CASE PostStackCancel(o)
  <2>1. cancelled' \in SUBSET Ops
    BY <1>0, <1>4 DEF PostStackCancel
  <2> QED BY <1>0, <1>4, <2>1, AcceptTyped DEF PostStackCancel, Transitional
<1> QED BY <1>1, <1>2, <1>3, <1>4 DEF Request

LEMMA GoroutinesTyped ==
    ASSUME Typed, NEW o \in Ops, Goroutine(o)
    PROVE  Typed'
<1> USE DEF Typed, TypeOK, KindOfLabel, Goto, Transitional, Settled, Unfinished,
            InUp, InDown, UpLabels, DownLabels
<1>1. CASE Registers(o) BY <1>1 DEF Registers
<1>2. CASE UpEnters(o) BY <1>2 DEF UpEnters, Backend
<1>3. CASE UpBoots(o) BY <1>3 DEF UpBoots, Backend
<1>4. CASE UpStarts(o) BY <1>4 DEF UpStarts, Backend
<1>5. CASE UpReturns(o) BY <1>5 DEF UpReturns
<1>6. CASE Defers(o) BY <1>6 DEF Defers
<1>7. CASE DownRuns(o) BY <1>7 DEF DownRuns, Backend
<1>8. CASE DownReturns(o) BY <1>8 DEF DownReturns
<1>9. CASE RestartBoots(o) BY <1>9 DEF RestartBoots
<1> QED BY <1>1, <1>2, <1>3, <1>4, <1>5, <1>6, <1>7, <1>8, <1>9 DEF Goroutine
-------------------------------------------------------------------------------
(* Who works before and after a step. *)

\* A step inside a goroutine.
Inside(o) == \/ Registers(o) \/ UpEnters(o) \/ UpBoots(o) \/ UpStarts(o)
             \/ DownRuns(o) \/ RestartBoots(o)

LEMMA AcceptMoves ==
    ASSUME Typed, NEW o \in Ops, NEW k, NEW newStatus,
           NEW label \in {"register", "down"}, Accept(o, k, newStatus, label)
    PROVE  /\ pc' = [pc EXCEPT ![o] = label] /\ pc'[o] = label
           /\ Working' = Working \cup {o}
<1>1. pc' = [pc EXCEPT ![o] = label] /\ pc'[o] = label
  BY DEF Accept, Goto, Typed, TypeOK
<1>2. \A p \in Ops : p \in Working' <=> p \in Working \cup {o}
  BY <1>1 DEF Working, Unfinished, InUp, InDown, Typed, TypeOK
<1> QED BY <1>1, <1>2 DEF Working

LEMMA AcceptWorks ==
    ASSUME Typed, NEW o \in Ops, Request(o)
    PROVE  /\ Working' = Working \cup {o}
           /\ pc' = [pc EXCEPT ![o] = pc'[o]] /\ pc'[o] \in {"register", "down"}
           /\ status' \in Transitional /\ progress' = {} /\ stack' = stack
           /\ ~overlapped' => /\ status \notin Transitional
                              /\ overlapped => Working = {}
<1>1. CASE PostStackUp(o)
  <2>1. Accept(o, "up", "starting", "register")
    BY <1>1 DEF PostStackUp
  <2> QED BY <1>1, <2>1, AcceptMoves DEF PostStackUp, Accept, Fresh, Transitional
<1>2. CASE PostStackDown(o)
  <2>1. Accept(o, "down", "stopping", "down")
    BY <1>2 DEF PostStackDown
  <2> QED BY <1>2, <2>1, AcceptMoves DEF PostStackDown, Accept, Fresh, Transitional
<1>3. CASE PostStackRestart(o)
  <2>1. Accept(o, "restart", "stopping", "down")
    BY <1>3 DEF PostStackRestart
  <2> QED BY <1>3, <2>1, AcceptMoves DEF PostStackRestart, Accept, Fresh, Transitional
<1>4. CASE PostStackCancel(o)
  <2>1. Accept(o, "cancel", "stopping", "down")
    BY <1>4 DEF PostStackCancel
  <2> QED BY <1>4, <2>1, AcceptMoves DEF PostStackCancel, Accept, Transitional
<1> QED BY <1>1, <1>2, <1>3, <1>4 DEF Request

LEMMA InsideWorks ==
    ASSUME Typed, NEW o \in Ops, Inside(o)
    PROVE  /\ Working' = Working /\ o \in Working /\ overlapped' = overlapped
           /\ \/ status' = status /\ progress' \in {progress, progress \cup {o}}
              \/ status' = "starting" /\ progress' = {}
<1> USE DEF Typed, TypeOK, Goto, Working, Unfinished, InUp, InDown
<1>1. CASE Registers(o) BY <1>1 DEF Registers
<1>2. CASE UpEnters(o) BY <1>2 DEF UpEnters, Backend
<1>3. CASE UpBoots(o) BY <1>3 DEF UpBoots, Backend
<1>4. CASE UpStarts(o) BY <1>4 DEF UpStarts, Backend
<1>5. CASE DownRuns(o) BY <1>5 DEF DownRuns, Backend
<1>6. CASE RestartBoots(o) BY <1>6 DEF RestartBoots
<1> QED BY <1>1, <1>2, <1>3, <1>4, <1>5, <1>6 DEF Inside

LEMMA ReturnWorks ==
    ASSUME Typed, NEW o \in Ops, UpReturns(o) \/ DownReturns(o)
    PROVE  /\ Working' = Working \ {o} /\ o \in Working
           /\ status' \in {"idle", "running"}
           /\ status' = "running" => pc[o] = "up.ok"
           /\ UNCHANGED <<progress, stack, overlapped>>
BY DEF UpReturns, DownReturns, Typed, TypeOK, Goto, Working, Unfinished, InUp, InDown

LEMMA DefersWorks ==
    ASSUME Typed, NEW o \in Ops, Defers(o)
    PROVE  Working' = Working
BY DEF Defers, Typed, TypeOK, Goto, Working, Unfinished, InUp, InDown

-------------------------------------------------------------------------------

LEMMA TransitionalStep ==
    ASSUME Typed, TransitionalOnlyWhileWorking, NEW o \in Ops, Request(o) \/ Goroutine(o)
    PROVE  TransitionalOnlyWhileWorking'
<1> USE DEF TransitionalOnlyWhileWorking
<1>1. CASE Request(o) BY <1>1, AcceptWorks
<1>2. CASE Inside(o) BY <1>2, InsideWorks
<1>3. CASE UpReturns(o) \/ DownReturns(o)
  BY <1>3, ReturnWorks DEF Transitional
<1>4. CASE Defers(o) BY <1>4, DefersWorks DEF Defers
<1> QED BY <1>1, <1>2, <1>3, <1>4 DEF Goroutine, Inside

LEMMA CancelStep ==
    ASSUME Typed, CancelIsForLiveBoot, NEW o \in Ops, Request(o) \/ Goroutine(o)
    PROVE  CancelIsForLiveBoot'
<1> USE DEF CancelIsForLiveBoot, Typed, TypeOK, Goto, InUp
<1>1. CASE PostStackUp(o) \/ PostStackDown(o) \/ PostStackRestart(o)
  BY <1>1 DEF PostStackUp, PostStackDown, PostStackRestart, Accept
<1>2. CASE PostStackCancel(o) BY <1>2 DEF PostStackCancel
<1>3. CASE Registers(o) BY <1>3 DEF Registers
<1>4. CASE UpEnters(o) BY <1>4 DEF UpEnters, Backend
<1>5. CASE UpBoots(o) BY <1>5 DEF UpBoots, Backend
<1>6. CASE UpStarts(o) BY <1>6 DEF UpStarts, Backend
<1>7. CASE UpReturns(o) BY <1>7 DEF UpReturns
<1>8. CASE Defers(o) BY <1>8 DEF Defers
<1>9. CASE DownRuns(o) BY <1>9 DEF DownRuns, Backend
<1>10. CASE DownReturns(o) BY <1>10 DEF DownReturns
<1>11. CASE RestartBoots(o) BY <1>11 DEF RestartBoots
<1> QED BY <1>1, <1>2, <1>3, <1>4, <1>5, <1>6, <1>7, <1>8, <1>9, <1>10, <1>11
        DEF Goroutine, Request

LEMMA AloneStep ==
    ASSUME Typed, Alone, NEW o \in Ops, Request(o) \/ Goroutine(o)
    PROVE  Alone'
<1> USE DEF Alone
<1>1. CASE Request(o)
  <2> SUFFICES ASSUME ~overlapped'
               PROVE  Working = {}
    BY <1>1, AcceptWorks
  <2> QED BY <1>1, AcceptWorks
<1>2. CASE Inside(o)
  <2>1. /\ Working' = Working /\ o \in Working /\ overlapped' = overlapped
        /\ \/ status' = status /\ progress' \in {progress, progress \cup {o}}
           \/ status' = "starting" /\ progress' = {}
    BY <1>2, InsideWorks
  <2>2. ~overlapped => status' \in Transitional
    BY <2>1 DEF Transitional
  <2>3. ~overlapped => progress' \subseteq {o}
    BY <2>1
  <2> QED BY <2>1, <2>2, <2>3
<1>3. CASE UpReturns(o) \/ DownReturns(o)
  <2>1. ~overlapped => Working' = {}
    BY <1>3, ReturnWorks
  <2> QED BY <1>3, <2>1, ReturnWorks DEF Transitional
<1>4. CASE Defers(o) BY <1>4, DefersWorks DEF Defers
<1> QED BY <1>1, <1>2, <1>3, <1>4 DEF Goroutine, Inside

LEMMA BootedStep ==
    ASSUME Typed, Alone, BootedIsUp, NEW o \in Ops, Request(o) \/ Goroutine(o)
    PROVE  BootedIsUp'
<1>1. CASE Request(o)
  <2>1. ASSUME ~overlapped', NEW p \in Ops, pc'[p] = "up.ok" PROVE FALSE
    <3>1. Working = {} BY <1>1, <2>1, AcceptWorks DEF Alone
    <3>2. p # o /\ pc[p] = "up.ok" BY <1>1, <2>1, AcceptWorks DEF Typed, TypeOK
    <3> QED BY <3>1, <3>2 DEF Working, Unfinished
  <2> QED BY <2>1 DEF BootedIsUp
<1>2. CASE Inside(o)
  <2>1. ASSUME ~overlapped, NEW p \in Ops, pc'[p] = "up.ok" PROVE p = o
    <3>1. p \in Working' BY <2>1 DEF Working, Unfinished
    <3> QED BY <1>2, <2>1, <3>1, InsideWorks DEF Alone
  <2>2. pc'[o] = "up.ok" => stack' = "up"
    BY <1>2 DEF Inside, Registers, UpEnters, UpBoots, UpStarts, DownRuns,
       RestartBoots, Backend, Goto, Typed, TypeOK
  <2> QED BY <1>2, <2>1, <2>2, InsideWorks DEF BootedIsUp
<1>3. CASE UpReturns(o) \/ DownReturns(o)
  BY <1>3 DEF UpReturns, DownReturns, BootedIsUp, Goto, Typed, TypeOK
<1>4. CASE Defers(o) BY <1>4 DEF Defers, BootedIsUp, Goto, Typed, TypeOK
<1> QED BY <1>1, <1>2, <1>3, <1>4 DEF Goroutine, Inside

LEMMA RunningStep ==
    ASSUME Typed, Alone, BootedIsUp, RunningIsNotDown, NEW o \in Ops,
           Request(o) \/ Goroutine(o)
    PROVE  RunningIsNotDown'
<1>1. CASE Request(o) BY <1>1, AcceptWorks DEF RunningIsNotDown, Transitional
<1>2. CASE Inside(o)
  BY <1>2, InsideWorks DEF RunningIsNotDown, Alone, Transitional
<1>3. CASE UpReturns(o) \/ DownReturns(o)
  BY <1>3, ReturnWorks DEF RunningIsNotDown, BootedIsUp
<1>4. CASE Defers(o) BY <1>4 DEF Defers, RunningIsNotDown
<1> QED BY <1>1, <1>2, <1>3, <1>4 DEF Goroutine, Inside

-------------------------------------------------------------------------------

LEMMA InitInv == Init => IInv
<1> SUFFICES ASSUME Init PROVE IInv
  OBVIOUS
<1>1. Working = {}
  BY DEF Init, Working, Unfinished, InUp, InDown
<1>2. TypeOK
  BY DEF Init, TypeOK, Transitional, Settled
<1>3. KindOfLabel
  BY DEF Init, KindOfLabel, UpLabels, DownLabels
<1>4. TransitionalOnlyWhileWorking /\ Alone
  BY <1>1 DEF Init, TransitionalOnlyWhileWorking, Alone, Transitional
<1>5. CancelIsForLiveBoot /\ BootedIsUp /\ RunningIsNotDown
  BY DEF Init, CancelIsForLiveBoot, BootedIsUp, RunningIsNotDown
<1> QED BY <1>2, <1>3, <1>4, <1>5 DEF IInv

LEMMA StepInv == IInv /\ [Next]_vars => IInv'
<1>1. ASSUME IInv, NEW o \in Ops, Request(o) \/ Goroutine(o) PROVE IInv'
  <2>1. Typed BY <1>1 DEF IInv, Typed
  <2>2. Typed' BY <1>1, <2>1, RequestsTyped, GoroutinesTyped
  <2> QED BY <1>1, <2>1, <2>2, TransitionalStep, CancelStep, AloneStep, BootedStep,
             RunningStep DEF IInv, Typed
<1>2. ASSUME IInv, UNCHANGED vars PROVE IInv'
  BY <1>2 DEF IInv, vars, TypeOK, KindOfLabel, TransitionalOnlyWhileWorking,
     CancelIsForLiveBoot, Alone, BootedIsUp, RunningIsNotDown, Working
<1> QED BY <1>1, <1>2 DEF Next

LEMMA Invariant == Spec => []IInv
BY InitInv, StepInv, PTL DEF Spec
(***************************************************************************)
(* The theorems.                                                           *)
(***************************************************************************)

\* Status, goroutines and stack keep their types, for any number of requests.
THEOREM TypeCorrect == Spec => []TypeOK
BY Invariant, PTL DEF IInv

\* A transitional status always has a goroutine that will write it again.
THEOREM TransitionalHasWorker == Spec => []TransitionalOnlyWhileWorking
BY Invariant, PTL DEF IInv

\* A cancel function that is set belongs to a boot that has not returned.
THEOREM CancelLive == Spec => []CancelIsForLiveBoot
BY Invariant, PTL DEF IInv

\* A stack that is reported as running is not down unless a boot was cancelled.
THEOREM RunningTruthful == Spec => []RunningIsNotDown
BY Invariant, PTL DEF IInv

LEMMA AtMostOne ==
    ASSUME NEW S, \A a, b \in S : a = b
    PROVE  Cardinality(S) <= 1
<1>1. CASE S = {} BY <1>1, FS_EmptySet
<1>2. CASE S # {}
  <2>1. PICK a \in S : TRUE BY <1>2
  <2>2. S = {a} BY <2>1
  <2> QED BY <2>2, FS_Singleton
<1> QED BY <1>1, <1>2

\* One operation at a time uses the backend unless a boot was cancelled.
THEOREM OperationsExclude == Spec => []ExclusiveUnlessOverlapped
<1>1. IInv => ExclusiveUnlessOverlapped
  BY AtMostOne DEF IInv, Alone, ExclusiveUnlessOverlapped
<1> QED BY <1>1, Invariant, PTL

-------------------------------------------------------------------------------
(* StackControl implements StackOps. *)

Phases == [o \in Ops |-> Phase(o)]

LEMMA PhaseInside ==
    ASSUME Typed, NEW o \in Ops, Inside(o) \/ Defers(o)
    PROVE  \/ Phases' = Phases /\ status' = status
           \/ Promise!Boots(o)
<1> USE DEF Typed, TypeOK, KindOfLabel, Goto, UpLabels, DownLabels, InUp, InDown
<1>1. CASE RestartBoots(o)
  <2>1. Phase(o) = "restarting" /\ Phase(o)' = "rebooting"
    BY <1>1 DEF RestartBoots, Phase
  <2>2. \A p \in Ops \ {o} : Phase(p)' = Phase(p)
    BY <1>1 DEF RestartBoots, Phase
  <2>3. Phases' = [Phases EXCEPT ![o] = "rebooting"]
    BY <2>1, <2>2 DEF Phases
  <2>4. Phases[o] = "restarting" /\ status' = "starting"
    BY <1>1, <2>1 DEF Phases, RestartBoots
  <2> QED BY <2>3, <2>4 DEF Promise!Boots, Promise!Moves, Phases
<1>2. CASE ~RestartBoots(o)
  <2>1. /\ status' = status /\ kind' = kind
        /\ \A p \in Ops \ {o} : pc'[p] = pc[p]
    BY <1>2 DEF Inside, Defers, Registers, UpEnters, UpBoots, UpStarts,
       DownRuns, Backend
  <2>2. \/ pc[o] \in InUp \cup {"register"} /\ pc'[o] \in InUp \cup {"up.ok", "up.err"}
        \/ pc[o] = "down" /\ pc'[o] \in {"down.ok", "down.err"}
        \/ pc[o] = "defer" /\ pc'[o] = "done"
    BY <1>2 DEF Inside, Defers, Registers, UpEnters, UpBoots, UpStarts,
       DownRuns, Backend
  <2>3. Phase(o)' = Phase(o)
    BY <2>1, <2>2 DEF Phase
  <2>4. \A p \in Ops : Phase(p)' = Phase(p)
    BY <2>1, <2>3 DEF Phase
  <2> QED BY <2>1, <2>4 DEF Phases
<1> QED BY <1>1, <1>2
LEMMA PhaseReturns ==
    ASSUME Typed, NEW o \in Ops, UpReturns(o) \/ DownReturns(o)
    PROVE  Promise!Succeeds(o) \/ Promise!Fails(o)
<1> USE DEF Typed, TypeOK, KindOfLabel, Goto, UpLabels, DownLabels, InUp
<1>1. /\ kind' = kind /\ pc' = [pc EXCEPT ![o] = pc'[o]]
      /\ pc'[o] \in {"defer", "done"}
  BY DEF UpReturns, DownReturns
<1>2. Phase(o)' = "ended"
  BY <1>1 DEF Phase
<1>3. \A p \in Ops \ {o} : Phase(p)' = Phase(p)
  BY <1>1 DEF Phase
<1>4. Phases' = [Phases EXCEPT ![o] = "ended"]
  BY <1>2, <1>3 DEF Phases
<1>5. /\ Phases[o] \in {"booting", "rebooting", "stopping", "restarting"}
      /\ status' = IF pc[o] = "up.ok" /\ Phases[o] = "booting" THEN "running" ELSE "idle"
  BY DEF UpReturns, DownReturns, Phase, Phases
<1>6. CASE pc[o] = "up.ok" /\ Phases[o] = "booting"
  BY <1>4, <1>5, <1>6 DEF Promise!Succeeds, Promise!Moves, Phases
<1>7. CASE ~(pc[o] = "up.ok" /\ Phases[o] = "booting")
  BY <1>4, <1>5, <1>7 DEF Promise!Fails, Promise!Moves, Promise!Busy, Phases
<1> QED BY <1>6, <1>7

LEMMA PhaseAccepts ==
    ASSUME Typed, NEW o \in Ops,
           NEW k \in {"up", "down", "restart", "cancel"}, NEW newStatus,
           Accept(o, k, newStatus, IF k = "up" THEN "register" ELSE "down")
    PROVE  /\ \A p \in 1 .. (o - 1) : Phases[p] # "new"
           /\ Phases[o] = "new"
           /\ Phases' = [Phases EXCEPT ![o] = CASE k = "up"      -> "booting"
                                                [] k = "restart" -> "restarting"
                                                [] OTHER         -> "stopping"]
           /\ status' = newStatus
<1> USE DEF Typed, TypeOK, KindOfLabel, Accept, Goto, Phase, Phases
<1>1. /\ Phase(o) = "new" /\ status' = newStatus
      /\ Phase(o)' = CASE k = "up"      -> "booting"
                       [] k = "restart" -> "restarting"
                       [] OTHER         -> "stopping"
  OBVIOUS
<1>2. \A p \in Ops \ {o} : Phase(p)' = Phase(p)
  OBVIOUS
<1>3. \A p \in Ops : Phase(p) = "new" => pc[p] = "new"
  BY DEF UpLabels, DownLabels
<1>4. \A p \in 1 .. (o - 1) : p \in Ops
  BY RequestsAssumption DEF Ops
<1> QED BY <1>1, <1>2, <1>3, <1>4

LEMMA PhaseRequest ==
    ASSUME Typed, NEW o \in Ops, Request(o)
    PROVE  Promise!Up(o) \/ Promise!Down(o) \/ Promise!Restart(o) \/ Promise!Cancel(o)
<1> USE DEF Transitional, Promise!Transitional, Promise!Moves, Phases
<1>1. CASE PostStackUp(o)
  <2>1. Accept(o, "up", "starting", "register") BY <1>1 DEF PostStackUp
  <2> QED BY <1>1, <2>1, PhaseAccepts DEF PostStackUp, Promise!Up
<1>2. CASE PostStackDown(o)
  <2>1. Accept(o, "down", "stopping", "down") BY <1>2 DEF PostStackDown
  <2> QED BY <1>2, <2>1, PhaseAccepts DEF PostStackDown, Promise!Down
<1>3. CASE PostStackRestart(o)
  <2>1. Accept(o, "restart", "stopping", "down") BY <1>3 DEF PostStackRestart
  <2> QED BY <1>3, <2>1, PhaseAccepts DEF PostStackRestart, Promise!Restart
<1>4. CASE PostStackCancel(o)
  <2>1. Accept(o, "cancel", "stopping", "down") BY <1>4 DEF PostStackCancel
  <2> QED BY <1>4, <2>1, PhaseAccepts DEF PostStackCancel, Promise!Cancel
<1> QED BY <1>1, <1>2, <1>3, <1>4 DEF Request

\* Every step of StackControl is a step of StackOps or leaves it as it is, for
\* any number of requests and with cancelled boots too.
THEOREM Implementation == Spec => ImplementsStackOps
<1>1. Init => Promise!StackOpsInit
  BY DEF Init, Promise!StackOpsInit, Phase, Promise!Ops, Ops
<1>2. IInv /\ [Next]_vars => [Promise!StackOpsNext]_(Promise!opVars)
  <2>1. ASSUME IInv, NEW o \in Ops, Request(o) \/ Goroutine(o)
        PROVE  [Promise!StackOpsNext]_(Promise!opVars)
    <3>1. Typed BY <2>1 DEF IInv, Typed
    <3>2. o \in Promise!Ops BY DEF Ops, Promise!Ops
    <3>3. CASE Request(o)
      BY <3>1, <3>2, <3>3, PhaseRequest DEF Promise!StackOpsNext
    <3>4. CASE UpReturns(o) \/ DownReturns(o)
      BY <3>1, <3>2, <3>4, PhaseReturns DEF Promise!StackOpsNext
    <3>5. CASE Inside(o) \/ Defers(o)
      BY <3>1, <3>2, <3>5, PhaseInside DEF Promise!StackOpsNext, Promise!opVars, Phases
    <3> QED BY <2>1, <3>3, <3>4, <3>5 DEF Goroutine, Inside
  <2>2. ASSUME UNCHANGED vars PROVE UNCHANGED Promise!opVars
    BY <2>2 DEF vars, Promise!opVars, Phase
  <2> QED BY <2>1, <2>2 DEF Next
<1> QED BY <1>1, <1>2, Invariant, PTL DEF Spec, ImplementsStackOps, Promise!StackOpsSpec

(***************************************************************************)
(* The live part of the server: CommandCenter, for any services, any       *)
(* number of streams and any buffer.                                       *)
(***************************************************************************)

\* Until the server stops, its channels are open and nobody has panicked.
ServesOpenly ==
    server = "serves" => open = {"output", "health"} /\ crashed = FALSE

\* A stream that is at work follows a service, whose entry it is unless a
\* stream was stopped at work.
Tracked ==
    \A s \in Live : of[s] \in Names /\ (~detached => entry[of[s]] = s)

CenterInv == CenterTypeOK /\ ServesOpenly /\ Tracked

LEMMA CenterStarts == CenterInit => CenterInv
<1> SUFFICES ASSUME CenterInit PROVE CenterInv OBVIOUS
<1>1. CenterTypeOK
  <2>1. lines \in 0 .. MaxLines BY CommandCenterAssumption DEF CenterInit
  <2>2. /\ entry \in [Names -> Streams \cup {None}]
        /\ of \in [Streams -> Names \cup {None}]
        /\ stream \in [Streams -> {"gone", "reads", "sends", "ends", "closes"}]
    BY DEF CenterInit
  <2> QED BY <2>1, <2>2 DEF CenterInit, CenterTypeOK
<1>2. ServesOpenly /\ Tracked BY DEF CenterInit, ServesOpenly, Tracked, Live
<1> QED BY <1>1, <1>2 DEF CenterInv

LEMMA CenterStutters == CenterInv /\ UNCHANGED centerVars => CenterInv'
BY DEF CenterInv, CenterTypeOK, ServesOpenly, Tracked, Live, Stopping, centerVars,
       logVars, healthVars, loopVars

\* An entry that is not kept is nobody's who is at work.
LEMMA NotKeptIsIdle ==
    ASSUME CenterInv, NEW n \in Names, ~Kept(n), ~detached, NEW s \in Live
    PROVE  of[s] # n
BY CommandCenterAssumption DEF CenterInv, CenterTypeOK, Tracked, Kept, Live

LEMMA FollowingKeeps ==
    ASSUME CenterInv, NEW n \in Names, StartFollowing(n),
           UNCHANGED <<containers, running, ctx, open, healthVars, server, crashed>>,
           loop' \in {"selects", "stops", "starts", "gone"},
           todo' \in SUBSET Names, seen' \in SUBSET Names
    PROVE  CenterInv'
<1> USE DEF CenterInv, ServesOpenly, healthVars
<1>1. CASE UNCHANGED logVars
  BY <1>1 DEF CenterTypeOK, Tracked, Live, logVars, Stopping
<1>2. CASE /\ ~Kept(n)
           /\ \E s \in Streams : Follow(n, s)
           /\ UNCHANGED <<lines, detached>>
  <2>1. PICK s \in Streams : Follow(n, s) BY <1>2
  <2>2. CenterTypeOK' BY <1>2, <2>1 DEF CenterTypeOK, Follow, Stopping
  <2>3. \A u \in Live' : u = s \/ u \in Live
    BY <2>1 DEF Live, Follow, CenterTypeOK
  <2>4. of'[s] = n /\ entry'[n] = s BY <2>1 DEF Follow, CenterTypeOK
  <2>5. ASSUME NEW u \in Live, u # s
        PROVE  of'[u] \in Names /\ (~detached' => entry'[of'[u]] = u)
    <3>1. of'[u] = of[u] /\ of[u] \in Names
      BY <2>1, <2>5 DEF Follow, CenterTypeOK, Tracked, Live
    <3>2. ~detached => of[u] # n BY <1>2, <2>5, NotKeptIsIdle
    <3> QED BY <1>2, <2>1, <2>5, <3>1, <3>2 DEF Follow, CenterTypeOK, Tracked
  <2>6. Tracked' BY <2>3, <2>4, <2>5 DEF Tracked
  <2> QED BY <2>2, <2>6
<1> QED BY <1>1, <1>2 DEF StartFollowing

LEMMA StoppingKeeps ==
    ASSUME CenterInv, NEW n \in Names, StopService(n),
           UNCHANGED <<containers, running, ctx, open, healthVars, server, crashed>>,
           loop' \in {"selects", "stops", "starts", "gone"},
           todo' \in SUBSET Names, seen' \in SUBSET Names
    PROVE  CenterInv'
<1> USE DEF CenterInv, ServesOpenly, healthVars
<1>1. CASE UNCHANGED logVars
  BY <1>1 DEF CenterTypeOK, Tracked, Live, logVars, Stopping
<1>2. CASE entry[n] # None /\ ~UNCHANGED logVars
  <2>1. CenterTypeOK' BY <1>2 DEF StopService, CenterTypeOK, Live, Stopping
  <2>2. ASSUME NEW s \in Live
        PROVE  of[s] \in Names /\ (~detached' => entry'[of[s]] = s)
    <3>1. ~detached' => entry[of[s]] = s /\ of[s] # n
      BY <1>2, <2>2 DEF StopService, Tracked
    <3> QED BY <1>2, <2>2, <3>1 DEF StopService, Tracked, CenterTypeOK
  <2>3. Tracked' BY <1>2, <2>2 DEF StopService, Tracked, Live
  <2> QED BY <1>2, <2>1, <2>3 DEF StopService
<1> QED BY <1>1, <1>2 DEF StopService

LEMMA StreamKeeps ==
    ASSUME CenterInv, NEW s \in Streams, Stream(s) \/ ChildEnds(s)
    PROVE  CenterInv'
<1> USE DEF CenterInv, ServesOpenly, CenterTypeOK, healthVars, loopVars
<1>1. CASE Reads(s) BY <1>1 DEF Reads, Tracked, Live, Stopping
<1>2. CASE Sends(s)
  <2>1. CenterTypeOK'
    <3>1. stream' \in [Streams -> {"gone", "reads", "sends", "ends", "closes"}]
      BY <1>2 DEF Sends
    <3>2. lines' \in 0 .. MaxLines BY <1>2, CommandCenterAssumption DEF Sends
    <3>3. crashed' \in BOOLEAN BY <1>2 DEF Sends, Panics
    <3> QED BY <1>2, <3>1, <3>2, <3>3 DEF Sends
  <2>2. Tracked' BY <1>2 DEF Sends, Tracked, Live
  <2>3. ServesOpenly' BY <1>2 DEF Sends
  <2> QED BY <2>1, <2>2, <2>3
<1>3. CASE Forgets(s)
  <2>1. s \in Live /\ of[s] \in Names BY <1>3 DEF Forgets, Live, Tracked
  <2>2. CenterTypeOK' BY <1>3, <2>1 DEF Forgets, Stopping
  <2>3. \A u \in Live' : u # s /\ u \in Live BY <1>3 DEF Forgets, Live
  <2>4. ASSUME NEW u \in Live, u # s
        PROVE  of'[u] \in Names /\ (~detached' => entry'[of'[u]] = u)
    <3>1. of'[u] = of[u] /\ of[u] \in Names
      BY <1>3, <2>4 DEF Forgets, Tracked, Live
    <3>2. ~detached' => entry[of[u]] = u /\ of[u] # of[s]
      BY <1>3, <2>1, <2>4, CommandCenterAssumption DEF Forgets, Tracked, Live
    <3> QED BY <1>3, <2>1, <3>1, <3>2 DEF Forgets
  <2>5. Tracked' BY <2>3, <2>4 DEF Tracked
  <2> QED BY <1>3, <2>2, <2>5 DEF Forgets
<1>4. CASE ClosesDone(s) BY <1>4 DEF ClosesDone, Tracked, Live, Stopping
<1>5. CASE ChildEnds(s) BY <1>5 DEF ChildEnds, Tracked, Live, Stopping
<1> QED BY <1>1, <1>2, <1>3, <1>4, <1>5 DEF Stream

LEMMA CenterKeeps == CenterInv /\ [CenterNext]_centerVars => CenterInv'
<1> SUFFICES ASSUME CenterInv, CenterNext PROVE CenterInv'
  BY CenterStutters
<1> USE DEF Tracked, Live
<1>1. ASSUME NEW n \in Names, ServiceStarts(n) \/ ServiceStops(n) PROVE CenterInv'
  <2> USE DEF CenterInv, CenterTypeOK, ServesOpenly, logVars, healthVars, loopVars
  <2>1. CASE ServiceStarts(n) BY <1>1, <2>1 DEF ServiceStarts, Stopping
  <2>2. CASE ServiceStops(n)
    <3>1. CenterTypeOK' BY <2>2 DEF ServiceStops, Stopping
    <3> QED BY <2>2, <3>1 DEF ServiceStops
  <2> QED BY <1>1, <2>1, <2>2
<1>2. ASSUME NEW s \in Streams, Stream(s) \/ ChildEnds(s) PROVE CenterInv'
  BY <1>2, StreamKeeps
<1>3. CASE Checks \/ MonitorEnds
  BY <1>3 DEF Checks, Panics, MonitorEnds, CenterInv, CenterTypeOK, ServesOpenly,
              Stopping, logVars, healthVars, loopVars
<1>4. CASE LoopTicks \/ LoopTakesLine \/ LoopEnds
  <2> USE DEF CenterInv, CenterTypeOK, ServesOpenly, logVars, healthVars, loopVars
  <2>1. CASE LoopTicks BY <2>1 DEF LoopTicks, Stopping
  <2>2. CASE LoopTakesLine
    BY <2>2, CommandCenterAssumption DEF LoopTakesLine, Stopping
  <2>3. CASE LoopEnds BY <2>3 DEF LoopEnds, Stopping
  <2> QED BY <1>4, <2>1, <2>2, <2>3
<1>5. CASE LoopStops
  <2>1. CASE todo = {}
    BY <1>5, <2>1 DEF LoopStops, CenterInv, CenterTypeOK, ServesOpenly,
                      Stopping, logVars, healthVars
  <2>2. CASE todo # {}
    <3>1. PICK n \in todo : StopService(n) /\ todo' = todo \ {n}
      BY <1>5, <2>2 DEF LoopStops
    <3>2. n \in Names /\ todo' \in SUBSET Names /\ seen' \in SUBSET Names
      BY <1>5, <2>2, <3>1 DEF LoopStops, CenterInv, CenterTypeOK
    <3> QED BY <1>5, <2>2, <3>1, <3>2, StoppingKeeps DEF LoopStops
  <2> QED BY <2>1, <2>2
<1>6. CASE LoopStarts
  <2>1. CASE todo = {}
    BY <1>6, <2>1 DEF LoopStarts, CenterInv, CenterTypeOK, ServesOpenly,
                      Stopping, logVars, healthVars
  <2>2. CASE todo # {}
    <3>1. PICK n \in todo : StartFollowing(n) /\ todo' = todo \ {n}
      BY <1>6, <2>2 DEF LoopStarts
    <3>2. n \in Names /\ todo' \in SUBSET Names /\ seen' \in SUBSET Names
      BY <1>6, <2>2, <3>1 DEF LoopStarts, CenterInv, CenterTypeOK
    <3> QED BY <1>6, <2>2, <3>1, <3>2, FollowingKeeps DEF LoopStarts
  <2> QED BY <2>1, <2>2
<1>7. CASE StopsStreams
  <2> USE DEF CenterInv, CenterTypeOK, healthVars, loopVars
  <2>1. CenterTypeOK' BY <1>7 DEF StopsStreams, Stopping
  <2>2. ServesOpenly' BY <1>7 DEF StopsStreams, ServesOpenly
  <2>3. ASSUME NEW s \in Live PROVE of[s] \in Names /\ detached'
    <3>1. of[s] \in Names /\ (~detached => entry[of[s]] = s) /\ s # None
      BY <2>3, CommandCenterAssumption DEF Tracked, Live
    <3> QED BY <1>7, <2>3, <3>1 DEF StopsStreams
  <2>4. Tracked' BY <1>7, <2>3 DEF StopsStreams, Tracked, Live
  <2> QED BY <2>1, <2>2, <2>4
<1>8. CASE Interrupted \/ StopsMonitor \/ ClosesHealth \/ ClosesOutput
           \/ Shutdown \/ WaitsForLoop
  BY <1>8 DEF Interrupted, StopsMonitor, ClosesHealth, ClosesOutput, Shutdown,
              WaitsForLoop, CenterInv, CenterTypeOK, ServesOpenly, Stopping, logVars,
              healthVars, loopVars
<1> QED BY <1>1, <1>2, <1>3, <1>4, <1>5, <1>6, <1>7, <1>8 DEF CenterNext, Compares, Stop

LEMMA CenterInvariant == CenterSpec => []CenterInv
<1> QED BY CenterStarts, CenterKeeps, PTL DEF CenterSpec

\* No goroutine sends on a closed channel before the server stops, for any
\* number of services and streams.
THEOREM ServerKeepsRunning == CenterSpec => []CrashesOnlyWhenStopping
<1>1. CenterInv => CrashesOnlyWhenStopping
  BY DEF CenterInv, CenterTypeOK, ServesOpenly, CrashesOnlyWhenStopping, Stopping
<1> QED BY <1>1, CenterInvariant, PTL

\* A stream at work is the one its service's entry names, so that it can be
\* stopped, unless a stream was stopped at work, for any number of services
\* and streams.
THEOREM StreamsCanBeStopped == CenterSpec => []StreamsAreTracked
<1>1. CenterInv => StreamsAreTracked BY DEF CenterInv, Tracked, StreamsAreTracked
<1> QED BY <1>1, CenterInvariant, PTL

(***************************************************************************)
(* The AI diagnosis session: DiagnoseSession, for any number of turns and  *)
(* interrupts and any buffer.  Nothing that the process prints says which  *)
(* turn it is of; as long as no turn is given up, the lock of the turns    *)
(* and the results of the process keep them apart.                         *)
(***************************************************************************)

\* Nothing the process says from now on is read.
Mute == ~alive \/ reader # "reads"

IsResult(m) == m.kind \in {"ok", "err"}
NoPrompt == \A i \in 1 .. Len(stdin) : stdin[i].kind # "prompt"

\* The process has nothing to work on.
Idle == cli = NoTurn /\ prompts = <<>> /\ NoPrompt

\* Turns exclude each other.
OneTurn == \A t \in Turns : at[t] \in {"ask", "stream", "report"} <=> runMu = t

\* What is in the channel or in the reader's hand is of the turn that reads,
\* or is the broken line that is the last of all; after a result there is
\* nothing else, and the process is idle.
OwnMessages ==
    /\ \A i \in 1 .. Len(messages) :
          /\ messages[i].kind # "broken" => at[messages[i].turn] = "stream"
          /\ messages[i].kind = "broken" =>
                i = Len(messages) /\ hand = Nothing /\ reader = "done"
          /\ IsResult(messages[i]) =>
                /\ \A j \in (i + 1) .. Len(messages) : messages[j].kind = "broken"
                /\ hand.kind \in {"none", "broken"}
                /\ Mute \/ Idle
    /\ hand.kind \notin {"none", "broken"} => at[hand.turn] = "stream"
    /\ IsResult(hand) => (Mute \/ Idle)
    /\ hand.kind = "broken" <=> reader = "fails"
    /\ reader = "done" => hand = Nothing

\* There is one prompt at most, of the turn that reads: in the input of the
\* process, waiting in the process, or worked on.
OwnPrompts ==
    \/ Mute
    \/ /\ cli # NoTurn => at[cli] = "stream" /\ prompts = <<>> /\ NoPrompt
       /\ prompts # <<>> =>
             Len(prompts) = 1 /\ at[prompts[1]] = "stream" /\ NoPrompt
       /\ \A i, j \in 1 .. Len(stdin) :
             stdin[i].kind = "prompt" /\ stdin[j].kind = "prompt" => i = j
       /\ \A i \in 1 .. Len(stdin) :
             stdin[i].kind = "prompt" => at[stdin[i].turn] = "stream"

\* A turn has texts of its own only, and none before it has asked.
OwnTexts ==
    \A t \in Turns :
        /\ gathered[t] \subseteq {t}
        /\ outcome[t].kind = "result" => outcome[t].of = {t}
        /\ at[t] \in {"none", "lock", "ask"} =>
              gathered[t] = {} /\ streaming[t] = FALSE /\ streamed[t] = 0

Own == OneTurn /\ OwnMessages /\ OwnPrompts /\ OwnTexts

LEMMA Dropped ==
    ASSUME NEW S, NEW s \in Seq(S), s # <<>>
    PROVE  /\ Tail(s) \in Seq(S) /\ Len(Tail(s)) = Len(s) - 1
           /\ Head(s) = s[1] /\ 1 \in 1 .. Len(s) /\ s[1] \in S
           /\ \A i \in 1 .. Len(Tail(s)) :
                 i + 1 \in 1 .. Len(s) /\ Tail(s)[i] = s[i + 1]
OBVIOUS

LEMMA Added ==
    ASSUME NEW S, NEW s \in Seq(S), NEW e \in S
    PROVE  /\ Append(s, e) \in Seq(S) /\ Len(Append(s, e)) = Len(s) + 1
           /\ Append(s, e)[Len(s) + 1] = e
           /\ \A i \in 1 .. Len(Append(s, e)) :
                 \/ i \in 1 .. Len(s) /\ Append(s, e)[i] = s[i]
                 \/ i = Len(s) + 1
           /\ \A i \in 1 .. Len(s) : Append(s, e)[i] = s[i]
OBVIOUS

LEMMA MessageForms ==
    /\ \A m \in Messages :
          /\ m.kind \in {"delta", "assistant", "ok", "err", "broken"}
          /\ m.kind # "broken" => m.turn \in Turns
          /\ m.kind = "broken" => m = [turn |-> NoTurn, kind |-> "broken"]
    /\ Nothing.kind = "none" /\ NoTurn \notin Turns
    /\ \A l \in Lines :
          /\ l.kind \in {"prompt", "interrupt"}
          /\ l.kind = "prompt" => l.turn \in Turns
BY DEF Messages, Nothing, NoTurn, Turns, Lines

LEMMA HandForms ==
    ASSUME SessionTypeOK
    PROVE  /\ hand.kind = "none" <=> hand = Nothing
           /\ hand.kind \notin {"none", "broken"} =>
                 hand \in Messages /\ hand.turn \in Turns
BY MessageForms DEF SessionTypeOK

(***************************************************************************)
(* Types.                                                                  *)
(***************************************************************************)

LEMMA SessionTypesStart == SessionInit => SessionTypeOK
<1> SUFFICES ASSUME SessionInit PROVE SessionTypeOK OBVIOUS
<1> USE DEF SessionInit, ProcessRuns, ReaderRuns
<1>1. NoOutcome \in Outcomes BY DEF NoOutcome, Outcomes
<1>2. /\ at \in [Turns -> {"none", "lock", "ask", "stream", "report", "done"}]
      /\ gathered \in [Turns -> SUBSET Turns] /\ streaming \in [Turns -> BOOLEAN]
      /\ outcome \in [Turns -> Outcomes] /\ streamed \in [Turns -> 0 .. 2]
  BY <1>1
<1>3. messages \in Seq(Messages) /\ Len(messages) <= Capacity BY SessionAssumption
<1>4. signals \in [made : 0 .. MaxInterrupts, sending : BOOLEAN]
  BY SessionAssumption
<1>5. stdin \in Seq(Lines) /\ prompts \in Seq(Turns) OBVIOUS
<1> QED BY <1>2, <1>3, <1>4, <1>5 DEF SessionTypeOK

LEMMA EndTypes ==
    ASSUME SessionTypeOK, NEW t \in Turns, NEW texts \in SUBSET Turns,
           NEW ending \in {"result", "error"}, Ends(t, ending, texts)
    PROVE  /\ outcome' \in [Turns -> Outcomes]
           /\ at' \in [Turns -> {"none", "lock", "ask", "stream", "report", "done"}]
<1>1. [kind |-> ending, of |-> texts] \in Outcomes BY DEF Outcomes
<1>2. outcome' \in [Turns -> Outcomes] BY <1>1 DEF Ends, SessionTypeOK
<1>3. at' \in [Turns -> {"none", "lock", "ask", "stream", "report", "done"}]
  BY DEF Ends, TurnGoes, SessionTypeOK
<1> QED BY <1>2, <1>3

LEMMA AnswerTypes ==
    ASSUME SessionTypeOK, NEW t \in Turns, Answers(t)
    PROVE  /\ outcome' \in [Turns -> Outcomes]
           /\ at' \in [Turns -> {"none", "lock", "ask", "stream", "report", "done"}]
<1> DEFINE ending == IF gathered[t] = {} THEN "error" ELSE "result"
<1>1. gathered[t] \in SUBSET Turns /\ ending \in {"result", "error"}
  BY DEF SessionTypeOK
<1>2. Ends(t, ending, gathered[t]) BY DEF Answers
<1> HIDE DEF ending
<1> QED BY <1>1, <1>2, EndTypes

LEMMA ReceivingTypes ==
    ASSUME SessionTypeOK, NEW t \in Turns, Receives(t) PROVE SessionTypeOK'
<1> USE DEF SessionTypeOK, cliVars
<1>1. /\ messages' \in Seq(Messages) /\ Len(messages') <= Capacity
      /\ Head(messages) \in Messages
  BY Dropped, SessionAssumption DEF Receives
<1>2. CASE Gathers(t, Head(messages))
  <2>1. Head(messages).turn \in Turns BY <1>1, <1>2, MessageForms DEF Gathers
  <2>2. gathered' \in [Turns -> SUBSET Turns] /\ streaming' \in [Turns -> BOOLEAN]
    BY <1>2, <2>1 DEF Gathers
  <2>3. streamed' \in [Turns -> 0 .. 2]
    <3> DEFINE u == Head(messages).turn
    <3>1. CASE streamed' = [streamed EXCEPT ![u] = @ + 1] /\ streamed[u] < 2
      <4>1. streamed[u] + 1 \in 0 .. 2 BY <2>1, <3>1
      <4> QED BY <3>1, <4>1
    <3> QED BY <1>2, <3>1 DEF Gathers
  <2> QED BY <1>1, <1>2, <2>2, <2>3 DEF Receives, Gathers
<1>3. CASE Concludes(t, Head(messages))
  <2>1. Head(messages).kind = "ok" => Head(messages).turn \in Turns
    BY <1>1, MessageForms
  <2>2. /\ outcome' \in [Turns -> Outcomes]
        /\ at' \in [Turns -> {"none", "lock", "ask", "stream", "report", "done"}]
    <3>1. CASE Answers(t) BY <3>1, AnswerTypes
    <3>2. CASE Head(messages).kind = "ok" /\ Ends(t, "result", {Head(messages).turn})
      BY <2>1, <3>2, EndTypes
    <3>3. CASE Ends(t, "error", {}) BY <3>3, EndTypes
    <3> QED BY <1>3, <3>1, <3>2, <3>3 DEF Concludes
  <2> QED BY <1>1, <1>3, <2>2 DEF Receives, Concludes
<1> QED BY <1>2, <1>3 DEF Receives

LEMMA SessionTypesKeep == SessionTypeOK /\ [SessionNext]_sessionVars => SessionTypeOK'
<1> SUFFICES ASSUME SessionTypeOK, [SessionNext]_sessionVars PROVE SessionTypeOK'
  OBVIOUS
<1> USE DEF SessionTypeOK, turnVars, cliVars, readerVars, TurnGoes, NoTurn
<1>1. CASE UNCHANGED sessionVars BY <1>1 DEF sessionVars
<1>2. CASE PostInterrupt BY <1>2, SessionAssumption DEF PostInterrupt
<1>3. CASE Interrupt
  <2>1. [kind |-> "interrupt", turn |-> NoTurn] \in Lines BY DEF Lines
  <2>2. stdin' \in Seq(Lines) BY <1>3, <2>1, Added DEF Interrupt
  <2> QED BY <1>3, <2>2 DEF Interrupt
<1>4. CASE Close \/ CloseEnds \/ CliExits BY <1>4 DEF Close, CloseEnds, CliExits
<1>5. CASE CliReads
  <2>1. stdin' \in Seq(Lines) /\ Head(stdin) \in Lines BY <1>5, Dropped DEF CliReads
  <2>2. prompts' \in Seq(Turns)
    <3>1. Head(stdin).kind = "prompt" => Head(stdin).turn \in Turns
      BY <2>1, MessageForms
    <3>2. CASE Head(stdin).kind = "prompt"
      <4>1. Append(prompts, Head(stdin).turn) \in Seq(Turns) BY <3>1, <3>2, Added
      <4> QED BY <1>5, <3>2, <4>1 DEF CliReads
    <3> QED BY <1>5, <3>2 DEF CliReads
  <2> QED BY <1>5, <2>1, <2>2 DEF CliReads
<1>6. CASE CliStarts
  <2>1. prompts' \in Seq(Turns) /\ cli' \in Turns BY <1>6, Dropped DEF CliStarts
  <2> QED BY <1>6, <2>1 DEF CliStarts
<1>7. CASE CliSays
  <2>1. hand' \in Messages BY <1>7 DEF CliSays, Messages
  <2>2. cli' \in Turns \cup {NoTurn} /\ said' \in SUBSET {"delta", "assistant", "cut"}
    BY <1>7 DEF CliSays
  <2> QED BY <1>7, <2>1, <2>2 DEF CliSays
<1>8. CASE ReaderSends
  <2>1. hand \in Messages BY <1>8 DEF ReaderSends
  <2>2. messages' \in Seq(Messages) /\ Len(messages') <= Capacity
    BY <1>8, <2>1, Added, SessionAssumption DEF ReaderSends
  <2> QED BY <1>8, <2>2 DEF ReaderSends
<1>9. CASE ReaderEnds \/ ReaderFails
  BY <1>9 DEF ReaderEnds, ReaderFails, Messages
<1>10. ASSUME NEW t \in Turns, PostMessage(t) \/ Locks(t) PROVE SessionTypeOK'
  BY <1>10 DEF PostMessage, Locks, Starts
<1>11. ASSUME NEW t \in Turns, Asks(t) PROVE SessionTypeOK'
  <2>1. [kind |-> "prompt", turn |-> t] \in Lines BY <1>11 DEF Lines
  <2>2. Append(stdin, [kind |-> "prompt", turn |-> t]) \in Seq(Lines)
    BY <2>1, Added
  <2>3. at' \in [Turns -> {"none", "lock", "ask", "stream", "report", "done"}]
    BY <1>11 DEF Asks, Ends
  <2>4. outcome' \in [Turns -> Outcomes]
    <3>1. CASE Ends(t, "error", {}) BY <3>1, EndTypes
    <3> QED BY <1>11, <3>1 DEF Asks
  <2> QED BY <1>11, <2>2, <2>3, <2>4 DEF Asks
<1>12. ASSUME NEW t \in Turns, ReceivesEnd(t) \/ TimesOut(t) PROVE SessionTypeOK'
  <2>1. /\ outcome' \in [Turns -> Outcomes]
        /\ at' \in [Turns -> {"none", "lock", "ask", "stream", "report", "done"}]
    <3>1. CASE Ends(t, "error", {}) BY <3>1, EndTypes
    <3>2. CASE Answers(t) BY <3>2, AnswerTypes
    <3> QED BY <1>12, <3>1, <3>2 DEF ReceivesEnd, TimesOut
  <2> QED BY <1>12, <2>1 DEF ReceivesEnd, TimesOut
<1>13. ASSUME NEW t \in Turns, Reports(t) PROVE SessionTypeOK'
  <2>1. outcome' \in [Turns -> Outcomes]
    <3>1. CASE outcome' = [outcome EXCEPT ![t].kind = "silent"]
      <4>1. \A o \in Outcomes : [o EXCEPT !.kind = "silent"] \in Outcomes
        BY DEF Outcomes
      <4> QED BY <3>1, <4>1
    <3> QED BY <1>13, <3>1 DEF Reports
  <2> QED BY <1>13, <2>1 DEF Reports
<1> QED BY <1>1, <1>2, <1>3, <1>4, <1>5, <1>6, <1>7, <1>8, <1>9, <1>10, <1>11, <1>12,
           <1>13, ReceivingTypes DEF SessionNext, Reader, Turn

(***************************************************************************)
(* Turns keep apart.                                                       *)
(***************************************************************************)

LEMMA OwnStarts == SessionInit => Own
BY DEF SessionInit, ProcessRuns, ReaderRuns, Own, OneTurn, OwnMessages, OwnPrompts,
       OwnTexts, Nothing, NoTurn, Turns, NoOutcome, IsResult

\* Steps that change nothing of this, and the end of the process.
LEMMA QuietKeepsOwn ==
    ASSUME SessionTypeOK, Own,
           UNCHANGED sessionVars \/ PostInterrupt \/ CloseEnds \/ Close \/ CliExits
    PROVE  Own'
<1>1. /\ UNCHANGED <<turnVars, prompts, cli, said, readerVars, stdin>>
      /\ UNCHANGED alive \/ alive' = FALSE
  BY DEF sessionVars, PostInterrupt, CloseEnds, Close, CliExits, cliVars
<1>2. OneTurn' /\ OwnTexts' BY <1>1 DEF Own, OneTurn, OwnTexts, turnVars
<1>3. (Mute \/ Idle) => (Mute \/ Idle)'
  BY <1>1 DEF Mute, Idle, NoPrompt, readerVars
<1>4. OwnMessages'
  BY <1>1, <1>3 DEF Own, OwnMessages, IsResult, turnVars, readerVars
<1>5. OwnPrompts' BY <1>1 DEF Own, OwnPrompts, Mute, NoPrompt, turnVars, readerVars
<1> QED BY <1>2, <1>4, <1>5 DEF Own

LEMMA InterruptKeepsOwn == ASSUME SessionTypeOK, Own, Interrupt PROVE Own'
<1> DEFINE l == [kind |-> "interrupt", turn |-> NoTurn]
<1>1. UNCHANGED <<turnVars, cliVars, readerVars>> BY DEF Interrupt
<1>2. CASE UNCHANGED stdin
  <2>1. Own' = Own
    BY <1>1, <1>2 DEF Own, OneTurn, OwnMessages, OwnPrompts, OwnTexts, Mute, Idle,
                      NoPrompt, IsResult, turnVars, cliVars, readerVars
  <2> QED BY <2>1
<1>3. CASE stdin' = Append(stdin, l)
  <2>1. l \in Lines /\ l.kind # "prompt" BY DEF Lines
  <2>2. /\ Len(stdin') = Len(stdin) + 1 /\ Len(stdin) \in Nat
        /\ \A i \in 1 .. Len(stdin') :
              \/ i \in 1 .. Len(stdin) /\ stdin'[i] = stdin[i]
              \/ stdin'[i].kind # "prompt"
    BY <1>3, <2>1, Added DEF SessionTypeOK
  <2> HIDE DEF l
  <2>3. OneTurn' /\ OwnTexts' BY <1>1 DEF Own, OneTurn, OwnTexts, turnVars
  <2>4. NoPrompt => NoPrompt' BY <2>2 DEF NoPrompt
  <2>5. (Mute \/ Idle) => (Mute \/ Idle)'
    BY <1>1, <2>4 DEF Mute, Idle, cliVars, readerVars
  <2>6. OwnMessages'
    BY <1>1, <2>5 DEF Own, OwnMessages, IsResult, turnVars, readerVars
  <2>7. OwnPrompts'
    BY <1>1, <2>2, <2>4 DEF Own, OwnPrompts, Mute, turnVars, cliVars, readerVars
  <2> QED BY <2>3, <2>6, <2>7 DEF Own
<1> QED BY <1>2, <1>3 DEF Interrupt

\* A turn that arrives or gets the lock does not read yet.
LEMMA ArrivingKeepsOwn ==
    ASSUME SessionTypeOK, Own, NEW t \in Turns, PostMessage(t) \/ Locks(t)
    PROVE  Own'
<1>1. /\ at' \in [Turns -> {"none", "lock", "ask", "stream", "report", "done"}]
      /\ \A u \in Turns : at'[u] = "stream" <=> at[u] = "stream"
      /\ \A u \in Turns :
            at'[u] \in {"none", "lock", "ask"} => at[u] \in {"none", "lock", "ask"}
      /\ UNCHANGED <<stdin, gathered, streaming, outcome, streamed, cliVars, readerVars>>
  BY DEF PostMessage, Locks, Starts, TurnGoes, SessionTypeOK
<1>2. OneTurn'
  <2>1. CASE PostMessage(t)
    BY <2>1 DEF PostMessage, TurnGoes, SessionTypeOK, Own, OneTurn
  <2>2. CASE Locks(t)
    <3>1. \A u \in Turns : at'[u] = IF u = t THEN "ask" ELSE at[u]
      BY <2>2 DEF Locks, Starts, TurnGoes, SessionTypeOK
    <3>2. \A u \in Turns : at[u] \notin {"ask", "stream", "report"}
      BY <2>2 DEF Locks, Own, OneTurn, NoTurn, Turns
    <3> QED BY <2>2, <3>1, <3>2 DEF Locks, OneTurn
  <2> QED BY <2>1, <2>2
<1>3. OwnTexts' BY <1>1 DEF Own, OwnTexts
<1>4. OwnMessages'
  <2>1. (Mute \/ Idle) => (Mute \/ Idle)'
    BY <1>1 DEF Mute, Idle, NoPrompt, cliVars, readerVars
  <2>2. \A i \in 1 .. Len(messages) :
           messages[i].kind # "broken" => messages[i].turn \in Turns
    BY MessageForms DEF SessionTypeOK
  <2> QED BY <1>1, <2>1, <2>2, HandForms DEF Own, OwnMessages, IsResult, readerVars
<1>5. OwnPrompts'
  <2>1. /\ cli # NoTurn => cli \in Turns
        /\ prompts # <<>> => prompts[1] \in Turns
        /\ \A i \in 1 .. Len(stdin) :
              stdin[i].kind = "prompt" => stdin[i].turn \in Turns
    BY MessageForms DEF SessionTypeOK
  <2> QED BY <1>1, <2>1 DEF Own, OwnPrompts, Mute, NoPrompt, cliVars, readerVars
<1> QED BY <1>2, <1>3, <1>4, <1>5 DEF Own

\* The turn that has the lock and does not read finds nothing of others.
LEMMA AskFindsNothing ==
    ASSUME SessionTypeOK, Own, NEW t \in Turns, at[t] \in {"ask", "report"}
    PROVE  /\ \A u \in Turns : at[u] # "stream"
           /\ \A i \in 1 .. Len(messages) : messages[i].kind = "broken"
           /\ hand.kind \in {"none", "broken"}
           /\ Mute \/ (Idle /\ messages = <<>> /\ hand = Nothing)
<1>1. \A u \in Turns : at[u] # "stream" BY DEF Own, OneTurn, SessionTypeOK
<1>2. \A i \in 1 .. Len(messages) : messages[i].kind = "broken"
  <2>1. \A i \in 1 .. Len(messages) : messages[i] \in Messages BY DEF SessionTypeOK
  <2> QED BY <1>1, <2>1, MessageForms DEF Own, OwnMessages
<1>3. hand.kind \in {"none", "broken"} BY <1>1, HandForms DEF Own, OwnMessages
<1>4. ~Mute => messages = <<>> /\ hand = Nothing
  <2>1. messages # <<>> => 1 \in 1 .. Len(messages) BY DEF SessionTypeOK
  <2> QED BY <1>2, <1>3, <2>1, HandForms DEF Own, OwnMessages, Mute
<1>5. ~Mute => Idle
  <2>1. /\ cli # NoTurn => cli \in Turns
        /\ prompts # <<>> => prompts[1] \in Turns
        /\ \A i \in 1 .. Len(stdin) :
              stdin[i].kind = "prompt" => stdin[i].turn \in Turns
    BY MessageForms DEF SessionTypeOK
  <2> QED BY <1>1, <2>1 DEF Own, OwnPrompts, Idle, NoPrompt
<1> QED BY <1>1, <1>2, <1>3, <1>4, <1>5

LEMMA AskingKeepsOwn ==
    ASSUME SessionTypeOK, Own, NEW t \in Turns, Asks(t) PROVE Own'
<1>1. /\ at[t] = "ask"
      /\ UNCHANGED <<runMu, gathered, streaming, streamed, cliVars, readerVars>>
  BY DEF Asks
<1>2. OneTurn' BY DEF Asks, Ends, TurnGoes, SessionTypeOK, Own, OneTurn
<1>3. \A u \in Turns : u # t => at'[u] = at[u] BY DEF Asks, Ends, TurnGoes, SessionTypeOK
<1>4. at'[t] \in {"report", "stream"} BY DEF Asks, Ends, TurnGoes, SessionTypeOK
<1>5. OwnTexts'
  <2>1. \A u \in Turns : outcome'[u].kind = "result" => outcome'[u].of = {u}
    <3>1. CASE Ends(t, "error", {})
      BY <3>1 DEF Ends, SessionTypeOK, Own, OwnTexts
    <3> QED BY <3>1 DEF Asks, Own, OwnTexts
  <2> QED BY <1>1, <1>3, <1>4, <2>1 DEF Own, OwnTexts
<1>6. OwnMessages'
  <2>1. /\ \A i \in 1 .. Len(messages) : messages[i].kind = "broken"
        /\ hand.kind \in {"none", "broken"}
    BY <1>1, AskFindsNothing
  <2> QED BY <1>1, <2>1 DEF Own, OwnMessages, IsResult, readerVars
<1>7. OwnPrompts'
  <2>1. CASE UNCHANGED stdin /\ Mute
    BY <1>1, <2>1 DEF OwnPrompts, Mute, cliVars, readerVars
  <2>2. CASE /\ stdin' = Append(stdin, [kind |-> "prompt", turn |-> t])
             /\ at'[t] = "stream"
    <3> DEFINE l == [kind |-> "prompt", turn |-> t]
    <3>1. l \in Lines /\ l.turn = t BY DEF Lines
    <3>2. /\ Len(stdin') = Len(stdin) + 1 /\ Len(stdin) \in Nat
          /\ stdin'[Len(stdin) + 1].turn = t
          /\ \A i \in 1 .. Len(stdin') :
                \/ i \in 1 .. Len(stdin) /\ stdin'[i] = stdin[i]
                \/ i = Len(stdin) + 1
      BY <2>2, <3>1, Added DEF SessionTypeOK
    <3> HIDE DEF l
    <3>3. Mute \/ Idle BY <1>1, AskFindsNothing
    <3>4. CASE Mute BY <1>1, <3>4 DEF OwnPrompts, Mute, cliVars, readerVars
    <3>5. CASE Idle
      BY <1>1, <2>2, <3>2, <3>5 DEF OwnPrompts, Idle, NoPrompt, cliVars, readerVars
    <3> QED BY <3>3, <3>4, <3>5
  <2>3. closed \/ ~alive => UNCHANGED stdin BY DEF Asks
  <2>4. CASE Ends(t, "error", {}) /\ UNCHANGED stdin
    <3>1. Mute \/ Idle BY <1>1, AskFindsNothing
    <3> QED BY <1>1, <2>4, <3>1 DEF OwnPrompts, Idle, NoPrompt, Mute, cliVars, readerVars
  <2> QED BY <2>2, <2>4 DEF Asks, TurnGoes, SessionTypeOK
<1> QED BY <1>2, <1>5, <1>6, <1>7 DEF Own

LEMMA ReportingKeepsOwn ==
    ASSUME SessionTypeOK, Own, NEW t \in Turns, Reports(t) PROVE Own'
<1>1. /\ at[t] = "report" /\ runMu = t
      /\ UNCHANGED <<stdin, gathered, streaming, streamed, cliVars, readerVars>>
  BY DEF Reports, Own, OneTurn, SessionTypeOK
<1>2. \A u \in Turns : at'[u] = IF u = t THEN "done" ELSE at[u]
  BY DEF Reports, TurnGoes, SessionTypeOK
<1>3. OneTurn' BY <1>1, <1>2 DEF Reports, Own, OneTurn, NoTurn, Turns
<1>4. OwnTexts'
  <2>1. \A u \in Turns : outcome'[u].kind = "result" => outcome'[u].of = {u}
    <3>1. CASE outcome' = [outcome EXCEPT ![t].kind = "silent"]
      <4>1. outcome'[t].kind = "silent" BY <3>1 DEF SessionTypeOK, Outcomes
      <4> QED BY <3>1, <4>1 DEF SessionTypeOK, Own, OwnTexts
    <3> QED BY <3>1 DEF Reports, Own, OwnTexts
  <2> QED BY <1>1, <1>2, <2>1 DEF Own, OwnTexts
<1>5. OwnMessages'
  <2>1. /\ \A i \in 1 .. Len(messages) : messages[i].kind = "broken"
        /\ hand.kind \in {"none", "broken"}
    BY <1>1, AskFindsNothing
  <2> QED BY <1>1, <2>1 DEF Own, OwnMessages, IsResult, readerVars
<1>6. OwnPrompts'
  <2>1. Mute \/ Idle BY <1>1, AskFindsNothing
  <2> QED BY <1>1, <2>1 DEF OwnPrompts, Idle, NoPrompt, Mute, cliVars, readerVars
<1> QED BY <1>3, <1>4, <1>5, <1>6 DEF Own

\* What is received is of the turn that receives it.
LEMMA ReceivedIsOwn ==
    ASSUME SessionTypeOK, Own, NEW t \in Turns, at[t] = "stream", messages # <<>>
    PROVE  /\ Head(messages) = messages[1] /\ 1 \in 1 .. Len(messages)
           /\ Head(messages) \in Messages
           /\ Head(messages).kind # "broken" => Head(messages).turn = t
           /\ \A u \in Turns : at[u] = "stream" => u = t
<1>1. /\ Head(messages) = messages[1] /\ 1 \in 1 .. Len(messages)
      /\ Head(messages) \in Messages
  BY Dropped DEF SessionTypeOK
<1>2. \A u \in Turns : at[u] = "stream" => u = t BY DEF Own, OneTurn
<1>3. Head(messages).kind # "broken" => Head(messages).turn = t
  BY <1>1, <1>2, MessageForms DEF Own, OwnMessages
<1> QED BY <1>1, <1>2, <1>3

\* A turn that ends leaves no other behind.
LEMMA EndingKeepsOneTurn ==
    ASSUME SessionTypeOK, OneTurn, NEW t \in Turns, at[t] = "stream", UNCHANGED runMu,
           NEW ending, NEW texts, Ends(t, ending, texts)
    PROVE  /\ OneTurn'
           /\ \A u \in Turns : at'[u] = IF u = t THEN "report" ELSE at[u]
           /\ \A u \in Turns :
                 outcome'[u] = IF u = t THEN [kind |-> ending, of |-> texts]
                               ELSE outcome[u]
BY DEF Ends, TurnGoes, SessionTypeOK, OneTurn

LEMMA AnsweringIsOwn ==
    ASSUME SessionTypeOK, Own, NEW t \in Turns, at[t] = "stream", Answers(t),
           UNCHANGED <<runMu, gathered, streaming, streamed>>
    PROVE  /\ OneTurn' /\ OwnTexts'
           /\ \A u \in Turns : at'[u] = IF u = t THEN "report" ELSE at[u]
<1> DEFINE ending == IF gathered[t] = {} THEN "error" ELSE "result"
<1>1. Ends(t, ending, gathered[t]) BY DEF Answers
<1>2. ending = "result" => gathered[t] = {t} BY DEF Own, OwnTexts
<1> HIDE DEF ending
<1>3. /\ OneTurn'
      /\ \A u \in Turns : at'[u] = IF u = t THEN "report" ELSE at[u]
      /\ \A u \in Turns :
            outcome'[u] = IF u = t THEN [kind |-> ending, of |-> gathered[t]]
                          ELSE outcome[u]
  BY <1>1, EndingKeepsOneTurn DEF Own
<1>4. OwnTexts' BY <1>2, <1>3 DEF Own, OwnTexts
<1> QED BY <1>3, <1>4

LEMMA ReceivingKeepsOwn ==
    ASSUME SessionTypeOK, Own, NEW t \in Turns, Receives(t) PROVE Own'
<1> DEFINE m == Head(messages)
<1>1. at[t] = "stream" /\ messages # <<>> BY DEF Receives
<1>2. UNCHANGED <<runMu, stdin, cliVars, hand, reader>> BY DEF Receives
<1>3. /\ m = messages[1] /\ 1 \in 1 .. Len(messages) /\ m \in Messages
      /\ m.kind # "broken" => m.turn = t
      /\ \A u \in Turns : at[u] = "stream" => u = t
  BY <1>1, ReceivedIsOwn
<1>4. /\ Len(messages) \in Nat /\ Len(messages') = Len(messages) - 1
      /\ \A i \in 1 .. Len(messages') :
            i + 1 \in 1 .. Len(messages) /\ messages'[i] = messages[i + 1]
  BY <1>1, Dropped DEF Receives, SessionTypeOK
<1>5. (Mute \/ Idle) => (Mute \/ Idle)'
  BY <1>2 DEF Mute, Idle, NoPrompt, cliVars
<1>6. CASE Gathers(t, m)
  <2>1. m.turn = t /\ UNCHANGED <<at, outcome>> BY <1>3, <1>6 DEF Gathers
  <2>2. OneTurn' BY <1>2, <2>1 DEF Own, OneTurn
  <2>3. OwnTexts'
    <3>1. \A u \in Turns :
             /\ gathered'[u] = IF u = t THEN gathered[t] \cup {t} ELSE gathered[u]
             /\ u # t => streaming'[u] = streaming[u] /\ streamed'[u] = streamed[u]
      BY <1>6, <2>1 DEF Gathers, SessionTypeOK
    <3> QED BY <1>1, <2>1, <3>1 DEF Own, OwnTexts
  <2>4. OwnMessages'
    <3>1. ASSUME NEW i \in 1 .. Len(messages')
          PROVE  /\ messages'[i].kind # "broken" => at[messages'[i].turn] = "stream"
                 /\ messages'[i].kind = "broken" =>
                       i = Len(messages') /\ hand = Nothing /\ reader = "done"
                 /\ IsResult(messages'[i]) =>
                       /\ \A j \in (i + 1) .. Len(messages') :
                             messages'[j].kind = "broken"
                       /\ hand.kind \in {"none", "broken"}
                       /\ Mute \/ Idle
      <4>1. i + 1 \in 1 .. Len(messages) /\ messages'[i] = messages[i + 1]
        BY <1>4, <3>1
      <4>2. \A j \in (i + 1) .. Len(messages') :
               /\ messages'[j] = messages[j + 1]
               /\ j + 1 \in (i + 1 + 1) .. Len(messages)
        BY <1>4, <3>1
      <4> QED BY <1>4, <4>1, <4>2 DEF Own, OwnMessages
    <3> QED BY <1>2, <1>5, <2>1, <3>1 DEF Own, OwnMessages, IsResult
  <2>5. OwnPrompts'
    BY <1>2, <2>1 DEF Own, OwnPrompts, Mute, NoPrompt, cliVars
  <2> QED BY <2>2, <2>3, <2>4, <2>5 DEF Own
<1>7. CASE Concludes(t, m)
  <2>1. m.kind \in {"ok", "err", "broken"} /\ UNCHANGED <<gathered, streaming, streamed>>
    BY <1>7 DEF Concludes
  <2>2. /\ OneTurn' /\ OwnTexts'
        /\ \A u \in Turns : at'[u] = IF u = t THEN "report" ELSE at[u]
    <3>1. CASE Answers(t) BY <1>1, <1>2, <2>1, <3>1, AnsweringIsOwn
    <3>2. CASE m.kind = "ok" /\ Ends(t, "result", {m.turn})
      <4>1. Ends(t, "result", {t}) BY <1>3, <3>2
      <4>2. /\ OneTurn'
            /\ \A u \in Turns : at'[u] = IF u = t THEN "report" ELSE at[u]
            /\ \A u \in Turns :
                  outcome'[u] = IF u = t THEN [kind |-> "result", of |-> {t}]
                                ELSE outcome[u]
        BY <1>1, <1>2, <4>1, EndingKeepsOneTurn DEF Own
      <4> QED BY <2>1, <4>2 DEF Own, OwnTexts
    <3>3. CASE Ends(t, "error", {})
      <4>1. /\ OneTurn'
            /\ \A u \in Turns : at'[u] = IF u = t THEN "report" ELSE at[u]
            /\ \A u \in Turns :
                  outcome'[u] = IF u = t THEN [kind |-> "error", of |-> {}]
                                ELSE outcome[u]
        BY <1>1, <1>2, <3>3, EndingKeepsOneTurn DEF Own
      <4> QED BY <2>1, <4>1 DEF Own, OwnTexts
    <3> QED BY <1>7, <3>1, <3>2, <3>3 DEF Concludes
  <2>3. \A i \in 1 .. Len(messages') : messages'[i].kind = "broken"
    <3>1. ASSUME NEW i \in 1 .. Len(messages') PROVE messages'[i].kind = "broken"
      <4>1. i + 1 \in 2 .. Len(messages) /\ messages'[i] = messages[i + 1]
        BY <1>4, <3>1
      <4>2. m.kind = "broken" => Len(messages) = 1
        BY <1>3 DEF Own, OwnMessages
      <4> QED BY <1>3, <2>1, <4>1, <4>2 DEF Own, OwnMessages, IsResult
    <3> QED BY <3>1
  <2>4. hand.kind \in {"none", "broken"} /\ (Mute \/ Idle)
    BY <1>3, <2>1 DEF Own, OwnMessages, IsResult, Mute, Nothing
  <2>5. OwnMessages'
    <3>1. ASSUME NEW i \in 1 .. Len(messages')
          PROVE  i = Len(messages') /\ hand = Nothing /\ reader = "done"
      <4>1. i + 1 \in 1 .. Len(messages) /\ messages[i + 1].kind = "broken"
        BY <1>4, <2>3, <3>1
      <4> QED BY <1>4, <4>1 DEF Own, OwnMessages
    <3> QED BY <1>2, <2>3, <2>4, <3>1 DEF Own, OwnMessages, IsResult
  <2>6. OwnPrompts'
    BY <1>2, <2>4 DEF OwnPrompts, Idle, NoPrompt, Mute, cliVars
  <2> QED BY <2>2, <2>5, <2>6 DEF Own
<1> QED BY <1>6, <1>7 DEF Receives

LEMMA ReceivingEndKeepsOwn ==
    ASSUME SessionTypeOK, Own, NEW t \in Turns, ReceivesEnd(t) PROVE Own'
<1>1. /\ at[t] = "stream" /\ messages = <<>> /\ reader = "done" /\ Answers(t)
      /\ UNCHANGED <<runMu, stdin, gathered, streaming, streamed, cliVars, readerVars>>
  BY DEF ReceivesEnd
<1>2. OneTurn' /\ OwnTexts' BY <1>1, AnsweringIsOwn
<1>3. OwnMessages' BY <1>1 DEF Own, OwnMessages, IsResult, Nothing, readerVars
<1>4. OwnPrompts' BY <1>1 DEF OwnPrompts, Mute, readerVars
<1> QED BY <1>2, <1>3, <1>4 DEF Own

\* The process takes a prompt further.
LEMMA ReadingKeepsOwn == ASSUME SessionTypeOK, Own, CliReads PROVE Own'
<1>1. /\ stdin # <<>> /\ stdin' = Tail(stdin)
      /\ UNCHANGED <<turnVars, cli, alive, readerVars>>
  BY DEF CliReads
<1>2. /\ Len(stdin) \in Nat /\ Len(stdin') = Len(stdin) - 1
      /\ Head(stdin) = stdin[1] /\ 1 \in 1 .. Len(stdin)
      /\ Head(stdin) \in Lines
      /\ \A i \in 1 .. Len(stdin') :
            i + 1 \in 1 .. Len(stdin) /\ stdin'[i] = stdin[i + 1]
  BY <1>1, Dropped DEF SessionTypeOK
<1>3. OneTurn' /\ OwnTexts' BY <1>1 DEF Own, OneTurn, OwnTexts, turnVars
<1>4. NoPrompt => NoPrompt' /\ UNCHANGED prompts
  BY <1>2 DEF NoPrompt, CliReads
<1>5. (Mute \/ Idle) => (Mute \/ Idle)'
  BY <1>1, <1>4 DEF Mute, Idle, readerVars
<1>6. OwnMessages'
  BY <1>1, <1>5 DEF Own, OwnMessages, IsResult, turnVars, readerVars
<1>7. OwnPrompts'
  <2>1. CASE Mute BY <1>1, <2>1 DEF OwnPrompts, Mute, readerVars
  <2>2. CASE ~Mute /\ Head(stdin).kind = "prompt"
    <3>1. cli = NoTurn /\ prompts = <<>> BY <1>2, <2>2 DEF Own, OwnPrompts, NoPrompt
    <3>2. prompts' = <<Head(stdin).turn>> BY <2>2, <3>1 DEF CliReads
    <3>3. NoPrompt'
      <4>1. ASSUME NEW i \in 1 .. Len(stdin') PROVE stdin'[i].kind # "prompt"
        <5>1. i + 1 \in 1 .. Len(stdin) /\ i + 1 # 1 /\ stdin'[i] = stdin[i + 1]
          BY <1>2, <4>1
        <5> QED BY <1>2, <2>2, <5>1 DEF Own, OwnPrompts
      <4> QED BY <4>1 DEF NoPrompt
    <3>4. at[Head(stdin).turn] = "stream" BY <1>2, <2>2 DEF Own, OwnPrompts
    <3> QED BY <1>1, <3>1, <3>2, <3>3, <3>4 DEF OwnPrompts, NoPrompt, turnVars
  <2>3. CASE ~Mute /\ Head(stdin).kind # "prompt"
    <3>1. UNCHANGED prompts BY <2>3 DEF CliReads
    <3>2. \A i, j \in 1 .. Len(stdin') :
             stdin'[i].kind = "prompt" /\ stdin'[j].kind = "prompt" => i = j
      <4>1. ASSUME NEW i \in 1 .. Len(stdin'), NEW j \in 1 .. Len(stdin'),
                   stdin'[i].kind = "prompt", stdin'[j].kind = "prompt"
            PROVE  i = j
        <5>1. /\ i + 1 \in 1 .. Len(stdin) /\ stdin'[i] = stdin[i + 1]
              /\ j + 1 \in 1 .. Len(stdin) /\ stdin'[j] = stdin[j + 1]
          BY <1>2
        <5>2. i + 1 = j + 1 BY <2>3, <4>1, <5>1 DEF Own, OwnPrompts
        <5> QED BY <5>2
      <4> QED BY <4>1
    <3>3. \A i \in 1 .. Len(stdin') :
             stdin'[i].kind = "prompt" => at[stdin'[i].turn] = "stream"
      BY <1>2, <2>3 DEF Own, OwnPrompts
    <3> QED BY <1>1, <1>4, <2>3, <3>1, <3>2, <3>3 DEF Own, OwnPrompts, turnVars
  <2> QED BY <2>1, <2>2, <2>3
<1> QED BY <1>3, <1>6, <1>7 DEF Own

LEMMA StartingKeepsOwn == ASSUME SessionTypeOK, Own, CliStarts PROVE Own'
<1>1. /\ prompts # <<>> /\ cli' = Head(prompts) /\ prompts' = Tail(prompts)
      /\ UNCHANGED <<turnVars, alive, readerVars, stdin>>
  BY DEF CliStarts
<1>2. OneTurn' /\ OwnTexts' BY <1>1 DEF Own, OneTurn, OwnTexts, turnVars
<1>3. (Mute \/ Idle) => Mute' BY <1>1 DEF Mute, Idle, readerVars
<1>4. OwnMessages'
  BY <1>1, <1>3 DEF Own, OwnMessages, IsResult, turnVars, readerVars
<1>5. OwnPrompts'
  <2>1. CASE Mute BY <1>1, <2>1 DEF OwnPrompts, Mute, readerVars
  <2>2. CASE ~Mute
    <3>1. Len(prompts) = 1 /\ at[prompts[1]] = "stream" /\ NoPrompt
      BY <1>1, <2>2 DEF Own, OwnPrompts
    <3>2. prompts' = <<>> /\ cli' = prompts[1] BY <1>1, <3>1 DEF SessionTypeOK
    <3> QED BY <1>1, <3>1, <3>2 DEF OwnPrompts, NoPrompt, turnVars
  <2> QED BY <2>1, <2>2
<1> QED BY <1>2, <1>4, <1>5 DEF Own

\* What the process says is of the turn it works for, and no result is before.
LEMMA SayingKeepsOwn == ASSUME SessionTypeOK, Own, CliSays PROVE Own'
<1>1. /\ alive /\ cli # NoTurn /\ hand = Nothing /\ reader = "reads"
      /\ UNCHANGED <<turnVars, stdin, prompts, alive, reader, messages>>
  BY DEF CliSays
<1>2. PICK word \in {"delta", "assistant", "ok", "err"} :
         /\ hand' = [turn |-> cli, kind |-> word]
         /\ IF word \in {"ok", "err"} THEN cli' = NoTurn ELSE UNCHANGED cli
  BY DEF CliSays
<1>3. ~Mute /\ at[cli] = "stream" /\ prompts = <<>> /\ NoPrompt
  BY <1>1 DEF Own, OwnPrompts, Mute
<1>4. OneTurn' /\ OwnTexts' BY <1>1 DEF Own, OneTurn, OwnTexts, turnVars
<1>5. \A i \in 1 .. Len(messages) :
         ~IsResult(messages[i]) /\ messages[i].kind # "broken"
  BY <1>1, <1>3 DEF Own, OwnMessages, Idle
<1>6. OwnMessages'
  <2>1. IsResult(hand') => Idle'
    BY <1>1, <1>2, <1>3 DEF IsResult, Idle, NoPrompt
  <2> QED BY <1>1, <1>2, <1>3, <1>5, <2>1 DEF Own, OwnMessages, IsResult, turnVars
<1>7. OwnPrompts'
  BY <1>1, <1>2, <1>3 DEF OwnPrompts, NoPrompt, turnVars
<1> QED BY <1>4, <1>6, <1>7 DEF Own

LEMMA SendingKeepsOwn == ASSUME SessionTypeOK, Own, ReaderSends PROVE Own'
<1>1. /\ hand # Nothing /\ messages' = Append(messages, hand) /\ hand' = Nothing
      /\ reader' = IF reader = "fails" THEN "done" ELSE reader
      /\ UNCHANGED <<turnVars, stdin, cliVars>>
  BY DEF ReaderSends
<1>2. hand \in Messages BY <1>1 DEF SessionTypeOK
<1>3. /\ Len(messages) \in Nat /\ Len(messages') = Len(messages) + 1
      /\ messages'[Len(messages) + 1] = hand
      /\ \A i \in 1 .. Len(messages') :
            \/ i \in 1 .. Len(messages) /\ messages'[i] = messages[i]
            \/ i = Len(messages) + 1
      /\ \A i \in 1 .. Len(messages) : messages'[i] = messages[i]
  BY <1>1, <1>2, Added DEF SessionTypeOK
<1>4. OneTurn' /\ OwnTexts' BY <1>1 DEF Own, OneTurn, OwnTexts, turnVars
<1>5. (Mute \/ Idle) => (Mute \/ Idle)'
  BY <1>1 DEF Mute, Idle, NoPrompt, cliVars
<1>6. \A i \in 1 .. Len(messages) : messages[i].kind # "broken"
  BY <1>1 DEF Own, OwnMessages
<1>7. hand.kind \in {"delta", "assistant", "ok", "err", "broken"} BY <1>2, MessageForms
<1>8. OwnMessages'
  <2>1. ASSUME NEW i \in 1 .. Len(messages')
        PROVE  /\ messages'[i].kind # "broken" => at[messages'[i].turn] = "stream"
               /\ messages'[i].kind = "broken" => i = Len(messages') /\ reader' = "done"
               /\ IsResult(messages'[i]) =>
                     /\ \A j \in (i + 1) .. Len(messages') : messages'[j].kind = "broken"
                     /\ Mute \/ Idle
    <3>1. CASE i \in 1 .. Len(messages)
      <4>1. messages'[i] = messages[i] BY <1>3, <3>1
      <4>2. \A j \in (i + 1) .. Len(messages') :
               \/ j \in (i + 1) .. Len(messages) /\ messages'[j] = messages[j]
               \/ messages'[j] = hand
        BY <1>3, <3>1
      <4>3. IsResult(messages[i]) => hand.kind = "broken"
        BY <1>7, <3>1 DEF Own, OwnMessages
      <4> QED BY <1>6, <3>1, <4>1, <4>2, <4>3 DEF Own, OwnMessages
    <3>2. CASE i = Len(messages) + 1
      <4>1. messages'[i] = hand BY <1>3, <3>2
      <4>2. \A j \in (i + 1) .. Len(messages') : FALSE BY <1>3, <3>2
      <4> QED BY <1>1, <1>3, <1>7, <3>2, <4>1, <4>2 DEF Own, OwnMessages
    <3> QED BY <1>3, <2>1, <3>1, <3>2
  <2>2. hand' = Nothing /\ Nothing.kind = "none" BY <1>1, MessageForms
  <2>3. reader' # "fails" BY <1>1
  <2> QED BY <1>1, <1>5, <2>1, <2>2, <2>3 DEF Own, OwnMessages, IsResult, turnVars
<1>9. OwnPrompts'
  BY <1>1 DEF Own, OwnPrompts, Mute, NoPrompt, turnVars, cliVars
<1> QED BY <1>4, <1>8, <1>9 DEF Own

LEMMA ReaderEndKeepsOwn ==
    ASSUME SessionTypeOK, Own, ReaderEnds \/ ReaderFails PROVE Own'
<1>1. /\ reader = "reads" /\ hand = Nothing /\ reader' \in {"done", "fails"}
      /\ UNCHANGED <<turnVars, stdin, cliVars, messages>>
      /\ \/ reader' = "done" /\ hand' = Nothing
         \/ reader' = "fails" /\ hand' = [turn |-> NoTurn, kind |-> "broken"]
  BY DEF ReaderEnds, ReaderFails
<1>2. OneTurn' /\ OwnTexts' BY <1>1 DEF Own, OneTurn, OwnTexts, turnVars
<1>3. Mute' BY <1>1 DEF Mute
<1>4. OwnMessages'
  BY <1>1, <1>3, MessageForms DEF Own, OwnMessages, IsResult, turnVars
<1>5. OwnPrompts' BY <1>3 DEF OwnPrompts, Mute
<1> QED BY <1>2, <1>4, <1>5 DEF Own

\* While no turn is given up, every step keeps the turns apart.
LEMMA OwnKeeps ==
    ASSUME SessionTypeOK, gaveUp = {} => Own, [SessionNext]_sessionVars
    PROVE  (gaveUp = {} => Own)'
<1> SUFFICES ASSUME gaveUp' = {} PROVE Own' OBVIOUS
<1>1. gaveUp = {} /\ \A t \in Turns : ~TimesOut(t)
  BY DEF sessionVars, turnVars, SessionNext, PostInterrupt, Interrupt, Close, CloseEnds,
         CliReads, CliStarts, CliSays, CliExits, Reader, ReaderSends, ReaderEnds,
         ReaderFails, PostMessage, Locks, Starts, Turn, Asks, Receives, ReceivesEnd,
         Reports, TimesOut
<1>2. Own BY <1>1
<1> QED BY <1>1, <1>2, QuietKeepsOwn, InterruptKeepsOwn, ArrivingKeepsOwn, AskingKeepsOwn,
           ReportingKeepsOwn, ReceivingKeepsOwn, ReceivingEndKeepsOwn, ReadingKeepsOwn,
           StartingKeepsOwn, SayingKeepsOwn, SendingKeepsOwn, ReaderEndKeepsOwn
    DEF SessionNext, Reader, Turn

(***************************************************************************)
(* An answer is shown once.                                                *)
(***************************************************************************)

\* Nothing of the answer to a turn has been said.
Unsaid(t) == messages = <<>> /\ hand = Nothing /\ streamed[t] = 0

\* Nothing is said of a turn before the process works for it, and its whole
\* text only once.
FreshPrompts ==
    \/ Mute
    \/ /\ cli # NoTurn /\ said = {} => Unsaid(cli)
       /\ cli # NoTurn /\ said \subseteq {"delta"} =>
             /\ streamed[cli] = 0 \/ streaming[cli]
             /\ hand.kind # "assistant"
             /\ \A i \in 1 .. Len(messages) : messages[i].kind # "assistant"
       /\ prompts # <<>> => Unsaid(prompts[1])
       /\ \A i \in 1 .. Len(stdin) :
             stdin[i].kind = "prompt" => Unsaid(stdin[i].turn)

\* A part of an answer comes first, and what comes after it is not shown.
FreshMessages ==
    /\ \A i \in 1 .. Len(messages) :
          /\ messages[i].kind = "delta" => i = 1 /\ streamed[messages[i].turn] = 0
          /\ messages[i].kind = "assistant" =>
                /\ streamed[messages[i].turn] = 0 \/ streaming[messages[i].turn]
                /\ hand.kind # "assistant"
                /\ \A j \in (i + 1) .. Len(messages) : messages[j].kind # "assistant"
    /\ hand.kind = "delta" => messages = <<>> /\ streamed[hand.turn] = 0
    /\ hand.kind = "assistant" => streamed[hand.turn] = 0 \/ streaming[hand.turn]

ShownOnce == \A t \in Turns : streamed[t] <= 1

Once == FreshPrompts /\ FreshMessages /\ ShownOnce

LEMMA OnceStarts == SessionInit => Once
BY DEF SessionInit, ProcessRuns, ReaderRuns, Once, FreshPrompts, FreshMessages,
       ShownOnce, Nothing, NoTurn

\* Steps that neither show a text nor touch what the process and its reader do.
LEMMA QuietKeepsOnce ==
    ASSUME Once, Mute => Mute',
           UNCHANGED <<streaming, streamed, stdin, prompts, cli, said, hand, messages>>
    PROVE  Once'
BY DEF Once, FreshPrompts, FreshMessages, ShownOnce, Unsaid

LEMMA InterruptKeepsOnce == ASSUME SessionTypeOK, Once, Interrupt PROVE Once'
<1> DEFINE l == [kind |-> "interrupt", turn |-> NoTurn]
<1>1. UNCHANGED <<turnVars, cliVars, readerVars>> BY DEF Interrupt
<1>2. Mute => Mute' BY <1>1 DEF Mute, cliVars, readerVars
<1>3. CASE UNCHANGED stdin
  BY <1>1, <1>2, <1>3, QuietKeepsOnce DEF turnVars, cliVars, readerVars
<1>4. CASE stdin' = Append(stdin, l)
  <2>1. l \in Lines /\ l.kind # "prompt" BY DEF Lines
  <2>2. \A i \in 1 .. Len(stdin') :
           \/ i \in 1 .. Len(stdin) /\ stdin'[i] = stdin[i]
           \/ stdin'[i].kind # "prompt"
    BY <1>4, <2>1, Added DEF SessionTypeOK
  <2> HIDE DEF l
  <2>3. FreshPrompts'
    BY <1>1, <1>2, <2>2 DEF Once, FreshPrompts, Unsaid, turnVars, cliVars, readerVars
  <2>4. FreshMessages' /\ ShownOnce'
    BY <1>1 DEF Once, FreshMessages, ShownOnce, turnVars, readerVars
  <2> QED BY <2>3, <2>4 DEF Once
<1> QED BY <1>3, <1>4 DEF Interrupt

LEMMA AskingKeepsOnce ==
    ASSUME SessionTypeOK, Own, Once, NEW t \in Turns, Asks(t) PROVE Once'
<1>1. at[t] = "ask" /\ UNCHANGED <<streaming, streamed, cliVars, readerVars>>
  BY DEF Asks
<1>2. Mute => Mute' BY <1>1 DEF Mute, cliVars, readerVars
<1>3. CASE UNCHANGED stdin
  BY <1>1, <1>2, <1>3, QuietKeepsOnce DEF cliVars, readerVars
<1>4. CASE stdin' = Append(stdin, [kind |-> "prompt", turn |-> t])
  <2> DEFINE l == [kind |-> "prompt", turn |-> t]
  <2>1. l \in Lines /\ l.turn = t BY DEF Lines
  <2>2. /\ \A i \in 1 .. Len(stdin') :
              \/ i \in 1 .. Len(stdin) /\ stdin'[i] = stdin[i]
              \/ stdin'[i].turn = t
    BY <1>4, <2>1, Added DEF SessionTypeOK
  <2> HIDE DEF l
  <2>3. Mute \/ Unsaid(t)
    <3>1. Mute \/ (messages = <<>> /\ hand = Nothing) BY <1>1, AskFindsNothing
    <3> QED BY <1>1, <3>1 DEF Unsaid, Own, OwnTexts
  <2>4. FreshPrompts'
    BY <1>1, <1>2, <2>2, <2>3 DEF Once, FreshPrompts, Unsaid, cliVars, readerVars
  <2>5. FreshMessages' /\ ShownOnce'
    BY <1>1 DEF Once, FreshMessages, ShownOnce, readerVars
  <2> QED BY <2>4, <2>5 DEF Once
<1> QED BY <1>3, <1>4 DEF Asks

LEMMA ReceivingKeepsOnce ==
    ASSUME SessionTypeOK, Own, Once, NEW t \in Turns, Receives(t) PROVE Once'
<1> DEFINE m == Head(messages)
<1>1. at[t] = "stream" /\ messages # <<>> BY DEF Receives
<1>2. UNCHANGED <<runMu, stdin, cliVars, hand, reader>> BY DEF Receives
<1>3. /\ m = messages[1] /\ 1 \in 1 .. Len(messages) /\ m \in Messages
      /\ m.kind # "broken" => m.turn = t
      /\ \A u \in Turns : at[u] = "stream" => u = t
  BY <1>1, ReceivedIsOwn
<1>4. /\ Len(messages) \in Nat /\ Len(messages') = Len(messages) - 1
      /\ \A i \in 1 .. Len(messages') :
            i + 1 \in 2 .. Len(messages) /\ messages'[i] = messages[i + 1]
  BY <1>1, Dropped DEF Receives, SessionTypeOK
<1>5. Mute => Mute' BY <1>2 DEF Mute, cliVars
<1>6. /\ \A u \in Turns : u # t => streamed'[u] = streamed[u]
      /\ \A u \in Turns : u # t => streaming'[u] = streaming[u]
      /\ \A u \in Turns : streaming[u] => streaming'[u]
      /\ m.kind = "delta" => streaming'[t]
      /\ streamed[t] = 0 => streamed'[t] \in {0, 1}
      /\ m.kind = "assistant" /\ streaming[t] => streamed'[t] = streamed[t]
      /\ m.kind \notin {"delta", "assistant"} => streamed' = streamed
  <2>1. CASE Gathers(t, m)
    <3>1. m.turn = t /\ m.kind \in {"delta", "assistant"} BY <1>3, <2>1 DEF Gathers
    <3>2. streaming' = [streaming EXCEPT ![t] = @ \/ m.kind = "delta"]
      BY <2>1 DEF Gathers
    <3>3. streamed' = streamed \/ streamed' = [streamed EXCEPT ![t] = @ + 1]
      BY <2>1, <3>1 DEF Gathers
    <3>4. m.kind = "assistant" /\ streaming[t] => streamed' = streamed
      BY <2>1 DEF Gathers, Shows
    <3>5. streaming'[t] = (streaming[t] \/ m.kind = "delta")
      BY <3>2 DEF SessionTypeOK
    <3>6. \A u \in Turns : u # t => streaming'[u] = streaming[u]
      BY <3>2 DEF SessionTypeOK
    <3>7. \A u \in Turns : u # t => streamed'[u] = streamed[u]
      BY <3>3 DEF SessionTypeOK
    <3>8. streamed[t] = 0 => streamed'[t] \in {0, 1} BY <3>3 DEF SessionTypeOK
    <3>9. \A u \in Turns : streaming[u] => streaming'[u] BY <3>5, <3>6
    <3> QED BY <3>1, <3>4, <3>5, <3>6, <3>7, <3>8, <3>9
  <2>2. CASE Concludes(t, m) BY <2>2 DEF Concludes
  <2> QED BY <2>1, <2>2 DEF Receives
<1>7. m.kind \in {"delta", "assistant"} =>
         streamed[t] = 0 \/ (m.kind = "assistant" /\ streaming[t])
  BY <1>3 DEF Once, FreshMessages
<1>8. ShownOnce'
  <2>1. streamed'[t] <= 1
    <3>1. CASE streamed[t] = 0 BY <1>6, <3>1
    <3>2. CASE streamed[t] # 0 BY <1>6, <1>7, <3>2 DEF Once, ShownOnce
    <3> QED BY <3>1, <3>2
  <2> QED BY <1>6, <2>1 DEF Once, ShownOnce
<1>9. streamed[t] = 0 \/ streaming[t] =>
         streamed'[t] = 0 \/ streaming'[t] \/ m.kind = "assistant"
  BY <1>6
<1>10. FreshPrompts'
  <2>1. CASE Mute BY <1>5, <2>1 DEF FreshPrompts
  <2>2. CASE ~Mute
    <3>1. /\ cli # NoTurn => said # {}
          /\ prompts = <<>>
          /\ \A i \in 1 .. Len(stdin) : stdin[i].kind # "prompt"
      BY <1>1, <2>2 DEF Once, FreshPrompts, Unsaid
    <3>2. ASSUME cli # NoTurn, said \subseteq {"delta"}
          PROVE  /\ streamed'[cli] = 0 \/ streaming'[cli]
                 /\ hand.kind # "assistant"
                 /\ \A i \in 1 .. Len(messages') : messages'[i].kind # "assistant"
      <4>1. /\ streamed[cli] = 0 \/ streaming[cli]
            /\ hand.kind # "assistant"
            /\ \A i \in 1 .. Len(messages) : messages[i].kind # "assistant"
        BY <2>2, <3>2 DEF Once, FreshPrompts
      <4>2. at[cli] = "stream" /\ cli \in Turns
        BY <2>2, <3>2 DEF Own, OwnPrompts, SessionTypeOK
      <4>3. cli = t BY <1>3, <4>2
      <4>4. m.kind # "assistant" BY <1>3, <4>1
      <4>5. \A i \in 1 .. Len(messages') : messages'[i].kind # "assistant"
        BY <1>4, <4>1
      <4> QED BY <1>9, <4>1, <4>3, <4>4, <4>5
    <3> QED BY <1>2, <3>1, <3>2 DEF FreshPrompts, cliVars
  <2> QED BY <2>1, <2>2
<1>11. FreshMessages'
  <2>1. ASSUME NEW i \in 1 .. Len(messages')
        PROVE  /\ messages'[i].kind # "delta"
               /\ messages'[i].kind = "assistant" =>
                     /\ streamed'[messages'[i].turn] = 0 \/ streaming'[messages'[i].turn]
                     /\ hand.kind # "assistant"
                     /\ \A j \in (i + 1) .. Len(messages') :
                           messages'[j].kind # "assistant"
    <3>1. /\ i + 1 \in 2 .. Len(messages) /\ messages'[i] = messages[i + 1]
          /\ i + 1 \in 1 .. Len(messages) /\ i + 1 # 1
      BY <1>4, <2>1
    <3>2. messages'[i].kind # "delta" BY <3>1 DEF Once, FreshMessages
    <3>3. ASSUME messages'[i].kind = "assistant"
          PROVE  /\ streamed'[messages'[i].turn] = 0 \/ streaming'[messages'[i].turn]
                 /\ hand.kind # "assistant"
                 /\ \A j \in (i + 1) .. Len(messages') : messages'[j].kind # "assistant"
      <4>1. /\ messages[i + 1].turn \in Turns /\ at[messages[i + 1].turn] = "stream"
        BY <3>1, <3>3, MessageForms DEF Own, OwnMessages, SessionTypeOK
      <4>2. messages[i + 1].turn = t BY <1>3, <4>1
      <4>3. streamed[t] = 0 \/ streaming[t]
        BY <3>1, <3>3, <4>2 DEF Once, FreshMessages
      <4>4. m.kind # "assistant"
        <5>1. i + 1 \in (1 + 1) .. Len(messages) BY <3>1
        <5> QED BY <1>3, <3>1, <3>3, <5>1 DEF Once, FreshMessages
      <4>5. hand.kind # "assistant" BY <3>1, <3>3 DEF Once, FreshMessages
      <4>6. \A j \in (i + 1) .. Len(messages') : messages'[j].kind # "assistant"
        <5>1. ASSUME NEW j \in (i + 1) .. Len(messages')
              PROVE  messages'[j].kind # "assistant"
          <6>1. j \in 1 .. Len(messages') BY <1>4, <2>1, <5>1
          <6>2. /\ messages'[j] = messages[j + 1]
                /\ j + 1 \in ((i + 1) + 1) .. Len(messages)
            BY <1>4, <2>1, <5>1, <6>1
          <6> QED BY <3>1, <3>3, <6>2 DEF Once, FreshMessages
        <5> QED BY <5>1
      <4> QED BY <1>9, <3>1, <4>2, <4>3, <4>4, <4>5, <4>6
    <3> QED BY <3>2, <3>3
  <2>2. hand.kind # "delta" BY <1>1 DEF Once, FreshMessages
  <2>3. ASSUME hand.kind = "assistant"
        PROVE  streamed'[hand.turn] = 0 \/ streaming'[hand.turn]
    <3>1. hand.turn \in Turns /\ at[hand.turn] = "stream"
      BY <2>3, HandForms DEF Own, OwnMessages
    <3>2. hand.turn = t BY <1>3, <3>1
    <3>3. streamed[t] = 0 \/ streaming[t] BY <2>3, <3>2 DEF Once, FreshMessages
    <3>4. m.kind # "assistant" BY <1>3, <2>3 DEF Once, FreshMessages
    <3> QED BY <1>9, <3>2, <3>3, <3>4
  <2> QED BY <1>2, <2>1, <2>2, <2>3 DEF FreshMessages
<1> QED BY <1>8, <1>10, <1>11 DEF Once

LEMMA ReadingKeepsOnce == ASSUME SessionTypeOK, Own, Once, CliReads PROVE Once'
<1>1. /\ stdin # <<>> /\ stdin' = Tail(stdin)
      /\ UNCHANGED <<turnVars, cli, alive, readerVars>>
  BY DEF CliReads
<1>2. /\ Head(stdin) = stdin[1] /\ 1 \in 1 .. Len(stdin)
      /\ \A i \in 1 .. Len(stdin') :
            i + 1 \in 1 .. Len(stdin) /\ stdin'[i] = stdin[i + 1]
  BY <1>1, Dropped DEF SessionTypeOK
<1>3. FreshMessages' /\ ShownOnce'
  BY <1>1 DEF Once, FreshMessages, ShownOnce, turnVars, readerVars
<1>4. FreshPrompts'
  <2>1. CASE Mute BY <1>1, <2>1 DEF FreshPrompts, Mute, readerVars
  <2>2. CASE ~Mute
    <3>1. \A i \in 1 .. Len(stdin') :
             stdin'[i].kind = "prompt" => Unsaid(stdin'[i].turn)
      BY <1>2, <2>2 DEF Once, FreshPrompts
    <3>2. cli # NoTurn => UNCHANGED prompts /\ (said' = {} => said = {})
      BY <1>2, <2>2 DEF CliReads, Own, OwnPrompts, NoPrompt
    <3>3. said' \subseteq {"delta"} => said \subseteq {"delta"}
      BY DEF CliReads
    <3>4. prompts' # <<>> => Unsaid(prompts'[1])
      <4>1. CASE Head(stdin).kind = "prompt"
        <5>1. prompts = <<>> BY <1>2, <2>2, <4>1 DEF Own, OwnPrompts, NoPrompt
        <5>2. prompts' = <<Head(stdin).turn>> BY <4>1, <5>1 DEF CliReads
        <5> QED BY <1>2, <2>2, <4>1, <5>2 DEF Once, FreshPrompts
      <4>2. CASE Head(stdin).kind # "prompt"
        BY <2>2, <4>2 DEF CliReads, Once, FreshPrompts
      <4> QED BY <4>1, <4>2
    <3> QED BY <1>1, <2>2, <3>1, <3>2, <3>3, <3>4
            DEF Once, FreshPrompts, Unsaid, turnVars, readerVars
  <2> QED BY <2>1, <2>2
<1> QED BY <1>3, <1>4 DEF Once

LEMMA StartingKeepsOnce == ASSUME SessionTypeOK, Own, Once, CliStarts PROVE Once'
<1>1. /\ prompts # <<>> /\ cli' = Head(prompts) /\ prompts' = Tail(prompts) /\ said' = {}
      /\ UNCHANGED <<turnVars, alive, readerVars, stdin>>
  BY DEF CliStarts
<1>2. FreshMessages' /\ ShownOnce'
  BY <1>1 DEF Once, FreshMessages, ShownOnce, turnVars, readerVars
<1>3. FreshPrompts'
  <2>1. CASE Mute BY <1>1, <2>1 DEF FreshPrompts, Mute, readerVars
  <2>2. CASE ~Mute
    <3>1. Len(prompts) = 1 /\ NoPrompt /\ Unsaid(prompts[1])
      BY <1>1, <2>2 DEF Own, OwnPrompts, Once, FreshPrompts
    <3>2. prompts' = <<>> /\ cli' = prompts[1] BY <1>1, <3>1 DEF SessionTypeOK
    <3>3. Unsaid(cli') /\ hand.kind # "assistant" /\ Len(messages) = 0
      BY <3>1, <3>2 DEF Unsaid, Nothing
    <3> QED BY <1>1, <3>1, <3>2, <3>3
            DEF FreshPrompts, Unsaid, NoPrompt, turnVars, readerVars
  <2> QED BY <2>1, <2>2
<1> QED BY <1>2, <1>3 DEF Once

LEMMA SayingKeepsOnce == ASSUME SessionTypeOK, Own, Once, CliSays PROVE Once'
<1>1. /\ alive /\ cli # NoTurn /\ hand = Nothing /\ reader = "reads"
      /\ UNCHANGED <<turnVars, stdin, prompts, alive, reader, messages>>
  BY DEF CliSays
<1>2. PICK word \in {"delta", "assistant", "ok", "err"} :
         /\ word \in {"delta", "assistant"} =>
               word \notin said /\ said \subseteq {"delta"}
         /\ hand' = [turn |-> cli, kind |-> word]
         /\ IF word \in {"ok", "err"} THEN cli' = NoTurn /\ said' = {}
            ELSE said' = said \cup {word} /\ UNCHANGED cli
  BY DEF CliSays
<1>3. ~Mute /\ prompts = <<>> /\ NoPrompt
  BY <1>1 DEF Own, OwnPrompts, Mute
<1>4. said = {} => Unsaid(cli) BY <1>1, <1>3 DEF Once, FreshPrompts
<1>5. said \subseteq {"delta"} =>
         /\ streamed[cli] = 0 \/ streaming[cli]
         /\ \A i \in 1 .. Len(messages) : messages[i].kind # "assistant"
  BY <1>1, <1>3 DEF Once, FreshPrompts
<1>6. word = "delta" => said = {} BY <1>2
<1>7. FreshMessages'
  <2>1. hand'.kind = "delta" => messages = <<>> /\ streamed[hand'.turn] = 0
    BY <1>2, <1>4, <1>6 DEF Unsaid
  <2>2. hand'.kind = "assistant" =>
           /\ streamed[hand'.turn] = 0 \/ streaming[hand'.turn]
           /\ \A i \in 1 .. Len(messages) : messages[i].kind # "assistant"
    BY <1>2, <1>5
  <2> QED BY <1>1, <2>1, <2>2 DEF Once, FreshMessages, turnVars
<1>8. ShownOnce' BY <1>1 DEF Once, ShownOnce, turnVars
<1>9. FreshPrompts'
  <2>1. CASE word \in {"ok", "err"}
    BY <1>1, <1>2, <1>3, <2>1 DEF FreshPrompts, NoPrompt
  <2>2. CASE word \in {"delta", "assistant"}
    <3>1. cli' = cli /\ said' # {} /\ (said' \subseteq {"delta"} => word = "delta")
      BY <1>2, <2>2
    <3>2. hand'.kind = word BY <1>2
    <3> QED BY <1>1, <1>2, <1>3, <1>5, <2>2, <3>1, <3>2
            DEF FreshPrompts, NoPrompt, turnVars
  <2> QED BY <2>1, <2>2
<1> QED BY <1>7, <1>8, <1>9 DEF Once

LEMMA SendingKeepsOnce == ASSUME SessionTypeOK, Own, Once, ReaderSends PROVE Once'
<1>1. /\ hand # Nothing /\ messages' = Append(messages, hand) /\ hand' = Nothing
      /\ reader' = IF reader = "fails" THEN "done" ELSE reader
      /\ UNCHANGED <<turnVars, stdin, cliVars>>
  BY DEF ReaderSends
<1>2. hand \in Messages BY <1>1 DEF SessionTypeOK
<1>3. /\ Len(messages) \in Nat /\ Len(messages') = Len(messages) + 1
      /\ \A i \in 1 .. Len(messages') :
            \/ i \in 1 .. Len(messages) /\ messages'[i] = messages[i]
            \/ i = Len(messages) + 1 /\ messages'[i] = hand
  BY <1>1, <1>2, Added DEF SessionTypeOK
<1>4. Nothing.kind = "none" BY MessageForms
<1>5. ShownOnce' BY <1>1 DEF Once, ShownOnce, turnVars
<1>6. FreshMessages'
  <2>1. ASSUME NEW i \in 1 .. Len(messages')
        PROVE  /\ messages'[i].kind = "delta" => i = 1 /\ streamed[messages'[i].turn] = 0
               /\ messages'[i].kind = "assistant" =>
                     /\ streamed[messages'[i].turn] = 0 \/ streaming[messages'[i].turn]
                     /\ \A j \in (i + 1) .. Len(messages') :
                           messages'[j].kind # "assistant"
    <3>1. CASE i \in 1 .. Len(messages) /\ messages'[i] = messages[i]
      <4>1. \A j \in (i + 1) .. Len(messages') :
               \/ j \in (i + 1) .. Len(messages) /\ messages'[j] = messages[j]
               \/ messages'[j] = hand
        BY <1>3, <3>1
      <4> QED BY <3>1, <4>1 DEF Once, FreshMessages
    <3>2. CASE i = Len(messages) + 1 /\ messages'[i] = hand
      <4>1. \A j \in (i + 1) .. Len(messages') : FALSE BY <1>3, <3>2
      <4>2. hand.kind = "delta" => i = 1 BY <3>2 DEF Once, FreshMessages
      <4> QED BY <3>2, <4>1, <4>2 DEF Once, FreshMessages
    <3> QED BY <1>3, <2>1, <3>1, <3>2
  <2> QED BY <1>1, <1>4, <2>1 DEF FreshMessages, turnVars
<1>7. FreshPrompts'
  <2>1. CASE Mute BY <1>1, <2>1 DEF FreshPrompts, Mute, cliVars
  <2>2. CASE ~Mute
    <3>1. /\ cli # NoTurn => said # {}
          /\ prompts = <<>>
          /\ \A i \in 1 .. Len(stdin) : stdin[i].kind # "prompt"
      BY <1>1, <2>2 DEF Once, FreshPrompts, Unsaid
    <3>2. cli # NoTurn /\ said \subseteq {"delta"} =>
             /\ streamed[cli] = 0 \/ streaming[cli]
             /\ \A i \in 1 .. Len(messages') : messages'[i].kind # "assistant"
      BY <1>3, <2>2 DEF Once, FreshPrompts
    <3> QED BY <1>1, <1>4, <3>1, <3>2 DEF FreshPrompts, turnVars, cliVars
  <2> QED BY <2>1, <2>2
<1> QED BY <1>5, <1>6, <1>7 DEF Once

LEMMA ReaderEndKeepsOnce == ASSUME Once, ReaderEnds \/ ReaderFails PROVE Once'
<1>1. /\ hand = Nothing /\ reader' \in {"done", "fails"}
      /\ hand'.kind \in {"none", "broken"}
      /\ UNCHANGED <<turnVars, messages>>
  BY DEF ReaderEnds, ReaderFails, Nothing
<1>2. FreshPrompts' BY <1>1 DEF FreshPrompts, Mute
<1>3. FreshMessages' /\ ShownOnce'
  BY <1>1 DEF Once, FreshMessages, ShownOnce, turnVars
<1> QED BY <1>2, <1>3 DEF Once

LEMMA OnceKeeps ==
    ASSUME SessionTypeOK, gaveUp = {} => Own /\ Once, [SessionNext]_sessionVars
    PROVE  (gaveUp = {} => Once)'
<1> SUFFICES ASSUME gaveUp' = {} PROVE Once' OBVIOUS
<1>1. gaveUp = {} /\ \A t \in Turns : ~TimesOut(t)
  BY DEF sessionVars, turnVars, SessionNext, PostInterrupt, Interrupt, Close, CloseEnds,
         CliReads, CliStarts, CliSays, CliExits, Reader, ReaderSends, ReaderEnds,
         ReaderFails, PostMessage, Locks, Starts, Turn, Asks, Receives, ReceivesEnd,
         Reports, TimesOut
<1>2. Own /\ Once BY <1>1
<1>3. ASSUME UNCHANGED sessionVars \/ PostInterrupt \/ Close \/ CloseEnds \/ CliExits
      PROVE  Once'
  BY <1>2, <1>3, QuietKeepsOnce
     DEF sessionVars, PostInterrupt, Close, CloseEnds, CliExits, Mute, turnVars, cliVars,
         readerVars
<1>4. ASSUME NEW t \in Turns, PostMessage(t) \/ Locks(t) \/ ReceivesEnd(t) \/ Reports(t)
      PROVE  Once'
  BY <1>2, <1>4, QuietKeepsOnce
     DEF PostMessage, Locks, Starts, ReceivesEnd, Reports, Mute, cliVars, readerVars
<1> QED BY <1>1, <1>2, <1>3, <1>4, InterruptKeepsOnce, AskingKeepsOnce,
           ReceivingKeepsOnce, ReadingKeepsOnce, StartingKeepsOnce, SayingKeepsOnce,
           SendingKeepsOnce, ReaderEndKeepsOnce
    DEF SessionNext, Reader, Turn

\* The types, and while no turn is given up, one turn at a time, what comes
\* through the channel its own, and shown once.
SessionInv == SessionTypeOK /\ (gaveUp = {} => Own /\ Once)

LEMMA SessionInvariant == SessionSpec => []SessionInv
<1>1. SessionInit => SessionInv
  BY SessionTypesStart, OwnStarts, OnceStarts DEF SessionInv
<1>2. SessionInv /\ [SessionNext]_sessionVars => SessionInv'
  BY SessionTypesKeep, OwnKeeps, OnceKeeps DEF SessionInv
<1> QED BY <1>1, <1>2, PTL DEF SessionSpec

\* While no turn is given up, the result of a turn answers its own question,
\* for any number of turns and interrupts and any buffer.
THEOREM ResultsAreOwn == SessionSpec => []AnswersAreOwn
<1>1. SessionInv => AnswersAreOwn BY DEF SessionInv, Own, OwnTexts, AnswersAreOwn
<1> QED BY <1>1, SessionInvariant, PTL

\* While no turn is given up, the text of an answer is streamed once, for any
\* number of turns and interrupts and any buffer.
THEOREM ResultsAreShownOnce == SessionSpec => []AnswersAreShownOnce
<1>1. SessionInv => AnswersAreShownOnce
  BY DEF SessionInv, Once, ShownOnce, AnswersAreShownOnce
<1> QED BY <1>1, SessionInvariant, PTL
=============================================================================
