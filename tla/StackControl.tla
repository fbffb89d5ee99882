----------------------------- MODULE StackControl -----------------------------
(***************************************************************************)
(* The stack operations of the command center (pkg/cc/api_stack.go): the   *)
(* status that decides which of boot, stop, restart and cancel is          *)
(* accepted, and the background goroutine each accepted request leaves     *)
(* behind.  The backend's Up and Down (pkg/orchestrator, pkg/cc/           *)
(* backend_xatu.go) are reduced to what they do to the stack as a whole    *)
(* and to where they still look at their context.                          *)
(***************************************************************************)
EXTENDS Naturals, FiniteSets

CONSTANT MaxRequests   \* bound: the requests a behaviour accepts

ASSUME RequestsAssumption == MaxRequests \in Nat

\* The accepted requests are numbered in their order.
Ops == 1 .. MaxRequests

\* cancelBoot is nil.
NoOp == 0

VARIABLES
    status,      \* stackState.status; "" is the zero value
    lastError,   \* stackState.lastError is not empty
    progress,    \* the operations whose events stackState.progressEvents holds
    cancelBoot,  \* stackState.cancelBoot: the boot whose context it cancels
    kind,        \* the request a goroutine serves
    pc,          \* where the goroutine is
    cancelled,   \* the boots whose context was cancelled
    stack,       \* what is up of the stack itself
    overlapped   \* auxiliary: a cancel was accepted since the stack was last
                 \* taken over by a request with no other goroutine around

vars == <<status, lastError, progress, cancelBoot, kind, pc, cancelled, stack,
          overlapped>>

Transitional == {"starting", "stopping"}
Settled == {"", "idle", "running"}

\* The labels inside backend.Up, inside backend.Down, and all those at which
\* the goroutine has still to write its result to the status.
InUp == {"enter", "boot", "start"}
InDown == {"down"}
Unfinished == InUp \cup InDown \cup
              {"register", "up.ok", "up.err", "down.ok", "down.err"}

Working == {o \in Ops : pc[o] \in Unfinished}

\* Values of every variable.
TypeOK ==
    /\ status \in Transitional \cup Settled
    /\ lastError \in BOOLEAN
    /\ progress \in SUBSET Ops
    /\ cancelBoot \in Ops \cup {NoOp}
    /\ kind \in [Ops -> {"none", "up", "down", "restart", "cancel"}]
    /\ pc \in [Ops -> Unfinished \cup {"new", "defer", "done"}]
    /\ cancelled \in SUBSET Ops
    /\ stack \in {"down", "partial", "up"}
    /\ overlapped \in BOOLEAN

\* newStackContext takes a stack of which more than half the services run
\* for running.
Init ==
    /\ stack \in {"down", "partial", "up"}
    /\ status \in {"", "running"}
    /\ stack = "down" => status = ""
    /\ stack = "up" => status = "running"
    /\ lastError = FALSE
    /\ progress = {}
    /\ cancelBoot = NoOp
    /\ kind = [o \in Ops |-> "none"]
    /\ pc = [o \in Ops |-> "new"]
    /\ cancelled = {}
    /\ overlapped = FALSE

Goto(o, label) == pc' = [pc EXCEPT ![o] = label]

(***************************************************************************)
(* The request handlers.  Each holds stackState.mu from the test of the    *)
(* status to its change, and then starts the goroutine.                    *)
(***************************************************************************)

Accept(o, k, newStatus, label) ==
    /\ pc[o] = "new" /\ \A p \in 1 .. (o - 1) : pc[p] # "new"
    /\ kind' = [kind EXCEPT ![o] = k]
    /\ Goto(o, label)
    /\ status' = newStatus
    /\ progress' = {}
    /\ UNCHANGED stack

Fresh == overlapped' = (overlapped /\ Working # {})

\* Mutation of PostStackUp: a stack that is being stopped may be booted.
PostStackUpWhileStopping(o) ==
    /\ status \notin {"starting", "running"}
    /\ Accept(o, "up", "starting", "register")
    /\ lastError' = FALSE
    /\ Fresh
    /\ UNCHANGED <<cancelBoot, cancelled>>

PostStackUp(o) ==
    /\ status \notin Transitional \cup {"running"}
    /\ Accept(o, "up", "starting", "register")
    /\ lastError' = FALSE
    /\ Fresh
    /\ UNCHANGED <<cancelBoot, cancelled>>

PostStackDown(o) ==
    /\ status \notin Transitional
    /\ Accept(o, "down", "stopping", "down")
    /\ lastError' = FALSE
    /\ Fresh
    /\ UNCHANGED <<cancelBoot, cancelled>>

PostStackRestart(o) ==
    /\ status \notin Transitional
    /\ Accept(o, "restart", "stopping", "down")
    /\ lastError' = FALSE
    /\ Fresh
    /\ UNCHANGED <<cancelBoot, cancelled>>

\* The boot's context is cancelled if the boot has registered it by now; the
\* teardown starts without waiting for the boot to return.
PostStackCancel(o) ==
    /\ status = "starting"
    /\ Accept(o, "cancel", "stopping", "down")
    /\ cancelled' = IF cancelBoot = NoOp THEN cancelled
                    ELSE cancelled \cup {cancelBoot}
    /\ cancelBoot' = NoOp
    /\ overlapped' = TRUE
    /\ UNCHANGED lastError

(***************************************************************************)
(* The goroutine of a boot, and the second half of that of a restart.      *)
(***************************************************************************)

Registers(o) ==
    /\ pc[o] = "register"
    /\ cancelBoot' = o
    /\ Goto(o, "enter")
    /\ UNCHANGED <<status, lastError, progress, kind, cancelled, stack,
                   overlapped>>

\* A step of the backend reports its progress through the callback.
Backend(o, label, newStack) ==
    /\ Goto(o, label)
    /\ stack' = newStack
    /\ progress' = progress \cup {o}
    /\ UNCHANGED <<status, lastError, cancelBoot, kind, cancelled, overlapped>>

\* Up refuses a cancelled context and a missing prerequisite before it has
\* started anything; the lab's Up also refuses when a service of the stack
\* runs or a port of it is taken, the xatu stack's does not.
UpEnters(o) ==
    /\ pc[o] = "enter"
    /\ \/ Backend(o, "up.err", stack)
       \/ o \notin cancelled /\ Backend(o, "boot", stack)

\* Infrastructure and builds, with the last look at the context at the end.
UpBoots(o) ==
    /\ pc[o] = "boot"
    /\ \E s \in {stack, "partial"} :
          \/ Backend(o, "up.err", s)
          \/ o \notin cancelled /\ s # "down" /\ Backend(o, "start", s)

\* The services are started under a context of their own.
UpStarts(o) ==
    /\ pc[o] = "start"
    /\ \/ Backend(o, "up.ok", "up")
       \/ Backend(o, "up.err", stack)
       \/ Backend(o, "up.err", "partial")

\* Mutation of UpReturns: a failed boot leaves the status as it is.
UpReturnsSilently(o) ==
    /\ pc[o] \in {"up.ok", "up.err"}
    /\ status' = IF pc[o] = "up.ok" THEN "running" ELSE status
    /\ lastError' = (pc[o] = "up.err" \/ lastError)
    /\ Goto(o, "defer")
    /\ UNCHANGED <<progress, cancelBoot, kind, cancelled, stack, overlapped>>

\* Mutation of UpReturns: the result of a boot is not looked at.
UpReturnsRunning(o) ==
    /\ pc[o] \in {"up.ok", "up.err"}
    /\ status' = IF kind[o] = "up" THEN "running" ELSE "idle"
    /\ lastError' = (pc[o] = "up.err" \/ lastError)
    /\ Goto(o, "defer")
    /\ UNCHANGED <<progress, cancelBoot, kind, cancelled, stack, overlapped>>

\* A boot ends in running or, when it failed, idle; a restart in idle.
UpReturns(o) ==
    /\ pc[o] \in {"up.ok", "up.err"}
    /\ status' = IF pc[o] = "up.ok" /\ kind[o] = "up" THEN "running" ELSE "idle"
    /\ lastError' = (pc[o] = "up.err" \/ lastError)
    /\ Goto(o, "defer")
    /\ UNCHANGED <<progress, cancelBoot, kind, cancelled, stack, overlapped>>

\* The deferred reset takes whatever cancel function is there.
Defers(o) ==
    /\ pc[o] = "defer"
    /\ cancelBoot' = NoOp
    /\ Goto(o, "done")
    /\ UNCHANGED <<status, lastError, progress, kind, cancelled, stack,
                   overlapped>>

(***************************************************************************)
(* The goroutine of a stop or a cancel, and the first half of a restart.   *)
(***************************************************************************)

\* Down stops the whole stack, or fails with part of it left.
DownRuns(o) ==
    /\ pc[o] = "down"
    /\ \/ Backend(o, "down.ok", "down")
       \/ Backend(o, "down.err", stack)
       \/ stack = "up" /\ Backend(o, "down.err", "partial")

\* A stop, a cancel and a failed restart end in idle.
DownReturns(o) ==
    /\ pc[o] \in {"down.ok", "down.err"}
    /\ kind[o] = "restart" => pc[o] = "down.err"
    /\ status' = "idle"
    /\ lastError' = (pc[o] = "down.err" \/ (lastError /\ kind[o] # "cancel"))
    /\ Goto(o, "done")
    /\ UNCHANGED <<progress, cancelBoot, kind, cancelled, stack, overlapped>>

RestartBoots(o) ==
    /\ pc[o] = "down.ok" /\ kind[o] = "restart"
    /\ status' = "starting"
    /\ progress' = {}
    /\ Goto(o, "register")
    /\ UNCHANGED <<lastError, cancelBoot, kind, cancelled, stack, overlapped>>

Request(o) == \/ PostStackUp(o) \/ PostStackDown(o)
              \/ PostStackRestart(o) \/ PostStackCancel(o)

Goroutine(o) == \/ Registers(o) \/ UpEnters(o) \/ UpBoots(o) \/ UpStarts(o)
                \/ UpReturns(o) \/ Defers(o)
                \/ DownRuns(o) \/ DownReturns(o) \/ RestartBoots(o)

Next == \E o \in Ops : Request(o) \/ Goroutine(o)

Spec == Init /\ [][Next]_vars

\* Goroutines run, and the commands the backend executes end: Down has its
\* own time-out, and Up returns with the commands it waits for.
FairSpec == Spec /\ \A o \in Ops : WF_vars(Goroutine(o))

(***************************************************************************)
(* Properties.                                                             *)
(***************************************************************************)

\* Nobody is told for ever that the stack is starting or stopping: such a
\* status has a goroutine that will still write a result, whatever was
\* cancelled meanwhile (api_stack.go:45, 130, 203, 249, 373 against the writes
\* at 86-89, 159, 234, 272, 284, 405, 417).
TransitionalOnlyWhileWorking ==
    status \in Transitional => Working # {}

\* As long as no boot is cancelled the status keeps operations apart: one
\* goroutine at a time uses the backend, the status is transitional exactly
\* while it does, and the progress shown is that of this operation
\* (api_stack.go:32-48, 118-133, 191-206).
ExclusiveUnlessOverlapped ==
    ~overlapped =>
        /\ Cardinality(Working) <= 1
        /\ Working # {} <=> status \in Transitional
        /\ Cardinality(progress) <= 1 /\ (Working # {} => progress \subseteq Working)

\* A stack that is reported as running is not down, as long as no boot was
\* cancelled since a request last found it alone (api_stack.go:83-90, 323-332).
RunningIsNotDown ==
    ~overlapped /\ status = "running" => stack # "down"

\* A cancel function that is set belongs to a boot that has not returned:
\* a cancel never signals an operation that is over (stackState.cancelBoot,
\* api.go:61, api_stack.go:56-64, 258-266, 374).
CancelIsForLiveBoot ==
    cancelBoot # NoOp =>
        pc[cancelBoot] \in InUp \cup {"up.ok", "up.err", "defer"}

\* A starting or stopping stack settles (the goroutines of api_stack.go).
OperationsSettle == status \in Transitional ~> status \in Settled

\* What the promise of the operations, StackOps, sees of a request.
Phase(o) ==
    CASE pc[o] = "new"                     -> "new"
      [] pc[o] \in {"defer", "done"}       -> "ended"
      [] OTHER ->
         CASE kind[o] = "up"               -> "booting"
           [] kind[o] \in {"down", "cancel"} -> "stopping"
           [] kind[o] = "restart" ->
              IF pc[o] \in {"down", "down.ok", "down.err"} THEN "restarting"
              ELSE "rebooting"

Promise == INSTANCE StackOps WITH phase <- [o \in Ops |-> Phase(o)]

\* Whatever the goroutines and the backend do in between, the status is
\* written when a request is accepted, when the second half of a restart
\* begins and when the request ends, and as StackOps says: the dashboard of
\* module Dashboard is built on no more than that (api_stack.go:30-420).
ImplementsStackOps == Promise!StackOpsSpec
=============================================================================
