------------------------------- MODULE StackOps --------------------------------
(***************************************************************************)
(* What the stack operations of the command center (pkg/cc/api_stack.go)   *)
(* promise of the status: the abstract specification of StackControl.  A   *)
(* request is accepted by the status alone, and the goroutine it leaves    *)
(* behind writes the status again when its boot or its stop has ended.     *)
(***************************************************************************)
EXTENDS Naturals

CONSTANT MaxRequests   \* bound: the requests a behaviour accepts

ASSUME RequestsAssumption == MaxRequests \in Nat

Ops == 1 .. MaxRequests

VARIABLES
    status,   \* stackState.status; "" is the zero value
    phase     \* what an accepted request is doing

opVars == <<status, phase>>

Transitional == {"starting", "stopping"}
Settled == {"", "idle", "running"}
Busy == {"booting", "stopping", "restarting", "rebooting"}

StackOpsTypeOK ==
    /\ status \in Transitional \cup Settled
    /\ phase \in [Ops -> Busy \cup {"new", "ended"}]

StackOpsInit ==
    /\ status \in {"", "running"}
    /\ phase = [o \in Ops |-> "new"]

Moves(o, from, to, newStatus) ==
    /\ phase[o] = from
    /\ phase' = [phase EXCEPT ![o] = to]
    /\ status' = newStatus

\* The requests are numbered in their order.
Up(o) ==
    /\ status \notin Transitional \cup {"running"}
    /\ \A p \in 1 .. (o - 1) : phase[p] # "new"
    /\ Moves(o, "new", "booting", "starting")

Down(o) ==
    /\ status \notin Transitional
    /\ \A p \in 1 .. (o - 1) : phase[p] # "new"
    /\ Moves(o, "new", "stopping", "stopping")

Restart(o) ==
    /\ status \notin Transitional
    /\ \A p \in 1 .. (o - 1) : phase[p] # "new"
    /\ Moves(o, "new", "restarting", "stopping")

Cancel(o) ==
    /\ status = "starting"
    /\ \A p \in 1 .. (o - 1) : phase[p] # "new"
    /\ Moves(o, "new", "stopping", "stopping")

Boots(o) == Moves(o, "restarting", "rebooting", "starting")

\* A boot ends in "running"; a stop and a restart end in "idle".
Succeeds(o) ==
    \/ Moves(o, "booting", "ended", "running")
    \/ Moves(o, "rebooting", "ended", "idle")
    \/ Moves(o, "stopping", "ended", "idle")

Fails(o) == \E from \in Busy : Moves(o, from, "ended", "idle")

StackOpsNext ==
    \E o \in Ops : \/ Up(o) \/ Down(o) \/ Restart(o) \/ Cancel(o)
                   \/ Boots(o) \/ Succeeds(o) \/ Fails(o)

StackOpsSpec == StackOpsInit /\ [][StackOpsNext]_opVars
=============================================================================
