-------------------------- MODULE MCInstanceRegistry --------------------------
(***************************************************************************)
(* InstanceRegistry for TLC: two checkouts, two xcli processes, two slots. *)
(***************************************************************************)
EXTENDS InstanceRegistry, TLC

Symmetry == Permutations(Instances) \cup Permutations(Procs)

\* Bounds: what happens once the lock was bypassed is not explored further, and
\* one of the processes at most is a command center.
Ordered == ~bypassed /\ \A p, q \in Procs : job[p].cc /\ job[q].cc => p = q
=============================================================================
