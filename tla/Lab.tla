--------------------------------- MODULE Lab ---------------------------------
(***************************************************************************)
(* What the commands of xcli lab have in common (pkg/config/config.go).    *)
(***************************************************************************)
EXTENDS Naturals, Sequences, FiniteSets, SequencesExt

CONSTANTS
    Networks,   \* the networks of the configuration in their order
    MaxEdits,   \* bound: edits of the configuration, or of sources
    None        \* not there: a process, a file, generated code

ASSUME NetworksAssumption ==
    Networks \in Seq(STRING) /\ IsInjective(Networks) /\ Networks # <<>>
ASSUME EditsAssumption == MaxEdits \in Nat
=============================================================================
