----------------------------- MODULE MCLabRebuild -----------------------------
(* Instances of LabRebuild for TLC: one network. *)
EXTENDS LabRebuild

MCNetworks == <<"mainnet">>
=============================================================================
