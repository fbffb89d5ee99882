----------------------------- MODULE MCLabBoot -----------------------------
(* Instances of LabBoot for TLC.                                          *)
EXTENDS LabBoot

TwoNetworks == <<"mainnet", "hoodi">>
=============================================================================
