-------------------------- MODULE MCDiagnoseSession --------------------------
(* Instances of DiagnoseSession for TLC.                                    *)
EXTENDS DiagnoseSession
=============================================================================
