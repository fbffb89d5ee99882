------------------------------ MODULE MCDashboard ------------------------------
(* The model of Dashboard for TLC. *)
EXTENDS Dashboard
=============================================================================
