------------------------------ MODULE MCRelease ------------------------------
(***************************************************************************)
(* Release for TLC: cbt with xatu-cbt, which depends on it, and cbt-api.   *)
(***************************************************************************)
EXTENDS Release, TLC

MCDependencies == ("cbt" :> {}) @@ ("xatu-cbt" :> {"cbt"}) @@ ("cbt-api" :> {})
=============================================================================
