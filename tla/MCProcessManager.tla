--------------------------- MODULE MCProcessManager ---------------------------
(***************************************************************************)
(* ProcessManager for TLC: a command-center server with two request        *)
(* goroutines, which ends and starts again, and one service.               *)
(***************************************************************************)
EXTENDS ProcessManager, TLC

CONSTANTS cc, c1, c2

HomeServerOnly == (c1 :> cc) @@ (c2 :> cc)
=============================================================================
