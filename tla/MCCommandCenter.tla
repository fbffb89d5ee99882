--------------------------- MODULE MCCommandCenter ---------------------------
(* Instances of CommandCenter for TLC.                                      *)
EXTENDS CommandCenter
=============================================================================
