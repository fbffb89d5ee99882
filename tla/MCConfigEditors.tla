--------------------------- MODULE MCConfigEditors ---------------------------
(* An instance of ConfigEditors for TLC. *)
EXTENDS ConfigEditors

MCDirect == [t1 |-> {"e"}, t2 |-> {"t1"}]

\* No file; t2 disabled, t1 with a config block; allowlist mode with t1 and an
\* entry for e that says nothing.
MCInitialFiles ==
    {Missing,
     [allow |-> FALSE, env |-> "",
      overrides |-> [t1 |-> [enabled |-> "true", config |-> "b"],
                     t2 |-> [enabled |-> "false", config |-> NoBlock]]],
     [allow |-> TRUE, env |-> "1",
      overrides |-> [t1 |-> [enabled |-> "unset", config |-> "b"],
                     e  |-> [enabled |-> "unset", config |-> EmptyBlock]]]}

MCInitialDisk ==
    [sections |-> {"lab", "xatu"}, id |-> "mine",
     lab |-> [mode |-> "hybrid", password |-> "s1"]]
=============================================================================
