------------------------------ MODULE Overrides ------------------------------
(***************************************************************************)
(* .cbt-overrides.yaml: what its readers make of it and what a save writes *)
(* (pkg/configtui, pkg/configgen).  The file lists models; its mode says   *)
(* what becomes of those it does not list.  The editors, the configuration *)
(* of the CBT engine and the routing of lab-backend each read it with code *)
(* of their own.                                                           *)
(***************************************************************************)

CONSTANTS
    External,         \* the external models of the xatu-cbt repository
    Transformation,   \* its transformation models
    Direct,           \* the models each transformation names in its SQL
    Values,           \* values of EXTERNAL_MODEL_MIN_TIMESTAMP
    Unset,            \* the empty one
    Blocks,           \* config blocks
    EmptyBlock,       \* config: {}
    NoBlock,
    Missing           \* there is no file

Models == External \cup Transformation

ASSUME ModelsAssumption ==
    /\ External \cap Transformation = {}
    /\ Direct \in [Transformation -> SUBSET Models]

(***************************************************************************)
(* Dependencies.                                                           *)
(***************************************************************************)

\* S holds what its transformations name.
IsClosed(S) == \A t \in S \cap Transformation : Direct[t] \subseteq S

\* The models a transformation depends on, directly or not.
Reached(t) ==
    {m \in Models : \A S \in SUBSET Models :
                        IsClosed(S) /\ Direct[t] \subseteq S => m \in S}

\* ResolveDependencyTree gives up on a model that depends on itself, and on
\* those that depend on it.
IsCircular(t) ==
    \E u \in {t} \cup (Reached(t) \cap Transformation) : u \in Reached(u)

\* Mutation of Dependencies: the list is not flattened.
DirectDependencies(t) == IF IsCircular(t) THEN {} ELSE Direct[t]

Dependencies(t) == IF IsCircular(t) THEN {} ELSE Reached(t)

\* The dependencies of enabled models.
Needed(on) == UNION {Dependencies(t) : t \in on \cap Transformation}

\* The d key of the terminal editor: one pass over the external models, then
\* one over the transformations.
EnableMissing(on) ==
    LET first == on \cup (Needed(on) \cap External)
    IN first \cup (Needed(first) \cap Transformation)

\* The page's button starts again until a round enables nothing.
EnableUntilStable(on) ==
    {m \in Models : \A S \in SUBSET Models :
                        on \subseteq S /\ Needed(S) \subseteq S => m \in S}

(***************************************************************************)
(* The file.                                                               *)
(***************************************************************************)

\* An entry disables a model only when it says so.
Entries == [enabled : {"true", "false", "unset"}, config : Blocks \cup {NoBlock}]

Listings == UNION {[D -> Entries] : D \in SUBSET Models}

\* allow: defaultEnabled is false, what is not listed is disabled.
Files == [allow : BOOLEAN, env : Values, overrides : Listings]

ASSUME ValuesAssumption ==
    /\ Unset \in Values
    /\ EmptyBlock \in Blocks /\ NoBlock \notin Blocks
    /\ Missing \notin Files

\* What LoadOverrides returns when there is no file.
Blank == [allow |-> FALSE, env |-> Unset,
          overrides |-> [m \in {} |-> [enabled |-> "unset", config |-> NoBlock]]]

LoadOverrides(f) == IF f = Missing THEN Blank ELSE f

\* Mutation of IsModelDisabled: the mode is not looked at.
IsModelListedDisabled(f, m) ==
    m \in DOMAIN f.overrides /\ f.overrides[m].enabled = "false"

IsModelDisabled(f, m) ==
    IF m \in DOMAIN f.overrides THEN f.overrides[m].enabled = "false" ELSE f.allow

\* The models an editor shows as enabled: none without a file.
Shown(f) ==
    {m \in Models : f # Missing /\ ~IsModelDisabled(f, m)}

Block(f, m) == IF m \in DOMAIN f.overrides THEN f.overrides[m].config ELSE NoBlock

\* Enabled models are listed in allowlist mode only, and only for the sake of
\* their config block.
ListedEnabled(on, allow, existing) ==
    {m \in on : allow /\ Block(existing, m) # NoBlock}

\* SaveOverridesFromEntries: on are the models the editor has enabled, envOn
\* whether it has the variable switched on, existing the file whose blocks are
\* kept.
Saved(on, allow, env, envOn, existing) ==
    [allow     |-> allow,
     env       |-> IF envOn THEN env ELSE Unset,
     overrides |->
        [m \in (Models \ on) \cup ListedEnabled(on, allow, existing) |->
            [enabled |-> IF m \in on THEN "unset" ELSE "false",
             config |-> Block(existing, m)]]]

(***************************************************************************)
(* The generated configurations.                                           *)
(***************************************************************************)

\* removeEmptyMaps drops the entries that say nothing.
SaysNothing(entry) ==
    entry.enabled = "unset" /\ entry.config \in {NoBlock, EmptyBlock}

Kept(f) == {m \in DOMAIN f.overrides : ~SaysNothing(f.overrides[m])}

\* expandDefaultEnabled lists what is not listed then, disabled, in allowlist mode.
ExpandDefaultEnabled(f) ==
    {m \in Kept(f) : f.overrides[m].enabled = "false"}
    \cup (IF f.allow THEN Models \ Kept(f) ELSE {})

\* The models the CBT engine runs: those its configuration does not disable.
EngineRuns(f) ==
    IF f = Missing THEN Models ELSE Models \ ExpandDefaultEnabled(f)

\* The tables lab-backend asks the local API for: loadModelStates keeps every
\* entry.
LocalTables(f) ==
    IF f = Missing THEN Models
    ELSE LET disabled == {m \in DOMAIN f.overrides : f.overrides[m].enabled = "false"}
         IN IF f.allow THEN Models \cap (DOMAIN f.overrides \ disabled)
            ELSE Models \ disabled
=============================================================================
