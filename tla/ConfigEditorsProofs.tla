------------------------- MODULE ConfigEditorsProofs -------------------------
(***************************************************************************)
(* What the editors and the generators make of the overrides file, for any *)
(* models and dependencies; and what holds of the editors, their handlers  *)
(* and the generated files, whatever the models, the initial file and the  *)
(* number of requests and actions.                                         *)
(***************************************************************************)
EXTENDS ConfigEditors, TLAPS

(***************************************************************************)
(* Dependencies.                                                           *)
(***************************************************************************)

\* The dependencies of a dependency are dependencies: the lists are flattened.
LEMMA DependenciesAreTransitive ==
    ASSUME NEW t \in Transformation, NEW m \in Dependencies(t) \cap Transformation
    PROVE  Dependencies(m) \subseteq Dependencies(t)
<1>1. ~IsCircular(t) /\ m \in Reached(t)
    BY DEF Dependencies
<1>2. SUFFICES ASSUME NEW x \in Reached(m) PROVE x \in Reached(t)
    BY <1>1 DEF Dependencies
<1>3. ASSUME NEW S \in SUBSET Models, IsClosed(S), Direct[t] \subseteq S
      PROVE  x \in S
    <2>1. m \in S
        BY <1>1, <1>3 DEF Reached
    <2>2. Direct[m] \subseteq S
        BY <2>1, <1>3 DEF IsClosed
    <2> QED
        BY <2>2, <1>2, <1>3 DEF Reached
<1> QED
    BY <1>3, <1>2 DEF Reached

\* What is needed are models.
LEMMA NeededAreModels ==
    ASSUME NEW on \in SUBSET Models
    PROVE  Needed(on) \subseteq Models
BY DEF Needed, Dependencies, Reached

\* Enabling what is missing makes nothing else missing.
LEMMA NeededIsEnough ==
    ASSUME NEW on \in SUBSET Models
    PROVE  Needed(on \cup Needed(on)) \subseteq Needed(on)
<1>1. SUFFICES ASSUME NEW t \in (on \cup Needed(on)) \cap Transformation
               PROVE  Dependencies(t) \subseteq Needed(on)
    BY DEF Needed
<1>2. CASE t \in on
    BY <1>2, <1>1 DEF Needed
<1>3. CASE t \in Needed(on)
    <2>1. PICK u \in on \cap Transformation : t \in Dependencies(u)
        BY <1>3 DEF Needed
    <2>2. Dependencies(t) \subseteq Dependencies(u)
        BY <2>1, <1>1, DependenciesAreTransitive
    <2> QED
        BY <2>1, <2>2 DEF Needed
<1> QED
    BY <1>1, <1>2, <1>3

\* One pass over the external models and one over the transformations, in that
\* order, enable everything that is needed.
LEMMA OnePassIsEnough ==
    ASSUME NEW on \in SUBSET Models
    PROVE  EnableMissing(on) = on \cup Needed(on)
<1> DEFINE first == on \cup (Needed(on) \cap External)
<1>1. first \cap Transformation = on \cap Transformation
    BY ModelsAssumption
<1>2. Needed(first) = Needed(on)
    BY <1>1 DEF Needed
<1>3. EnableMissing(on) = first \cup (Needed(first) \cap Transformation)
    BY DEF EnableMissing
<1> QED
    BY <1>2, <1>3, NeededAreModels DEF Models

\* So does going on until nothing changes.
LEMMA UntilStableIsEnough ==
    ASSUME NEW on \in SUBSET Models
    PROVE  EnableUntilStable(on) = on \cup Needed(on)
<1>1. EnableUntilStable(on) \subseteq on \cup Needed(on)
    <2>1. on \cup Needed(on) \in SUBSET Models
        BY NeededAreModels
    <2>2. Needed(on \cup Needed(on)) \subseteq on \cup Needed(on)
        BY NeededIsEnough
    <2> QED
        BY <2>1, <2>2 DEF EnableUntilStable
<1>2. ASSUME NEW m \in on \cup Needed(on), NEW S \in SUBSET Models,
             on \subseteq S, Needed(S) \subseteq S
      PROVE  m \in S
    <2>1. Needed(on) \subseteq Needed(S)
        BY <1>2 DEF Needed
    <2> QED
        BY <2>1, <1>2
<1>3. on \cup Needed(on) \subseteq Models
    BY NeededAreModels
<1> QED
    BY <1>1, <1>2, <1>3 DEF EnableUntilStable

\* The buttons of the two editors enable the same models and leave nothing
\* missing (model.go:285-309, CBTOverridesEditor.tsx:205-267).
THEOREM BothFixesAgree ==
    ASSUME NEW on \in SUBSET Models
    PROVE  /\ EnableMissing(on) = EnableUntilStable(on)
           /\ Needed(EnableMissing(on)) \subseteq EnableMissing(on)
<1>1. EnableMissing(on) = on \cup Needed(on)
    BY OnePassIsEnough
<1>2. Needed(on \cup Needed(on)) \subseteq on \cup Needed(on)
    BY NeededIsEnough
<1> QED
    BY <1>1, <1>2, UntilStableIsEnough

(***************************************************************************)
(* The file.                                                               *)
(***************************************************************************)

\* A save is not the absence of a file.
LEMMA SavedIsAFile ==
    ASSUME NEW on \in SUBSET Models, NEW allow \in BOOLEAN, NEW env \in Values,
           NEW envOn \in BOOLEAN, NEW existing \in Files
    PROVE  Saved(on, allow, env, envOn, existing) \in Files
<1> DEFINE D == (Models \ on) \cup ListedEnabled(on, allow, existing)
           e(m) == [enabled |-> IF m \in on THEN "unset" ELSE "false",
                    config  |-> Block(existing, m)]
<1>1. D \in SUBSET Models
    BY DEF ListedEnabled
<1>2. \A m \in D : Block(existing, m) \in Blocks \cup {NoBlock}
    <2>1. PICK E \in SUBSET Models : existing.overrides \in [E -> Entries]
        BY DEF Files, Listings
    <2> QED
        BY <2>1 DEF Block, Entries
<1>3. \A m \in D : e(m) \in Entries
    BY <1>2 DEF Entries
<1>4. [m \in D |-> e(m)] \in Listings
    <2>1. [m \in D |-> e(m)] \in [D -> Entries]
        BY <1>3
    <2> QED
        BY <2>1, <1>1 DEF Listings
<1>5. (IF envOn THEN env ELSE Unset) \in Values
    BY ValuesAssumption
<1> QED
    BY <1>4, <1>5 DEF Saved, Files

\* A saved file reads back as the editor showed it, in allowlist mode without
\* the models that had no config block (overrides.go:136-205).
THEOREM SaveReadsBack ==
    ASSUME NEW on \in SUBSET Models, NEW allow \in BOOLEAN, NEW env \in Values,
           NEW envOn \in BOOLEAN, NEW existing \in Files
    PROVE  LET f == Saved(on, allow, env, envOn, existing)
           IN /\ Shown(f) = IF allow THEN ListedEnabled(on, allow, existing) ELSE on
              /\ LoadOverrides(f).env = IF envOn THEN env ELSE Unset
<1> DEFINE f == Saved(on, allow, env, envOn, existing)
           D == (Models \ on) \cup ListedEnabled(on, allow, existing)
<1>1. f # Missing
    BY SavedIsAFile, ValuesAssumption
<1>2. f.allow = allow /\ f.env = (IF envOn THEN env ELSE Unset)
      /\ DOMAIN f.overrides = D
    BY DEF Saved
<1>3. ASSUME NEW m \in D PROVE f.overrides[m].enabled = IF m \in on THEN "unset" ELSE "false"
    BY DEF Saved
<1>4. ListedEnabled(on, allow, existing) \subseteq on
    BY DEF ListedEnabled
<1>5. ASSUME NEW m \in Models
      PROVE  IsModelDisabled(f, m) <=>
                 m \notin (IF allow THEN ListedEnabled(on, allow, existing) ELSE on)
    <2>1. CASE m \in D
        <3>1. IsModelDisabled(f, m) <=> m \notin on
            BY <2>1, <1>2, <1>3 DEF IsModelDisabled
        <3>2. m \in on <=> m \in ListedEnabled(on, allow, existing)
            BY <2>1, <1>4
        <3> QED
            BY <3>1, <3>2
    <2>2. CASE m \notin D
        <3>1. IsModelDisabled(f, m) <=> allow
            BY <2>2, <1>2 DEF IsModelDisabled
        <3>2. m \in on /\ m \notin ListedEnabled(on, allow, existing)
            BY <2>2
        <3> QED
            BY <3>1, <3>2
    <2> QED
        BY <2>1, <2>2
<1>6. Shown(f) = IF allow THEN ListedEnabled(on, allow, existing) ELSE on
    <2>1. Shown(f) = {m \in Models : ~IsModelDisabled(f, m)}
        BY <1>1 DEF Shown
    <2>2. ListedEnabled(on, allow, existing) \subseteq Models
        BY <1>4
    <2> QED
        BY <2>1, <2>2, <1>5
<1>7. LoadOverrides(f).env = IF envOn THEN env ELSE Unset
    BY <1>1, <1>2 DEF LoadOverrides
<1> QED
    BY <1>6, <1>7

\* The engine runs exactly the models lab-backend asks the local API for, as
\* long as no allowlist entry says nothing: such an entry enables its model for
\* lab-backend alone (generator.go:206, 359-410, 416-459, 567, 575-596).
THEOREM EngineRunsWhatIsRouted ==
    ASSUME NEW f \in Files \cup {Missing},
           f # Missing /\ f.allow =>
               \A m \in DOMAIN f.overrides : ~SaysNothing(f.overrides[m])
    PROVE  EngineRuns(f) = LocalTables(f)
<1>1. CASE f = Missing
    BY <1>1 DEF EngineRuns, LocalTables
<1>2. CASE f # Missing
    <2> DEFINE O == DOMAIN f.overrides
               disabled == {m \in O : f.overrides[m].enabled = "false"}
    <2>1. O \subseteq Models
        BY <1>2 DEF Files, Listings
    <2>2. {m \in Kept(f) : f.overrides[m].enabled = "false"} = disabled
        BY DEF Kept, SaysNothing
    <2>3. CASE f.allow
        <3>1. Kept(f) = O
            BY <2>3, <1>2 DEF Kept
        <3>2. EngineRuns(f) = Models \ (disabled \cup (Models \ O))
            BY <3>1, <2>2, <2>3, <1>2 DEF EngineRuns, ExpandDefaultEnabled
        <3>3. LocalTables(f) = Models \cap (O \ disabled)
            BY <2>3, <1>2 DEF LocalTables
        <3> QED
            BY <3>2, <3>3
    <2>4. CASE ~f.allow
        <3>1. EngineRuns(f) = Models \ disabled
            BY <2>2, <2>4, <1>2 DEF EngineRuns, ExpandDefaultEnabled
        <3>2. LocalTables(f) = Models \ disabled
            BY <2>4, <1>2 DEF LocalTables
        <3> QED
            BY <3>1, <3>2
    <2> QED
        BY <2>3, <2>4
<1> QED
    BY <1>1, <1>2

(***************************************************************************)
(* The inductive invariant: what an editor shows, what it sends and what   *)
(* the last save was made of are models and files.                         *)
(***************************************************************************)

TuiStates ==
    [open : {TRUE}, on : SUBSET Models, env : Values, envOn : BOOLEAN,
     existing : Files, dirty : BOOLEAN, asks : BOOLEAN]

TuiOK == tui = Closed \/ tui \in TuiStates

OverridesPages ==
    [tab : {"overrides"}, loaded : {FALSE}]
    \cup [tab : {"overrides"}, loaded : {TRUE}, on : SUBSET Models,
          allow : BOOLEAN, env : Values, envOn : BOOLEAN, saving : BOOLEAN]

PageOK ==
    /\ "tab" \in DOMAIN page
    /\ page = [x \in DOMAIN page |-> page[x]]
    /\ page.tab = "overrides" => page \in OverridesPages

Bodies == [on : SUBSET Models, allow : BOOLEAN, env : Values, envOn : BOOLEAN]

RequestOK(q) ==
    /\ "kind" \in DOMAIN q
    /\ q.kind = "overrides" =>
          /\ {"pc", "body", "draft", "mine"} \subseteq DOMAIN q
          /\ q.body \in Bodies
          /\ q.pc = "save" => q.draft \in Files

RequestsOK ==
    /\ DOMAIN requests = Slots
    /\ requests = [r \in Slots |-> requests[r]]
    /\ \A r \in Slots : RequestOK(requests[r])

\* The file is what the last save wrote.
LastOK ==
    last # NoSave =>
        /\ last.on \in SUBSET Models
        /\ last.allow \in BOOLEAN /\ last.env \in Values /\ last.envOn \in BOOLEAN
        /\ last.existing \in Files
        /\ file = Saved(last.on, last.allow, last.env, last.envOn, last.existing)

IInv ==
    /\ file \in Files \cup {Missing}
    /\ TuiOK
    /\ PageOK
    /\ RequestsOK
    /\ LastOK

(***************************************************************************)
(* Lemmas.                                                                 *)
(***************************************************************************)

\* The absence of a file reads as an empty one.
LEMMA BlankIsAFile == Blank \in Files
<1>1. [m \in {} |-> [enabled |-> "unset", config |-> NoBlock]] \in Listings
    BY DEF Listings
<1> QED
    BY <1>1, ValuesAssumption DEF Blank, Files

\* What an editor loads.
LEMMA LoadedIsAFile ==
    ASSUME NEW f \in Files \cup {Missing}
    PROVE  LoadOverrides(f) \in Files
BY BlankIsAFile DEF LoadOverrides

LEMMA ReadingIsAState ==
    ASSUME NEW f \in Files \cup {Missing}
    PROVE  Reading(f) \in TuiStates
<1>1. LoadOverrides(f) \in Files
    BY LoadedIsAFile
<1>2. LoadOverrides(f).env \in Values
    BY <1>1 DEF Files
<1>3. Shown(f) \in SUBSET Models
    BY DEF Shown
<1> QED
    BY <1>1, <1>2, <1>3 DEF Reading, TuiStates

\* The fixes enable models.
LEMMA FixedAreModels ==
    ASSUME NEW on \in SUBSET Models
    PROVE  /\ EnableMissing(on) \in SUBSET Models
           /\ EnableUntilStable(on) \in SUBSET Models
BY OnePassIsEnough, UntilStableIsEnough, NeededAreModels

\* A page of another tab stays of another tab when a field of it changes.
LEMMA FieldsOfAPage ==
    ASSUME PageOK, page.tab # "overrides", NEW x \in STRING, x # "tab", NEW v
    PROVE  LET p == [page EXCEPT ![x] = v]
           IN /\ "tab" \in DOMAIN p /\ p = [y \in DOMAIN p |-> p[y]]
              /\ p.tab # "overrides"
BY DEF PageOK

\* A request moves on; one for the overrides reaches its save through
\* LoadExisting alone.
LEMMA RequestMoves ==
    ASSUME NEW q, RequestOK(q), NEW label, q.kind = "overrides" => label # "save"
    PROVE  RequestOK([q EXCEPT !.pc = label])
BY DEF RequestOK

LEMMA RequestDrafts ==
    ASSUME NEW q, RequestOK(q), NEW label, NEW draft,
           q.kind = "overrides" => label # "save" \/ draft \in Files
    PROVE  RequestOK([q EXCEPT !.pc = label, !.draft = draft])
BY DEF RequestOK

LEMMA OneRequest ==
    ASSUME RequestsOK, NEW r \in Slots, NEW q, RequestOK(q),
           requests' = [requests EXCEPT ![r] = q]
    PROVE  RequestsOK'
BY DEF RequestsOK

LEMMA GotoKeeps ==
    ASSUME RequestsOK, NEW r \in Slots, NEW label, Goto(r, label),
           requests[r].kind = "overrides" => label # "save"
    PROVE  RequestsOK'
<1>1. RequestOK([requests[r] EXCEPT !.pc = label])
    BY RequestMoves DEF RequestsOK
<1> QED
    BY <1>1, OneRequest DEF Goto

\* Sending: the body of a save of the overrides is typed.
LEMMA SendKeeps ==
    ASSUME RequestsOK, NEW kind, NEW body, NEW label, Send(kind, body, label),
           kind = "overrides" => body \in Bodies /\ label # "save"
    PROVE  RequestsOK'
<1>1. PICK r \in Slots : requests' = [requests EXCEPT ![r] =
              [kind |-> kind, body |-> body, pc |-> label, draft |-> NoText,
               mine |-> TRUE]]
    BY DEF Send
<1>2. RequestOK([kind |-> kind, body |-> body, pc |-> label, draft |-> NoText,
                 mine |-> TRUE])
    BY DEF RequestOK
<1> QED
    BY <1>1, <1>2, OneRequest

(***************************************************************************)
(* The invariant holds.                                                    *)
(***************************************************************************)

LEMMA InitIInv == Init => IInv
<1>1. Init => file \in Files \cup {Missing}
    BY InitialFilesAssumption DEF Init
<1>2. Init => TuiOK /\ PageOK /\ LastOK
    BY DEF Init, TuiOK, PageOK, LastOK, NoPage
<1>3. Init => RequestsOK
    BY DEF Init, RequestsOK, RequestOK, Idle
<1> QED
    BY <1>1, <1>2, <1>3 DEF IInv

\* The keys of the terminal editor.
LEMMA TuiKeeps ==
    ASSUME IInv, Run \/ Choose \/ FixTui \/ Type \/ SaveTui \/ Reload \/ Quit
    PROVE  IInv'
<1> USE DEF IInv, TuiOnly, serverVars
<1>1. PageOK' /\ RequestsOK'
    BY DEF Run, Choose, FixTui, Type, SaveTui, Reload, Quit, PageOK, RequestsOK
<1>2. ASSUME Listens PROVE tui \in TuiStates
    BY <1>2 DEF TuiOK, Listens, Closed
<1>3. CASE Run \/ Reload
    <2>1. tui' = Reading(file) /\ file' = file /\ last' = last
        BY <1>3 DEF Run, Reload
    <2> QED
        BY <1>1, <2>1, ReadingIsAState DEF TuiOK, LastOK
<1>4. CASE Choose
    <2>1. tui \in TuiStates /\ file' = file /\ last' = last
        BY <1>2, <1>4 DEF Choose
    <2>2. PICK on \in SUBSET Models : tui' = [tui EXCEPT !.on = on, !.dirty = TRUE]
        BY <1>4, <2>1 DEF Choose, TuiStates
    <2>3. tui' \in TuiStates
        BY <2>1, <2>2 DEF TuiStates
    <2> QED
        BY <1>1, <2>1, <2>3 DEF TuiOK, LastOK
<1>5. CASE FixTui
    <2>1. tui \in TuiStates /\ file' = file /\ last' = last
          /\ tui' = [tui EXCEPT !.on = EnableMissing(tui.on), !.dirty = TRUE]
        BY <1>2, <1>5 DEF FixTui
    <2>2. EnableMissing(tui.on) \in SUBSET Models
        BY <2>1, FixedAreModels DEF TuiStates
    <2>3. tui' \in TuiStates
        BY <2>1, <2>2 DEF TuiStates
    <2> QED
        BY <1>1, <2>1, <2>3 DEF TuiOK, LastOK
<1>6. CASE Type
    <2>1. tui \in TuiStates /\ file' = file /\ last' = last
        BY <1>2, <1>6 DEF Type
    <2>2. tui' \in TuiStates
        BY <1>6, <2>1 DEF Type, TuiStates
    <2> QED
        BY <1>1, <2>1, <2>2 DEF TuiOK, LastOK
<1>7. CASE SaveTui
    <2> DEFINE ex == tui.existing
               f == Saved(tui.on, ex.allow, tui.env, tui.envOn, ex)
    <2>1. /\ tui \in TuiStates
          /\ file' = f
          /\ last' = [by |-> "tui", on |-> tui.on, allow |-> ex.allow,
                      env |-> tui.env, envOn |-> tui.envOn, existing |-> ex]
          /\ tui' = [tui EXCEPT !.dirty = FALSE]
        BY <1>2, <1>7 DEF SaveTui
    <2>2. /\ tui.on \in SUBSET Models /\ tui.env \in Values /\ tui.envOn \in BOOLEAN
          /\ ex \in Files
        BY <2>1 DEF TuiStates
    <2>3. ex.allow \in BOOLEAN
        BY <2>2 DEF Files
    <2>4. f \in Files
        BY <2>2, <2>3, SavedIsAFile
    <2>5. tui' \in TuiStates
        BY <2>1 DEF TuiStates
    <2>6. LastOK'
        <3> HIDE DEF f
        <3>1. /\ last'.on = tui.on /\ last'.allow = ex.allow /\ last'.env = tui.env
              /\ last'.envOn = tui.envOn /\ last'.existing = ex
            BY <2>1
        <3>2. file' = Saved(last'.on, last'.allow, last'.env, last'.envOn, last'.existing)
            BY <2>1, <3>1 DEF f
        <3> QED
            BY <3>1, <3>2, <2>2, <2>3 DEF LastOK
    <2> QED
        BY <1>1, <2>1, <2>4, <2>5, <2>6 DEF TuiOK
<1>8. CASE Quit
    <2>1. file' = file /\ last' = last
        BY <1>8 DEF Quit
    <2>2. TuiOK'
        <3>1. tui \in TuiStates
            BY <1>8 DEF Quit, TuiOK, Closed
        <3> QED
            BY <1>8, <3>1 DEF Quit, TuiOK, TuiStates
    <2> QED
        BY <1>1, <2>1, <2>2 DEF LastOK
<1> QED
    BY <1>3, <1>4, <1>5, <1>6, <1>7, <1>8

\* A tab is opened, and loads.
LEMMA OpenKeeps ==
    ASSUME IInv,
           \/ \E tab \in {"overrides", "lab", "files"} : OpenTab(tab)
           \/ LoadOverridesTab \/ LoadLabTab
    PROVE  IInv'
<1> USE DEF IInv
<1>1. CASE \E tab \in {"overrides", "lab", "files"} : OpenTab(tab)
    <2>1. PICK tab \in {"overrides", "lab", "files"} : OpenTab(tab)
        BY <1>1
    <2>2. file' = file /\ tui' = tui /\ last' = last
        BY <2>1 DEF OpenTab, auxVars
    <2>3. PageOK'
        BY <2>1 DEF OpenTab, PageOK, OverridesPages
    <2>4. RequestsOK'
        BY <2>1 DEF OpenTab, RequestsOK, RequestOK, Idle
    <2> QED
        BY <2>2, <2>3, <2>4 DEF TuiOK, LastOK
<1>2. CASE LoadOverridesTab
    <2>1. file' = file /\ tui' = tui /\ last' = last /\ requests' = requests
        BY <1>2 DEF LoadOverridesTab, PageOnly, auxVars, serverVars
    <2>2. LoadOverrides(file) \in Files /\ Shown(file) \in SUBSET Models
        BY LoadedIsAFile DEF Shown
    <2>3. LoadOverrides(file).allow \in BOOLEAN /\ LoadOverrides(file).env \in Values
        BY <2>2 DEF Files
    <2>4. page' \in OverridesPages
        BY <1>2, <2>2, <2>3 DEF LoadOverridesTab, OverridesPages
    <2>5. PageOK'
        BY <1>2, <2>4 DEF LoadOverridesTab, PageOK
    <2> QED
        BY <2>1, <2>5 DEF TuiOK, LastOK, RequestsOK
<1>3. CASE LoadLabTab
    <2>1. file' = file /\ tui' = tui /\ last' = last /\ requests' = requests
        BY <1>3 DEF LoadLabTab, PageOnly, auxVars, serverVars
    <2>2. PageOK'
        BY <1>3 DEF LoadLabTab, PageOK
    <2> QED
        BY <2>1, <2>2 DEF TuiOK, LastOK, RequestsOK
<1> QED
    BY <1>1, <1>2, <1>3

\* A loaded page of the overrides.
LEMMA LoadedPage ==
    ASSUME PageOK, IsEdited("overrides")
    PROVE  page \in [tab : {"overrides"}, loaded : {TRUE}, on : SUBSET Models,
                     allow : BOOLEAN, env : Values, envOn : BOOLEAN,
                     saving : BOOLEAN]
BY DEF PageOK, IsEdited, OverridesPages

\* Whatever tab is open, the end of a save is a page.
LEMMA EndOfASave ==
    ASSUME PageOK, NEW saving \in BOOLEAN, page' = [page EXCEPT !.saving = saving]
    PROVE  PageOK'
<1>1. CASE page.tab # "overrides"
    BY <1>1 DEF PageOK
<1>2. CASE page.tab = "overrides"
    <2>1. page' \in OverridesPages
        BY <1>2 DEF PageOK, OverridesPages
    <2> QED
        BY <1>2, <2>1 DEF PageOK
<1> QED
    BY <1>1, <1>2

\* The user edits a tab.
LEMMA EditKeeps ==
    ASSUME IInv, EditOverrides \/ FixPage \/ EditLab \/ EditText
    PROVE  IInv'
<1> USE DEF IInv, PageOnly, auxVars, serverVars
<1>1. file' = file /\ tui' = tui /\ last' = last /\ requests' = requests
    BY DEF EditOverrides, FixPage, EditLab, EditText
<1>2. PageOK'
    <2> DEFINE P == [tab : {"overrides"}, loaded : {TRUE}, on : SUBSET Models,
                     allow : BOOLEAN, env : Values, envOn : BOOLEAN,
                     saving : BOOLEAN]
    <2>1. CASE EditOverrides
        <3>1. page \in P
            BY <2>1, LoadedPage DEF EditOverrides
        <3>2. External \in SUBSET Models /\ Transformation \in SUBSET Models
            BY DEF Models
        <3>8. ASSUME NEW on \in SUBSET Models, page' = [page EXCEPT !.on = on]
              PROVE  PageOK'
            BY <3>1, <3>8 DEF PageOK, OverridesPages
        <3>3. CASE \E m \in Models : page' = [page EXCEPT !.on = (@ \ {m}) \cup ({m} \ @)]
            <4>1. PICK m \in Models :
                      page' = [page EXCEPT !.on = (page.on \ {m}) \cup ({m} \ page.on)]
                BY <3>3
            <4>2. (page.on \ {m}) \cup ({m} \ page.on) \in SUBSET Models
                BY <3>1
            <4> QED
                BY <4>1, <4>2, <3>8
        <3>4. CASE \E section \in {External, Transformation} :
                      \/ page' = [page EXCEPT !.on = @ \cup section]
                      \/ page' = [page EXCEPT !.on = @ \ section]
            <4>1. PICK section \in {External, Transformation} :
                      \/ page' = [page EXCEPT !.on = page.on \cup section]
                      \/ page' = [page EXCEPT !.on = page.on \ section]
                BY <3>4
            <4>2. /\ page.on \cup section \in SUBSET Models
                  /\ page.on \ section \in SUBSET Models
                BY <3>1, <3>2
            <4> QED
                BY <4>1, <4>2, <3>8
        <3>5. CASE page' = [page EXCEPT !.allow = ~@]
            BY <3>1, <3>5 DEF PageOK, OverridesPages
        <3>6. CASE \E env \in Values : page' = [page EXCEPT !.env = env]
            BY <3>1, <3>6 DEF PageOK, OverridesPages
        <3>7. CASE page' = [page EXCEPT !.envOn = ~@]
            BY <3>1, <3>7 DEF PageOK, OverridesPages
        <3> QED
            BY <2>1, <3>3, <3>4, <3>5, <3>6, <3>7 DEF EditOverrides
    <2>2. CASE FixPage
        <3>1. page \in P /\ page' = [page EXCEPT !.on = EnableUntilStable(page.on)]
            BY <2>2, LoadedPage DEF FixPage
        <3>2. EnableUntilStable(page.on) \in SUBSET Models
            BY <3>1, FixedAreModels
        <3> QED
            BY <3>1, <3>2 DEF PageOK, OverridesPages
    <2>3. CASE EditLab
        BY <2>3 DEF EditLab, IsEdited, PageOK
    <2>4. CASE EditText
        BY <2>4 DEF EditText, HasPanel, PageOK
    <2> QED
        BY <2>1, <2>2, <2>3, <2>4
<1> QED
    BY <1>1, <1>2 DEF TuiOK, LastOK, RequestsOK

\* The user of the page saves.
LEMMA SaveKeeps ==
    ASSUME IInv, SaveOverrides \/ SaveLab \/ Regenerate \/ SaveText \/ RemoveText
    PROVE  IInv'
<1> USE DEF IInv, SendOnly, auxVars
<1>1. file' = file /\ tui' = tui /\ last' = last
    BY DEF SaveOverrides, SaveLab, Regenerate, SaveText, RemoveText
<1>2. PageOK'
    <2>1. CASE SaveOverrides \/ SaveLab \/ SaveText
        BY <2>1, EndOfASave DEF SaveOverrides, SaveLab, SaveText
    <2>2. CASE Regenerate \/ RemoveText
        BY <2>2 DEF Regenerate, RemoveText, PageOK
    <2> QED
        BY <2>1, <2>2
<1>3. RequestsOK'
    <2>1. CASE SaveOverrides
        <3> DEFINE body == [on |-> page.on, allow |-> page.allow, env |-> page.env,
                            envOn |-> page.envOn]
        <3>1. body \in Bodies
            BY <2>1, LoadedPage DEF SaveOverrides, Bodies
        <3>2. Send("overrides", body, "lock")
            BY <2>1 DEF SaveOverrides
        <3> HIDE DEF body
        <3> QED
            BY <3>1, <3>2, SendKeeps
    <2>2. CASE SaveLab
        BY <2>2, SendKeeps DEF SaveLab
    <2>3. CASE Regenerate
        BY <2>3, SendKeeps DEF Regenerate
    <2>4. CASE SaveText
        BY <2>4, SendKeeps DEF SaveText
    <2>5. CASE RemoveText
        BY <2>5, SendKeeps DEF RemoveText
    <2> QED
        BY <2>1, <2>2, <2>3, <2>4, <2>5
<1> QED
    BY <1>1, <1>2, <1>3 DEF TuiOK, LastOK

\* The viewer.
LEMMA ViewerKeeps ==
    ASSUME IInv, NEW f \in Outputs, NEW then \in {"select", "refresh"},
           Select(f) \/ Arrives(f, then) \/ ArrivesNot(f, then)
    PROVE  IInv'
<1> USE DEF IInv, PageOnly, auxVars, serverVars
<1>1. file' = file /\ tui' = tui /\ last' = last /\ requests' = requests
    BY DEF Select, Arrives, ArrivesNot
<1>2. page.tab = "files"
    BY DEF Select, Arrives, ArrivesNot
<1>3. /\ DOMAIN page' = DOMAIN page /\ page'.tab = page.tab
      /\ page' = [x \in DOMAIN page' |-> page'[x]]
    <2>1. CASE Select(f)
        BY <2>1, <1>2 DEF Select, PageOK
    <2>2. CASE Arrives(f, then)
        BY <2>2, <1>2 DEF Arrives, PageOK
    <2>3. CASE ArrivesNot(f, then)
        BY <2>3, <1>2 DEF ArrivesNot, PageOK
    <2> QED
        BY <2>1, <2>2, <2>3
<1> QED
    BY <1>1, <1>2, <1>3 DEF TuiOK, LastOK, RequestsOK, PageOK

\* The handlers move on; the overrides are saved by WriteOverrides alone, of
\* what LoadExisting loaded.
LEMMA HandlersKeep ==
    ASSUME IInv, NEW r \in Slots,
           \/ Lock(r) \/ Refused(r) \/ LoadExisting(r) \/ WriteOverrides(r)
           \/ Apply(r) \/ WriteConfig(r) \/ RecreateOrchestrator(r) \/ PutText(r)
           \/ DeleteText(r) \/ Begin(r) \/ Generate(r) \/ GenerateFails(r)
    PROVE  IInv'
<1> USE DEF IInv, Rest
<1>1. TuiOK' /\ PageOK'
    BY DEF Lock, Refused, LoadExisting, WriteOverrides, Apply, WriteConfig,
           RecreateOrchestrator, PutText, DeleteText, Begin, Generate, Read,
           Write, GenerateFails, TuiOK, PageOK
<1>2. CASE \/ Lock(r) \/ Refused(r) \/ Apply(r) \/ WriteConfig(r)
           \/ RecreateOrchestrator(r) \/ PutText(r) \/ DeleteText(r) \/ Begin(r)
           \/ GenerateFails(r)
    <2>1. file' = file /\ last' = last
        BY <1>2 DEF Lock, Refused, Apply, WriteConfig, RecreateOrchestrator,
                    PutText, DeleteText, Begin, GenerateFails
    <2>2. \/ \E label \in {"load", "answer", "recreate", "generate", "cbt.read"} :
                 Goto(r, label)
          \/ requests[r].kind = "lab" /\ Goto(r, "save")
        BY <1>2 DEF Lock, Refused, Apply, WriteConfig, RecreateOrchestrator,
                    PutText, DeleteText, Begin, GenerateFails, At
    <2>3. RequestsOK'
        BY <2>2, GotoKeeps
    <2> QED
        BY <1>1, <2>1, <2>3 DEF LastOK
<1>3. CASE LoadExisting(r)
    <2>1. file' = file /\ last' = last
        BY <1>3 DEF LoadExisting
    <2>2. LoadOverrides(file) \in Files
        BY LoadedIsAFile
    <2>3. RequestOK(requests[r])
        BY DEF RequestsOK
    <2> DEFINE q == [requests[r] EXCEPT !.pc = "save", !.draft = LoadOverrides(file)]
    <2>4. RequestOK(q)
        BY <2>2, <2>3, RequestDrafts
    <2>5. requests' = [requests EXCEPT ![r] = q]
        BY <1>3 DEF LoadExisting
    <2> HIDE DEF q
    <2> QED
        BY <1>1, <2>1, <2>4, <2>5, OneRequest DEF LastOK
<1>4. CASE WriteOverrides(r)
    <2> DEFINE b == requests[r].body
               ex == requests[r].draft
               f == Saved(b.on, b.allow, b.env, b.envOn, ex)
    <2>1. b \in Bodies /\ ex \in Files
        BY <1>4 DEF WriteOverrides, At, RequestsOK, RequestOK
    <2>2. /\ b.on \in SUBSET Models /\ b.allow \in BOOLEAN /\ b.env \in Values
          /\ b.envOn \in BOOLEAN
        BY <2>1 DEF Bodies
    <2>3. /\ file' = f
          /\ last' = [by |-> "page", on |-> b.on, allow |-> b.allow, env |-> b.env,
                      envOn |-> b.envOn, existing |-> ex]
          /\ Goto(r, "generate")
        BY <1>4 DEF WriteOverrides
    <2>4. f \in Files
        BY <2>1, <2>2, SavedIsAFile
    <2>5. LastOK'
        <3> HIDE DEF f, b, ex
        <3>1. /\ last'.on = b.on /\ last'.allow = b.allow /\ last'.env = b.env
              /\ last'.envOn = b.envOn /\ last'.existing = ex
            BY <2>3
        <3>2. file' = Saved(last'.on, last'.allow, last'.env, last'.envOn, last'.existing)
            BY <2>3, <3>1 DEF f
        <3> QED
            BY <3>1, <3>2, <2>1, <2>2 DEF LastOK
    <2>6. RequestsOK'
        BY <2>3, GotoKeeps
    <2> QED
        BY <1>1, <2>3, <2>4, <2>5, <2>6
<1>5. CASE Generate(r)
    <2>1. file' = file /\ last' = last
        BY <1>5 DEF Generate, Read, Write
    <2>2. CASE \/ Read(r, "cbt", "cbt.read", "cbt.write")
               \/ Read(r, "backend", "backend.read", "backend.write")
        <3>1. PICK f \in Outputs, next \in {"cbt.write", "backend.write"} :
                  requests' = [requests EXCEPT ![r].pc = next, ![r].draft = Output(f)]
            BY <2>2 DEF Read, Outputs
        <3> DEFINE q == [requests[r] EXCEPT !.pc = next, !.draft = Output(f)]
        <3>2. RequestOK(q)
            BY RequestDrafts DEF RequestsOK
        <3>3. requests' = [requests EXCEPT ![r] = q]
            BY <3>1
        <3> HIDE DEF q
        <3>4. RequestsOK'
            BY <3>2, <3>3, OneRequest
        <3> QED
            BY <1>1, <2>1, <3>4 DEF LastOK
    <2>3. CASE \/ Write(r, "cbt", "cbt.write", "backend.read")
               \/ Write(r, "backend", "backend.write", "answer")
        <3>1. \E label \in {"backend.read", "answer"} : Goto(r, label)
            BY <2>3 DEF Write
        <3>2. RequestsOK'
            BY <3>1, GotoKeeps
        <3> QED
            BY <1>1, <2>1, <3>2 DEF LastOK
    <2> QED
        BY <1>5, <2>2, <2>3 DEF Generate
<1> QED
    BY <1>2, <1>3, <1>4, <1>5

\* The answer reaches the page.
LEMMA AnswerKeeps ==
    ASSUME IInv, NEW r \in Slots, Answer(r)
    PROVE  IInv'
<1> USE DEF IInv, auxVars
<1>1. file' = file /\ tui' = tui /\ last' = last
    BY DEF Answer
<1>2. PageOK'
    <2>1. page' = page \/ page' = [page EXCEPT !.saving = FALSE]
        BY DEF Answer
    <2> QED
        BY <2>1, EndOfASave DEF PageOK
<1>3. RequestsOK'
    <2>1. requests' = [requests EXCEPT ![r] = Idle] /\ RequestOK(Idle)
        BY DEF Answer, RequestOK, Idle
    <2> QED
        BY <2>1, OneRequest
<1> QED
    BY <1>1, <1>2, <1>3 DEF TuiOK, LastOK

LEMMA NextIInv == IInv /\ [Next]_vars => IInv'
<1> SUFFICES ASSUME IInv, [Next]_vars PROVE IInv'
    OBVIOUS
<1>1. CASE Run \/ Choose \/ FixTui \/ Type \/ SaveTui \/ Reload \/ Quit
    BY <1>1, TuiKeeps
<1>2. CASE \/ \E tab \in {"overrides", "lab", "files"} : OpenTab(tab)
           \/ LoadOverridesTab \/ LoadLabTab
    BY <1>2, OpenKeeps
<1>3. CASE EditOverrides \/ FixPage \/ EditLab \/ EditText
    BY <1>3, EditKeeps
<1>4. CASE SaveOverrides \/ SaveLab \/ Regenerate \/ SaveText \/ RemoveText
    BY <1>4, SaveKeeps
<1>5. CASE \E f \in Outputs : Select(f) \/ \E then \in {"select", "refresh"} :
                                    Arrives(f, then) \/ ArrivesNot(f, then)
    BY <1>5, ViewerKeeps
<1>6. CASE SaveXatu
    BY <1>6 DEF SaveXatu, IInv, TuiOK, PageOK, RequestsOK, LastOK, auxVars
<1>7. CASE \E r \in Slots :
          \/ Lock(r) \/ Refused(r) \/ LoadExisting(r) \/ WriteOverrides(r)
          \/ Apply(r) \/ WriteConfig(r) \/ RecreateOrchestrator(r) \/ PutText(r)
          \/ DeleteText(r) \/ Begin(r) \/ Generate(r) \/ GenerateFails(r)
    BY <1>7, HandlersKeep
<1>8. CASE \E r \in Slots : Answer(r)
    BY <1>8, AnswerKeeps
<1>9. CASE UNCHANGED vars
    BY <1>9 DEF IInv, TuiOK, PageOK, RequestsOK, LastOK, vars, serverVars, auxVars
<1> QED
    BY <1>1, <1>2, <1>3, <1>4, <1>5, <1>6, <1>7, <1>8, <1>9 DEF Next, HandleKeyPress

LEMMA InvariantHolds == Spec => []IInv
BY InitIInv, NextIInv, PTL DEF Spec

(***************************************************************************)
(* The second inductive invariant: what is saved is generated from, or     *)
(* will be; and where the custom texts come from.                          *)
(***************************************************************************)

Kinds == {"overrides", "lab", "regenerate", "put", "delete"}
Resting == {"lock", "load", "save", "recreate", "generate", "answer"}
Generating == {"cbt.read", "cbt.write", "backend.read", "backend.write"}

Texts == Outputs \cup {NoText}
LabBodies == [mode : {"local", "hybrid"}, password : Passwords \cup {Mask}]
TextBodies == [name : Outputs, text : Texts]

\* A content, if it is a copy of a custom text, is of one of S.
CopyOf(S, content) == content[1] = "custom" => content[2] \in S

Shaped(q) ==
    \/ q = Idle
    \/ /\ q = [kind |-> q.kind, body |-> q.body, pc |-> q.pc, draft |-> q.draft,
               mine |-> q.mine]
       /\ q.kind \in Kinds /\ q.pc \in Resting \cup Generating /\ q.mine \in BOOLEAN
       /\ q.kind = "lab" => q.body \in LabBodies
       /\ q.kind \in {"put", "delete"} => q.body \in TextBodies
       /\ q.pc \in {"cbt.write", "backend.write"} => CopyOf(Outputs, q.draft)

Shapes ==
    /\ DOMAIN requests = Slots
    /\ requests = [r \in Slots |-> requests[r]]
    /\ \A r \in Slots : Shaped(requests[r])

\* A request holds the handlers' lock; it generates; it has changed something
\* and will generate.
InLock(q) == q # Idle /\ q.kind \in LockedKinds /\ q.pc \notin {"lock", "answer"}
Generates(q) == q # Idle /\ q.pc \in Generating
Due(q) ==
    /\ q # Idle
    /\ q.pc = "generate" \/ (q.kind = "lab" /\ q.pc \in {"save", "recreate"})

\* The request that generates has kept up with what is saved.
KeepsUp(q) ==
    /\ Generates(q)
    /\ q.pc \in {"backend.read", "backend.write"} => outputs["cbt"] = Output("cbt")
    /\ q.pc = "cbt.write" => q.draft = Output("cbt")
    /\ q.pc = "backend.write" => q.draft = Output("backend")

OneHolder ==
    \A r, s \in Slots : InLock(requests[r]) /\ InLock(requests[s]) => r = s

RacesKnown ==
    \A r, s \in Slots : Generates(requests[r]) /\ Generates(requests[s]) => r = s \/ raced

Applied ==
    \/ raced \/ unapplied
    \/ \E r \in Slots : Due(requests[r]) \/ KeepsUp(requests[r])
    \/ AreCurrent /\ \A r \in Slots : ~Generates(requests[r])

SavesInv == OneHolder /\ RacesKnown /\ Applied

\* What a file is made of depends on what is saved alone.
LEMMA OutputsStay ==
    ASSUME UNCHANGED <<file, lab, custom>>, NEW f
    PROVE  Output(f)' = Output(f)
BY DEF Output

\* One request moves, and nothing that counts for the others.
LEMMA HoldersStay ==
    ASSUME Shapes, OneHolder, NEW r \in Slots, NEW q,
           requests' = [requests EXCEPT ![r] = q],
           InLock(q) => InLock(requests[r]) \/ ~IsLocked
    PROVE  OneHolder'
<1>1. requests'[r] = q /\ \A s \in Slots \ {r} : requests'[s] = requests[s]
    BY DEF Shapes
<1>2. InLock(q) => \A s \in Slots \ {r} : ~InLock(requests[s])
    BY DEF OneHolder, InLock, IsLocked
<1> QED
    BY <1>1, <1>2 DEF OneHolder

LEMMA RacesStay ==
    ASSUME Shapes, RacesKnown, NEW r \in Slots, NEW q,
           requests' = [requests EXCEPT ![r] = q],
           Generates(q) => Generates(requests[r]),
           raced' = raced
    PROVE  RacesKnown'
<1>1. requests'[r] = q /\ \A s \in Slots \ {r} : requests'[s] = requests[s]
    BY DEF Shapes
<1> QED
    BY <1>1 DEF RacesKnown

\* A request that neither generates nor was to.
LEMMA AppliedStays ==
    ASSUME Shapes, Applied, NEW r \in Slots, NEW q,
           requests' = [requests EXCEPT ![r] = q],
           UNCHANGED <<file, lab, custom, outputs, raced>>,
           unapplied => unapplied',
           ~Generates(requests[r]), ~Generates(q),
           Due(requests[r]) => Due(q) \/ unapplied'
    PROVE  Applied'
<1>1. requests'[r] = q /\ \A s \in Slots \ {r} : requests'[s] = requests[s]
    BY DEF Shapes
<1>2. CASE raced \/ unapplied
    BY <1>2 DEF Applied
<1>3. ASSUME NEW s \in Slots, Due(requests[s])
      PROVE  Applied'
    BY <1>1, <1>3 DEF Applied
<1>4. ASSUME NEW s \in Slots, KeepsUp(requests[s])
      PROVE  Applied'
    <2>1. s # r /\ requests'[s] = requests[s]
        BY <1>1, <1>4 DEF KeepsUp
    <2>2. KeepsUp(requests[s])'
        BY <1>4, <2>1, OutputsStay DEF KeepsUp
    <2> QED
        BY <2>2 DEF Applied
<1>5. CASE AreCurrent /\ \A s \in Slots : ~Generates(requests[s])
    <2>1. AreCurrent'
        BY <1>5, OutputsStay DEF AreCurrent
    <2> QED
        BY <1>1, <1>5, <2>1 DEF Applied
<1> QED
    BY <1>2, <1>3, <1>4, <1>5 DEF Applied

\* A request keeps its shape when it moves on.
LEMMA ShapesMove ==
    ASSUME Shapes, NEW r \in Slots, NEW q, Shaped(q),
           requests' = [requests EXCEPT ![r] = q]
    PROVE  Shapes'
BY DEF Shapes

(***************************************************************************)
(* What the rest of the state is made of.                                  *)
(***************************************************************************)

LabPages ==
    [tab : {"lab"}, loaded : {FALSE}]
    \cup [tab : {"lab"}, loaded : {TRUE}, mode : {"local", "hybrid"},
          password : Passwords \cup {Mask}, saving : BOOLEAN]

FilePages ==
    [tab : {"files"}, selected : Texts, shown : Texts, origin : Texts,
     text : Texts, override : BOOLEAN, editing : BOOLEAN, loading : BOOLEAN,
     saving : BOOLEAN]

\* Only a file that was selected is loaded or shown.
PageForms ==
    /\ page.tab \in {"none", "overrides", "lab", "files"}
    /\ page.tab = "lab" => page \in LabPages
    /\ page.tab = "files" =>
          /\ page \in FilePages
          /\ loads # {} \/ page.shown # NoText => page.selected # NoText
    /\ page.tab # "files" => loads = {}
    /\ loads \subseteq Outputs \X {"select", "refresh"}

\* A text is saved or removed from the viewer, while a file is selected.
OfTheViewer(q) ==
    q.kind \in {"put", "delete"} /\ q.mine => page.tab = "files" /\ page.selected # NoText

StoreForms ==
    /\ lab \in LabConfigs /\ disk \in Disks
    /\ custom \in [Outputs -> Texts]
    /\ DOMAIN outputs = Outputs
    /\ \A f \in Outputs : CopyOf(Outputs, outputs[f])

CountForms ==
    /\ acts \in 0 .. MaxActs
    /\ raced \in BOOLEAN /\ unapplied \in BOOLEAN /\ strayed \in BOOLEAN

Forms ==
    /\ StoreForms /\ CountForms /\ PageForms /\ Shapes
    /\ \A r \in Slots : OfTheViewer(requests[r])

LEMMA OutputIsACopy ==
    ASSUME NEW S, NEW f, custom[f] # NoText => custom[f] \in S
    PROVE  CopyOf(S, Output(f))
<1>1. CASE custom[f] # NoText
    BY <1>1 DEF Output, CopyOf
<1>2. CASE custom[f] = NoText
    <2>1. Output(f)[1] = "generated"
        BY <1>2 DEF Output
    <2> QED
        BY <2>1 DEF CopyOf
<1> QED
    BY <1>1, <1>2

LEMMA InitForms == Init => Forms
<1> SUFFICES ASSUME Init PROVE Forms
    OBVIOUS
<1>1. StoreForms
    <2>1. custom \in [Outputs -> Texts] /\ \A f \in Outputs : custom[f] = NoText
        BY DEF Init, Texts
    <2>2. \A f \in Outputs : outputs[f] = Output(f) /\ CopyOf(Outputs, Output(f))
        BY <2>1, OutputIsACopy DEF Init
    <2>3. lab \in LabConfigs /\ disk \in Disks
        BY InitialDiskAssumption DEF Init, Disks
    <2> QED
        BY <2>1, <2>2, <2>3 DEF StoreForms, Init
<1>2. CountForms
    <2>1. acts \in 0 .. MaxActs
        BY ActsAssumption DEF Init
    <2> QED
        BY <2>1 DEF Init, CountForms
<1>4. PageForms
    BY DEF Init, PageForms, NoPage
<1>3. Shapes /\ \A r \in Slots : OfTheViewer(requests[r])
    BY DEF Init, Shapes, Shaped, OfTheViewer, Idle
<1> QED
    BY <1>1, <1>2, <1>3, <1>4 DEF Forms

LEMMA ActCounts == ASSUME CountForms, Act PROVE acts' \in 0 .. MaxActs
BY ActsAssumption DEF CountForms, Act

\* The terminal editor leaves the server and its page alone.
LEMMA TuiForms ==
    ASSUME Forms, Run \/ Choose \/ FixTui \/ Type \/ SaveTui \/ Reload \/ Quit
    PROVE  Forms'
<1>1. /\ UNCHANGED <<page, loads, lab, disk, custom, outputs, requests, raced, strayed>>
      /\ Act \/ acts' = acts
      /\ unapplied' \in {unapplied, TRUE}
    BY DEF Run, Choose, FixTui, Type, SaveTui, Reload, Quit, TuiOnly, serverVars
<1>2. CountForms'
    BY <1>1, ActCounts DEF Forms, CountForms
<1> QED
    BY <1>1, <1>2 DEF Forms, StoreForms, PageForms, Shapes, Shaped, CopyOf, OfTheViewer

\* A request no longer answers to the page that is left.
LEMMA OpenForms ==
    ASSUME Forms, IInv, NEW tab \in {"overrides", "lab", "files"}, OpenTab(tab)
    PROVE  Forms'
<1>1. StoreForms' /\ CountForms'
    BY ActCounts DEF OpenTab, Forms, StoreForms, CountForms, auxVars, CopyOf
<1>2. PageForms'
    BY DEF OpenTab, PageForms, LabPages, FilePages, Texts
<1>3. ASSUME NEW r \in Slots
      PROVE  Shaped(requests'[r]) /\ OfTheViewer(requests[r])'
    <2>1. Shaped(requests[r])
        BY DEF Forms, Shapes
    <2>2. CASE requests[r] = Idle
        BY <2>2 DEF OpenTab, Shaped, OfTheViewer, Idle
    <2>3. CASE requests[r] # Idle
        <3>1. requests'[r] = [kind |-> requests[r].kind, body |-> requests[r].body,
                              pc |-> requests[r].pc, draft |-> requests[r].draft,
                              mine |-> FALSE]
            BY <2>1, <2>3 DEF OpenTab, Shaped
        <3> QED
            BY <2>1, <2>3, <3>1 DEF Shaped, OfTheViewer
    <2> QED
        BY <2>2, <2>3
<1>4. Shapes'
    BY <1>3 DEF OpenTab, Shapes
<1> QED
    BY <1>1, <1>2, <1>3, <1>4 DEF Forms

\* Everything but the page stays, and the page keeps its tab and its selection.
LEMMA PageMoves ==
    ASSUME Forms, UNCHANGED <<lab, disk, custom, outputs, requests, raced, unapplied>>,
           acts' \in 0 .. MaxActs, strayed' \in BOOLEAN, PageForms',
           page.tab = "files" => page'.tab = "files"
               /\ (page.selected # NoText => page'.selected # NoText)
    PROVE  Forms'
<1>1. StoreForms' /\ CountForms' /\ Shapes'
    BY DEF Forms, StoreForms, CountForms, Shapes, CopyOf, Shaped
<1>2. \A r \in Slots : OfTheViewer(requests[r])'
    BY DEF Forms, OfTheViewer
<1> QED
    BY <1>1, <1>2 DEF Forms

LEMMA EditForms ==
    ASSUME Forms, IInv,
           LoadOverridesTab \/ LoadLabTab \/ EditOverrides \/ FixPage \/ EditLab \/ EditText
    PROVE  Forms'
<1>1. /\ UNCHANGED <<lab, disk, custom, outputs, requests, raced, unapplied, strayed, loads>>
      /\ Act \/ acts' = acts
    BY DEF LoadOverridesTab, LoadLabTab, EditOverrides, FixPage, EditLab, EditText,
           PageOnly, serverVars, auxVars
<1>2. acts' \in 0 .. MaxActs /\ strayed' \in BOOLEAN
    BY <1>1, ActCounts DEF Forms, CountForms
<1>3. CASE LoadOverridesTab \/ EditOverrides \/ FixPage
    <2>1. page.tab = "overrides" /\ page'.tab = "overrides"
        BY <1>3 DEF LoadOverridesTab, EditOverrides, FixPage, IsEdited, IInv, PageOK
    <2>2. PageForms'
        BY <1>1, <2>1 DEF Forms, PageForms
    <2> QED
        BY <1>1, <1>2, <2>1, <2>2, PageMoves
<1>4. CASE LoadLabTab \/ EditLab
    <2>1. page.tab = "lab" /\ page \in LabPages
        BY <1>4 DEF LoadLabTab, EditLab, IsEdited, Forms, PageForms
    <2>2. page' \in LabPages
        <3>1. CASE LoadLabTab
            BY <3>1 DEF LoadLabTab, LabPages, Forms, StoreForms, LabConfigs
        <3>2. CASE EditLab
            BY <3>2, <2>1 DEF EditLab, IsEdited, LabPages
        <3> QED
            BY <1>4, <3>1, <3>2
    <2>3. page'.tab = "lab"
        BY <2>2 DEF LabPages
    <2>4. PageForms'
        BY <1>1, <2>1, <2>2, <2>3 DEF Forms, PageForms
    <2> QED
        BY <1>1, <1>2, <2>1, <2>4, PageMoves
<1>5. CASE EditText
    <2>1. page.tab = "files" /\ page \in FilePages /\ PageForms
        BY <1>5 DEF EditText, HasPanel, Forms, PageForms
    <2>2. page' \in FilePages /\ page'.tab = "files" /\ page'.selected = page.selected
          /\ page'.shown = page.shown
        BY <2>1, <1>5 DEF EditText, FilePages
    <2>3. PageForms'
        BY <1>1, <2>1, <2>2 DEF PageForms
    <2> QED
        BY <1>1, <1>2, <2>2, <2>3, PageMoves
<1> QED
    BY <1>3, <1>4, <1>5

LEMMA ViewerForms ==
    ASSUME Forms, NEW f \in Outputs, NEW then \in {"select", "refresh"},
           Select(f) \/ Arrives(f, then) \/ ArrivesNot(f, then)
    PROVE  Forms'
<1>1. /\ UNCHANGED <<lab, disk, custom, outputs, requests, raced, unapplied>>
      /\ Act \/ acts' = acts
    BY DEF Select, Arrives, ArrivesNot, PageOnly, serverVars, auxVars
<1>2. strayed' \in BOOLEAN
    BY DEF Select, Arrives, ArrivesNot, PageOnly, auxVars, Forms, CountForms
<1>3. acts' \in 0 .. MaxActs
    BY <1>1, ActCounts DEF Forms, CountForms
<1>4. page.tab = "files" /\ page \in FilePages /\ PageForms /\ f \in Texts
    BY DEF Select, Arrives, ArrivesNot, Forms, PageForms, Texts
<1>5. CASE Select(f)
    <2>1. page' \in FilePages /\ page'.tab = "files" /\ page'.selected = f
        BY <1>4, <1>5 DEF Select, FilePages
    <2>2. f # NoText /\ loads' \subseteq Outputs \X {"select", "refresh"}
        BY <1>4, <1>5 DEF Select, PageForms, Outputs, NoText
    <2>3. PageForms'
        BY <2>1, <2>2 DEF PageForms
    <2> QED
        BY <1>1, <1>2, <1>3, <2>1, <2>2, <2>3, PageMoves
<1>6. CASE Arrives(f, then)
    <2>1. Origin(f) \in Texts
        BY DEF Origin, Forms, StoreForms, CopyOf, Texts
    <2>2. page' \in FilePages /\ page'.tab = "files" /\ page'.selected = page.selected
        BY <1>4, <1>6, <2>1 DEF Arrives, FilePages
    <2>3. page.selected # NoText /\ loads' \subseteq loads
        BY <1>4, <1>6 DEF Arrives, PageForms
    <2>4. PageForms'
        BY <1>4, <2>2, <2>3 DEF PageForms
    <2> QED
        BY <1>1, <1>2, <1>3, <2>2, <2>4, PageMoves
<1>7. CASE ArrivesNot(f, then)
    <2>2. page' \in FilePages /\ page'.tab = "files" /\ page'.selected = page.selected
        BY <1>4, <1>7 DEF ArrivesNot, FilePages
    <2>3. page.selected # NoText /\ loads' \subseteq loads
        BY <1>4, <1>7 DEF ArrivesNot, PageForms
    <2>4. PageForms'
        BY <1>4, <2>2, <2>3 DEF PageForms
    <2> QED
        BY <1>1, <1>2, <1>3, <2>2, <2>4, PageMoves
<1> QED
    BY <1>5, <1>6, <1>7

\* A request that is sent.
LEMMA SentIsShaped ==
    ASSUME Shapes, NEW kind \in Kinds, NEW body, NEW label \in Resting,
           Send(kind, body, label),
           kind = "lab" => body \in LabBodies,
           kind \in {"put", "delete"} => body \in TextBodies
    PROVE  \E r \in Slots : \E q :
              /\ requests[r] = Idle /\ Shaped(q)
              /\ requests' = [requests EXCEPT ![r] = q]
              /\ q = [kind |-> kind, body |-> body, pc |-> label, draft |-> NoText,
                      mine |-> TRUE]
<1> DEFINE q == [kind |-> kind, body |-> body, pc |-> label, draft |-> NoText,
                 mine |-> TRUE]
<1>1. PICK r \in Slots : requests[r] = Idle /\ requests' = [requests EXCEPT ![r] = q]
    BY DEF Send
<1>2. q.kind = kind /\ q.body = body /\ q.pc = label /\ q.draft = NoText /\ q.mine = TRUE
    OBVIOUS
<1>3. Shaped(q)
    <2>1. q.pc \notin {"cbt.write", "backend.write"}
        BY <1>2 DEF Resting
    <2> HIDE DEF q
    <2>2. q = [kind |-> q.kind, body |-> q.body, pc |-> q.pc, draft |-> q.draft, mine |-> q.mine]
        BY <1>2 DEF q
    <2> QED
        BY <1>2, <2>1, <2>2 DEF Shaped
<1> QED
    BY <1>1, <1>3

LEMMA SendForms ==
    ASSUME Forms, IInv, SaveOverrides \/ SaveLab \/ Regenerate \/ SaveText \/ RemoveText
    PROVE  Forms'
<1>1. UNCHANGED <<lab, disk, custom, outputs, raced, unapplied, strayed, loads>> /\ Act
    BY DEF SaveOverrides, SaveLab, Regenerate, SaveText, RemoveText, SendOnly, auxVars
<1>2. StoreForms' /\ CountForms'
    BY <1>1, ActCounts DEF Forms, StoreForms, CountForms, CopyOf
<1>3. PageForms' /\ page'.tab = page.tab
      /\ (page.tab = "files" => page'.selected = page.selected)
    <2>1. CASE SaveOverrides
        <3>1. page.tab = "overrides" /\ page'.tab = "overrides"
            BY <2>1 DEF SaveOverrides, IsEdited, IInv, PageOK
        <3> QED
            BY <3>1, <1>1 DEF Forms, PageForms
    <2>2. CASE SaveLab
        <3>1. page.tab = "lab" /\ page' \in LabPages /\ page'.tab = "lab"
            BY <2>2 DEF SaveLab, IsEdited, LabPages, Forms, PageForms
        <3> QED
            BY <3>1, <1>1 DEF Forms, PageForms
    <2>3. CASE SaveText
        <3>1. /\ page.tab = "files" /\ page' \in FilePages /\ page'.tab = "files"
              /\ page'.selected = page.selected /\ page'.shown = page.shown
            BY <2>3 DEF SaveText, HasPanel, FilePages, Forms, PageForms
        <3> QED
            BY <3>1, <1>1 DEF Forms, PageForms
    <2>4. CASE Regenerate \/ RemoveText
        BY <2>4, <1>1 DEF Regenerate, RemoveText, Forms, PageForms
    <2> QED
        BY <2>1, <2>2, <2>3, <2>4
<1>4. \E r \in Slots : \E q :
          /\ Shaped(q) /\ requests' = [requests EXCEPT ![r] = q]
          /\ q.kind \in {"put", "delete"} => page.tab = "files" /\ page.selected # NoText
    <2>1. CASE SaveOverrides
        <3> DEFINE body == [on |-> page.on, allow |-> page.allow, env |-> page.env,
                            envOn |-> page.envOn]
        <3>1. Send("overrides", body, "lock")
            BY <2>1 DEF SaveOverrides
        <3> HIDE DEF body
        <3> QED
            BY <3>1, SentIsShaped DEF Forms, Kinds, Resting
    <2>2. CASE SaveLab
        <3> DEFINE body == [mode |-> page.mode, password |-> page.password]
        <3>1. body \in LabBodies
            BY <2>2 DEF SaveLab, IsEdited, LabPages, LabBodies, Forms, PageForms
        <3>2. Send("lab", body, "lock")
            BY <2>2 DEF SaveLab
        <3> HIDE DEF body
        <3> QED
            BY <3>1, <3>2, SentIsShaped DEF Forms, Kinds, Resting
    <2>3. CASE Regenerate
        <3>1. Send("regenerate", NoText, "generate")
            BY <2>3 DEF Regenerate
        <3> QED
            BY <3>1, SentIsShaped DEF Forms, Kinds, Resting
    <2>4. CASE SaveText
        <3> DEFINE body == [name |-> page.selected, text |-> page.text]
        <3>1. page.tab = "files" /\ page.selected # NoText /\ page \in FilePages
            BY <2>4 DEF SaveText, HasPanel, Forms, PageForms
        <3>2. body \in TextBodies
            BY <3>1 DEF FilePages, TextBodies, Texts
        <3>3. Send("put", body, "save")
            BY <2>4 DEF SaveText
        <3> HIDE DEF body
        <3> QED
            BY <3>1, <3>2, <3>3, SentIsShaped DEF Forms, Kinds, Resting
    <2>5. CASE RemoveText
        <3> DEFINE body == [name |-> page.selected, text |-> NoText]
        <3>1. page.tab = "files" /\ page.selected # NoText /\ page \in FilePages
            BY <2>5 DEF RemoveText, HasPanel, Forms, PageForms
        <3>2. body \in TextBodies
            BY <3>1 DEF FilePages, TextBodies, Texts
        <3>3. Send("delete", body, "save")
            BY <2>5 DEF RemoveText
        <3> HIDE DEF body
        <3> QED
            BY <3>1, <3>2, <3>3, SentIsShaped DEF Forms, Kinds, Resting
    <2> QED
        BY <2>1, <2>2, <2>3, <2>4, <2>5
<1>5. PICK r \in Slots : \E q :
          /\ Shaped(q) /\ requests' = [requests EXCEPT ![r] = q]
          /\ q.kind \in {"put", "delete"} => page.tab = "files" /\ page.selected # NoText
    BY <1>4
<1>6. PICK q : /\ Shaped(q) /\ requests' = [requests EXCEPT ![r] = q]
               /\ q.kind \in {"put", "delete"} =>
                     page.tab = "files" /\ page.selected # NoText
    BY <1>5
<1>7. Shapes'
    BY <1>6, ShapesMove DEF Forms
<1>8. \A s \in Slots : OfTheViewer(requests[s])'
    BY <1>3, <1>6 DEF Forms, Shapes, OfTheViewer
<1> QED
    BY <1>2, <1>3, <1>7, <1>8 DEF Forms

\* A request at another label.
Moved(r, label, draft) ==
    [kind |-> requests[r].kind, body |-> requests[r].body, pc |-> label,
     draft |-> draft, mine |-> requests[r].mine]

LEMMA MovedIsShaped ==
    ASSUME Shapes, NEW r \in Slots, requests[r] # Idle, NEW label \in Resting \cup Generating,
           NEW draft, label \in {"cbt.write", "backend.write"} => CopyOf(Outputs, draft)
    PROVE  /\ Shaped(Moved(r, label, draft)) /\ Moved(r, label, draft) # Idle
           /\ Moved(r, label, draft).kind = requests[r].kind
           /\ Moved(r, label, draft).pc = label
           /\ Moved(r, label, draft).draft = draft
           /\ Moved(r, label, draft).mine = requests[r].mine
           /\ Moved(r, label, draft).body = requests[r].body
<1> DEFINE q == Moved(r, label, draft)
<1>1. Shaped(requests[r])
    BY DEF Shapes
<1>2. /\ q.kind = requests[r].kind /\ q.body = requests[r].body /\ q.pc = label
      /\ q.draft = draft /\ q.mine = requests[r].mine
    BY DEF Moved
<1>3. q = [kind |-> q.kind, body |-> q.body, pc |-> q.pc, draft |-> q.draft, mine |-> q.mine]
    BY <1>2 DEF Moved
<1>4. q # Idle
    BY <1>1, <1>2 DEF Shaped, Idle, Kinds
<1> HIDE DEF q
<1>5. Shaped(q)
    BY <1>1, <1>2, <1>3 DEF Shaped
<1> QED
    BY <1>2, <1>4, <1>5 DEF q

LEMMA GotoMoves ==
    ASSUME Shapes, NEW r \in Slots, requests[r] # Idle, NEW label, Goto(r, label)
    PROVE  requests' = [requests EXCEPT ![r] = Moved(r, label, requests[r].draft)]
<1>1. Shaped(requests[r])
    BY DEF Shapes
<1>2. [requests[r] EXCEPT !.pc = label] = Moved(r, label, requests[r].draft)
    BY <1>1 DEF Shaped, Moved
<1> QED
    BY <1>2 DEF Goto

LEMMA DraftMoves ==
    ASSUME Shapes, NEW r \in Slots, requests[r] # Idle, NEW label, NEW draft
    PROVE  [requests[r] EXCEPT !.pc = label, !.draft = draft] = Moved(r, label, draft)
<1> DEFINE p == [requests[r] EXCEPT !.pc = label]
<1>1. Shaped(requests[r])
    BY DEF Shapes
<1>2. p = Moved(r, label, requests[r].draft)
    BY <1>1 DEF Shaped, Moved
<1>3. [p EXCEPT !.draft = draft] = Moved(r, label, draft)
    <2> HIDE DEF p
    <2> QED
        BY <1>2 DEF Moved
<1>4. [requests[r] EXCEPT !.pc = label, !.draft = draft] = [p EXCEPT !.draft = draft]
    OBVIOUS
<1> QED
    BY <1>3, <1>4

\* What a request that moves leaves as it was.
LEMMA MovedForms ==
    ASSUME Forms, NEW r \in Slots, requests[r] # Idle, NEW label \in Resting \cup Generating,
           NEW draft, label \in {"cbt.write", "backend.write"} => CopyOf(Outputs, draft),
           requests' = [requests EXCEPT ![r] = Moved(r, label, draft)],
           UNCHANGED <<page, loads, acts, strayed>>, StoreForms',
           raced' \in BOOLEAN, unapplied' \in BOOLEAN
    PROVE  Forms'
<1>1. CountForms' /\ PageForms'
    BY DEF Forms, CountForms, PageForms
<1>2. Shapes'
    BY MovedIsShaped, ShapesMove DEF Forms
<1>3. ASSUME NEW s \in Slots PROVE OfTheViewer(requests[s])'
    <2>1. s = r => requests'[s] = Moved(r, label, draft)
        BY DEF Forms, Shapes
    <2>2. s # r => requests'[s] = requests[s]
        BY DEF Forms, Shapes
    <2>3. /\ Moved(r, label, draft).kind = requests[r].kind
          /\ Moved(r, label, draft).mine = requests[r].mine
        BY MovedIsShaped DEF Forms
    <2>4. requests'[s].kind = requests[s].kind /\ requests'[s].mine = requests[s].mine
        BY <2>1, <2>2, <2>3
    <2> QED
        BY <2>4 DEF Forms, OfTheViewer
<1> QED
    BY <1>1, <1>2, <1>3 DEF Forms

\* The handlers: where each is, and where it goes.
LEMMA HandlerForms ==
    ASSUME Forms, NEW r \in Slots,
           \/ Lock(r) \/ Refused(r) \/ LoadExisting(r) \/ WriteOverrides(r)
           \/ Apply(r) \/ WriteConfig(r) \/ RecreateOrchestrator(r) \/ PutText(r)
           \/ DeleteText(r) \/ Begin(r) \/ Generate(r) \/ GenerateFails(r)
    PROVE  Forms'
<1>1. requests[r] # Idle /\ Shapes /\ Shaped(requests[r])
    BY DEF Lock, Refused, LoadExisting, WriteOverrides, Apply, WriteConfig,
           RecreateOrchestrator, PutText, DeleteText, Begin, Generate, Read, Write,
           GenerateFails, Label, At, IsGenerating, Forms, Shapes
<1>2. UNCHANGED <<page, loads, acts, strayed>>
    BY DEF Lock, Refused, LoadExisting, WriteOverrides, Apply, WriteConfig,
           RecreateOrchestrator, PutText, DeleteText, Begin, Generate, Read, Write,
           GenerateFails, Rest
<1>3. raced' \in BOOLEAN /\ unapplied' \in BOOLEAN
    BY DEF Lock, Refused, LoadExisting, WriteOverrides, Apply, WriteConfig,
           RecreateOrchestrator, PutText, DeleteText, Begin, Generate, Read, Write,
           GenerateFails, Forms, CountForms
<1>4. ASSUME NEW label \in (Resting \cup Generating) \ {"cbt.write", "backend.write"},
             NEW draft, StoreForms',
             requests' = [requests EXCEPT ![r] = Moved(r, label, draft)]
      PROVE  Forms'
    BY <1>1, <1>2, <1>3, <1>4, MovedForms
<1>5. CASE Lock(r) \/ Refused(r) \/ WriteOverrides(r) \/ RecreateOrchestrator(r)
           \/ Begin(r) \/ GenerateFails(r)
    <2>1. StoreForms'
        BY <1>5 DEF Lock, Refused, WriteOverrides, RecreateOrchestrator, Begin,
                    GenerateFails, Forms, StoreForms, CopyOf
    <2>2. PICK label \in {"load", "answer", "generate", "cbt.read"} : Goto(r, label)
        BY <1>5 DEF Lock, Refused, WriteOverrides, RecreateOrchestrator, Begin,
                    GenerateFails
    <2> QED
        BY <1>1, <1>4, <2>1, <2>2, GotoMoves DEF Resting, Generating
<1>6. CASE LoadExisting(r)
    <2>1. StoreForms'
        BY <1>6 DEF LoadExisting, Forms, StoreForms, CopyOf
    <2>2. requests' = [requests EXCEPT ![r] = Moved(r, "save", LoadOverrides(file))]
        <3>1. requests' = [requests EXCEPT ![r] =
                  [requests[r] EXCEPT !.pc = "save", !.draft = LoadOverrides(file)]]
            BY <1>6 DEF LoadExisting
        <3>2. [requests[r] EXCEPT !.pc = "save", !.draft = LoadOverrides(file)]
              = Moved(r, "save", LoadOverrides(file))
            BY <1>1, DraftMoves
        <3> QED
            BY <3>1, <3>2
    <2> QED
        BY <1>4, <2>1, <2>2 DEF Resting
<1>7. CASE Apply(r)
    <2>1. requests[r].body \in LabBodies /\ lab \in LabConfigs
        BY <1>1, <1>7 DEF Apply, At, Shaped, Forms, StoreForms
    <2>2. lab' \in LabConfigs
        BY <1>7, <2>1 DEF Apply, LabBodies, LabConfigs
    <2>3. StoreForms'
        BY <1>7, <2>2 DEF Apply, Forms, StoreForms, CopyOf
    <2>4. Goto(r, "save")
        BY <1>7 DEF Apply
    <2> QED
        BY <1>1, <1>4, <2>3, <2>4, GotoMoves DEF Resting
<1>8. CASE WriteConfig(r)
    <2>1. disk' \in Disks
        BY <1>8 DEF WriteConfig, Forms, StoreForms, Disks
    <2>2. StoreForms'
        BY <1>8, <2>1 DEF WriteConfig, Forms, StoreForms, CopyOf
    <2>3. Goto(r, "recreate")
        BY <1>8 DEF WriteConfig
    <2> QED
        BY <1>1, <1>4, <2>2, <2>3, GotoMoves DEF Resting
<1>9. CASE PutText(r) \/ DeleteText(r)
    <2>1. requests[r].body \in TextBodies
        BY <1>1, <1>9 DEF PutText, DeleteText, At, Shaped
    <2>2. \E text \in Texts : custom' = [custom EXCEPT ![requests[r].body.name] = text]
        BY <1>9, <2>1 DEF PutText, DeleteText, TextBodies, Texts
    <2>3. custom' \in [Outputs -> Texts]
        BY <2>2 DEF Forms, StoreForms
    <2>4. StoreForms'
        BY <1>9, <2>3 DEF PutText, DeleteText, Forms, StoreForms, CopyOf
    <2>5. Goto(r, "generate")
        BY <1>9 DEF PutText, DeleteText
    <2> QED
        BY <1>1, <1>4, <2>4, <2>5, GotoMoves DEF Resting
<1>10. ASSUME NEW f \in Outputs, NEW label, NEW next \in {"cbt.write", "backend.write"},
              Read(r, f, label, next)
       PROVE  Forms'
    <2>1. StoreForms'
        BY <1>10 DEF Read, Forms, StoreForms, CopyOf
    <2>2. requests' = [requests EXCEPT ![r] = Moved(r, next, Output(f))]
        <3>1. requests' = [requests EXCEPT ![r] =
                  [requests[r] EXCEPT !.pc = next, !.draft = Output(f)]]
            BY <1>10 DEF Read
        <3>2. [requests[r] EXCEPT !.pc = next, !.draft = Output(f)]
              = Moved(r, next, Output(f))
            BY <1>1, DraftMoves
        <3> QED
            BY <3>1, <3>2
    <2>3. custom[f] # NoText => custom[f] \in Outputs
        BY DEF Forms, StoreForms, Texts
    <2>4. CopyOf(Outputs, Output(f))
        BY <2>3, OutputIsACopy
    <2>5. next \in Resting \cup Generating
        BY DEF Generating
    <2> QED
        BY <1>1, <1>2, <1>3, <2>1, <2>2, <2>4, <2>5, MovedForms
<1>11. ASSUME NEW f \in Outputs, NEW label \in {"cbt.write", "backend.write"},
              NEW next \in {"backend.read", "answer"}, Write(r, f, label, next)
       PROVE  Forms'
    <2>1. CopyOf(Outputs, requests[r].draft)
        BY <1>1, <1>11 DEF Write, Label, Shaped
    <2>2. outputs' = [outputs EXCEPT ![f] = requests[r].draft] /\ DOMAIN outputs = Outputs
        BY <1>11 DEF Write, Forms, StoreForms
    <2>3. \A g \in Outputs : CopyOf(Outputs, outputs'[g])
        BY <2>1, <2>2 DEF Forms, StoreForms
    <2>4. StoreForms'
        BY <1>11, <2>2, <2>3 DEF Write, Forms, StoreForms, CopyOf
    <2>5. Goto(r, next)
        BY <1>11 DEF Write
    <2>6. next \in (Resting \cup Generating) \ {"cbt.write", "backend.write"}
        BY DEF Resting, Generating
    <2> QED
        BY <1>1, <1>4, <2>4, <2>5, <2>6, GotoMoves
<1>12. CASE Generate(r)
    BY <1>12, <1>10, <1>11 DEF Generate, Outputs
<1> QED
    BY <1>5, <1>6, <1>7, <1>8, <1>9, <1>12

LEMMA AnswerForms ==
    ASSUME Forms, IInv, NEW r \in Slots, Answer(r)
    PROVE  Forms'
<1>1. /\ requests' = [requests EXCEPT ![r] = Idle] /\ requests[r] # Idle
      /\ UNCHANGED <<lab, disk, custom, outputs, acts, raced, unapplied, strayed>>
    BY DEF Answer, auxVars, Label
<1>2. StoreForms' /\ CountForms' /\ Shapes /\ PageForms /\ Shaped(requests[r])
    BY <1>1 DEF Forms, StoreForms, CountForms, CopyOf, Shapes
<1>3. Shapes'
    BY <1>1, <1>2, ShapesMove DEF Shaped
<1>4. CASE page' = [page EXCEPT !.saving = FALSE] /\ loads' = loads
    <2>1. /\ page'.tab = page.tab
          /\ page.tab = "lab" => page' \in LabPages
          /\ page.tab = "files" => page' \in FilePages /\ page'.selected = page.selected
                                   /\ page'.shown = page.shown
        <3>1. CASE page.tab = "files"
            BY <1>2, <1>4, <3>1 DEF PageForms, FilePages
        <3>2. CASE page.tab = "lab"
            BY <1>2, <1>4, <3>2 DEF PageForms, LabPages
        <3>3. CASE page.tab \notin {"files", "lab"}
            BY <1>4, <3>3 DEF IInv, PageOK
        <3> QED
            BY <3>1, <3>2, <3>3
    <2>2. PageForms'
        BY <1>2, <1>4, <2>1 DEF PageForms
    <2>3. \A s \in Slots : OfTheViewer(requests[s])'
        BY <1>1, <2>1 DEF Forms, Shapes, OfTheViewer, Idle
    <2> QED
        BY <1>2, <1>3, <2>2, <2>3 DEF Forms
<1>5. CASE page' = page
    <2>1. \A s \in Slots : OfTheViewer(requests[s])'
        BY <1>1, <1>5 DEF Forms, Shapes, OfTheViewer, Idle
    <2>2. PageForms'
        <3>1. CASE loads' = loads
            BY <1>2, <1>5, <3>1 DEF PageForms
        <3>2. CASE loads' # loads
            <4>1. /\ requests[r].mine /\ requests[r].kind \notin LockedKinds \cup {"regenerate"}
                  /\ loads' = loads \cup {<<requests[r].body.name, "refresh">>}
                BY <1>4, <3>2 DEF Answer
            <4>2. requests[r].kind \in {"put", "delete"}
                BY <1>1, <1>2, <4>1 DEF Shaped, Kinds, LockedKinds
            <4>3. requests[r].body.name \in Outputs
                BY <1>1, <1>2, <4>2 DEF Shaped, TextBodies
            <4>4. page.tab = "files" /\ page.selected # NoText
                BY <4>1, <4>2 DEF Forms, OfTheViewer
            <4>5. loads' \subseteq Outputs \X {"select", "refresh"}
                BY <1>2, <4>1, <4>3 DEF PageForms
            <4> QED
                BY <1>2, <1>5, <4>4, <4>5 DEF PageForms
        <3> QED
            BY <3>1, <3>2
    <2> QED
        BY <1>2, <1>3, <2>1, <2>2 DEF Forms
<1> QED
    BY <1>4, <1>5 DEF Answer

LEMMA NextForms == Forms /\ IInv /\ [Next]_vars => Forms'
<1> SUFFICES ASSUME Forms, IInv, [Next]_vars PROVE Forms'
    OBVIOUS
<1>1. CASE Run \/ Choose \/ FixTui \/ Type \/ SaveTui \/ Reload \/ Quit
    BY <1>1, TuiForms
<1>2. CASE \E tab \in {"overrides", "lab", "files"} : OpenTab(tab)
    BY <1>2, OpenForms
<1>3. CASE LoadOverridesTab \/ LoadLabTab \/ EditOverrides \/ FixPage \/ EditLab \/ EditText
    BY <1>3, EditForms
<1>4. CASE SaveOverrides \/ SaveLab \/ Regenerate \/ SaveText \/ RemoveText
    BY <1>4, SendForms
<1>5. CASE \E f \in Outputs : Select(f) \/ \E then \in {"select", "refresh"} :
                                    Arrives(f, then) \/ ArrivesNot(f, then)
    BY <1>5, ViewerForms
<1>6. CASE SaveXatu
    <2>1. disk' \in Disks
        BY <1>6 DEF SaveXatu, Forms, StoreForms, Disks
    <2>2. acts' \in 0 .. MaxActs
        BY <1>6, ActCounts DEF SaveXatu, Forms
    <2>3. StoreForms' /\ CountForms'
        BY <1>6, <2>1, <2>2 DEF SaveXatu, Forms, StoreForms, CountForms, CopyOf, auxVars
    <2> QED
        BY <1>6, <2>3 DEF SaveXatu, Forms, PageForms, Shapes, Shaped, OfTheViewer, CopyOf
<1>7. CASE \E r \in Slots :
          \/ Lock(r) \/ Refused(r) \/ LoadExisting(r) \/ WriteOverrides(r)
          \/ Apply(r) \/ WriteConfig(r) \/ RecreateOrchestrator(r) \/ PutText(r)
          \/ DeleteText(r) \/ Begin(r) \/ Generate(r) \/ GenerateFails(r)
    BY <1>7, HandlerForms
<1>8. CASE \E r \in Slots : Answer(r)
    BY <1>8, AnswerForms
<1>9. CASE UNCHANGED vars
    BY <1>9 DEF vars, serverVars, auxVars, Forms, StoreForms, CountForms, PageForms,
                Shapes, Shaped, OfTheViewer, CopyOf
<1> QED
    BY <1>1, <1>2, <1>3, <1>4, <1>5, <1>6, <1>7, <1>8, <1>9 DEF Next, HandleKeyPress


(***************************************************************************)
(* What is saved is generated from.                                        *)
(***************************************************************************)

LEMMA InitSaves == Init => SavesInv
<1> SUFFICES ASSUME Init PROVE SavesInv
    OBVIOUS
<1>1. \A r \in Slots : requests[r] = Idle
    BY DEF Init
<1>2. AreCurrent
    BY DEF Init, AreCurrent
<1> QED
    BY <1>1, <1>2 DEF SavesInv, OneHolder, RacesKnown, Applied, InLock, Generates

\* Nothing is saved or generated, or it is remembered that it was not applied.
LEMMA OthersSave ==
    ASSUME SavesInv, UNCHANGED <<requests, raced>>,
           \/ UNCHANGED <<file, lab, custom, outputs, unapplied>>
           \/ unapplied'
    PROVE  SavesInv'
<1>1. OneHolder' /\ RacesKnown'
    BY DEF SavesInv, OneHolder, RacesKnown
<1>2. CASE unapplied'
    BY <1>1, <1>2 DEF SavesInv, Applied
<1>3. CASE UNCHANGED <<file, lab, custom, outputs, unapplied>>
    <2>1. Output("cbt")' = Output("cbt") /\ Output("backend")' = Output("backend")
          /\ AreCurrent' = AreCurrent
        BY <1>3 DEF Output, AreCurrent
    <2>2. \A r \in Slots : KeepsUp(requests[r]) => KeepsUp(requests[r])'
        BY <1>3, <2>1 DEF KeepsUp
    <2>3. Applied'
        BY <1>3, <2>1, <2>2 DEF SavesInv, Applied
    <2> QED
        BY <1>1, <2>3 DEF SavesInv
<1> QED
    BY <1>2, <1>3

\* The requests go on without the page that sent them.
LEMMA OpenSaves ==
    ASSUME Forms, SavesInv, NEW tab, OpenTab(tab)
    PROVE  SavesInv'
<1>1. UNCHANGED <<file, lab, custom, outputs, raced, unapplied>>
    BY DEF OpenTab, auxVars
<1>2. Output("cbt")' = Output("cbt") /\ Output("backend")' = Output("backend")
      /\ AreCurrent' = AreCurrent
    BY <1>1 DEF Output, AreCurrent
<1>3. ASSUME NEW r \in Slots
      PROVE  /\ InLock(requests[r])' <=> InLock(requests[r])
             /\ Generates(requests[r])' <=> Generates(requests[r])
             /\ Due(requests[r])' <=> Due(requests[r])
             /\ KeepsUp(requests[r]) => KeepsUp(requests[r])'
    <2>1. Shaped(requests[r])
        BY DEF Forms, Shapes
    <2>2. CASE requests[r] = Idle
        <3>1. requests'[r] = Idle
            BY <2>2 DEF OpenTab
        <3> QED
            BY <2>2, <3>1 DEF InLock, Generates, Due, KeepsUp
    <2>3. CASE requests[r] # Idle
        <3>1. requests'[r] = [kind |-> requests[r].kind, body |-> requests[r].body,
                              pc |-> requests[r].pc, draft |-> requests[r].draft,
                              mine |-> FALSE]
            BY <2>1, <2>3 DEF OpenTab, Shaped
        <3>2. requests'[r] # Idle
            BY <2>1, <2>3, <3>1 DEF Shaped, Idle, Kinds
        <3>3. /\ requests'[r].kind = requests[r].kind /\ requests'[r].pc = requests[r].pc
              /\ requests'[r].draft = requests[r].draft
            BY <3>1
        <3> QED
            BY <1>1, <1>2, <2>3, <3>2, <3>3 DEF InLock, Generates, Due, KeepsUp
    <2> QED
        BY <2>2, <2>3
<1>4. OneHolder' /\ RacesKnown'
    BY <1>1, <1>3 DEF SavesInv, OneHolder, RacesKnown
<1>5. Applied'
    BY <1>1, <1>2, <1>3 DEF SavesInv, Applied
<1> QED
    BY <1>4, <1>5 DEF SavesInv

\* One request moves between steps that do not generate.
LEMMA RestingSaves ==
    ASSUME Forms, SavesInv, NEW r \in Slots, NEW q,
           requests' = [requests EXCEPT ![r] = q],
           raced' = raced, ~Generates(requests[r]), ~Generates(q),
           InLock(q) => InLock(requests[r]) \/ ~IsLocked,
           \/ Due(q)
           \/ /\ UNCHANGED <<file, lab, custom, outputs>> /\ (unapplied => unapplied')
              /\ Due(requests[r]) => unapplied'
    PROVE  SavesInv'
<1>1. OneHolder' /\ RacesKnown'
    BY HoldersStay, RacesStay DEF Forms, SavesInv
<1>2. CASE Due(q)
    <2>1. requests'[r] = q
        BY DEF Forms, Shapes
    <2> QED
        BY <1>1, <1>2, <2>1 DEF SavesInv, Applied
<1>3. CASE /\ UNCHANGED <<file, lab, custom, outputs>> /\ (unapplied => unapplied')
           /\ Due(requests[r]) => unapplied'
    BY <1>1, <1>3, AppliedStays DEF Forms, SavesInv
<1> QED
    BY <1>2, <1>3

LEMMA SendSaves ==
    ASSUME Forms, SavesInv, SaveOverrides \/ SaveLab \/ Regenerate \/ SaveText \/ RemoveText
    PROVE  SavesInv'
<1>1. UNCHANGED <<file, lab, custom, outputs, raced, unapplied>>
    BY DEF SaveOverrides, SaveLab, Regenerate, SaveText, RemoveText, SendOnly, auxVars
<1>2. ASSUME NEW kind, NEW body, NEW label \in {"lock", "generate", "save"},
             kind \in LockedKinds => label = "lock", Send(kind, body, label)
      PROVE  SavesInv'
    <2> DEFINE q == [kind |-> kind, body |-> body, pc |-> label, draft |-> NoText,
                     mine |-> TRUE]
    <2>1. PICK r \in Slots : requests[r] = Idle /\ requests' = [requests EXCEPT ![r] = q]
        BY <1>2 DEF Send
    <2>2. q.kind = kind /\ q.pc = label
        OBVIOUS
    <2> HIDE DEF q
    <2>3. ~InLock(q) /\ ~Generates(q)
        BY <1>2, <2>2 DEF InLock, Generates, Generating
    <2>4. ~Generates(requests[r]) /\ ~Due(requests[r])
        BY <2>1 DEF Generates, Due
    <2> QED
        BY <1>1, <2>1, <2>3, <2>4, RestingSaves
<1>3. CASE SaveOverrides
    <2> DEFINE body == [on |-> page.on, allow |-> page.allow, env |-> page.env,
                        envOn |-> page.envOn]
    <2>1. Send("overrides", body, "lock")
        BY <1>3 DEF SaveOverrides
    <2> HIDE DEF body
    <2> QED
        BY <1>2, <2>1
<1>4. CASE SaveLab
    <2> DEFINE body == [mode |-> page.mode, password |-> page.password]
    <2>1. Send("lab", body, "lock")
        BY <1>4 DEF SaveLab
    <2> HIDE DEF body
    <2> QED
        BY <1>2, <2>1
<1>5. CASE Regenerate
    <2>1. Send("regenerate", NoText, "generate")
        BY <1>5 DEF Regenerate
    <2> QED
        BY <1>2, <2>1 DEF LockedKinds
<1>6. CASE SaveText
    <2> DEFINE body == [name |-> page.selected, text |-> page.text]
    <2>1. Send("put", body, "save")
        BY <1>6 DEF SaveText
    <2> HIDE DEF body
    <2> QED
        BY <1>2, <2>1 DEF LockedKinds
<1>7. CASE RemoveText
    <2> DEFINE body == [name |-> page.selected, text |-> NoText]
    <2>1. Send("delete", body, "save")
        BY <1>7 DEF RemoveText
    <2> HIDE DEF body
    <2> QED
        BY <1>2, <2>1 DEF LockedKinds
<1> QED
    BY <1>3, <1>4, <1>5, <1>6, <1>7

\* The handlers up to the generation, and after it.
LEMMA HandlerSaves ==
    ASSUME Forms, SavesInv, NEW r \in Slots,
           \/ Lock(r) \/ Refused(r) \/ LoadExisting(r) \/ WriteOverrides(r)
           \/ Apply(r) \/ WriteConfig(r) \/ RecreateOrchestrator(r) \/ PutText(r)
           \/ DeleteText(r)
    PROVE  SavesInv'
<1>1. requests[r] # Idle /\ Shapes
    BY DEF Lock, Refused, LoadExisting, WriteOverrides, Apply, WriteConfig,
           RecreateOrchestrator, PutText, DeleteText, Label, At, Forms
<1>2. raced' = raced
    BY DEF Lock, Refused, LoadExisting, WriteOverrides, Apply, WriteConfig,
           RecreateOrchestrator, PutText, DeleteText
<1>3. ~Generates(requests[r])
    BY DEF Lock, Refused, LoadExisting, WriteOverrides, Apply, WriteConfig,
           RecreateOrchestrator, PutText, DeleteText, Label, At, Generates, Generating
<1>4. ASSUME NEW label \in Resting, NEW draft
      PROVE  /\ ~Generates(Moved(r, label, draft))
             /\ InLock(Moved(r, label, draft)) <=>
                   requests[r].kind \in LockedKinds /\ label \notin {"lock", "answer"}
             /\ Due(Moved(r, label, draft)) <=>
                   \/ label = "generate"
                   \/ requests[r].kind = "lab" /\ label \in {"save", "recreate"}
    <2>1. label \in Resting \cup Generating
        OBVIOUS
    <2>2. label \notin {"cbt.write", "backend.write"} /\ label \notin Generating
        BY DEF Resting, Generating
    <2>3. LET q == Moved(r, label, draft)
          IN  q # Idle /\ q.kind = requests[r].kind /\ q.pc = label
        BY <1>1, <2>1, <2>2, MovedIsShaped
    <2> QED
        BY <2>2, <2>3 DEF Generates, InLock, Due
<1>5. CASE Lock(r)
    <2>1. requests' = [requests EXCEPT ![r] = Moved(r, "load", requests[r].draft)]
        BY <1>1, <1>5, GotoMoves DEF Lock
    <2>2. ~IsLocked /\ ~Due(requests[r])
          /\ UNCHANGED <<file, lab, custom, outputs, unapplied>>
        BY <1>5 DEF Lock, Label, Due
    <2> QED
        BY <1>2, <1>3, <1>4, <2>1, <2>2, RestingSaves DEF Resting
<1>6. CASE Refused(r)
    <2>1. requests' = [requests EXCEPT ![r] = Moved(r, "answer", requests[r].draft)]
        BY <1>1, <1>6, GotoMoves DEF Refused
    <2>2. UNCHANGED <<file, lab, custom, outputs>> /\ (unapplied => unapplied')
        BY <1>6 DEF Refused
    <2>3. Due(requests[r]) => unapplied'
        BY <1>6 DEF Refused, At, Due
    <2>4. ~InLock(Moved(r, "answer", requests[r].draft))
          /\ ~Generates(Moved(r, "answer", requests[r].draft))
        BY <1>4 DEF Resting
    <2> QED
        BY <1>2, <1>3, <2>1, <2>2, <2>3, <2>4, RestingSaves
<1>7. CASE LoadExisting(r)
    <2>1. requests' = [requests EXCEPT ![r] = Moved(r, "save", LoadOverrides(file))]
        <3>1. requests' = [requests EXCEPT ![r] =
                  [requests[r] EXCEPT !.pc = "save", !.draft = LoadOverrides(file)]]
            BY <1>7 DEF LoadExisting
        <3>2. [requests[r] EXCEPT !.pc = "save", !.draft = LoadOverrides(file)]
              = Moved(r, "save", LoadOverrides(file))
            BY <1>1, DraftMoves
        <3> QED
            BY <3>1, <3>2
    <2>2. UNCHANGED <<file, lab, custom, outputs, unapplied>> /\ ~Due(requests[r])
          /\ InLock(requests[r])
        BY <1>1, <1>7 DEF LoadExisting, At, Due, InLock, LockedKinds
    <2> QED
        BY <1>2, <1>3, <1>4, <2>1, <2>2, RestingSaves DEF Resting
<1>8. ASSUME NEW label \in Resting, Goto(r, label),
             \/ label = "generate"
             \/ requests[r].kind = "lab" /\ label \in {"save", "recreate"},
             requests[r].pc \notin {"lock", "answer"}
      PROVE  SavesInv'
    <2>1. requests' = [requests EXCEPT ![r] = Moved(r, label, requests[r].draft)]
        BY <1>1, <1>8, GotoMoves
    <2>2. Due(Moved(r, label, requests[r].draft))
          /\ ~Generates(Moved(r, label, requests[r].draft))
        BY <1>4, <1>8
    <2>3. InLock(Moved(r, label, requests[r].draft)) => InLock(requests[r])
        BY <1>1, <1>4, <1>8 DEF InLock
    <2> QED
        BY <1>2, <1>3, <2>1, <2>2, <2>3, RestingSaves
<1>9. CASE WriteOverrides(r) \/ Apply(r) \/ WriteConfig(r) \/ RecreateOrchestrator(r)
           \/ PutText(r) \/ DeleteText(r)
    BY <1>8, <1>9 DEF WriteOverrides, Apply, WriteConfig, RecreateOrchestrator, PutText,
                      DeleteText, At, Resting
<1> QED
    BY <1>5, <1>6, <1>7, <1>9

LEMMA AnswerSaves ==
    ASSUME Forms, SavesInv, NEW r \in Slots, Answer(r)
    PROVE  SavesInv'
<1>1. /\ requests' = [requests EXCEPT ![r] = Idle] /\ requests[r] # Idle
      /\ requests[r].pc = "answer"
      /\ UNCHANGED <<file, lab, custom, outputs, raced, unapplied>>
    BY DEF Answer, auxVars, Label
<1>2. ~InLock(Idle) /\ ~Generates(Idle)
    BY DEF InLock, Generates
<1>3. ~Generates(requests[r]) /\ ~Due(requests[r])
    BY <1>1 DEF Generates, Generating, Due
<1> QED
    BY <1>1, <1>2, <1>3, RestingSaves

\* A generation begins.  Under the lock it is the only one under it, so that
\* one that overlaps is not.
LEMMA BeginSaves ==
    ASSUME Forms, SavesInv, NEW r \in Slots, Begin(r)
    PROVE  SavesInv'
<1> DEFINE q == Moved(r, "cbt.read", requests[r].draft)
           others == {s \in Slots \ {r} : IsGenerating(s)}
<1>1. /\ requests[r] # Idle /\ requests[r].pc = "generate" /\ Shapes
      /\ UNCHANGED <<file, lab, custom, outputs>>
    BY DEF Begin, Label, Forms
<1>2. requests' = [requests EXCEPT ![r] = q]
    BY <1>1, GotoMoves DEF Begin
<1>3. q # Idle /\ q.kind = requests[r].kind /\ q.pc = "cbt.read"
    <2>1. "cbt.read" \in Resting \cup Generating
        BY DEF Generating
    <2> QED
        BY <1>1, <2>1, MovedIsShaped
<1> HIDE DEF q
<1>4. requests'[r] = q /\ \A s \in Slots \ {r} : requests'[s] = requests[s]
    BY <1>1, <1>2 DEF Shapes
<1>5. OneHolder'
    BY <1>1, <1>2, <1>3, HoldersStay DEF SavesInv, InLock
<1>6. \A s \in Slots : IsGenerating(s) <=> Generates(requests[s])
    BY DEF IsGenerating, Label, Generates, Generating
<1>7. CASE others = {}
    <2>1. \A s \in Slots \ {r} : ~Generates(requests'[s])
        BY <1>4, <1>6, <1>7
    <2>2. RacesKnown'
        BY <2>1 DEF RacesKnown
    <2>3. KeepsUp(requests[r])'
        BY <1>3, <1>4 DEF KeepsUp, Generates, Generating
    <2> QED
        BY <1>5, <2>2, <2>3 DEF SavesInv, Applied
<1>8. CASE others # {}
    <2>1. PICK s \in Slots \ {r} : Generates(requests[s])
        BY <1>6, <1>8
    <2>2. /\ raced' = (raced \/ \E t \in others \cup {r} : requests[t].kind \notin LockedKinds)
          /\ unapplied' = unapplied
        BY <1>8 DEF Begin
    <2>3. \E t \in others \cup {r} : requests[t].kind \notin LockedKinds
        <3> SUFFICES ASSUME requests[s].kind \in LockedKinds,
                            requests[r].kind \in LockedKinds
                     PROVE  FALSE
            BY <1>6, <2>1
        <3>1. InLock(requests[s]) /\ InLock(requests[r])
            BY <1>1, <2>1 DEF InLock, Generates, Generating
        <3> QED
            BY <2>1, <3>1 DEF SavesInv, OneHolder
    <2>4. raced'
        BY <2>2, <2>3
    <2> QED
        BY <1>5, <2>4 DEF SavesInv, RacesKnown, Applied
<1> QED
    BY <1>7, <1>8

\* A file is made of what is saved, and is still of that when it is written,
\* unless something was saved meanwhile: then another generation is due.
LEMMA ReadSaves ==
    ASSUME Forms, SavesInv, NEW r \in Slots,
           \/ Read(r, "cbt", "cbt.read", "cbt.write")
           \/ Read(r, "backend", "backend.read", "backend.write")
    PROVE  SavesInv'
<1>1. PICK f \in Outputs :
          \/ f = "cbt" /\ Read(r, f, "cbt.read", "cbt.write")
          \/ f = "backend" /\ Read(r, f, "backend.read", "backend.write")
    BY DEF Outputs
<1> DEFINE label == IF f = "cbt" THEN "cbt.read" ELSE "backend.read"
           next == IF f = "cbt" THEN "cbt.write" ELSE "backend.write"
           q == Moved(r, next, Output(f))
<1>2. /\ requests[r] # Idle /\ requests[r].pc = label /\ Shapes
      /\ UNCHANGED <<file, lab, custom, outputs, raced, unapplied>>
    BY <1>1 DEF Read, Label, Forms
<1>3. requests' = [requests EXCEPT ![r] = q]
    <2>1. requests' = [requests EXCEPT ![r] =
              [requests[r] EXCEPT !.pc = next, !.draft = Output(f)]]
        BY <1>1 DEF Read
    <2>2. [requests[r] EXCEPT !.pc = next, !.draft = Output(f)] = q
        BY <1>2, DraftMoves
    <2> QED
        BY <2>1, <2>2
<1>4. q # Idle /\ q.kind = requests[r].kind /\ q.pc = next /\ q.draft = Output(f)
    <2>1. next \in Resting \cup Generating
        BY DEF Generating
    <2>2. custom[f] # NoText => custom[f] \in Outputs
        BY DEF Forms, StoreForms, Texts
    <2>3. CopyOf(Outputs, Output(f))
        BY <2>2, OutputIsACopy
    <2> QED
        BY <1>2, <2>1, <2>3, MovedIsShaped
<1> HIDE DEF q
<1>5. Generates(requests[r]) /\ Generates(q) /\ ~Due(requests[r])
    BY <1>2, <1>4 DEF Generates, Generating, Due
<1>6. OneHolder' /\ RacesKnown'
    <2>1. InLock(q) => InLock(requests[r])
        BY <1>2, <1>4 DEF InLock
    <2> QED
        BY <1>2, <1>3, <1>5, <2>1, HoldersStay, RacesStay DEF SavesInv
<1>7. requests'[r] = q /\ \A s \in Slots \ {r} : requests'[s] = requests[s]
    BY <1>2, <1>3 DEF Shapes
<1>8. /\ Output(f)' = Output(f)
      /\ Output("cbt")' = Output("cbt") /\ Output("backend")' = Output("backend")
    BY <1>2, OutputsStay
<1>9. CASE raced \/ unapplied
    BY <1>2, <1>6, <1>9 DEF SavesInv, Applied
<1>10. ASSUME NEW s \in Slots, Due(requests[s])
       PROVE  Applied'
    BY <1>5, <1>7, <1>10 DEF Applied
<1>11. ASSUME NEW s \in Slots, KeepsUp(requests[s])
       PROVE  Applied'
    <2>1. CASE s # r
        <3>1. KeepsUp(requests[s])'
            BY <1>2, <1>7, <1>8, <1>11, <2>1 DEF KeepsUp
        <3> QED
            BY <3>1 DEF Applied
    <2>2. CASE s = r
        <3>1. KeepsUp(requests[r])'
            BY <1>1, <1>2, <1>4, <1>5, <1>7, <1>8, <1>11, <2>2 DEF KeepsUp
        <3> QED
            BY <3>1 DEF Applied
    <2> QED
        BY <2>1, <2>2
<1> QED
    BY <1>5, <1>6, <1>9, <1>10, <1>11 DEF SavesInv, Applied

LEMMA WriteSaves ==
    ASSUME Forms, SavesInv, NEW r \in Slots,
           \/ Write(r, "cbt", "cbt.write", "backend.read")
           \/ Write(r, "backend", "backend.write", "answer")
    PROVE  SavesInv'
<1>1. PICK f \in Outputs :
          \/ f = "cbt" /\ Write(r, f, "cbt.write", "backend.read")
          \/ f = "backend" /\ Write(r, f, "backend.write", "answer")
    BY DEF Outputs
<1> DEFINE label == IF f = "cbt" THEN "cbt.write" ELSE "backend.write"
           next == IF f = "cbt" THEN "backend.read" ELSE "answer"
           q == Moved(r, next, requests[r].draft)
<1>2. /\ requests[r] # Idle /\ requests[r].pc = label /\ Shapes
      /\ UNCHANGED <<file, lab, custom, raced, unapplied>>
      /\ outputs' = [outputs EXCEPT ![f] = requests[r].draft]
      /\ Goto(r, next)
    BY <1>1 DEF Write, Label, Forms
<1>3. requests' = [requests EXCEPT ![r] = q]
    BY <1>2, GotoMoves
<1>4. q # Idle /\ q.kind = requests[r].kind /\ q.pc = next
    <2>1. next \in Resting \cup Generating /\ next \notin {"cbt.write", "backend.write"}
        BY DEF Generating, Resting
    <2> QED
        BY <1>2, <2>1, MovedIsShaped
<1> HIDE DEF q
<1>5. Generates(requests[r]) /\ ~Due(requests[r])
    BY <1>2 DEF Generates, Generating, Due
<1>6. OneHolder' /\ RacesKnown'
    <2>1. InLock(q) => InLock(requests[r])
        BY <1>2, <1>4 DEF InLock
    <2> QED
        BY <1>2, <1>3, <1>5, <2>1, HoldersStay, RacesStay DEF SavesInv
<1>7. requests'[r] = q /\ \A s \in Slots \ {r} : requests'[s] = requests[s]
    BY <1>2, <1>3 DEF Shapes
<1>8. Output("cbt")' = Output("cbt") /\ Output("backend")' = Output("backend")
    BY <1>2, OutputsStay
<1>9. CASE raced \/ unapplied
    BY <1>2, <1>6, <1>9 DEF SavesInv, Applied
<1>10. ASSUME NEW s \in Slots, Due(requests[s])
       PROVE  Applied'
    BY <1>5, <1>7, <1>10 DEF Applied
<1>11. ASSUME NEW s \in Slots, KeepsUp(requests[s]), ~raced
       PROVE  Applied'
    <2>1. s = r /\ KeepsUp(requests[r])
        BY <1>5, <1>11 DEF SavesInv, RacesKnown, KeepsUp
    <2>2. CASE f = "cbt"
        <3>1. outputs'["cbt"] = Output("cbt")
            BY <1>2, <2>1, <2>2 DEF KeepsUp, Forms, StoreForms, Outputs
        <3>2. q.pc = "backend.read"
            BY <1>4, <2>2
        <3>3. KeepsUp(requests[r])'
            BY <1>4, <1>7, <1>8, <3>1, <3>2 DEF KeepsUp, Generates, Generating
        <3> QED
            BY <3>3 DEF Applied
    <2>3. CASE f = "backend"
        <3>1. outputs'["backend"] = Output("backend") /\ outputs'["cbt"] = Output("cbt")
            BY <1>2, <2>1, <2>3 DEF KeepsUp, Forms, StoreForms, Outputs
        <3>2. AreCurrent'
            BY <1>8, <3>1 DEF AreCurrent, Outputs
        <3>3. \A t \in Slots \ {r} : ~Generates(requests[t])
            BY <1>5, <1>11 DEF SavesInv, RacesKnown
        <3>4. ~Generates(q)
            BY <1>4, <2>3 DEF Generates, Generating
        <3>5. \A t \in Slots : ~Generates(requests[t])'
            BY <1>7, <3>3, <3>4
        <3> QED
            BY <3>2, <3>5 DEF Applied
    <2> QED
        BY <2>2, <2>3 DEF Outputs
<1> QED
    BY <1>5, <1>6, <1>9, <1>10, <1>11 DEF SavesInv, Applied

LEMMA FailureSaves ==
    ASSUME Forms, SavesInv, NEW r \in Slots, GenerateFails(r)
    PROVE  SavesInv'
<1> DEFINE q == Moved(r, "answer", requests[r].draft)
<1>1. /\ requests[r] # Idle /\ Shapes /\ unapplied' /\ raced' = raced
      /\ Goto(r, "answer")
    BY DEF GenerateFails, IsGenerating, Label, Forms
<1>2. requests' = [requests EXCEPT ![r] = q]
    BY <1>1, GotoMoves
<1>3. q.pc = "answer"
    BY DEF Moved
<1> HIDE DEF q
<1>4. ~InLock(q) /\ ~Generates(q)
    BY <1>3 DEF InLock, Generates, Generating
<1>5. OneHolder' /\ RacesKnown'
    BY <1>1, <1>2, <1>4, HoldersStay, RacesStay DEF SavesInv
<1> QED
    BY <1>1, <1>5 DEF SavesInv, Applied

LEMMA NextSaves == Forms /\ SavesInv /\ [Next]_vars => SavesInv'
<1> SUFFICES ASSUME Forms, SavesInv, [Next]_vars PROVE SavesInv'
    OBVIOUS
<1>1. CASE Run \/ Choose \/ FixTui \/ Type \/ SaveTui \/ Reload \/ Quit
    BY <1>1, OthersSave DEF Run, Choose, FixTui, Type, SaveTui, Reload, Quit, TuiOnly,
                            serverVars
<1>2. CASE \E tab \in {"overrides", "lab", "files"} : OpenTab(tab)
    BY <1>2, OpenSaves
<1>3. CASE \/ LoadOverridesTab \/ LoadLabTab \/ EditOverrides \/ FixPage \/ EditLab
           \/ EditText
           \/ \E f \in Outputs : Select(f) \/ \E then \in {"select", "refresh"} :
                                     Arrives(f, then) \/ ArrivesNot(f, then)
    BY <1>3, OthersSave DEF LoadOverridesTab, LoadLabTab, EditOverrides, FixPage, EditLab,
         EditText, Select, Arrives, ArrivesNot, PageOnly, serverVars, auxVars
<1>4. CASE SaveOverrides \/ SaveLab \/ Regenerate \/ SaveText \/ RemoveText
    BY <1>4, SendSaves
<1>5. CASE SaveXatu
    BY <1>5, OthersSave DEF SaveXatu, auxVars
<1>6. CASE \E r \in Slots :
          \/ Lock(r) \/ Refused(r) \/ LoadExisting(r) \/ WriteOverrides(r)
          \/ Apply(r) \/ WriteConfig(r) \/ RecreateOrchestrator(r) \/ PutText(r)
          \/ DeleteText(r)
    BY <1>6, HandlerSaves
<1>7. CASE \E r \in Slots : Begin(r) \/ Generate(r) \/ GenerateFails(r) \/ Answer(r)
    BY <1>7, BeginSaves, ReadSaves, WriteSaves, FailureSaves, AnswerSaves DEF Generate
<1>8. CASE UNCHANGED vars
    BY <1>8, OthersSave DEF vars, serverVars, auxVars
<1> QED
    BY <1>1, <1>2, <1>3, <1>4, <1>5, <1>6, <1>7, <1>8 DEF Next, HandleKeyPress


(***************************************************************************)
(* Where the custom texts come from.                                       *)
(***************************************************************************)

OwnPage ==
    page.tab = "files" =>
        /\ page.shown # NoText => page.origin = page.shown
        /\ ~page.loading => page.shown = page.selected
        /\ ~page.loading /\ page.editing => page.text = page.selected

OwnStore ==
    \A f \in Outputs : custom[f] \in {f, NoText} /\ CopyOf({f}, outputs[f])

OwnRequest(q) ==
    q # Idle =>
        /\ q.pc = "cbt.write" => CopyOf({"cbt"}, q.draft)
        /\ q.pc = "backend.write" => CopyOf({"backend"}, q.draft)
        /\ q.kind = "put" => q.body.text = q.body.name

OwnInv ==
    ~strayed => OwnPage /\ OwnStore /\ \A r \in Slots : OwnRequest(requests[r])

LEMMA InitOwn == Init => OwnInv
<1> SUFFICES ASSUME Init PROVE OwnInv
    OBVIOUS
<1>1. \A f \in Outputs : custom[f] = NoText /\ outputs[f] = Output(f)
    BY DEF Init
<1>2. \A f \in Outputs : CopyOf({f}, Output(f))
    BY <1>1, OutputIsACopy
<1> QED
    BY <1>1, <1>2 DEF Init, OwnInv, OwnPage, OwnStore, OwnRequest, NoPage, Idle

\* Nothing of it changes but the page, and that outside the viewer.
LEMMA OthersOwn ==
    ASSUME OwnInv, UNCHANGED <<custom, outputs, requests, strayed>>,
           page' = page \/ page'.tab # "files"
    PROVE  OwnInv'
<1>1. OwnPage => OwnPage'
    BY DEF OwnPage
<1>2. OwnStore => OwnStore'
    BY DEF OwnStore, CopyOf
<1>3. (\A r \in Slots : OwnRequest(requests[r]))
          => \A r \in Slots : OwnRequest(requests[r])'
    BY DEF OwnRequest, CopyOf
<1> QED
    BY <1>1, <1>2, <1>3 DEF OwnInv

LEMMA EditOwn ==
    ASSUME OwnInv, Forms, IInv,
           \/ LoadOverridesTab \/ LoadLabTab \/ EditOverrides \/ FixPage \/ EditLab
    PROVE  OwnInv'
<1>1. UNCHANGED <<custom, outputs, requests, strayed>>
    BY DEF LoadOverridesTab, LoadLabTab, EditOverrides, FixPage, EditLab, PageOnly,
           serverVars, auxVars
<1>2. page'.tab # "files"
    <2>1. CASE LoadOverridesTab \/ EditOverrides \/ FixPage
        <3>1. page'.tab = "overrides"
            BY <2>1 DEF LoadOverridesTab, EditOverrides, FixPage, IsEdited, IInv, PageOK
        <3> QED
            BY <3>1
    <2>2. CASE LoadLabTab \/ EditLab
        <3>1. page \in LabPages
            BY <2>2 DEF LoadLabTab, EditLab, IsEdited, Forms, PageForms
        <3>2. CASE LoadLabTab
            BY <3>2 DEF LoadLabTab
        <3>3. CASE EditLab
            <4>1. page' \in LabPages
                BY <3>1, <3>3 DEF EditLab, IsEdited, LabPages
            <4> QED
                BY <4>1 DEF LabPages
        <3> QED
            BY <2>2, <3>2, <3>3
    <2> QED
        BY <2>1, <2>2
<1> QED
    BY <1>1, <1>2, OthersOwn

LEMMA OpenOwn ==
    ASSUME OwnInv, Forms, NEW tab \in {"overrides", "lab", "files"}, OpenTab(tab)
    PROVE  OwnInv'
<1> SUFFICES ASSUME ~strayed'
             PROVE  OwnPage' /\ OwnStore' /\ \A r \in Slots : OwnRequest(requests[r])'
    BY DEF OwnInv
<1>1. OwnStore /\ \A r \in Slots : OwnRequest(requests[r])
    BY DEF OpenTab, auxVars, OwnInv
<1>2. OwnPage'
    BY DEF OpenTab, OwnPage
<1>3. OwnStore'
    BY <1>1 DEF OpenTab, OwnStore, CopyOf
<1>4. ASSUME NEW r \in Slots PROVE OwnRequest(requests[r])'
    <2>1. Shaped(requests[r])
        BY DEF Forms, Shapes
    <2>2. CASE requests[r] = Idle
        BY <2>2 DEF OpenTab, OwnRequest
    <2>3. CASE requests[r] # Idle
        <3>1. requests'[r] = [kind |-> requests[r].kind, body |-> requests[r].body,
                              pc |-> requests[r].pc, draft |-> requests[r].draft,
                              mine |-> FALSE]
            BY <2>1, <2>3 DEF OpenTab, Shaped
        <3> QED
            BY <1>1, <2>3, <3>1 DEF OwnRequest
    <2> QED
        BY <2>2, <2>3
<1> QED
    BY <1>2, <1>3, <1>4

\* The viewer edits what it shows, and shows what is selected.
LEMMA ViewerOwn ==
    ASSUME OwnInv, Forms, NEW f \in Outputs, NEW then \in {"select", "refresh"},
           Select(f) \/ Arrives(f, then) \/ ArrivesNot(f, then) \/ EditText
    PROVE  OwnInv'
<1>1. UNCHANGED <<custom, outputs, requests>>
    BY DEF Select, Arrives, ArrivesNot, EditText, PageOnly, serverVars
<1>2. page.tab = "files" /\ page \in FilePages
    BY DEF Select, Arrives, ArrivesNot, EditText, HasPanel, Forms, PageForms
<1> SUFFICES ASSUME ~strayed'
             PROVE  OwnPage' /\ OwnStore' /\ \A r \in Slots : OwnRequest(requests[r])'
    BY DEF OwnInv
<1>3. ~strayed
    BY DEF Select, Arrives, ArrivesNot, EditText, PageOnly, auxVars
<1>4. OwnStore' /\ \A r \in Slots : OwnRequest(requests[r])'
    BY <1>1, <1>3 DEF OwnInv, OwnStore, OwnRequest, CopyOf
<1>5. OwnPage /\ OwnStore
    BY <1>3 DEF OwnInv
<1>6. CASE Select(f)
    <2>1. page'.loading /\ page'.shown = page.shown /\ page'.origin = page.origin
        BY <1>2, <1>6 DEF Select, FilePages
    <2> QED
        BY <1>2, <1>4, <1>5, <2>1 DEF OwnPage
<1>7. CASE Arrives(f, then)
    <2>1. f = page.selected
        BY <1>7 DEF Arrives
    <2>2. Origin(f) = f
        BY <1>5 DEF Origin, OwnStore, CopyOf
    <2>3. /\ page'.shown = f /\ page'.origin = f /\ page'.selected = f
          /\ page'.editing = FALSE
        BY <1>2, <1>7, <2>1, <2>2 DEF Arrives, FilePages
    <2> QED
        BY <1>4, <2>3 DEF OwnPage
<1>8. CASE ArrivesNot(f, then)
    BY <1>8 DEF ArrivesNot
<1>9. CASE EditText
    <2>1. /\ page'.shown = page.shown /\ page'.origin = page.origin
          /\ page'.selected = page.selected /\ page'.loading = page.loading
          /\ page'.editing => page'.text = page.origin
        BY <1>2, <1>9 DEF EditText, FilePages
    <2>2. ~page.loading /\ page.shown # NoText
        BY <1>9 DEF EditText, HasPanel
    <2> QED
        BY <1>2, <1>4, <1>5, <2>1, <2>2 DEF OwnPage
<1> QED
    BY <1>6, <1>7, <1>8, <1>9

LEMMA SendOwn ==
    ASSUME OwnInv, Forms, IInv,
           SaveOverrides \/ SaveLab \/ Regenerate \/ SaveText \/ RemoveText
    PROVE  OwnInv'
<1> SUFFICES ASSUME ~strayed'
             PROVE  OwnPage' /\ OwnStore' /\ \A r \in Slots : OwnRequest(requests[r])'
    BY DEF OwnInv
<1>1. UNCHANGED <<custom, outputs, strayed>>
    BY DEF SaveOverrides, SaveLab, Regenerate, SaveText, RemoveText, SendOnly, auxVars
<1>2. OwnPage /\ OwnStore /\ \A r \in Slots : OwnRequest(requests[r])
    BY <1>1 DEF OwnInv
<1>3. OwnStore'
    BY <1>1, <1>2 DEF OwnStore, CopyOf
<1>4. OwnPage'
    <2>1. CASE SaveText
        <3>1. page \in FilePages
            BY <2>1 DEF SaveText, HasPanel, Forms, PageForms
        <3>2. /\ page'.shown = page.shown /\ page'.origin = page.origin
              /\ page'.selected = page.selected /\ page'.loading = page.loading
              /\ page'.editing = page.editing /\ page'.text = page.text
              /\ page'.tab = page.tab
            BY <2>1, <3>1 DEF SaveText, FilePages
        <3> QED
            BY <1>2, <3>2 DEF OwnPage
    <2>2. CASE SaveOverrides \/ SaveLab
        <3>1. page'.tab # "files"
            BY <2>2 DEF SaveOverrides, SaveLab, IsEdited, IInv, PageOK
        <3> QED
            BY <3>1 DEF OwnPage
    <2>3. CASE Regenerate \/ RemoveText
        BY <1>2, <2>3 DEF Regenerate, RemoveText, OwnPage
    <2> QED
        BY <2>1, <2>2, <2>3
<1>5. ASSUME NEW kind, NEW body, NEW label \in {"lock", "generate", "save"},
             kind = "put" => body.text = body.name, Send(kind, body, label)
      PROVE  \A r \in Slots : OwnRequest(requests[r])'
    <2> DEFINE q == [kind |-> kind, body |-> body, pc |-> label, draft |-> NoText,
                     mine |-> TRUE]
    <2>1. PICK r \in Slots : requests' = [requests EXCEPT ![r] = q]
        BY <1>5 DEF Send
    <2>2. OwnRequest(q)
        BY <1>5 DEF OwnRequest
    <2> HIDE DEF q
    <2> QED
        BY <1>2, <2>1, <2>2 DEF Forms, Shapes, OwnRequest, CopyOf
<1>6. CASE SaveOverrides \/ SaveLab \/ Regenerate
    <2>1. \E kind \in {"overrides", "lab", "regenerate"}, label \in {"lock", "generate"} :
              \E body : Send(kind, body, label)
        BY <1>6 DEF SaveOverrides, SaveLab, Regenerate
    <2>2. \A r \in Slots : OwnRequest(requests[r])'
        BY <1>5, <2>1
    <2> QED
        BY <1>3, <1>4, <2>2
<1>7. CASE SaveText
    <2> DEFINE body == [name |-> page.selected, text |-> page.text]
    <2>1. body.text = body.name
        BY <1>2, <1>7 DEF SaveText, HasPanel, OwnPage
    <2>2. Send("put", body, "save")
        BY <1>7 DEF SaveText
    <2> HIDE DEF body
    <2>3. \A r \in Slots : OwnRequest(requests[r])'
        BY <1>5, <2>1, <2>2
    <2> QED
        BY <1>3, <1>4, <2>3
<1>8. CASE RemoveText
    <2> DEFINE body == [name |-> page.selected, text |-> NoText]
    <2>2. Send("delete", body, "save")
        BY <1>8 DEF RemoveText
    <2> HIDE DEF body
    <2>3. \A r \in Slots : OwnRequest(requests[r])'
        BY <1>5, <2>2
    <2> QED
        BY <1>3, <1>4, <2>3
<1> QED
    BY <1>6, <1>7, <1>8

\* A request that moves, or is answered.
LEMMA MovedOwn ==
    ASSUME Shapes, NEW r \in Slots, requests[r] # Idle, OwnRequest(requests[r]),
           NEW label \in Resting \cup Generating, NEW draft,
           label = "cbt.write" => CopyOf({"cbt"}, draft),
           label = "backend.write" => CopyOf({"backend"}, draft)
    PROVE  OwnRequest(Moved(r, label, draft))
<1>1. LET q == Moved(r, label, draft)
      IN  /\ q.kind = requests[r].kind /\ q.body = requests[r].body /\ q.pc = label
          /\ q.draft = draft
    BY DEF Moved
<1> QED
    BY <1>1 DEF OwnRequest

LEMMA HandlerOwn ==
    ASSUME OwnInv, Forms, NEW r \in Slots,
           \/ Lock(r) \/ Refused(r) \/ LoadExisting(r) \/ WriteOverrides(r)
           \/ Apply(r) \/ WriteConfig(r) \/ RecreateOrchestrator(r) \/ PutText(r)
           \/ DeleteText(r) \/ Begin(r) \/ Generate(r) \/ GenerateFails(r)
    PROVE  OwnInv'
<1> SUFFICES ASSUME ~strayed'
             PROVE  OwnPage' /\ OwnStore' /\ \A s \in Slots : OwnRequest(requests[s])'
    BY DEF OwnInv
<1>1. requests[r] # Idle /\ Shapes /\ Shaped(requests[r])
    BY DEF Lock, Refused, LoadExisting, WriteOverrides, Apply, WriteConfig,
           RecreateOrchestrator, PutText, DeleteText, Begin, Generate, Read, Write,
           GenerateFails, Label, At, IsGenerating, Forms, Shapes
<1>2. UNCHANGED <<page, strayed>>
    BY DEF Lock, Refused, LoadExisting, WriteOverrides, Apply, WriteConfig,
           RecreateOrchestrator, PutText, DeleteText, Begin, Generate, Read, Write,
           GenerateFails, Rest
<1>3. OwnPage /\ OwnStore /\ \A s \in Slots : OwnRequest(requests[s])
    BY <1>2 DEF OwnInv
<1>4. OwnPage'
    BY <1>2, <1>3 DEF OwnPage
<1>5. ASSUME NEW q, OwnRequest(q), requests' = [requests EXCEPT ![r] = q]
      PROVE  \A s \in Slots : OwnRequest(requests[s])'
    BY <1>1, <1>3, <1>5 DEF Shapes, OwnRequest, CopyOf
<1>6. ASSUME NEW label \in (Resting \cup Generating) \ {"cbt.write", "backend.write"},
             Goto(r, label)
      PROVE  \A s \in Slots : OwnRequest(requests[s])'
    <2>1. requests' = [requests EXCEPT ![r] = Moved(r, label, requests[r].draft)]
        BY <1>1, <1>6, GotoMoves
    <2>2. OwnRequest(Moved(r, label, requests[r].draft))
        BY <1>1, <1>3, MovedOwn
    <2> QED
        BY <1>5, <2>1, <2>2
<1>7. CASE Lock(r) \/ Refused(r) \/ WriteOverrides(r) \/ Apply(r) \/ WriteConfig(r)
           \/ RecreateOrchestrator(r) \/ Begin(r) \/ GenerateFails(r)
    <2>1. OwnStore'
        BY <1>3, <1>7 DEF Lock, Refused, WriteOverrides, Apply, WriteConfig,
             RecreateOrchestrator, Begin, GenerateFails, OwnStore, CopyOf
    <2>2. PICK label \in {"load", "save", "answer", "recreate", "generate", "cbt.read"} :
              Goto(r, label)
        BY <1>7 DEF Lock, Refused, WriteOverrides, Apply, WriteConfig,
             RecreateOrchestrator, Begin, GenerateFails
    <2> QED
        BY <1>4, <1>6, <2>1, <2>2 DEF Resting, Generating
<1>8. CASE LoadExisting(r)
    <2>1. OwnStore'
        BY <1>3, <1>8 DEF LoadExisting, OwnStore, CopyOf
    <2>2. requests' = [requests EXCEPT ![r] = Moved(r, "save", LoadOverrides(file))]
        <3>1. requests' = [requests EXCEPT ![r] =
                  [requests[r] EXCEPT !.pc = "save", !.draft = LoadOverrides(file)]]
            BY <1>8 DEF LoadExisting
        <3>2. [requests[r] EXCEPT !.pc = "save", !.draft = LoadOverrides(file)]
              = Moved(r, "save", LoadOverrides(file))
            BY <1>1, DraftMoves
        <3> QED
            BY <3>1, <3>2
    <2>3. OwnRequest(Moved(r, "save", LoadOverrides(file)))
        BY <1>1, <1>3, MovedOwn DEF Resting
    <2> QED
        BY <1>4, <1>5, <2>1, <2>2, <2>3
<1>9. CASE PutText(r) \/ DeleteText(r)
    <2>1. requests[r].body.name \in Outputs
        BY <1>1, <1>9 DEF PutText, DeleteText, At, Shaped, TextBodies
    <2>2. PICK text \in {requests[r].body.name, NoText} :
              custom' = [custom EXCEPT ![requests[r].body.name] = text]
        BY <1>1, <1>3, <1>9 DEF PutText, DeleteText, At, OwnRequest
    <2>3. OwnStore'
        BY <1>3, <1>9, <2>1, <2>2 DEF PutText, DeleteText, OwnStore, CopyOf, Forms, StoreForms
    <2>4. Goto(r, "generate")
        BY <1>9 DEF PutText, DeleteText
    <2> QED
        BY <1>4, <1>6, <2>3, <2>4 DEF Resting
<1>10. ASSUME NEW f \in Outputs, NEW label, NEW next,
              next = (IF f = "cbt" THEN "cbt.write" ELSE "backend.write"),
              Read(r, f, label, next)
       PROVE  OwnStore' /\ \A s \in Slots : OwnRequest(requests[s])'
    <2>1. OwnStore'
        BY <1>3, <1>10 DEF Read, OwnStore, CopyOf
    <2>2. requests' = [requests EXCEPT ![r] = Moved(r, next, Output(f))]
        <3>1. requests' = [requests EXCEPT ![r] =
                  [requests[r] EXCEPT !.pc = next, !.draft = Output(f)]]
            BY <1>10 DEF Read
        <3>2. [requests[r] EXCEPT !.pc = next, !.draft = Output(f)]
              = Moved(r, next, Output(f))
            BY <1>1, DraftMoves
        <3> QED
            BY <3>1, <3>2
    <2>3. CopyOf({f}, Output(f))
        BY <1>3, OutputIsACopy DEF OwnStore
    <2>4. next \in Resting \cup Generating
        BY <1>10 DEF Generating
    <2>5. /\ next = "cbt.write" => f = "cbt"
          /\ next = "backend.write" => f = "backend"
        BY <1>10 DEF Outputs
    <2>6. OwnRequest(Moved(r, next, Output(f)))
        BY <1>1, <1>3, <2>3, <2>4, <2>5, MovedOwn
    <2> QED
        BY <1>5, <2>1, <2>2, <2>6
<1>11. ASSUME NEW f \in Outputs, NEW label, NEW next \in {"backend.read", "answer"},
              label = (IF f = "cbt" THEN "cbt.write" ELSE "backend.write"),
              Write(r, f, label, next)
       PROVE  OwnStore' /\ \A s \in Slots : OwnRequest(requests[s])'
    <2>1. requests[r].pc = label
        BY <1>1, <1>11 DEF Write, Label
    <2>2. CopyOf({f}, requests[r].draft)
        BY <1>1, <1>3, <1>11, <2>1 DEF OwnRequest, Outputs
    <2>3. /\ outputs' = [outputs EXCEPT ![f] = requests[r].draft]
          /\ custom' = custom /\ DOMAIN outputs = Outputs /\ Goto(r, next)
        BY <1>11 DEF Write, Forms, StoreForms
    <2>4. OwnStore'
        BY <1>3, <2>2, <2>3 DEF OwnStore, CopyOf
    <2> QED
        BY <1>6, <2>3, <2>4 DEF Resting, Generating
<1>12. CASE Generate(r)
    <2>1. OwnStore' /\ \A s \in Slots : OwnRequest(requests[s])'
        BY <1>12, <1>10, <1>11 DEF Generate, Outputs
    <2> QED
        BY <1>4, <2>1
<1> QED
    BY <1>7, <1>8, <1>9, <1>12

LEMMA AnswerOwn ==
    ASSUME OwnInv, Forms, IInv, NEW r \in Slots, Answer(r)
    PROVE  OwnInv'
<1> SUFFICES ASSUME ~strayed'
             PROVE  OwnPage' /\ OwnStore' /\ \A s \in Slots : OwnRequest(requests[s])'
    BY DEF OwnInv
<1>1. UNCHANGED <<custom, outputs, strayed>> /\ requests' = [requests EXCEPT ![r] = Idle]
      /\ (page' = page \/ page' = [page EXCEPT !.saving = FALSE])
    BY DEF Answer, auxVars
<1>2. OwnPage /\ OwnStore /\ \A s \in Slots : OwnRequest(requests[s])
    BY <1>1 DEF OwnInv
<1>3. OwnStore'
    BY <1>1, <1>2 DEF OwnStore, CopyOf
<1>4. \A s \in Slots : OwnRequest(requests[s])'
    BY <1>1, <1>2 DEF Forms, Shapes, OwnRequest, CopyOf
<1>5. OwnPage'
    <2>1. CASE page' = page
        BY <1>2, <2>1 DEF OwnPage
    <2>2. CASE page' = [page EXCEPT !.saving = FALSE] /\ page.tab # "files"
        <3>1. page'.tab # "files"
            BY <2>2 DEF IInv, PageOK
        <3> QED
            BY <3>1 DEF OwnPage
    <2>3. CASE page' = [page EXCEPT !.saving = FALSE] /\ page.tab = "files"
        <3>1. page \in FilePages
            BY <2>3 DEF Forms, PageForms
        <3>2. /\ page'.shown = page.shown /\ page'.origin = page.origin
              /\ page'.selected = page.selected /\ page'.loading = page.loading
              /\ page'.editing = page.editing /\ page'.text = page.text
            BY <2>3, <3>1 DEF FilePages
        <3> QED
            BY <1>2, <2>3, <3>2 DEF OwnPage
    <2> QED
        BY <1>1, <2>1, <2>2, <2>3
<1> QED
    BY <1>3, <1>4, <1>5

LEMMA NextOwn == OwnInv /\ Forms /\ IInv /\ [Next]_vars => OwnInv'
<1> SUFFICES ASSUME OwnInv, Forms, IInv, [Next]_vars PROVE OwnInv'
    OBVIOUS
<1>1. CASE Run \/ Choose \/ FixTui \/ Type \/ SaveTui \/ Reload \/ Quit
    BY <1>1, OthersOwn DEF Run, Choose, FixTui, Type, SaveTui, Reload, Quit, TuiOnly,
                           serverVars
<1>2. CASE \E tab \in {"overrides", "lab", "files"} : OpenTab(tab)
    BY <1>2, OpenOwn
<1>3. CASE LoadOverridesTab \/ LoadLabTab \/ EditOverrides \/ FixPage \/ EditLab
    BY <1>3, EditOwn
<1>4. CASE SaveOverrides \/ SaveLab \/ Regenerate \/ SaveText \/ RemoveText
    BY <1>4, SendOwn
<1>5. CASE \/ EditText
           \/ \E f \in Outputs : Select(f) \/ \E then \in {"select", "refresh"} :
                                     Arrives(f, then) \/ ArrivesNot(f, then)
    BY <1>5, ViewerOwn DEF Outputs
<1>6. CASE SaveXatu
    BY <1>6, OthersOwn DEF SaveXatu, auxVars
<1>7. CASE \E r \in Slots :
          \/ Lock(r) \/ Refused(r) \/ LoadExisting(r) \/ WriteOverrides(r)
          \/ Apply(r) \/ WriteConfig(r) \/ RecreateOrchestrator(r) \/ PutText(r)
          \/ DeleteText(r) \/ Begin(r) \/ Generate(r) \/ GenerateFails(r)
    BY <1>7, HandlerOwn
<1>8. CASE \E r \in Slots : Answer(r)
    BY <1>8, AnswerOwn
<1>9. CASE UNCHANGED vars
    BY <1>9, OthersOwn DEF vars, serverVars, auxVars
<1> QED
    BY <1>1, <1>2, <1>3, <1>4, <1>5, <1>6, <1>7, <1>8, <1>9 DEF Next, HandleKeyPress

LEMMA FormsHold == Spec => [](IInv /\ Forms)
<1>1. Init => IInv /\ Forms
    BY InitIInv, InitForms
<1>2. IInv /\ Forms /\ [Next]_vars => (IInv /\ Forms)'
    BY NextIInv, NextForms
<1> QED
    BY <1>1, <1>2, PTL DEF Spec


(***************************************************************************)
(* The theorems.                                                           *)
(***************************************************************************)

\* The overrides file reads back as the editor that saved it last showed it,
\* whichever editor it was and whatever the others did meanwhile
\* (overrides.go:136-205).
THEOREM SavedFilesReadBack == Spec => []SavesReadBack
<1>1. IInv => SavesReadBack
    <2> SUFFICES ASSUME IInv, last # NoSave PROVE SavesReadBack
        BY DEF SavesReadBack
    <2>1. /\ last.on \in SUBSET Models
          /\ last.allow \in BOOLEAN /\ last.env \in Values /\ last.envOn \in BOOLEAN
          /\ last.existing \in Files
          /\ file = Saved(last.on, last.allow, last.env, last.envOn, last.existing)
        BY DEF IInv, LastOK
    <2>2. /\ Shown(file) = IF last.allow
                           THEN ListedEnabled(last.on, last.allow, last.existing)
                           ELSE last.on
          /\ LoadOverrides(file).env = IF last.envOn THEN last.env ELSE Unset
        BY <2>1, SaveReadsBack
    <2>3. last.allow => ListedEnabled(last.on, last.allow, last.existing)
                        = {m \in last.on : Block(last.existing, m) # NoBlock}
        BY DEF ListedEnabled
    <2> QED
        BY <2>2, <2>3 DEF SavesReadBack
<1> QED
    BY <1>1, InvariantHolds, PTL

\* The two buttons agree on whatever the editors show (model.go:246-274,
\* CBTOverridesEditor.tsx:208-268).
THEOREM EditorsFixesAgree == Spec => []FixesAgree
<1>1. IInv => FixesAgree
    <2> SUFFICES ASSUME IInv,
                        NEW on \in (IF tui.open THEN {tui.on} ELSE {})
                                   \cup (IF IsEdited("overrides") THEN {page.on} ELSE {})
                 PROVE  /\ EnableMissing(on) = EnableUntilStable(on)
                        /\ Needed(EnableMissing(on)) \subseteq EnableMissing(on)
        BY DEF FixesAgree
    <2>1. CASE tui.open /\ on = tui.on
        <3>1. tui # Closed
            BY <2>1 DEF Closed
        <3>2. tui \in TuiStates
            BY <3>1 DEF IInv, TuiOK
        <3>3. on \in SUBSET Models
            BY <2>1, <3>2 DEF TuiStates
        <3> QED
            BY <3>3, BothFixesAgree
    <2>2. CASE IsEdited("overrides") /\ on = page.on
        <3>1. on \in SUBSET Models
            BY <2>2, LoadedPage DEF IInv
        <3> QED
            BY <3>1, BothFixesAgree
    <2> QED
        BY <2>1, <2>2
<1> QED
    BY <1>1, InvariantHolds, PTL

\* When no request is under way the generated files are those of what is saved
\* and the engine runs what lab-backend is routed to, unless something was
\* saved past the handlers, a generation failed or two overlapped outside their
\* lock (api_config.go:105-115, 154-200, 236-262).
THEOREM SettledConfigs == Spec => []SettledConfigsAreCurrent
<1>1. IInv /\ Forms /\ SavesInv => SettledConfigsAreCurrent
    <2> SUFFICES ASSUME IInv, Forms, SavesInv, Quiet, ~raced, ~unapplied,
                        lab.mode # "local", \A f \in Outputs : custom[f] = NoText,
                        ~ \/ LoadOverrides(file).allow
                             /\ \E m \in DOMAIN LoadOverrides(file).overrides :
                                    SaysNothing(LoadOverrides(file).overrides[m])
                 PROVE  outputs["cbt"][2] = outputs["backend"][2]
        <3>1. ASSUME IInv, Forms, SavesInv, Quiet, ~raced, ~unapplied PROVE AreCurrent
            BY <3>1 DEF SavesInv, Applied, Quiet, Due, KeepsUp, Generates
        <3> QED
            BY <3>1 DEF SettledConfigsAreCurrent
    <2>1. AreCurrent
        BY DEF SavesInv, Applied, Quiet, Due, KeepsUp, Generates
    <2>2. /\ outputs["cbt"] = Output("cbt") /\ outputs["backend"] = Output("backend")
          /\ custom["cbt"] = NoText /\ custom["backend"] = NoText
        BY <2>1 DEF AreCurrent, Outputs
    <2>3. lab.mode = "hybrid"
        BY DEF Forms, StoreForms, LabConfigs
    <2>4. outputs["cbt"][2] = EngineRuns(file) /\ outputs["backend"][2] = LocalTables(file)
        BY <2>2, <2>3 DEF Output
    <2>5. file \in Files \cup {Missing}
        BY DEF IInv
    <2>6. file # Missing /\ file.allow =>
              \A m \in DOMAIN file.overrides : ~SaysNothing(file.overrides[m])
        BY DEF LoadOverrides
    <2> QED
        BY <2>4, <2>5, <2>6, EngineRunsWhatIsRouted
<1>2. Init => SavesInv
    BY InitSaves
<1>3. IInv /\ Forms /\ SavesInv /\ [Next]_vars => SavesInv'
    BY NextSaves
<1> QED
    BY <1>1, <1>2, <1>3, FormsHold, PTL DEF Spec

\* The state stays typed, and a custom text was made from the file it replaces
\* as long as every content arrived while its file was selected
\* (ServiceConfigViewer.tsx:34-55).
THEOREM CustomTextsAreOwn == Spec => []TextsAreOwn
<1>1. IInv /\ Forms /\ OwnInv => TextsAreOwn
    <2> SUFFICES ASSUME IInv, Forms, OwnInv PROVE TextsAreOwn
        OBVIOUS
    <2>1. TypeOK
        BY DEF IInv, TuiOK, TuiStates, Forms, StoreForms, CountForms, PageForms, Texts,
               TypeOK
    <2>2. ~strayed => \A f \in Outputs : custom[f] \in {f, NoText}
        BY DEF OwnInv, OwnStore
    <2> QED
        BY <2>1, <2>2 DEF TextsAreOwn
<1>2. Init => OwnInv
    BY InitOwn
<1>3. IInv /\ Forms /\ OwnInv /\ [Next]_vars => OwnInv'
    BY NextOwn
<1> QED
    BY <1>1, <1>2, <1>3, FormsHold, PTL DEF Spec
=============================================================================
