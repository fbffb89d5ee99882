---------------------------- MODULE ConfigEditors ----------------------------
(***************************************************************************)
(* The configuration page of the command center with its three tabs        *)
(* (CBTOverridesEditor, LabConfigEditor, ServiceConfigViewer), the         *)
(* handlers behind it (pkg/cc/api_config.go, backend_lab.go), the terminal *)
(* editor of xcli lab overrides (pkg/configtui) and the generation of the  *)
(* service configurations all their saves end in (pkg/configgen).  What    *)
(* the overrides file says and what a save writes is in Overrides.         *)
(***************************************************************************)
EXTENDS Overrides, Naturals

CONSTANTS
    InitialFiles,   \* overrides files a behaviour may start with
    InitialDisk,    \* the .xcli.yaml it starts with
    Slots,          \* requests that may be under way at a time
    MaxActs         \* bound: what the users of the editors do

\* The generated files.
Outputs == {"cbt", "backend"}

Passwords == {"", "s1", "s2"}
Mask == "********"

LabConfigs == [mode : {"local", "hybrid"}, password : Passwords]
Disks == [sections : SUBSET {"lab", "xatu"}, id : {"none", "mine"}, lab : LabConfigs]

ASSUME InitialFilesAssumption == InitialFiles \subseteq Files \cup {Missing}
ASSUME InitialDiskAssumption == InitialDisk \in Disks
ASSUME ActsAssumption == MaxActs \in Nat

NoText == "none"

VARIABLES
    file,       \* .cbt-overrides.yaml
    tui,        \* the terminal editor; Closed
    lab,        \* labBackend.labCfg; hybrid: its Xatu cluster is external
    disk,       \* .xcli.yaml: its sections, lab.instance.id, the rest of lab
    custom,     \* custom-configs: the file each text was made from
    outputs,    \* configs: what was generated
    page,       \* the tab that is open, and its state
    loads,      \* the viewer's requests for the content of a file
    requests,   \* the writing requests
    acts,
    last,       \* auxiliary: the last save of the overrides
    raced,      \* auxiliary: generations overlapped, one of them unlocked
    unapplied,  \* auxiliary: something was saved and not generated from
    strayed     \* auxiliary: the viewer took an answer for a file that is not
                \* selected, or got none for the one that is

serverVars == <<lab, disk, custom, outputs, requests>>
auxVars == <<last, raced, unapplied, strayed>>
vars == <<file, tui, page, loads, acts, serverVars, auxVars>>

Closed == [open |-> FALSE]
NoPage == [tab |-> "none"]
Idle == [kind |-> "idle"]
NoSave == [by |-> "none"]

Act == acts < MaxActs /\ acts' = acts + 1

(***************************************************************************)
(* Generation.                                                             *)
(***************************************************************************)

\* GenerateRuntimeConfigs: a custom text is copied, whatever it is; else the
\* engine's file is made of the overrides, lab-backend's of them and the mode.
Output(f) ==
    IF custom[f] # NoText THEN <<"custom", custom[f]>>
    ELSE IF f = "cbt"
         THEN <<"generated", EngineRuns(file), LoadOverrides(file).env>>
         ELSE <<"generated",
                IF lab.mode = "hybrid" THEN LocalTables(file) ELSE {},
                lab.mode>>

\* The generated files are those of the overrides, the mode and the customs.
AreCurrent == \A f \in Outputs : outputs[f] = Output(f)

LockedKinds == {"overrides", "lab"}

Label(r) == IF requests[r] = Idle THEN "idle" ELSE requests[r].pc

IsGenerating(r) ==
    Label(r) \in {"cbt.read", "cbt.write", "backend.read", "backend.write"}

\* apiHandler.mu is held for writing.
IsLocked ==
    \E r \in Slots : /\ requests[r] # Idle /\ requests[r].kind \in LockedKinds
                     /\ requests[r].pc \notin {"lock", "answer"}

Quiet == \A r \in Slots : requests[r] = Idle

TypeOK ==
    /\ file \in Files \cup {Missing}
    /\ tui = Closed \/ tui \in
        [open : {TRUE}, on : SUBSET Models, env : Values, envOn : BOOLEAN,
         existing : Files, dirty : BOOLEAN, asks : BOOLEAN]
    /\ lab \in LabConfigs /\ disk \in Disks
    /\ custom \in [Outputs -> Outputs \cup {NoText}]
    /\ DOMAIN outputs = Outputs
    /\ page.tab \in {"none", "overrides", "lab", "files"}
    /\ loads \subseteq Outputs \X {"select", "refresh"}
    /\ acts \in 0 .. MaxActs
    /\ raced \in BOOLEAN /\ unapplied \in BOOLEAN /\ strayed \in BOOLEAN

\* The lab was booted: what is on disk was generated from.
Init ==
    /\ file \in InitialFiles
    /\ disk = InitialDisk /\ lab = disk.lab
    /\ custom = [f \in Outputs |-> NoText]
    /\ outputs = [f \in Outputs |-> Output(f)]
    /\ tui = Closed /\ page = NoPage /\ loads = {}
    /\ requests = [r \in Slots |-> Idle]
    /\ acts = 0
    /\ last = NoSave
    /\ raced = FALSE /\ unapplied = FALSE /\ strayed = FALSE

(***************************************************************************)
(* The terminal editor.                                                    *)
(***************************************************************************)

\* What Run and reload make of the file.
Reading(f) ==
    [open |-> TRUE, on |-> Shown(f), env |-> LoadOverrides(f).env,
     envOn |-> LoadOverrides(f).env # Unset, existing |-> LoadOverrides(f),
     dirty |-> FALSE, asks |-> FALSE]

TuiOnly == UNCHANGED <<page, loads, serverVars, raced, strayed>>

\* It listens to its keys: the question whether to quit is not open.
Listens == tui.open /\ ~tui.asks

Run ==
    /\ ~tui.open
    /\ Act
    /\ tui' = Reading(file)
    /\ UNCHANGED <<file, last, unapplied>> /\ TuiOnly

\* Space on a model, a and n.
Choose ==
    /\ Listens
    /\ Act
    /\ \/ \E m \in Models : tui' = [tui EXCEPT
              !.on = (@ \ {m}) \cup ({m} \ @), !.dirty = TRUE]
       \/ \E on \in {Models, {}} : tui' = [tui EXCEPT !.on = on, !.dirty = TRUE]
    /\ UNCHANGED <<file, last, unapplied>> /\ TuiOnly

\* The d key.
FixTui ==
    /\ Listens /\ EnableMissing(tui.on) # tui.on
    /\ Act
    /\ tui' = [tui EXCEPT !.on = EnableMissing(@), !.dirty = TRUE]
    /\ UNCHANGED <<file, last, unapplied>> /\ TuiOnly

\* Digits switch the variable on, deleting the last one switches it off, and
\* so does space.
Type ==
    /\ Listens
    /\ Act
    /\ \/ \E env \in Values :
              tui' = [tui EXCEPT !.env = env, !.envOn = (env # Unset), !.dirty = TRUE]
       \/ tui' = [tui EXCEPT !.envOn = ~@, !.dirty = TRUE]
    /\ UNCHANGED <<file, last, unapplied>> /\ TuiOnly

\* s: the mode and the blocks are those of the file as it was read.  Nothing is
\* generated.
SaveTui ==
    /\ Listens
    /\ Act
    /\ LET f == Saved(tui.on, tui.existing.allow, tui.env, tui.envOn, tui.existing)
       IN file' = f
    /\ last' = [by |-> "tui", on |-> tui.on, allow |-> tui.existing.allow,
                env |-> tui.env, envOn |-> tui.envOn, existing |-> tui.existing]
    /\ unapplied' = TRUE
    /\ tui' = [tui EXCEPT !.dirty = FALSE]
    /\ TuiOnly

\* r.
Reload ==
    /\ Listens
    /\ tui' = Reading(file)
    /\ UNCHANGED <<file, acts, last, unapplied>> /\ TuiOnly

\* q asks when something is not saved; Ctrl-C does not.
Quit ==
    /\ tui.open
    /\ \/ ~tui.asks /\ tui' = (IF tui.dirty THEN [tui EXCEPT !.asks = TRUE]
                               ELSE Closed)
       \/ ~tui.asks /\ tui' = Closed
       \/ tui.asks /\ tui' \in {Closed, [tui EXCEPT !.asks = FALSE]}
    /\ UNCHANGED <<file, acts, last, unapplied>> /\ TuiOnly

\* What the terminal editor does on a key.
HandleKeyPress == Choose \/ FixTui \/ Type \/ SaveTui \/ Reload \/ Quit

(***************************************************************************)
(* The page.  A tab that is left is unmounted and loses its state; the     *)
(* requests it made go on.                                                 *)
(***************************************************************************)

PageOnly == UNCHANGED <<file, tui, serverVars, auxVars>>

\* The tabs of the page; the first two load when they are mounted.
OpenTab(tab) ==
    /\ page.tab # tab
    /\ Act
    /\ page' = IF tab = "files"
               THEN [tab |-> tab, selected |-> NoText, shown |-> NoText,
                     origin |-> NoText, text |-> NoText, override |-> FALSE,
                     editing |-> FALSE,
                     loading |-> FALSE, saving |-> FALSE]
               ELSE [tab |-> tab, loaded |-> FALSE]
    /\ loads' = {}
    /\ requests' = [r \in Slots |->
          IF requests[r] = Idle THEN Idle ELSE [requests[r] EXCEPT !.mine = FALSE]]
    /\ UNCHANGED <<file, tui, lab, disk, custom, outputs, auxVars>>

\* GET /config/overrides and GET /config, under the lock for reading.
LoadOverridesTab ==
    /\ page.tab = "overrides" /\ ~page.loaded /\ ~IsLocked
    /\ page' = [tab |-> "overrides", loaded |-> TRUE, on |-> Shown(file),
                allow |-> LoadOverrides(file).allow,
                env |-> LoadOverrides(file).env,
                envOn |-> LoadOverrides(file).env # Unset, saving |-> FALSE]
    /\ UNCHANGED <<loads, acts>> /\ PageOnly

LoadLabTab ==
    /\ page.tab = "lab" /\ ~page.loaded /\ ~IsLocked
    /\ page' = [tab |-> "lab", loaded |-> TRUE, mode |-> lab.mode,
                password |-> IF lab.password = "" THEN "" ELSE Mask,
                saving |-> FALSE]
    /\ UNCHANGED <<loads, acts>> /\ PageOnly

IsEdited(tab) == page.tab = tab /\ page.loaded

\* toggleModel, setAllModels of a section, the mode, the variable.
EditOverrides ==
    /\ IsEdited("overrides")
    /\ Act
    /\ \/ \E m \in Models : page' = [page EXCEPT !.on = (@ \ {m}) \cup ({m} \ @)]
       \/ \E section \in {External, Transformation} :
             \/ page' = [page EXCEPT !.on = @ \cup section]
             \/ page' = [page EXCEPT !.on = @ \ section]
       \/ page' = [page EXCEPT !.allow = ~@]
       \/ page.envOn /\ \E env \in Values : page' = [page EXCEPT !.env = env]
       \/ page' = [page EXCEPT !.envOn = ~@]
    /\ UNCHANGED loads /\ PageOnly

\* enableMissingDeps.
FixPage ==
    /\ IsEdited("overrides") /\ EnableUntilStable(page.on) # page.on
    /\ Act
    /\ page' = [page EXCEPT !.on = EnableUntilStable(@)]
    /\ UNCHANGED loads /\ PageOnly

EditLab ==
    /\ IsEdited("lab")
    /\ Act
    /\ \/ \E mode \in {"local", "hybrid"} \ {page.mode} :
              page' = [page EXCEPT !.mode = mode]
       \/ \E password \in Passwords \ {page.password} :
              page' = [page EXCEPT !.password = password]
    /\ UNCHANGED loads /\ PageOnly

\* A request leaves the page.
Send(kind, body, label) ==
    \E r \in Slots :
        /\ requests[r] = Idle
        /\ \A q \in Slots : q < r => requests[q] # Idle
        /\ requests' = [requests EXCEPT ![r] =
              [kind |-> kind, body |-> body, pc |-> label, draft |-> NoText,
               mine |-> TRUE]]

SendOnly == UNCHANGED <<file, tui, lab, disk, custom, outputs, auxVars>>

SaveOverrides ==
    /\ IsEdited("overrides") /\ ~page.saving
    /\ Act
    /\ Send("overrides", [on |-> page.on, allow |-> page.allow, env |-> page.env,
                          envOn |-> page.envOn], "lock")
    /\ page' = [page EXCEPT !.saving = TRUE]
    /\ UNCHANGED loads /\ SendOnly

SaveLab ==
    /\ IsEdited("lab") /\ ~page.saving
    /\ Act
    /\ Send("lab", [mode |-> page.mode, password |-> page.password], "lock")
    /\ page' = [page EXCEPT !.saving = TRUE]
    /\ UNCHANGED loads /\ SendOnly

\* The Regenerate button belongs to the page, not to a tab.
Regenerate ==
    /\ page.tab # "none"
    /\ \A r \in Slots : requests[r] = Idle \/ requests[r].kind # "regenerate"
    /\ Act
    /\ Send("regenerate", NoText, "generate")
    /\ UNCHANGED <<page, loads>> /\ SendOnly

(***************************************************************************)
(* The viewer of the generated files.                                      *)
(***************************************************************************)

\* Mutation of Select: the panel of the file before stays open.
SelectAtOnce(f) ==
    /\ page.tab = "files" /\ page.selected # f
    /\ Act
    /\ page' = [page EXCEPT !.selected = f]
    /\ loads' = loads \cup {<<f, "select">>}
    /\ PageOnly

\* The file a content was made from: a custom text's own if there is one.
Origin(f) ==
    IF custom[f] # NoText THEN custom[f]
    ELSE IF outputs[f][1] = "custom" THEN outputs[f][2] ELSE f

Select(f) ==
    /\ page.tab = "files" /\ page.selected # f
    /\ Act
    /\ page' = [page EXCEPT !.selected = f, !.loading = TRUE]
    /\ loads' = loads \cup {<<f, "select">>}
    /\ PageOnly

\* The content arrives.  It is taken whatever is selected by then; the first
\* answer opens the panel again.  A refresh after a save or a removal leaves
\* the text alone: it is taken from what is shown when the user begins to edit.
Arrives(f, then) ==
    /\ page.tab = "files" /\ <<f, then>> \in loads
    /\ loads' = loads \ {<<f, then>>}
    /\ page' = [page EXCEPT
          !.shown = f, !.origin = Origin(f), !.override = (custom[f] # NoText),
          !.text = IF then = "select" THEN Origin(f) ELSE @,
          !.editing = FALSE,
          !.loading = @ /\ then # "select",
          !.saving = @ /\ then = "select"]
    /\ strayed' = (strayed \/ f # page.selected)
    /\ UNCHANGED <<file, tui, serverVars, last, raced, unapplied, acts>>

\* It does not: a toast, and the panel opens with what it showed before.
ArrivesNot(f, then) ==
    /\ page.tab = "files" /\ <<f, then>> \in loads
    /\ loads' = loads \ {<<f, then>>}
    /\ page' = [page EXCEPT !.loading = @ /\ then # "select",
                            !.saving = @ /\ then = "select"]
    /\ strayed' = TRUE
    /\ UNCHANGED <<file, tui, serverVars, last, raced, unapplied, acts>>

\* The buttons of the panel.
HasPanel == page.tab = "files" /\ ~page.loading /\ page.shown # NoText

EditText ==
    /\ HasPanel
    /\ IF page.editing THEN page' = [page EXCEPT !.editing = FALSE]
       ELSE page' = [page EXCEPT !.editing = TRUE, !.text = page.origin]
    /\ UNCHANGED <<loads, acts>> /\ PageOnly

SaveText ==
    /\ HasPanel /\ page.editing /\ ~page.saving
    /\ Act
    /\ Send("put", [name |-> page.selected, text |-> page.text], "save")
    /\ page' = [page EXCEPT !.saving = TRUE]
    /\ UNCHANGED loads /\ SendOnly

RemoveText ==
    /\ HasPanel /\ page.override /\ ~page.editing
    /\ Act
    /\ Send("delete", [name |-> page.selected, text |-> NoText], "save")
    /\ UNCHANGED <<page, loads>> /\ SendOnly

(***************************************************************************)
(* The handlers.                                                           *)
(***************************************************************************)

At(r, kind, label) ==
    requests[r] # Idle /\ requests[r].kind = kind /\ requests[r].pc = label

Goto(r, label) == requests' = [requests EXCEPT ![r].pc = label]

Rest == UNCHANGED <<tui, page, loads, acts, strayed>>

\* Mutation of Lock: the handlers do not exclude each other.
EnterUnlocked(r) ==
    /\ Label(r) = "lock"
    /\ Goto(r, "load")
    /\ UNCHANGED <<file, lab, disk, custom, outputs, last, raced, unapplied>> /\ Rest

Lock(r) ==
    /\ Label(r) = "lock" /\ ~IsLocked
    /\ Goto(r, "load")
    /\ UNCHANGED <<file, lab, disk, custom, outputs, last, raced, unapplied>> /\ Rest

\* A request that fails before it generates: whatever it has changed already
\* stays, and is generated from by the next one.
Refused(r) ==
    /\ \/ \E kind \in {"put", "delete"} : At(r, kind, "save")
       \/ \E label \in {"load", "save"} : At(r, "overrides", label)
       \/ \E label \in {"load", "save", "recreate"} : At(r, "lab", label)
    /\ Goto(r, "answer")
    /\ unapplied' = (unapplied \/ requests[r].kind = "lab")
    /\ UNCHANGED <<file, lab, disk, custom, outputs, last, raced>> /\ Rest

\* PutOverrides takes the config blocks from the file, everything else from
\* the request.
LoadExisting(r) ==
    /\ At(r, "overrides", "load")
    /\ requests' = [requests EXCEPT ![r].pc = "save", ![r].draft = LoadOverrides(file)]
    /\ UNCHANGED <<file, lab, disk, custom, outputs, last, raced, unapplied>> /\ Rest

WriteOverrides(r) ==
    /\ At(r, "overrides", "save")
    /\ LET b == requests[r].body
           existing == requests[r].draft
       IN /\ file' = Saved(b.on, b.allow, b.env, b.envOn, existing)
          /\ last' = [by |-> "page", on |-> b.on, allow |-> b.allow, env |-> b.env,
                      envOn |-> b.envOn, existing |-> existing]
    /\ Goto(r, "generate")
    /\ UNCHANGED <<lab, disk, custom, outputs, raced, unapplied>> /\ Rest

\* PutEditableConfig: a masked password is the one in memory.
Apply(r) ==
    /\ At(r, "lab", "load")
    /\ LET b == requests[r].body
       IN lab' = [mode |-> b.mode,
                  password |-> IF b.password = Mask THEN lab.password ELSE b.password]
    /\ Goto(r, "save")
    /\ UNCHANGED <<file, disk, custom, outputs, last, raced, unapplied>> /\ Rest

\* The file gets the lab section of the page, without the id it does not know,
\* and no other section.
WriteConfig(r) ==
    /\ At(r, "lab", "save")
    /\ disk' = [sections |-> {"lab"}, id |-> "none", lab |-> lab]
    /\ Goto(r, "recreate")
    /\ UNCHANGED <<file, lab, custom, outputs, last, raced, unapplied>> /\ Rest

RecreateOrchestrator(r) ==
    /\ At(r, "lab", "recreate")
    /\ Goto(r, "generate")
    /\ UNCHANGED <<file, lab, disk, custom, outputs, last, raced, unapplied>> /\ Rest

PutText(r) ==
    /\ At(r, "put", "save")
    /\ custom' = [custom EXCEPT ![requests[r].body.name] = requests[r].body.text]
    /\ Goto(r, "generate")
    /\ UNCHANGED <<file, lab, disk, outputs, last, raced, unapplied>> /\ Rest

DeleteText(r) ==
    /\ At(r, "delete", "save")
    /\ custom' = [custom EXCEPT ![requests[r].body.name] = NoText]
    /\ Goto(r, "generate")
    /\ UNCHANGED <<file, lab, disk, outputs, last, raced, unapplied>> /\ Rest

\* GenerateConfigs begins.
Begin(r) ==
    /\ Label(r) = "generate"
    /\ LET others == {q \in Slots \ {r} : IsGenerating(q)}
       IN IF others = {} THEN raced' = FALSE /\ unapplied' = FALSE
          ELSE /\ raced' = (raced \/ \E q \in others \cup {r} :
                                requests[q].kind \notin LockedKinds)
               /\ UNCHANGED unapplied
    /\ Goto(r, "cbt.read")
    /\ UNCHANGED <<file, lab, disk, custom, outputs, last>> /\ Rest

\* A file is made of what its inputs say now, and written after that.
Read(r, f, label, next) ==
    /\ Label(r) = label
    /\ requests' = [requests EXCEPT ![r].pc = next, ![r].draft = Output(f)]
    /\ UNCHANGED <<file, lab, disk, custom, outputs, last, raced, unapplied>> /\ Rest

Write(r, f, label, next) ==
    /\ Label(r) = label
    /\ outputs' = [outputs EXCEPT ![f] = requests[r].draft]
    /\ Goto(r, next)
    /\ UNCHANGED <<file, lab, disk, custom, last, raced, unapplied>> /\ Rest

Generate(r) ==
    \/ Read(r, "cbt", "cbt.read", "cbt.write")
    \/ Write(r, "cbt", "cbt.write", "backend.read")
    \/ Read(r, "backend", "backend.read", "backend.write")
    \/ Write(r, "backend", "backend.write", "answer")

\* It stops at the first file it cannot read or write.  Only Regenerate says
\* so, the others log it.
GenerateFails(r) ==
    /\ IsGenerating(r)
    /\ Goto(r, "answer")
    /\ unapplied' = TRUE
    /\ UNCHANGED <<file, lab, disk, custom, outputs, last, raced>> /\ Rest

\* The answer, success or not.  After a saved or removed text the viewer loads
\* the file again; an error only ends its saving.
Answer(r) ==
    /\ Label(r) = "answer"
    /\ requests' = [requests EXCEPT ![r] = Idle]
    /\ LET sent == requests[r]
       IN IF ~sent.mine \/ sent.kind = "regenerate" THEN UNCHANGED <<page, loads>>
          ELSE IF sent.kind \in LockedKinds
          THEN page' = [page EXCEPT !.saving = FALSE] /\ UNCHANGED loads
          ELSE \/ loads' = loads \cup {<<sent.body.name, "refresh">>}
                  /\ UNCHANGED page
               \/ page' = [page EXCEPT !.saving = FALSE] /\ UNCHANGED loads
    /\ UNCHANGED <<file, tui, lab, disk, custom, outputs, acts, auxVars>>

\* PUT /config of the other stack, which holds a lock of its own, writes its
\* own section alone into the file the stacks share.
SaveXatu ==
    /\ "xatu" \in InitialDisk.sections
    /\ Act
    /\ disk' = [disk EXCEPT !.sections = {"xatu"}]
    /\ UNCHANGED <<file, tui, lab, custom, outputs, page, loads, requests, auxVars>>

Next ==
    \/ Run \/ HandleKeyPress
    \/ \E tab \in {"overrides", "lab", "files"} : OpenTab(tab)
    \/ LoadOverridesTab \/ LoadLabTab \/ EditOverrides \/ FixPage \/ EditLab
    \/ SaveOverrides \/ SaveLab \/ Regenerate
    \/ \E f \in Outputs : Select(f) \/ \E then \in {"select", "refresh"} :
                                          Arrives(f, then) \/ ArrivesNot(f, then)
    \/ EditText \/ SaveText \/ RemoveText \/ SaveXatu
    \/ \E r \in Slots :
          \/ Lock(r) \/ Refused(r) \/ LoadExisting(r) \/ WriteOverrides(r)
          \/ Apply(r) \/ WriteConfig(r) \/ RecreateOrchestrator(r) \/ PutText(r)
          \/ DeleteText(r) \/ Begin(r) \/ Generate(r) \/ GenerateFails(r)
          \/ Answer(r)

Spec == Init /\ [][Next]_vars

(***************************************************************************)
(* Properties.                                                             *)
(***************************************************************************)

\* The overrides file reads back as the editor that saved it last showed it,
\* in allowlist mode without the models that had no config block: those are
\* not written, and what is not listed is disabled (overrides.go:136-205).
SavesReadBack ==
    last # NoSave =>
        /\ Shown(file) = IF last.allow
                         THEN {m \in last.on : Block(last.existing, m) # NoBlock}
                         ELSE last.on
        /\ LoadOverrides(file).env = IF last.envOn THEN last.env ELSE Unset

\* Both editors' buttons for missing dependencies enable the same models, and
\* leave nothing missing, although one goes over the models once and the other
\* until nothing changes (model.go:246-274, CBTOverridesEditor.tsx:208-268).
FixesAgree ==
    \A on \in (IF tui.open THEN {tui.on} ELSE {})
              \cup (IF IsEdited("overrides") THEN {page.on} ELSE {}) :
        /\ EnableMissing(on) = EnableUntilStable(on)
        /\ Needed(EnableMissing(on)) \subseteq EnableMissing(on)

\* When no request is under way the generated files are those of what is saved,
\* and the engine runs what lab-backend expects of the local API, unless the
\* terminal editor saved since, a generation failed, or generations overlapped
\* of which one was not under the handlers' lock (api_config.go:105-115,
\* 154-200, 236-262).  An allowlist entry that says nothing enables its model
\* for lab-backend alone (generator.go:206, 567).
SettledConfigsAreCurrent ==
    Quiet /\ ~raced /\ ~unapplied =>
        /\ AreCurrent
        /\ \/ lab.mode = "local"
           \/ \E f \in Outputs : custom[f] # NoText
           \/ LoadOverrides(file).allow
              /\ \E m \in DOMAIN LoadOverrides(file).overrides :
                    SaysNothing(LoadOverrides(file).overrides[m])
           \/ outputs["cbt"][2] = outputs["backend"][2]

\* A custom text was made from the file it replaces, as long as every content
\* arrived while its file was selected (ServiceConfigViewer.tsx:34-55).
TextsAreOwn ==
    /\ TypeOK
    /\ ~strayed => \A f \in Outputs : custom[f] \in {f, NoText}

=============================================================================
