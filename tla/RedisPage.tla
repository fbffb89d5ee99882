------------------------------- MODULE RedisPage -------------------------------
(***************************************************************************)
(* The Redis page of the browser (pkg/cc/frontend, RedisPage.tsx) on top   *)
(* of RedisAdmin: the key the user has selected, its detail as the server  *)
(* answered it, and the draft the user edits and saves.  The page reads    *)
(* the selected key again every five seconds while nothing is edited; the  *)
(* answers of its requests arrive in any order.                            *)
(***************************************************************************)
EXTENDS RedisAdmin

CONSTANTS
    NewKeys,   \* bound: what the user may create: a key and its content
    MaxActs    \* bound: what the user does

ASSUME PageAssumption ==
    /\ NewKeys \subseteq Names \X
         [type : Types, shown : Texts \cup {Nothing}, ttl : {"clear", "set"}]
    /\ MaxActs \in Nat

VARIABLES
    db, selected, detail, draft, dirty, saving,  \* the state of the page
    calls,   \* of every slot: what the page does with its answer
    acts     \* how often the user has acted

page == <<db, selected, detail, draft, dirty, saving>>
vars == <<adminVars, page, calls, acts>>

Drafts == [type : Types, shown : Texts \cup {Nothing}, ttl : {"keep", "set", "clear"}]
DraftFromKey(d) == [type |-> d.type, shown |-> d.shown, ttl |-> "keep"]
DefaultDraft == [type |-> TheOnly(Types), shown |-> Nothing, ttl |-> "keep"]

NoCall == [does |-> "nothing", key |-> None, selected |-> None]

\* Every variable of the page and of the server has its type.
TypeOK ==
    /\ AdminTypeOK
    /\ db \in Dbs /\ selected \in Names \cup {None}
    /\ detail \in Details \cup {None} /\ draft \in Drafts
    /\ dirty \in BOOLEAN /\ saving \in BOOLEAN
    /\ \A r \in Slots : calls[r].does \in {"nothing", "load", "refresh", "save", "delete",
                                           "delete many", "create"}
    /\ acts \in 0 .. MaxActs

\* The page has been opened, and a key may have been selected and loaded.
Init ==
    /\ AdminInit
    /\ db \in Dbs
    /\ \/ selected = None /\ detail = None /\ draft = DefaultDraft
       \/ \E k \in Names :
            /\ store[<<db, k>>] # Absent
            /\ selected = k
            /\ detail = [place |-> <<db, k>>, type |-> store[<<db, k>>].type,
                          shown |-> store[<<db, k>>].shown, left |-> store[<<db, k>>].left, asOf |-> 0]
            /\ draft = DraftFromKey(detail)
    /\ dirty = FALSE /\ saving = FALSE
    /\ calls = [r \in Slots |-> NoCall]
    /\ acts = 0

---------------------------------------------------------------------------
(* What the page asks for.  The slots are taken in one order, since it     *)
(* does not matter which one serves a request.                             *)

Free == {r \in Slots : requests[r].at = "free"}

Calls(does, key, kind, places, version, change) ==
    \E r \in Free :
        /\ \A q \in Free : r <= q
        /\ calls' = [calls EXCEPT ![r] = [does |-> does, key |-> key,
               selected |-> IF kind \in {"delete", "delete many"} THEN selected ELSE None]]
        /\ Asks(r, kind, places, version, change)

Load(does, d, key) == Calls(does, key, "read", {<<d, key>>}, None, None)

UserActs == acts < MaxActs /\ acts' = acts + 1
ServerIdle == UNCHANGED <<store, touched, changes, outside>>

\* A key is selected: the effect on selectedKey loads it and its draft.
Select(k) ==
    /\ UserActs /\ selected # k
    /\ selected' = k
    /\ Load("load", db, k)
    /\ ServerIdle /\ UNCHANGED <<db, detail, draft, dirty, saving>>

\* Another database: the page is reset, and the effect on loadKey still loads
\* the key that was selected, from the new database.
ChangeDb(d) ==
    /\ UserActs /\ d # db
    /\ db' = d
    /\ selected' = None /\ detail' = None /\ draft' = DefaultDraft /\ dirty' = FALSE
    /\ IF selected # None THEN Load("load", d, selected) ELSE UNCHANGED <<calls, requests>>
    /\ ServerIdle /\ UNCHANGED saving

\* Every five seconds, while nothing is edited (and a plausible defect).
PollsWhatIsShown == selected # None /\ ~dirty /\ detail # None
Polls == selected # None /\ ~dirty

Poll ==
    /\ Polls
    /\ Load("refresh", db, selected)
    /\ ServerIdle /\ UNCHANGED <<page, acts>>

\* The editor is shown when there is a detail, and edits the draft.
Edit ==
    /\ UserActs /\ detail # None
    /\ \/ \E t \in Texts \cup {Nothing} : t # draft.shown /\ draft' = [draft EXCEPT !.shown = t]
       \/ \E m \in {"keep", "set", "clear"} : m # draft.ttl /\ draft' = [draft EXCEPT !.ttl = m]
    /\ dirty' = TRUE
    /\ ServerIdle /\ UNCHANGED <<requests, calls, db, selected, detail, saving>>

Reset ==
    /\ UserActs /\ detail # None /\ dirty
    /\ draft' = DraftFromKey(detail) /\ dirty' = FALSE
    /\ ServerIdle /\ UNCHANGED <<requests, calls, db, selected, detail, saving>>

\* saveKey: the draft, for the key and with the version of the detail.
Save ==
    /\ UserActs /\ detail # None /\ dirty /\ ~saving
    /\ saving' = TRUE
    /\ Calls("save", detail.place[2], "update", {<<db, detail.place[2]>>}, detail, draft)
    /\ ServerIdle /\ UNCHANGED <<db, selected, detail, draft, dirty>>

DeleteOne(k) ==
    /\ UserActs
    /\ Calls("delete", k, "delete", {<<db, k>>}, None, None)
    /\ ServerIdle /\ UNCHANGED page

DeleteSelected(ks) ==
    /\ UserActs
    /\ Calls("delete many", ks, "delete many", {<<db, k>> : k \in ks}, None, None)
    /\ ServerIdle /\ UNCHANGED page

Create(k, new) ==
    /\ UserActs
    /\ Calls("create", k, "create", {<<db, k>>}, None, new)
    /\ ServerIdle /\ UNCHANGED page

UserNext ==
    \/ \E k \in Names : Select(k) \/ DeleteOne(k)
    \/ \E new \in NewKeys : Create(new[1], new[2])
    \/ \E ks \in (SUBSET Names) \ {{}} : DeleteSelected(ks)
    \/ \E d \in Dbs : ChangeDb(d)
    \/ Edit \/ Reset \/ Save

---------------------------------------------------------------------------
(* What it does with the answers. *)

Finish(r) == /\ requests' = [requests EXCEPT ![r] = NoRequest]
             /\ calls' = [calls EXCEPT ![r] = NoCall]

Shows(d) == detail' = d /\ draft' = DraftFromKey(d) /\ dirty' = FALSE

\* loadKey: the draft is replaced only by a load that the selection caused.
Replaces(r) == calls[r].does = "load"
Loaded(r) ==
    /\ requests[r].at = "answered" /\ calls[r].does \in {"load", "refresh"}
    /\ IF requests[r].status # "ok" THEN detail' = None /\ UNCHANGED <<draft, dirty>>
       ELSE IF Replaces(r) THEN Shows(requests[r].detail)
       ELSE detail' = requests[r].detail /\ UNCHANGED <<draft, dirty>>
    /\ Finish(r)
    /\ ServerIdle /\ UNCHANGED <<db, selected, saving, acts>>

\* saveKey: a conflict loads what the key holds now, another error keeps the draft.
Saved(r) ==
    /\ requests[r].at = "answered" /\ calls[r].does = "save"
    /\ IF requests[r].detail # None THEN Shows(requests[r].detail)
       ELSE UNCHANGED <<detail, draft, dirty>>
    /\ saving' = FALSE
    /\ Finish(r)
    /\ ServerIdle /\ UNCHANGED <<db, selected, acts>>

\* deleteOneKey and deleteSelectedKeys close the key that was selected when
\* they were called, the latter also when it could not be deleted.
Forgets(r) == \/ calls[r].does = "delete" /\ calls[r].selected = calls[r].key
              \/ calls[r].does = "delete many" /\ calls[r].selected \in calls[r].key
DeleteAnswered(r) ==
    /\ requests[r].at = "answered" /\ calls[r].does \in {"delete", "delete many"}
    /\ IF requests[r].status = "ok" /\ Forgets(r)
       THEN selected' = None /\ detail' = None /\ dirty' = FALSE
       ELSE UNCHANGED <<selected, detail, dirty>>
    /\ Finish(r)
    /\ ServerIdle /\ UNCHANGED <<db, draft, saving, acts>>

\* createKeySubmit: the new key is selected, which loads it in the slot of
\* the request that is finished.
Created(r) ==
    /\ requests[r].at = "answered" /\ calls[r].does = "create"
    /\ IF requests[r].status = "ok" /\ selected # calls[r].key
       THEN /\ selected' = calls[r].key
            /\ calls' = [calls EXCEPT ![r] = [NoCall EXCEPT !.does = "load", !.key = calls[r].key]]
            /\ Asks(r, "read", {<<db, calls[r].key>>}, None, None)
       ELSE Finish(r) /\ UNCHANGED selected
    /\ ServerIdle /\ UNCHANGED <<db, detail, draft, dirty, saving, acts>>

Answered(r) == Loaded(r) \/ Saved(r) \/ DeleteAnswered(r) \/ Created(r)

---------------------------------------------------------------------------
Others == \E p \in Places : Outside(p) \/ Tick(p)
Next ==
    \/ UserNext
    \/ Poll
    \/ \E r \in Slots : Answered(r)
    \/ (\E r \in Slots : Serves(r) \/ Fail(r)) /\ UNCHANGED <<page, calls, acts>>
    \/ Others /\ UNCHANGED <<page, calls, acts>>

\* The server serves every request, the page handles every answer and polls.
Fairness ==
    /\ \A r \in Slots : WF_vars(Serves(r) /\ UNCHANGED <<page, calls, acts>>)
    /\ \A r \in Slots : WF_vars(Answered(r))
    /\ WF_vars(Poll)

Spec == Init /\ [][Next]_vars
FairSpec == Spec /\ Fairness

---------------------------------------------------------------------------
(* Properties. *)

Commits(r) == ~requests[r].committed /\ requests'[r].committed

\* A write replaces exactly what it was told it replaces: an update the
\* content that the version it carries was made of, also when the key was
\* read in several commands with writes of others between them, and a create
\* nothing at all.  No save brings a deleted key back.
WritesReplaceWhatTheyRead ==
    [][\A r \in Slots : Commits(r) =>
        LET v == store[Place(r)] IN
        IF requests[r].kind = "create" THEN v = Absent
        ELSE v # Absent /\ <<v.type, v.shown>> = <<requests[r].version.type, requests[r].version.shown>>]_vars

\* A conflict is answered only to a request that wrote nothing, and about a key
\* that was changed by somebody since the version was made, or one that expires:
\* the lifetime left is part of the version, and such a key never has the same
\* version twice.
ConflictsAreReal ==
    /\ TypeOK
    /\ \A r \in Slots : requests[r].status = "conflict" =>
        /\ ~requests[r].committed
        /\ requests[r].kind = "update" =>
            \/ requests[r].version.asOf < changes[Place(r)]
            \/ requests[r].version.left # Forever
            \/ requests[r].version.place # Place(r)

\* The inspector follows the store: while a key stays selected and is not
\* edited, it comes to show what the key holds, or nothing if it is gone, as
\* long as Redis can be reached.
Agrees(k) == LET v == store[<<db, k>>] IN
    IF v = Absent THEN detail = None
    ELSE detail # None /\ detail.place = <<db, k>> /\ detail.type = v.type /\ detail.shown = v.shown
PageFollowsTheStore ==
    \A k \in Names :
        <>[](selected = k /\ ~dirty /\ \A r \in Slots : requests[r].status # "failed") => <>[]Agrees(k)

=============================================================================
