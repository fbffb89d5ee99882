------------------------------ MODULE RedisAdmin ------------------------------
(***************************************************************************)
(* RedisAdmin (pkg/cc/redis_admin.go) behind the handlers of api_redis.go: *)
(* the requests of the command center that read, create, update and delete *)
(* keys of the local Redis.  Reading a key takes several commands, and an  *)
(* update compares what it reads under WATCH with the version the browser  *)
(* has loaded.  The services of the lab use the same Redis at any time,    *)
(* and keys expire.                                                        *)
(*                                                                         *)
(* The content of a key is what a read of it returns ("shown", the first   *)
(* 64 KB or 5000 items) and whether there is more behind it.  A place is a *)
(* database and a key.  The commands of a read are taken in two steps: the *)
(* type with the lifetime, and the content.                                *)
(***************************************************************************)
EXTENDS Integers

CONSTANTS
    Dbs, Names,     \* the databases and the keys
    Types, Texts,   \* the types of keys and what they can hold
    Nothing,        \* what an empty or a missing collection reads as
    MaxLeft,        \* bound: a lifetime, in milliseconds
    Initial,        \* bound: what the store may hold at first
    Shared,         \* bound: the places the services of the lab write to
    Foreign,        \* bound: what they write
    Slots,          \* bound: the requests served at a time
    MaxOutside,     \* bound: writes by the services of the lab
    Absent, None

ASSUME BoundsAssumption ==
    /\ Slots \subseteq Nat
    /\ Types # {}
    /\ Absent \notin [type : Types, shown : Texts, more : BOOLEAN, left : -1 .. MaxLeft]
    /\ Initial \subseteq [Dbs \X Names ->
           [type : Types, shown : Texts, more : BOOLEAN, left : -1 .. MaxLeft] \cup {Absent}]
    /\ Shared \subseteq Dbs \X Names
    /\ Foreign \subseteq [type : Types, shown : Texts, more : BOOLEAN, left : -1 .. MaxLeft]
    /\ MaxLeft \in Nat /\ MaxOutside \in Nat

VARIABLES
    store,     \* Redis: what every place holds
    touched,   \* Redis: the requests whose watched key was changed
    changes,   \* auxiliary: how often every place was changed
    outside,   \* writes by the services of the lab so far
    requests   \* the requests being served

adminVars == <<store, touched, changes, outside, requests>>

Places == Dbs \X Names
Forever == -1
Lefts == Forever .. MaxLeft
Values == [type : Types, shown : Texts, more : BOOLEAN, left : Lefts]
Value(t, s, m, l) == [type |-> t, shown |-> s, more |-> m, left |-> l]

\* redisKeyDetailResponse; asOf is auxiliary: changes when it was read.
Details == [place : Places, type : Types, shown : Texts \cup {Nothing}, left : Lefts, asOf : Nat]

\* buildVersionToken: neither the size nor what lies behind the preview is in it.
Version(d) == <<d.type, d.left, d.shown>>

NoRequest == [kind |-> "none", at |-> "free", places |-> {}, version |-> None, draft |-> None,
              type |-> None, left |-> Forever, asOf |-> 0, committed |-> FALSE,
              status |-> "none", detail |-> None]
TheOnly(S) == CHOOSE x \in S : TRUE
Place(r) == TheOnly(requests[r].places)

AdminTypeOK ==
    /\ store \in [Places -> Values \cup {Absent}]
    /\ touched \subseteq Slots
    /\ changes \in [Places -> Nat]
    /\ outside \in 0 .. MaxOutside
    /\ \A r \in Slots :
        /\ requests[r].kind \in {"none", "read", "update", "create", "delete", "delete many"}
        /\ requests[r].at \in {"free", "type", "content", "exists", "exec", "delete", "answered"}
        /\ requests[r].places \subseteq Places
        /\ requests[r].status \in {"none", "ok", "conflict", "not found", "failed"}
        /\ requests[r].detail \in Details \cup {None}

AdminInit ==
    /\ store \in Initial
    /\ touched = {} /\ changes = [p \in Places |-> 0]
    /\ outside = 0
    /\ requests = [r \in Slots |-> NoRequest]

---------------------------------------------------------------------------
(* Redis. *)

\* A transaction watches its key from its first read to EXEC or its end.
Watching(q) == /\ q.kind \in {"update", "create"} /\ ~q.committed
               /\ q.at \in {"content", "exec"}
Touch(ps) == touched' = {r \in Slots : Watching(requests'[r])
                           /\ (r \in touched \/ requests[r].places \subseteq ps)}

\* A key is written, deleted or expires: a transaction watching it will fail.
Put(p, v) ==
    /\ store' = [store EXCEPT ![p] = v]
    /\ changes' = [changes EXCEPT ![p] = @ + 1]
    /\ Touch({p})

\* A service of the lab writes or deletes a key.
Outside(p) ==
    /\ outside < MaxOutside /\ p \in Shared
    /\ UNCHANGED requests
    /\ \E v \in Foreign \cup {Absent} : v # store[p] /\ Put(p, v)
    /\ outside' = outside + 1

\* A millisecond passes for a key with a lifetime.
Tick(p) ==
    /\ store[p] # Absent /\ store[p].left # Forever
    /\ UNCHANGED <<outside, requests>>
    /\ IF store[p].left = 0 THEN Put(p, Absent)
       ELSE /\ store' = [store EXCEPT ![p].left = @ - 1]
            /\ UNCHANGED <<touched, changes>>

---------------------------------------------------------------------------
(* The requests. *)

\* The handler has decoded and checked the body.  A draft that holds nothing
\* is refused by validateWriteRequest.
Empty(kind, draft) == kind \in {"update", "create"} /\ draft.shown = Nothing
Asks(r, kind, places, version, draft) ==
    requests' = [requests EXCEPT ![r] = [NoRequest EXCEPT
        !.kind = kind, !.places = places, !.version = version, !.draft = draft,
        !.at = IF Empty(kind, draft) THEN "answered"
               ELSE CASE kind \in {"read", "update"} -> "type"
                      [] kind = "create" -> "exists"
                      [] kind \in {"delete", "delete many"} -> "delete",
        !.status = IF Empty(kind, draft) THEN "failed" ELSE "none"]]

Answer(r, status, detail) ==
    requests' = [requests EXCEPT ![r] = [NoRequest EXCEPT
        !.kind = requests[r].kind, !.places = requests[r].places, !.version = requests[r].version,
        !.committed = requests[r].committed, !.at = "answered", !.status = status, !.detail = detail]]

\* TYPE and PTTL, for an update after WATCH.
ReadType(r) ==
    LET p == Place(r) IN
    /\ requests[r].at = "type"
    /\ IF store[p] = Absent THEN Answer(r, "not found", None)
       ELSE requests' = [requests EXCEPT
                ![r].at = "content", ![r].type = store[p].type, ![r].left = store[p].left,
                ![r].asOf = IF requests[r].committed THEN @ ELSE changes[p]]
    /\ Touch({})
    /\ UNCHANGED <<store, changes, outside>>

\* What the commands for a key of this type answer: a key that was deleted
\* meanwhile reads as empty, one of another type is an error.
Readable(r) == store[Place(r)] = Absent \/ store[Place(r)].type = requests[r].type
Read(r) ==
    [place |-> Place(r), type |-> requests[r].type, left |-> requests[r].left, asOf |-> requests[r].asOf,
     shown |-> IF store[Place(r)] = Absent THEN Nothing ELSE store[Place(r)].shown]

\* readRedisKey as an answer: of a read, or after a write.
ReadContent(r) ==
    /\ requests[r].at = "content" /\ (requests[r].kind = "read" \/ requests[r].committed)
    /\ IF Readable(r) THEN Answer(r, "ok", Read(r)) ELSE Answer(r, "failed", None)
    /\ Touch({})
    /\ UNCHANGED <<store, changes, outside>>

\* updateKey: the version that was loaded against the one read now (and a
\* plausible defect: against what is to be written).
SameAsDraft(r) == requests[r].draft.shown = Read(r).shown
Same(r) == Version(requests[r].version) = Version(Read(r))

Compare(r) ==
    /\ requests[r].at = "content" /\ requests[r].kind = "update" /\ ~requests[r].committed
    /\ IF ~Readable(r) THEN Answer(r, "failed", None)
       ELSE IF ~Same(r) THEN Answer(r, "conflict", Read(r))
       ELSE requests' = [requests EXCEPT ![r].at = "exec"]
    /\ Touch({})
    /\ UNCHANGED <<store, changes, outside>>

\* createKey: EXISTS under WATCH.
Exists(r) ==
    /\ requests[r].at = "exists"
    /\ IF store[Place(r)] # Absent THEN Answer(r, "conflict", None)
       ELSE requests' = [requests EXCEPT ![r].at = "exec"]
    /\ Touch({})
    /\ UNCHANGED <<store, changes, outside>>

\* applyWrite: the key is deleted and written anew, with what the draft holds.
\* A lifetime is kept only if a whole millisecond of it was left.
Lifetime(r) ==
    CASE requests[r].draft.ttl = "set" -> MaxLeft
      [] requests[r].draft.ttl = "keep" /\ requests[r].left > 0 -> requests[r].left
      [] OTHER -> Forever
Written(r) == Value(requests[r].draft.type, requests[r].draft.shown, FALSE, Lifetime(r))

RunsUnwatched(r) == r \in Slots  \* a plausible defect: no WATCH
Runs(r) == r \notin touched

\* EXEC: the transaction does nothing when the key was touched, which is
\* answered as any other error.  The connection may break before or after it.
Execute(r) ==
    /\ requests[r].at = "exec"
    /\ \/ /\ Runs(r)
          /\ requests' = [requests EXCEPT ![r] = [NoRequest EXCEPT
                 !.kind = requests[r].kind, !.places = requests[r].places,
                 !.committed = TRUE, !.at = "type", !.asOf = changes[Place(r)] + 1]]
          /\ Put(Place(r), Written(r))
       \/ /\ Runs(r)
          /\ requests' = [requests EXCEPT ![r] = [NoRequest EXCEPT
                 !.kind = requests[r].kind, !.places = requests[r].places,
                 !.committed = TRUE, !.at = "answered", !.status = "failed"]]
          /\ Put(Place(r), Written(r))
       \/ /\ ~Runs(r)
          /\ Answer(r, "failed", None)
          /\ Touch({})
          /\ UNCHANGED <<store, changes>>
    /\ UNCHANGED outside

\* deleteKey and deleteKeys: without any version, and past the ones that fail.
Delete(r) ==
    /\ requests[r].at = "delete" /\ requests[r].places # {}
    /\ \E p \in requests[r].places :
        /\ requests' = [requests EXCEPT ![r].places = @ \ {p}]
        /\ \/ /\ IF store[p] = Absent THEN UNCHANGED <<store, touched, changes>> ELSE Put(p, Absent)
           \/ /\ requests[r].kind = "delete many"
                  /\ UNCHANGED <<store, touched, changes>>
    /\ UNCHANGED outside
Deleted(r) ==
    /\ requests[r].at = "delete" /\ requests[r].places = {}
    /\ Answer(r, "ok", None)
    /\ Touch({})
    /\ UNCHANGED <<store, changes, outside>>

\* Redis cannot be reached: the request ends without having written.
Fail(r) ==
    /\ requests[r].at \notin {"free", "answered"} /\ requests[r].kind # "delete many"
    /\ Answer(r, "failed", None)
    /\ Touch({})
    /\ UNCHANGED <<store, changes, outside>>

Serves(r) == \/ ReadType(r) \/ ReadContent(r) \/ Compare(r) \/ Exists(r)
             \/ Execute(r) \/ Delete(r) \/ Deleted(r)
=============================================================================
