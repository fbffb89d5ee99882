------------------------------ MODULE PageProofs ------------------------------
(***************************************************************************)
(* What the web front end shows.  First the Redis page (RedisPage): what   *)
(* the versions of RedisAdmin and WATCH are worth, for any databases,      *)
(* keys, contents, requests and actions.  A write replaces what it was     *)
(* told it replaces, and a conflict is about a change.  Then the status of *)
(* the stack on the dashboard (Dashboard), for any number of requests and  *)
(* connections and any capacity of a client's channel.                     *)
(***************************************************************************)
EXTENDS RedisPage, Dashboard, TLAPS

(***************************************************************************)
(* The inductive invariant.  Its parts are operators of a request, the     *)
(* store s and the numbers of changes c.                                   *)
(***************************************************************************)

Kinds == {"none", "read", "update", "create", "delete", "delete many"}
Labels == {"free", "type", "content", "exists", "exec", "delete", "answered"}
Statuses == {"none", "ok", "conflict", "not found", "failed"}
Deeds == {"nothing", "load", "refresh", "save", "delete", "delete many", "create"}

Requests ==
    [kind : Kinds, at : Labels, places : SUBSET Places,
     version : Details \cup {None}, draft : Drafts \cup {None},
     type : Types \cup {None}, left : Lefts, asOf : Nat, committed : BOOLEAN,
     status : Statuses, detail : Details \cup {None}]

CallTypes ==
    [does : Deeds, key : Names \cup (SUBSET Names) \cup {None},
     selected : Names \cup {None}]

Where(q) == TheOnly(q.places)

\* A detail without a lifetime is what its place holds until that changes.
Fits(d, s, c) ==
    d # None =>
        /\ d.asOf <= c[d.place]
        /\ d.asOf = c[d.place] /\ d.left = Forever =>
              /\ s[d.place] # Absent
              /\ s[d.place].type = d.type /\ s[d.place].shown = d.shown
              /\ s[d.place].left = Forever

\* Where the requests of each kind can be, and what they carry.
CourseOK(q) ==
    /\ q.kind \in {"read", "update", "create"} => \E p \in Places : q.places = {p}
    /\ q.at \in {"type", "content"} => q.kind \in {"read", "update", "create"}
    /\ q.at = "exists" => q.kind = "create"
    /\ q.at = "exec" => q.kind \in {"update", "create"}
    /\ q.at = "delete" => q.kind \in {"delete", "delete many"}
    /\ q.at \in {"exists", "exec"} => ~q.committed
    /\ q.at = "content" => q.type \in Types
    /\ q.kind = "update" /\ ~q.committed => q.version \in Details /\ q.version # None
    /\ /\ q.kind \in {"update", "create"} /\ ~q.committed
       /\ q.at \in {"type", "content", "exists", "exec"}
       => q.draft \in Drafts /\ q.draft.shown \in Texts
    /\ q.status = "conflict" => q.at = "answered"
    /\ q.committed => q.kind \in {"update", "create"}
    /\ q.kind = "read" /\ q.status = "ok" => q.detail \in Details

\* The type a request has read is that of its place until that changes.
ReadingOK(q, s, c) ==
    /\ q.at \in {"type", "content"} => q.asOf <= c[Where(q)]
    /\ q.at = "content" /\ q.asOf = c[Where(q)] =>
          /\ s[Where(q)] # Absent /\ s[Where(q)].type = q.type
          /\ s[Where(q)].left = Forever <=> q.left = Forever
    /\ q.at = "content" /\ q.kind = "update" /\ ~q.committed /\ q.version.place = Where(q)
       => q.version.asOf <= q.asOf

\* What a transaction knows of its place while nobody has touched that.
WatchOK(q, s, c) ==
    /\ q.at = "content" /\ q.kind = "update" /\ ~q.committed => q.asOf = c[Where(q)]
    /\ q.at = "exec" /\ q.kind = "update" =>
          /\ s[Where(q)] # Absent
          /\ s[Where(q)].type = q.version.type /\ s[Where(q)].shown = q.version.shown
    /\ q.at = "exec" /\ q.kind = "create" => s[Where(q)] = Absent

ConflictOK(q, c) ==
    q.status = "conflict" =>
        /\ ~q.committed
        /\ q.kind = "update" =>
            \/ q.version.asOf < c[Where(q)]
            \/ q.version.left # Forever
            \/ q.version.place # Where(q)

Good(q, untouched, s, c) ==
    /\ CourseOK(q)
    /\ ReadingOK(q, s, c)
    /\ untouched => WatchOK(q, s, c)
    /\ ConflictOK(q, c)
    /\ Fits(q.version, s, c)
    /\ Fits(q.detail, s, c)

ServerOK ==
    /\ store \in [Places -> Values \cup {Absent}]
    /\ touched \subseteq Slots
    /\ changes \in [Places -> Nat]
    /\ outside \in 0 .. MaxOutside
    /\ requests \in [Slots -> Requests]

PageOK ==
    /\ db \in Dbs /\ selected \in Names \cup {None}
    /\ detail \in Details \cup {None} /\ draft \in Drafts
    /\ dirty \in BOOLEAN /\ saving \in BOOLEAN
    /\ acts \in 0 .. MaxActs

\* A call is answered as what the page has asked for.
CallsOK ==
    /\ calls \in [Slots -> CallTypes]
    /\ \A r \in Slots :
        /\ calls[r].does = "create" => calls[r].key \in Names
        /\ calls[r].does \in {"load", "refresh"} => requests[r].kind = "read"

RequestsOK == \A r \in Slots : Good(requests[r], r \notin touched, store, changes)

IInv ==
    /\ ServerOK
    /\ PageOK
    /\ CallsOK
    /\ Fits(detail, store, changes)
    /\ RequestsOK

(***************************************************************************)
(* What the others see of a step.                                          *)
(***************************************************************************)

SameButTime(v, w) ==
    /\ v # Absent /\ w # Absent
    /\ w.type = v.type /\ w.shown = v.shown
    /\ v.left # Forever /\ w.left # Forever

Evolves(s, c, s2, c2) ==
    \A p \in Places :
        /\ c2[p] >= c[p]
        /\ c2[p] = c[p] => s2[p] = s[p] \/ SameButTime(s[p], s2[p])

\* A watching request that is not touched has seen its place unchanged.
Guards ==
    \A r \in Slots :
        requests'[r] = requests[r] /\ Watching(requests[r]) /\ r \notin touched' =>
            /\ r \notin touched
            /\ changes'[Where(requests[r])] = changes[Where(requests[r])]
            /\ \/ store'[Where(requests[r])] = store[Where(requests[r])]
               \/ SameButTime(store[Where(requests[r])], store'[Where(requests[r])])

LEMMA WhereIs ==
    ASSUME NEW p, NEW q, q.places = {p}
    PROVE  Where(q) = p
BY DEF Where, TheOnly

LEMMA FitsStays ==
    ASSUME NEW d \in Details \cup {None}, NEW s, NEW c \in [Places -> Nat],
           NEW s2, NEW c2 \in [Places -> Nat],
           Evolves(s, c, s2, c2), Fits(d, s, c)
    PROVE  Fits(d, s2, c2)
<1>1. CASE d = None
    BY <1>1 DEF Fits
<1>2. CASE d # None
    <2>1. d.place \in Places /\ d.asOf \in Nat
        BY <1>2 DEF Details
    <2> DEFINE p == d.place
    <2>2. /\ c2[p] >= c[p] /\ c[p] \in Nat /\ c2[p] \in Nat
          /\ c2[p] = c[p] => s2[p] = s[p] \/ SameButTime(s[p], s2[p])
        BY <2>1 DEF Evolves
    <2>3. d.asOf <= c[p]
        BY <1>2 DEF Fits
    <2>4. d.asOf <= c2[p]
        BY <2>1, <2>2, <2>3
    <2>5. ASSUME d.asOf = c2[p], d.left = Forever
          PROVE  /\ s2[p] # Absent
                 /\ s2[p].type = d.type /\ s2[p].shown = d.shown
                 /\ s2[p].left = Forever
        <3>1. c2[p] = c[p] /\ d.asOf = c[p]
            BY <2>1, <2>2, <2>3, <2>5
        <3>2. s[p] # Absent /\ s[p].type = d.type /\ s[p].shown = d.shown
              /\ s[p].left = Forever
            BY <1>2, <2>5, <3>1 DEF Fits
        <3>3. s2[p] = s[p]
            BY <2>2, <3>1, <3>2 DEF SameButTime
        <3> QED
            BY <3>2, <3>3
    <2> QED
        BY <2>4, <2>5 DEF Fits
<1> QED
    BY <1>1, <1>2

\* A request that is not served stays as good as it was.
LEMMA GoodStays ==
    ASSUME NEW q \in Requests, NEW u, NEW u2,
           NEW s, NEW c \in [Places -> Nat], NEW s2, NEW c2 \in [Places -> Nat],
           Evolves(s, c, s2, c2), Good(q, u, s, c),
           u2 /\ Watching(q) =>
               /\ u
               /\ c2[Where(q)] = c[Where(q)]
               /\ \/ s2[Where(q)] = s[Where(q)]
                  \/ SameButTime(s[Where(q)], s2[Where(q)])
    PROVE  Good(q, u2, s2, c2)
<1> DEFINE p == Where(q)
<1>1. CourseOK(q)
    BY DEF Good
<1>2. Fits(q.version, s2, c2) /\ Fits(q.detail, s2, c2)
    <2>1. q.version \in Details \cup {None} /\ q.detail \in Details \cup {None}
        BY DEF Requests
    <2> QED
        BY <2>1, FitsStays DEF Good
<1>3. q.asOf \in Nat
    BY DEF Requests
<1>4. ASSUME q.kind \in {"read", "update", "create"}
      PROVE  /\ p \in Places /\ c[p] \in Nat /\ c2[p] \in Nat /\ c2[p] >= c[p]
             /\ c2[p] = c[p] => s2[p] = s[p] \/ SameButTime(s[p], s2[p])
    <2>1. PICK x \in Places : q.places = {x}
        BY <1>1, <1>4 DEF CourseOK
    <2>2. p = x
        BY <2>1, WhereIs
    <2> QED
        BY <2>2 DEF Evolves
<1>5. ReadingOK(q, s2, c2)
    <2>1. CASE q.at \notin {"type", "content"}
        BY <2>1 DEF ReadingOK
    <2>2. CASE q.at \in {"type", "content"}
        <3>1. q.kind \in {"read", "update", "create"}
            BY <1>1, <2>2 DEF CourseOK
        <3>2. q.asOf <= c2[p]
            BY <1>3, <1>4, <2>2, <3>1 DEF Good, ReadingOK
        <3>3. ASSUME q.at = "content", q.asOf = c2[p]
              PROVE  /\ s2[p] # Absent /\ s2[p].type = q.type
                     /\ s2[p].left = Forever <=> q.left = Forever
            <4>1. c2[p] = c[p] /\ q.asOf = c[p]
                BY <1>3, <1>4, <2>2, <3>1, <3>3 DEF Good, ReadingOK
            <4>2. /\ s[p] # Absent /\ s[p].type = q.type
                  /\ s[p].left = Forever <=> q.left = Forever
                BY <3>3, <4>1 DEF Good, ReadingOK
            <4> QED
                BY <1>4, <3>1, <4>1, <4>2 DEF SameButTime
        <3>4. /\ q.at = "content" /\ q.kind = "update" /\ ~q.committed
              /\ q.version.place = p
              => q.version.asOf <= q.asOf
            BY DEF Good, ReadingOK
        <3> QED
            BY <3>2, <3>3, <3>4 DEF ReadingOK
    <2> QED
        BY <2>1, <2>2
<1>6. u2 => WatchOK(q, s2, c2)
    <2> SUFFICES ASSUME u2 PROVE WatchOK(q, s2, c2)
        OBVIOUS
    <2>1. CASE Watching(q)
        <3>1. /\ u /\ c2[p] = c[p]
              /\ s2[p] = s[p] \/ SameButTime(s[p], s2[p])
            BY <2>1
        <3>2. WatchOK(q, s, c)
            BY <3>1 DEF Good
        <3> QED
            BY <3>1, <3>2 DEF WatchOK, SameButTime
    <2>2. CASE ~Watching(q)
        BY <1>1, <2>2 DEF WatchOK, Watching, CourseOK
    <2> QED
        BY <2>1, <2>2
<1>7. ConflictOK(q, c2)
    <2>1. CASE q.status # "conflict" \/ q.kind # "update"
        BY <2>1 DEF Good, ConflictOK
    <2>2. CASE q.status = "conflict" /\ q.kind = "update"
        <3>1. ~q.committed
            BY <2>2 DEF Good, ConflictOK
        <3>2. q.version \in Details
            BY <1>1, <2>2, <3>1 DEF CourseOK
        <3>3. q.version.asOf \in Nat
            BY <3>2 DEF Details
        <3>4. /\ c[p] \in Nat /\ c2[p] \in Nat /\ c2[p] >= c[p]
            BY <1>4, <2>2
        <3>5. \/ q.version.asOf < c[p]
              \/ q.version.left # Forever
              \/ q.version.place # p
            BY <2>2 DEF Good, ConflictOK
        <3>6. q.version.asOf < c[p] => q.version.asOf < c2[p]
            BY <3>3, <3>4
        <3> QED
            BY <3>1, <3>5, <3>6 DEF ConflictOK
    <2> QED
        BY <2>1, <2>2
<1> QED
    BY <1>1, <1>2, <1>5, <1>6, <1>7 DEF Good

\* One request is served, the others watch.
LEMMA OneIsServed ==
    ASSUME ServerOK, ServerOK', RequestsOK, NEW r \in Slots, NEW q,
           requests' = [requests EXCEPT ![r] = q],
           Evolves(store, changes, store', changes'), Guards,
           Good(q, r \notin touched', store', changes')
    PROVE  RequestsOK'
<1> SUFFICES ASSUME NEW x \in Slots
             PROVE  Good(requests'[x], x \notin touched', store', changes')
    BY DEF RequestsOK
<1>1. CASE x = r
    BY <1>1 DEF ServerOK
<1>2. CASE x # r
    <2>1. requests'[x] = requests[x] /\ requests[x] \in Requests
        BY <1>2 DEF ServerOK
    <2>2. Good(requests[x], x \notin touched, store, changes)
        BY DEF RequestsOK
    <2>3. x \notin touched' /\ Watching(requests[x]) =>
              /\ x \notin touched
              /\ changes'[Where(requests[x])] = changes[Where(requests[x])]
              /\ \/ store'[Where(requests[x])] = store[Where(requests[x])]
                 \/ SameButTime(store[Where(requests[x])], store'[Where(requests[x])])
        BY <2>1 DEF Guards
    <2>4. changes \in [Places -> Nat] /\ changes' \in [Places -> Nat]
        BY DEF ServerOK
    <2>5. Good(requests[x], x \notin touched', store', changes')
        BY <2>1, <2>2, <2>3, <2>4, GoodStays
    <2> QED
        BY <2>1, <2>5
<1> QED
    BY <1>1, <1>2

\* Nobody is served.
LEMMA NobodyIsServed ==
    ASSUME ServerOK, ServerOK', RequestsOK, requests' = requests,
           Evolves(store, changes, store', changes'), Guards
    PROVE  RequestsOK'
<1> SUFFICES ASSUME NEW x \in Slots
             PROVE  Good(requests'[x], x \notin touched', store', changes')
    BY DEF RequestsOK
<1>1. requests'[x] = requests[x] /\ requests[x] \in Requests
    BY DEF ServerOK
<1>2. Good(requests[x], x \notin touched, store, changes)
    BY DEF RequestsOK
<1>3. x \notin touched' /\ Watching(requests[x]) =>
          /\ x \notin touched
          /\ changes'[Where(requests[x])] = changes[Where(requests[x])]
          /\ \/ store'[Where(requests[x])] = store[Where(requests[x])]
             \/ SameButTime(store[Where(requests[x])], store'[Where(requests[x])])
    BY <1>1 DEF Guards
<1>4. changes \in [Places -> Nat] /\ changes' \in [Places -> Nat]
    BY DEF ServerOK
<1>5. Good(requests[x], x \notin touched', store', changes')
    BY <1>1, <1>2, <1>3, <1>4, GoodStays
<1> QED
    BY <1>1, <1>5

\* A step that leaves the store alone.
LEMMA StillStore ==
    ASSUME ServerOK, UNCHANGED <<store, changes>>,
           touched' = touched \/ Touch({}), RequestsOK
    PROVE  Evolves(store, changes, store', changes') /\ Guards
<1>1. Evolves(store, changes, store', changes')
    BY DEF Evolves, ServerOK
<1>2. ASSUME NEW r \in Slots, requests'[r] = requests[r], Watching(requests[r]),
             r \notin touched'
      PROVE  r \notin touched
    BY <1>2 DEF Touch
<1> QED
    BY <1>1, <1>2 DEF Guards

\* A place is written.
LEMMA PutStore ==
    ASSUME ServerOK, RequestsOK, NEW p \in Places, NEW v \in Values \cup {Absent}, Put(p, v)
    PROVE  /\ Evolves(store, changes, store', changes') /\ Guards
           /\ store' \in [Places -> Values \cup {Absent}]
           /\ touched' \subseteq Slots
           /\ changes' \in [Places -> Nat]
           /\ store'[p] = v /\ changes'[p] = changes[p] + 1
<1>1. /\ store' \in [Places -> Values \cup {Absent}] /\ changes' \in [Places -> Nat]
      /\ store'[p] = v /\ changes'[p] = changes[p] + 1
      /\ \A x \in Places \ {p} : store'[x] = store[x] /\ changes'[x] = changes[x]
    BY DEF ServerOK, Put
<1>2. touched' \subseteq Slots
    BY DEF Put, Touch
<1>3. Evolves(store, changes, store', changes')
    <2> SUFFICES ASSUME NEW x \in Places
                 PROVE  /\ changes'[x] >= changes[x]
                        /\ changes'[x] = changes[x] => store'[x] = store[x]
        BY DEF Evolves
    <2>1. changes[x] \in Nat
        BY DEF ServerOK
    <2> QED
        BY <1>1, <2>1
<1>4. ASSUME NEW r \in Slots, requests'[r] = requests[r], Watching(requests[r]),
             r \notin touched'
      PROVE  /\ r \notin touched
             /\ changes'[Where(requests[r])] = changes[Where(requests[r])]
             /\ store'[Where(requests[r])] = store[Where(requests[r])]
    <2>1. PICK x \in Places : requests[r].places = {x}
        BY <1>4 DEF RequestsOK, Good, CourseOK, Watching
    <2>2. Where(requests[r]) = x
        BY <2>1, WhereIs
    <2>3. r \notin touched /\ ~(requests[r].places \subseteq {p})
        BY <1>4 DEF Put, Touch
    <2>4. x # p
        BY <2>1, <2>3
    <2> QED
        BY <1>1, <2>2, <2>3, <2>4
<1> QED
    BY <1>1, <1>2, <1>3, <1>4 DEF Guards

(***************************************************************************)
(* The steps of the server.                                                *)
(***************************************************************************)

LEMMA NoRequestIsGood ==
    ASSUME NEW u, NEW s, NEW c
    PROVE  NoRequest \in Requests /\ Good(NoRequest, u, s, c)
<1>1. NoRequest \in Requests
    <2>1. Forever \in Lefts
        BY BoundsAssumption DEF Forever, Lefts
    <2> QED
        BY <2>1 DEF NoRequest, Requests, Kinds, Labels, Statuses
<1>2. Good(NoRequest, u, s, c)
    BY DEF NoRequest, Good, CourseOK, ReadingOK, WatchOK, ConflictOK, Fits
<1> QED
    BY <1>1, <1>2

Answered1(q, code, d) ==
    [NoRequest EXCEPT
        !.kind = q.kind, !.places = q.places, !.version = q.version,
        !.committed = q.committed, !.at = "answered", !.status = code, !.detail = d]

LEMMA AnswerIsGood ==
    ASSUME NEW q \in Requests, NEW u, NEW u2, NEW s, NEW c, Good(q, u, s, c),
           NEW code \in Statuses, NEW d \in Details \cup {None}, Fits(d, s, c),
           q.kind = "read" /\ code = "ok" => d \in Details,
           code = "conflict" =>
               /\ ~q.committed
               /\ q.kind = "update" =>
                     \/ q.version.asOf < c[Where(q)]
                     \/ q.version.left # Forever
                     \/ q.version.place # Where(q)
    PROVE  /\ Answered1(q, code, d) \in Requests
           /\ Good(Answered1(q, code, d), u2, s, c)
<1> DEFINE a == Answered1(q, code, d)
<1>1. /\ a.kind = q.kind /\ a.places = q.places /\ a.version = q.version
      /\ a.committed = q.committed /\ a.at = "answered" /\ a.status = code
      /\ a.detail = d
    BY DEF Answered1, NoRequest
<1>2. a \in Requests
    <2>1. Forever \in Lefts
        BY BoundsAssumption DEF Forever, Lefts
    <2>2. "answered" \in Labels
        BY DEF Labels
    <2> QED
        BY <2>1, <2>2 DEF Answered1, NoRequest, Requests
<1>3. Where(a) = Where(q)
    BY <1>1 DEF Where
<1> HIDE DEF a
<1>4. CourseOK(a)
    BY <1>1 DEF Good, CourseOK
<1>5. ReadingOK(a, s, c) /\ WatchOK(a, s, c)
    BY <1>1 DEF ReadingOK, WatchOK
<1>6. ConflictOK(a, c)
    BY <1>1, <1>3 DEF ConflictOK
<1>7. Fits(a.version, s, c) /\ Fits(a.detail, s, c)
    BY <1>1 DEF Good
<1> QED
    BY <1>2, <1>4, <1>5, <1>6, <1>7 DEF Good, a

\* A request is answered and the store left alone.
LEMMA AnswerKeeps ==
    ASSUME ServerOK, RequestsOK, NEW r \in Slots,
           NEW code \in Statuses, NEW d \in Details \cup {None},
           Fits(d, store, changes), Answer(r, code, d), Touch({}),
           UNCHANGED <<store, changes, outside>>,
           requests[r].kind = "read" /\ code = "ok" => d \in Details,
           code = "conflict" =>
               /\ ~requests[r].committed
               /\ requests[r].kind = "update" =>
                     \/ requests[r].version.asOf < changes[Where(requests[r])]
                     \/ requests[r].version.left # Forever
                     \/ requests[r].version.place # Where(requests[r])
    PROVE  ServerOK' /\ RequestsOK'
<1> DEFINE a == Answered1(requests[r], code, d)
<1>1. requests' = [requests EXCEPT ![r] = a]
    BY DEF Answer, Answered1
<1>2. requests[r] \in Requests /\ Good(requests[r], r \notin touched, store, changes)
    BY DEF ServerOK, RequestsOK
<1>3. a \in Requests /\ Good(a, r \notin touched', store, changes)
    BY <1>2, AnswerIsGood
<1> HIDE DEF a
<1>4. ServerOK'
    BY <1>1, <1>3 DEF ServerOK, Touch
<1>5. Evolves(store, changes, store', changes') /\ Guards
    BY StillStore
<1> QED
    BY <1>1, <1>3, <1>4, <1>5, OneIsServed

\* A request moves on and the store is left alone.
LEMMA MoveKeeps ==
    ASSUME ServerOK, RequestsOK, NEW r \in Slots, NEW q \in Requests,
           requests' = [requests EXCEPT ![r] = q], Touch({}),
           UNCHANGED <<store, changes, outside>>,
           Good(q, r \notin touched', store, changes)
    PROVE  ServerOK' /\ RequestsOK'
<1>1. ServerOK'
    BY DEF ServerOK, Touch
<1>2. Evolves(store, changes, store', changes') /\ Guards
    BY StillStore
<1> QED
    BY <1>1, <1>2, OneIsServed

\* The place of a request that is served.
LEMMA PlaceOf ==
    ASSUME ServerOK, RequestsOK, NEW r \in Slots,
           requests[r].kind \in {"read", "update", "create"}
    PROVE  /\ Place(r) = Where(requests[r]) /\ Place(r) \in Places
           /\ requests[r].places = {Place(r)}
           /\ store[Place(r)] \in Values \cup {Absent} /\ changes[Place(r)] \in Nat
<1>1. PICK x \in Places : requests[r].places = {x}
    BY DEF RequestsOK, Good, CourseOK
<1>2. Where(requests[r]) = x /\ Place(r) = Where(requests[r])
    BY <1>1, WhereIs DEF Place, Where
<1> QED
    BY <1>1, <1>2 DEF ServerOK

LEMMA NoneFits ==
    ASSUME NEW s, NEW c
    PROVE  None \in Details \cup {None} /\ Fits(None, s, c)
BY DEF Fits

LEMMA ReadTypeKeeps ==
    ASSUME ServerOK, RequestsOK, NEW r \in Slots, ReadType(r)
    PROVE  ServerOK' /\ RequestsOK'
<1> DEFINE q == requests[r]
           p == Place(r)
<1>1. q \in Requests /\ Good(q, r \notin touched, store, changes) /\ q.at = "type"
    BY DEF ServerOK, RequestsOK, ReadType
<1>2. q.kind \in {"read", "update", "create"}
    BY <1>1 DEF Good, CourseOK
<1>3. /\ p = Where(q) /\ p \in Places /\ store[p] \in Values \cup {Absent}
      /\ changes[p] \in Nat
    BY <1>2, PlaceOf
<1>4. Touch({}) /\ UNCHANGED <<store, changes, outside>>
    BY DEF ReadType
<1>5. CASE store[p] = Absent
    <2>1. Answer(r, "not found", None)
        BY <1>5 DEF ReadType
    <2>2. "not found" \in Statuses
        BY DEF Statuses
    <2> QED
        BY <1>4, <2>1, <2>2, NoneFits, AnswerKeeps
<1>6. CASE store[p] # Absent
    <2> DEFINE n == IF q.committed THEN q.asOf ELSE changes[p]
               m == [q EXCEPT !.at = "content", !.type = store[p].type,
                              !.left = store[p].left, !.asOf = n]
    <2>1. requests' = [requests EXCEPT ![r] = m]
        BY <1>6 DEF ReadType
    <2>2. store[p] \in Values
        BY <1>3, <1>6
    <2>3. store[p].type \in Types /\ store[p].left \in Lefts
        BY <2>2 DEF Values
    <2>4. n \in Nat /\ n <= changes[p] /\ (~q.committed => n = changes[p])
        BY <1>1, <1>3 DEF Good, ReadingOK, Requests
    <2>5. /\ m.kind = q.kind /\ m.places = q.places /\ m.version = q.version
          /\ m.draft = q.draft /\ m.committed = q.committed /\ m.status = q.status
          /\ m.detail = q.detail /\ m.at = "content" /\ m.type = store[p].type
          /\ m.left = store[p].left /\ m.asOf = n
        BY <1>1 DEF Requests
    <2>6. m \in Requests
        BY <1>1, <2>3, <2>4 DEF Requests, Labels
    <2>7. Where(m) = p
        BY <2>5, <1>3 DEF Where
    <2> HIDE DEF m, n
    <2>8. CourseOK(m)
        BY <1>1, <1>2, <2>3, <2>5 DEF Good, CourseOK
    <2>9. ReadingOK(m, store, changes)
        <3>1. m.at = "content" /\ m.kind = "update" /\ ~m.committed /\ m.version.place = Where(m)
              => m.version.asOf <= m.asOf
            <4> SUFFICES ASSUME q.kind = "update", ~q.committed, q.version.place = p
                         PROVE  q.version.asOf <= changes[p]
                BY <2>4, <2>5, <2>7
            <4>1. q.version # None
                BY <1>1 DEF Good, CourseOK
            <4> QED
                BY <1>1, <4>1 DEF Good, Fits
        <3> QED
            BY <1>6, <2>4, <2>5, <2>7, <3>1 DEF ReadingOK
    <2>10. WatchOK(m, store, changes)
        BY <2>4, <2>5, <2>7 DEF WatchOK
    <2>11. ConflictOK(m, changes)
        BY <1>1, <2>5 DEF Good, CourseOK, ConflictOK
    <2>12. Good(m, r \notin touched', store, changes)
        BY <1>1, <2>5, <2>8, <2>9, <2>10, <2>11 DEF Good
    <2> QED
        BY <1>4, <2>1, <2>6, <2>12, MoveKeeps
<1> QED
    BY <1>5, <1>6

\* What a read of two steps finds is right until the key changes.
LEMMA ReadFits ==
    ASSUME ServerOK, RequestsOK, NEW r \in Slots, requests[r].at = "content"
    PROVE  /\ Read(r) \in Details /\ Fits(Read(r), store, changes)
           /\ Read(r).place = Place(r) /\ Read(r).type = requests[r].type
           /\ Read(r).left = requests[r].left /\ Read(r).asOf = requests[r].asOf
           /\ store[Place(r)] # Absent => Read(r).shown = store[Place(r)].shown
<1> DEFINE q == requests[r]
           p == Place(r)
<1>1. q \in Requests /\ CourseOK(q) /\ ReadingOK(q, store, changes)
    BY DEF ServerOK, RequestsOK, Good
<1>2. q.kind \in {"read", "update", "create"} /\ q.type \in Types
    BY <1>1 DEF CourseOK
<1>3. /\ p = Where(q) /\ p \in Places /\ store[p] \in Values \cup {Absent}
      /\ changes[p] \in Nat
    BY <1>2, PlaceOf
<1>4. /\ Read(r).place = p /\ Read(r).type = q.type /\ Read(r).left = q.left
      /\ Read(r).asOf = q.asOf
      /\ store[p] # Absent => Read(r).shown = store[p].shown
    BY DEF Read
<1>5. Read(r) \in Details
    <2>1. (IF store[p] = Absent THEN Nothing ELSE store[p].shown) \in Texts \cup {Nothing}
        BY <1>3 DEF Values
    <2>2. q.left \in Lefts /\ q.asOf \in Nat
        BY <1>1 DEF Requests
    <2> QED
        BY <1>2, <1>3, <2>1, <2>2 DEF Read, Details
<1>6. Fits(Read(r), store, changes)
    BY <1>1, <1>3, <1>4 DEF ReadingOK, Fits
<1> QED
    BY <1>4, <1>5, <1>6

LEMMA ReadContentKeeps ==
    ASSUME ServerOK, RequestsOK, NEW r \in Slots, ReadContent(r)
    PROVE  ServerOK' /\ RequestsOK'
<1>1. Touch({}) /\ UNCHANGED <<store, changes, outside>> /\ requests[r].at = "content"
    BY DEF ReadContent
<1>2. "ok" \in Statuses /\ "failed" \in Statuses
    BY DEF Statuses
<1>3. CASE Answer(r, "ok", Read(r))
    BY <1>1, <1>2, <1>3, ReadFits, AnswerKeeps
<1>4. CASE Answer(r, "failed", None)
    BY <1>1, <1>2, <1>4, NoneFits, AnswerKeeps
<1> QED
    BY <1>3, <1>4 DEF ReadContent

\* updateKey: equal versions are equal contents, and different ones mean a
\* change, or a lifetime.
LEMMA CompareKeeps ==
    ASSUME ServerOK, RequestsOK, NEW r \in Slots, Compare(r)
    PROVE  ServerOK' /\ RequestsOK'
<1> DEFINE q == requests[r]
           p == Place(r)
<1>1. /\ Touch({}) /\ UNCHANGED <<store, changes, outside>>
      /\ q.at = "content" /\ q.kind = "update" /\ ~q.committed
    BY DEF Compare
<1>2. q \in Requests /\ Good(q, r \notin touched, store, changes)
    BY DEF ServerOK, RequestsOK
<1>3. /\ p = Where(q) /\ p \in Places /\ store[p] \in Values \cup {Absent}
      /\ changes[p] \in Nat
    BY <1>1, PlaceOf
<1>4. /\ Read(r) \in Details /\ Fits(Read(r), store, changes)
      /\ Read(r).type = q.type /\ Read(r).left = q.left
      /\ store[p] # Absent => Read(r).shown = store[p].shown
    BY <1>1, ReadFits
<1>5. q.version \in Details /\ q.version # None
    BY <1>1, <1>2 DEF Good, CourseOK
<1>6. "failed" \in Statuses /\ "conflict" \in Statuses
    BY DEF Statuses
<1>7. CASE ~Readable(r)
    <2>1. Answer(r, "failed", None)
        BY <1>7 DEF Compare
    <2> QED
        BY <1>1, <1>6, <2>1, NoneFits, AnswerKeeps
<1>8. CASE Readable(r) /\ ~Same(r)
    <2>1. Answer(r, "conflict", Read(r))
        BY <1>8 DEF Compare
    <2>2. ASSUME ~(q.version.asOf < changes[p]), q.version.left = Forever,
                 q.version.place = p
          PROVE  FALSE
        <3>1. q.version.asOf \in Nat /\ q.asOf \in Nat
            BY <1>2, <1>5 DEF Details, Requests
        <3>2. q.version.asOf <= changes[p] /\ q.asOf <= changes[p]
              /\ q.version.asOf <= q.asOf
            BY <1>1, <1>2, <1>3, <1>5, <2>2 DEF Good, Fits, ReadingOK
        <3>3. q.version.asOf = changes[p] /\ q.asOf = changes[p]
            BY <1>3, <2>2, <3>1, <3>2
        <3>4. /\ store[p] # Absent /\ store[p].type = q.version.type
              /\ store[p].shown = q.version.shown /\ store[p].left = Forever
            BY <1>2, <1>5, <2>2, <3>3 DEF Good, Fits
        <3>5. q.type = store[p].type /\ q.left = Forever
            BY <1>1, <1>2, <1>3, <3>3, <3>4 DEF Good, ReadingOK
        <3>6. Version(q.version) = Version(Read(r))
            BY <1>4, <2>2, <3>4, <3>5 DEF Version
        <3> QED
            BY <1>8, <3>6 DEF Same
    <2> QED
        BY <1>1, <1>3, <1>4, <1>6, <2>1, <2>2, AnswerKeeps
<1>9. CASE Readable(r) /\ Same(r)
    <2> DEFINE m == [q EXCEPT !.at = "exec"]
    <2>1. requests' = [requests EXCEPT ![r] = m]
        BY <1>9 DEF Compare
    <2>2. m \in Requests
        BY <1>2 DEF Requests, Labels
    <2>3. /\ m.kind = q.kind /\ m.places = q.places /\ m.version = q.version
          /\ m.draft = q.draft /\ m.committed = q.committed /\ m.status = q.status
          /\ m.detail = q.detail /\ m.at = "exec"
        BY <1>2 DEF Requests
    <2>4. Where(m) = p
        BY <1>3, <2>3 DEF Where
    <2> HIDE DEF m
    <2>5. CourseOK(m)
        BY <1>1, <1>2, <2>3 DEF Good, CourseOK
    <2>6. ReadingOK(m, store, changes)
        BY <2>3 DEF ReadingOK
    <2>7. ASSUME r \notin touched' PROVE WatchOK(m, store, changes)
        <3>1. requests'[r] = m
            BY <2>1 DEF ServerOK
        <3>2. Watching(requests'[r])
            BY <1>1, <2>3, <3>1 DEF Watching
        <3>3. r \notin touched
            BY <1>1, <2>7, <3>2 DEF Touch
        <3>4. q.asOf = changes[p]
            BY <1>1, <1>2, <1>3, <3>3 DEF Good, WatchOK
        <3>5. store[p] # Absent /\ store[p].type = q.type
            BY <1>1, <1>2, <1>3, <3>4 DEF Good, ReadingOK
        <3>6. q.version.type = Read(r).type /\ q.version.shown = Read(r).shown
            BY <1>9 DEF Same, Version
        <3> QED
            BY <1>1, <1>4, <2>3, <2>4, <3>5, <3>6 DEF WatchOK
    <2>8. ConflictOK(m, changes)
        BY <1>2, <1>1, <2>3 DEF Good, CourseOK, ConflictOK
    <2>9. Good(m, r \notin touched', store, changes)
        BY <1>2, <2>3, <2>5, <2>6, <2>7, <2>8 DEF Good
    <2> QED
        BY <1>1, <2>1, <2>2, <2>9, MoveKeeps
<1> QED
    BY <1>7, <1>8, <1>9

LEMMA ExistsKeeps ==
    ASSUME ServerOK, RequestsOK, NEW r \in Slots, Exists(r)
    PROVE  ServerOK' /\ RequestsOK'
<1> DEFINE q == requests[r]
           p == Place(r)
<1>1. /\ Touch({}) /\ UNCHANGED <<store, changes, outside>> /\ q.at = "exists"
    BY DEF Exists
<1>2. q \in Requests /\ Good(q, r \notin touched, store, changes)
    BY DEF ServerOK, RequestsOK
<1>3. q.kind = "create" /\ ~q.committed
    BY <1>1, <1>2 DEF Good, CourseOK
<1>4. p = Where(q)
    BY <1>3, PlaceOf
<1>5. CASE store[p] # Absent
    <2>1. Answer(r, "conflict", None) /\ "conflict" \in Statuses
        BY <1>5 DEF Exists, Statuses
    <2> QED
        BY <1>1, <1>3, <2>1, NoneFits, AnswerKeeps
<1>6. CASE store[p] = Absent
    <2> DEFINE m == [q EXCEPT !.at = "exec"]
    <2>1. requests' = [requests EXCEPT ![r] = m]
        BY <1>6 DEF Exists
    <2>2. m \in Requests
        BY <1>2 DEF Requests, Labels
    <2>3. /\ m.kind = q.kind /\ m.places = q.places /\ m.version = q.version
          /\ m.draft = q.draft /\ m.committed = q.committed /\ m.status = q.status
          /\ m.detail = q.detail /\ m.at = "exec"
        BY <1>2 DEF Requests
    <2>4. Where(m) = p
        BY <1>4, <2>3 DEF Where
    <2> HIDE DEF m
    <2>5. CourseOK(m)
        BY <1>1, <1>2, <1>3, <2>3 DEF Good, CourseOK
    <2>6. ReadingOK(m, store, changes)
        BY <2>3 DEF ReadingOK
    <2>7. WatchOK(m, store, changes)
        BY <1>3, <1>6, <2>3, <2>4 DEF WatchOK
    <2>8. ConflictOK(m, changes)
        BY <1>2, <1>1, <2>3 DEF Good, CourseOK, ConflictOK
    <2>9. Good(m, r \notin touched', store, changes)
        BY <1>2, <2>3, <2>5, <2>6, <2>7, <2>8 DEF Good
    <2> QED
        BY <1>1, <2>1, <2>2, <2>9, MoveKeeps
<1> QED
    BY <1>5, <1>6

LEMMA ExecuteKeeps ==
    ASSUME ServerOK, RequestsOK, NEW r \in Slots, Execute(r)
    PROVE  ServerOK' /\ RequestsOK' /\ Evolves(store, changes, store', changes')
<1> DEFINE q == requests[r]
           p == Place(r)
<1>1. q \in Requests /\ Good(q, r \notin touched, store, changes) /\ q.at = "exec"
    BY DEF ServerOK, RequestsOK, Execute
<1>2. /\ q.kind \in {"update", "create"} /\ ~q.committed
      /\ q.draft \in Drafts /\ q.draft.shown \in Texts
    BY <1>1 DEF Good, CourseOK
<1>3. p = Where(q) /\ p \in Places /\ q.places = {p} /\ changes[p] \in Nat
    BY <1>2, PlaceOf
<1>4. Written(r) \in Values
    <2>1. MaxLeft \in Lefts /\ Forever \in Lefts /\ q.left \in Lefts
        BY <1>1, BoundsAssumption DEF Lefts, Forever, Requests
    <2>2. Lifetime(r) \in Lefts
        BY <2>1 DEF Lifetime
    <2>3. q.draft.type \in Types
        BY <1>2 DEF Drafts
    <2> QED
        BY <1>2, <2>2, <2>3 DEF Written, Value, Values
<1>5. ASSUME Put(p, Written(r)), NEW m \in Requests,
             requests' = [requests EXCEPT ![r] = m],
             m.kind = q.kind, m.places = q.places, m.committed = TRUE,
             m.at \in {"type", "answered"}, m.asOf <= changes[p] + 1,
             m.status \in {"none", "failed"}, m.version = None, m.detail = None
      PROVE  ServerOK' /\ RequestsOK' /\ Evolves(store, changes, store', changes')
    <2>1. /\ Evolves(store, changes, store', changes') /\ Guards
          /\ store' \in [Places -> Values \cup {Absent}]
          /\ touched' \subseteq Slots
          /\ changes' \in [Places -> Nat]
          /\ changes'[p] = changes[p] + 1
        BY <1>3, <1>4, <1>5, PutStore
    <2>2. ServerOK'
        BY <1>5, <2>1 DEF ServerOK, Execute
    <2>3. Where(m) = p
        BY <1>3, <1>5 DEF Where
    <2>4. CourseOK(m)
        BY <1>2, <1>3, <1>5 DEF CourseOK
    <2>5. ReadingOK(m, store', changes') /\ WatchOK(m, store', changes')
        BY <1>5, <2>1, <2>3 DEF ReadingOK, WatchOK
    <2>6. ConflictOK(m, changes') /\ Fits(m.version, store', changes')
          /\ Fits(m.detail, store', changes')
        BY <1>5 DEF ConflictOK, Fits
    <2>7. Good(m, r \notin touched', store', changes')
        BY <2>4, <2>5, <2>6 DEF Good
    <2> QED
        BY <1>5, <2>1, <2>2, <2>7, OneIsServed
<1>6. Forever \in Lefts
    BY BoundsAssumption DEF Forever, Lefts
<1>7. CASE Runs(r) /\ Put(p, Written(r)) /\ requests' = [requests EXCEPT ![r] =
               [NoRequest EXCEPT !.kind = q.kind, !.places = q.places,
                   !.committed = TRUE, !.at = "type", !.asOf = changes[p] + 1]]
    <2> DEFINE n == changes[p] + 1
               m == [NoRequest EXCEPT !.kind = q.kind, !.places = q.places,
                        !.committed = TRUE, !.at = "type", !.asOf = n]
    <2>1. m \in Requests
        <3>1. n \in Nat
            BY <1>3
        <3>2. q.kind \in Kinds /\ q.places \in SUBSET Places
            BY <1>1 DEF Requests
        <3> HIDE DEF n
        <3> QED
            BY <1>6, <3>1, <3>2 DEF NoRequest, Requests, Labels, Statuses
    <2>2. /\ m.kind = q.kind /\ m.places = q.places /\ m.committed = TRUE
          /\ m.at = "type" /\ m.asOf = changes[p] + 1 /\ m.status = "none"
          /\ m.version = None /\ m.detail = None
        BY DEF NoRequest
    <2> HIDE DEF m
    <2>3. requests' = [requests EXCEPT ![r] = m]
        BY <1>7 DEF m
    <2>4. m.asOf <= changes[p] + 1
        BY <1>3, <2>2
    <2> QED
        BY <1>5, <1>7, <2>1, <2>2, <2>3, <2>4
<1>8. CASE Runs(r) /\ Put(p, Written(r)) /\ requests' = [requests EXCEPT ![r] =
               [NoRequest EXCEPT !.kind = q.kind, !.places = q.places,
                   !.committed = TRUE, !.at = "answered", !.status = "failed"]]
    <2> DEFINE m == [NoRequest EXCEPT !.kind = q.kind, !.places = q.places,
                        !.committed = TRUE, !.at = "answered", !.status = "failed"]
    <2>1. m \in Requests
        BY <1>1, <1>3, <1>6 DEF NoRequest, Requests, Labels, Statuses
    <2>2. /\ m.kind = q.kind /\ m.places = q.places /\ m.committed = TRUE
          /\ m.at = "answered" /\ m.asOf = 0 /\ m.status = "failed"
          /\ m.version = None /\ m.detail = None
        BY DEF NoRequest
    <2> HIDE DEF m
    <2>3. requests' = [requests EXCEPT ![r] = m]
        BY <1>8 DEF m
    <2>4. m.asOf <= changes[p] + 1
        BY <1>3, <2>2
    <2> QED
        BY <1>5, <1>8, <2>1, <2>2, <2>3, <2>4
<1>9. CASE Answer(r, "failed", None) /\ Touch({}) /\ UNCHANGED <<store, changes>>
    <2>1. UNCHANGED <<store, changes, outside>> /\ "failed" \in Statuses
        BY <1>9 DEF Execute, Statuses
    <2>2. ServerOK' /\ RequestsOK'
        BY <1>9, <2>1, NoneFits, AnswerKeeps
    <2> QED
        BY <1>9, <2>2, StillStore
<1> QED
    BY <1>7, <1>8, <1>9 DEF Execute

LEMMA DeleteKeeps ==
    ASSUME ServerOK, RequestsOK, NEW r \in Slots, Delete(r)
    PROVE  ServerOK' /\ RequestsOK' /\ Evolves(store, changes, store', changes')
<1> DEFINE q == requests[r]
<1>1. q \in Requests /\ Good(q, r \notin touched, store, changes) /\ q.at = "delete"
    BY DEF ServerOK, RequestsOK, Delete
<1>2. PICK p \in q.places :
          /\ requests' = [requests EXCEPT ![r].places = @ \ {p}]
          /\ \/ Put(p, Absent)
             \/ UNCHANGED <<store, touched, changes>>
    BY DEF Delete
<1>3. p \in Places
    BY <1>1, <1>2 DEF Requests
<1> DEFINE m == [q EXCEPT !.places = q.places \ {p}]
<1>4. requests' = [requests EXCEPT ![r] = m]
    BY <1>2
<1>5. m \in Requests
    BY <1>1 DEF Requests
<1>6. /\ m.kind = q.kind /\ m.version = q.version /\ m.at = "delete"
      /\ m.committed = q.committed /\ m.status = q.status /\ m.detail = q.detail
    BY <1>1 DEF Requests
<1> HIDE DEF m
<1>7. Good(m, FALSE, store, changes)
    <2>1. q.kind \in {"delete", "delete many"} /\ ~q.committed /\ q.status # "conflict"
        BY <1>1 DEF Good, CourseOK
    <2>2. CourseOK(m)
        BY <1>6, <2>1 DEF CourseOK
    <2>3. ReadingOK(m, store, changes) /\ ConflictOK(m, changes)
        BY <1>6, <2>1 DEF ReadingOK, ConflictOK
    <2> QED
        BY <1>1, <1>6, <2>2, <2>3 DEF Good
<1>8. ~Watching(m)
    BY <1>6 DEF Watching
<1>9. /\ Evolves(store, changes, store', changes') /\ Guards
      /\ store' \in [Places -> Values \cup {Absent}]
      /\ touched' \subseteq Slots
      /\ changes' \in [Places -> Nat]
    <2>1. CASE Put(p, Absent)
        BY <1>3, <2>1, PutStore
    <2>2. CASE UNCHANGED <<store, touched, changes>>
        BY <2>2, StillStore DEF ServerOK
    <2> QED
        BY <1>2, <2>1, <2>2
<1>10. ServerOK'
    BY <1>4, <1>5, <1>9 DEF ServerOK, Delete
<1>11. Good(m, r \notin touched', store', changes')
    BY <1>5, <1>7, <1>8, <1>9, GoodStays DEF ServerOK
<1> QED
    BY <1>4, <1>5, <1>9, <1>10, <1>11, OneIsServed

LEMMA DeletedKeeps ==
    ASSUME ServerOK, RequestsOK, NEW r \in Slots, Deleted(r)
    PROVE  ServerOK' /\ RequestsOK'
<1>1. /\ Answer(r, "ok", None) /\ Touch({}) /\ UNCHANGED <<store, changes, outside>>
      /\ requests[r].at = "delete"
    BY DEF Deleted
<1>2. requests[r].kind # "read" /\ "ok" \in Statuses
    BY <1>1 DEF RequestsOK, Good, CourseOK, Statuses
<1> QED
    BY <1>1, <1>2, NoneFits, AnswerKeeps

LEMMA FailKeeps ==
    ASSUME ServerOK, RequestsOK, NEW r \in Slots, Fail(r)
    PROVE  ServerOK' /\ RequestsOK'
<1>1. /\ Answer(r, "failed", None) /\ Touch({}) /\ UNCHANGED <<store, changes, outside>>
      /\ "failed" \in Statuses
    BY DEF Fail, Statuses
<1> QED
    BY <1>1, NoneFits, AnswerKeeps

\* An answer is to the request that was made.
LEMMA AnswerKinds ==
    ASSUME ServerOK, NEW r \in Slots, NEW code, NEW d, Answer(r, code, d)
    PROVE  \A x \in Slots : requests'[x].kind = requests[x].kind
<1> DEFINE a == Answered1(requests[r], code, d)
<1>1. requests' = [requests EXCEPT ![r] = a]
    BY DEF Answer, Answered1
<1>2. a.kind = requests[r].kind
    BY DEF Answered1, NoRequest
<1> HIDE DEF a
<1> QED
    BY <1>1, <1>2 DEF ServerOK

\* A request that is served stays of its kind.
LEMMA ServesKinds ==
    ASSUME ServerOK, NEW r \in Slots, Serves(r) \/ Fail(r)
    PROVE  \A x \in Slots : requests'[x].kind = requests[x].kind
<1>1. requests[r] \in Requests
    BY DEF ServerOK
<1>2. CASE \E code, d : Answer(r, code, d)
    BY <1>2, AnswerKinds
<1>3. ASSUME NEW m, m.kind = requests[r].kind, requests' = [requests EXCEPT ![r] = m]
      PROVE  \A x \in Slots : requests'[x].kind = requests[x].kind
    BY <1>3 DEF ServerOK
<1>4. CASE ReadType(r)
    <2> DEFINE n == IF requests[r].committed THEN requests[r].asOf ELSE changes[Place(r)]
               m == [requests[r] EXCEPT !.at = "content", !.type = store[Place(r)].type,
                        !.left = store[Place(r)].left, !.asOf = n]
    <2>1. CASE requests' = [requests EXCEPT ![r] = m]
        <3>1. m.kind = requests[r].kind
            BY <1>1 DEF Requests
        <3> HIDE DEF m
        <3> QED
            BY <1>3, <2>1, <3>1
    <2>2. (\E code, d : Answer(r, code, d)) \/ requests' = [requests EXCEPT ![r] = m]
        BY <1>4 DEF ReadType
    <2> HIDE DEF m
    <2> QED
        BY <1>2, <2>1, <2>2
<1>5. CASE ReadContent(r)
    BY <1>2, <1>5 DEF ReadContent
<1>6. CASE Compare(r) \/ Exists(r)
    <2> DEFINE m == [requests[r] EXCEPT !.at = "exec"]
    <2>1. CASE requests' = [requests EXCEPT ![r] = m]
        <3>1. m.kind = requests[r].kind
            BY <1>1 DEF Requests
        <3> HIDE DEF m
        <3> QED
            BY <1>3, <2>1, <3>1
    <2>2. (\E code, d : Answer(r, code, d)) \/ requests' = [requests EXCEPT ![r] = m]
        BY <1>6 DEF Compare, Exists
    <2> HIDE DEF m
    <2> QED
        BY <1>2, <2>1, <2>2
<1>7. CASE Execute(r)
    <2> DEFINE m == [NoRequest EXCEPT !.kind = requests[r].kind, !.places = requests[r].places,
                        !.committed = TRUE, !.at = "type", !.asOf = changes[Place(r)] + 1]
               n == [NoRequest EXCEPT !.kind = requests[r].kind, !.places = requests[r].places,
                        !.committed = TRUE, !.at = "answered", !.status = "failed"]
    <2>1. m.kind = requests[r].kind /\ n.kind = requests[r].kind
        BY DEF NoRequest
    <2>2. \/ \E code, d : Answer(r, code, d)
          \/ requests' = [requests EXCEPT ![r] = m]
          \/ requests' = [requests EXCEPT ![r] = n]
        BY <1>7 DEF Execute
    <2> HIDE DEF m, n
    <2> QED
        BY <1>2, <1>3, <2>1, <2>2
<1>8. CASE Delete(r)
    <2>1. PICK p \in requests[r].places : requests' = [requests EXCEPT ![r].places = @ \ {p}]
        BY <1>8 DEF Delete
    <2> DEFINE m == [requests[r] EXCEPT !.places = requests[r].places \ {p}]
    <2>2. m.kind = requests[r].kind
        BY <1>1 DEF Requests
    <2>3. requests' = [requests EXCEPT ![r] = m]
        BY <2>1
    <2> HIDE DEF m
    <2> QED
        BY <1>3, <2>2, <2>3
<1>9. CASE Deleted(r) \/ Fail(r)
    BY <1>2, <1>9 DEF Deleted, Fail
<1> QED
    BY <1>4, <1>5, <1>6, <1>7, <1>8, <1>9 DEF Serves

\* Every step of the server, with what it leaves to the page.
LEMMA ServerKeeps ==
    ASSUME ServerOK, RequestsOK, NEW r \in Slots, Serves(r) \/ Fail(r)
    PROVE  ServerOK' /\ RequestsOK' /\ Evolves(store, changes, store', changes')
<1>1. CASE Execute(r)
    BY <1>1, ExecuteKeeps
<1>2. CASE Delete(r)
    BY <1>2, DeleteKeeps
<1>3. CASE ReadType(r) \/ ReadContent(r) \/ Compare(r) \/ Exists(r) \/ Deleted(r) \/ Fail(r)
    <2>1. UNCHANGED <<store, changes>> /\ Touch({})
        BY <1>3 DEF ReadType, ReadContent, Compare, Exists, Deleted, Fail
    <2>2. ServerOK' /\ RequestsOK'
        BY <1>3, ReadTypeKeeps, ReadContentKeeps, CompareKeeps, ExistsKeeps, DeletedKeeps, FailKeeps
    <2> QED
        BY <2>1, <2>2, StillStore
<1> QED
    BY <1>1, <1>2, <1>3 DEF Serves

LEMMA OthersKeep ==
    ASSUME ServerOK, RequestsOK, Others
    PROVE  /\ ServerOK' /\ RequestsOK' /\ Evolves(store, changes, store', changes')
           /\ requests' = requests
<1> PICK p \in Places : Outside(p) \/ Tick(p)
    BY DEF Others
<1>1. store[p] \in Values \cup {Absent}
    BY DEF ServerOK
<1>2. Foreign \subseteq Values /\ MaxOutside \in Nat
    BY BoundsAssumption DEF Values, Lefts, Forever
<1>3. Absent \notin Values
    BY BoundsAssumption DEF Values, Lefts, Forever
<1>4. ASSUME NEW v \in Values \cup {Absent}, Put(p, v), requests' = requests,
             outside' \in 0 .. MaxOutside
      PROVE  /\ ServerOK' /\ RequestsOK' /\ Evolves(store, changes, store', changes')
             /\ requests' = requests
    <2>1. /\ Evolves(store, changes, store', changes') /\ Guards
          /\ store' \in [Places -> Values \cup {Absent}]
          /\ touched' \subseteq Slots
          /\ changes' \in [Places -> Nat]
        BY <1>4, PutStore
    <2>2. ServerOK'
        BY <1>4, <2>1 DEF ServerOK
    <2> QED
        BY <1>4, <2>1, <2>2, NobodyIsServed
<1>5. CASE Outside(p)
    <2>1. outside' \in 0 .. MaxOutside
        BY <1>2, <1>5 DEF Outside, ServerOK
    <2>2. PICK v \in Foreign \cup {Absent} : Put(p, v)
        BY <1>5 DEF Outside
    <2> QED
        BY <1>2, <1>4, <1>5, <2>1, <2>2 DEF Outside
<1>6. CASE Tick(p) /\ store[p].left = 0
    BY <1>4, <1>6 DEF Tick, ServerOK
<1>7. CASE Tick(p) /\ store[p].left # 0
    <2>1. store[p] \in Values /\ store[p] # Absent /\ store[p].left # Forever
        BY <1>1, <1>7 DEF Tick
    <2>2. /\ store' = [store EXCEPT ![p].left = @ - 1]
          /\ UNCHANGED <<touched, changes, outside, requests>>
        BY <1>7 DEF Tick
    <2> DEFINE v == [store[p] EXCEPT !.left = store[p].left - 1]
    <2>3. store[p].left \in Lefts /\ store[p].left - 1 \in Lefts /\ store[p].left - 1 # Forever
        BY <1>7, <2>1, BoundsAssumption DEF Values, Lefts, Forever
    <2>4. v \in Values /\ v.type = store[p].type /\ v.shown = store[p].shown
          /\ v.left # Forever
        BY <2>1, <2>3 DEF Values
    <2>5. store' = [store EXCEPT ![p] = v]
        BY <2>2
    <2> HIDE DEF v
    <2>6. ServerOK'
        BY <2>2, <2>4, <2>5 DEF ServerOK
    <2>7. \A x \in Places :
              /\ changes'[x] = changes[x]
              /\ store'[x] = store[x] \/ SameButTime(store[x], store'[x])
        BY <1>3, <2>1, <2>2, <2>4, <2>5 DEF ServerOK, SameButTime
    <2>8. Evolves(store, changes, store', changes')
        BY <2>7 DEF Evolves, ServerOK
    <2>9. Guards
        <3>1. ASSUME NEW r \in Slots, Watching(requests[r]), r \notin touched'
              PROVE  Where(requests[r]) \in Places
            <4>1. requests[r].kind \in {"read", "update", "create"}
                BY <3>1 DEF Watching
            <4> QED
                BY <4>1, PlaceOf
        <3> QED
            BY <2>2, <2>7, <3>1 DEF Guards
    <2> QED
        BY <2>2, <2>6, <2>8, <2>9, NobodyIsServed
<1> QED
    BY <1>5, <1>6, <1>7

(***************************************************************************)
(* The steps of the page.                                                  *)
(***************************************************************************)

NoCommits == \A x \in Slots : ~Commits(x)

\* What the page may ask for.
Proper(kind, places, told, change) ==
    /\ kind \in Kinds \ {"none"} /\ places \in SUBSET Places
    /\ kind \in {"read", "update", "create"} => \E p \in Places : places = {p}
    /\ told \in Details \cup {None} /\ Fits(told, store, changes)
    /\ kind = "update" => told \in Details /\ told # None
    /\ change \in Drafts \cup {None}
    /\ kind \in {"update", "create"} => change \in Drafts

\* A slot is taken or given back, and nothing else happens at the server.
LEMMA SlotKeeps ==
    ASSUME ServerOK, RequestsOK, NEW r \in Slots, NEW q \in Requests,
           requests' = [requests EXCEPT ![r] = q], ServerIdle,
           Good(q, r \notin touched, store, changes)
    PROVE  ServerOK' /\ RequestsOK'
<1>1. UNCHANGED <<store, touched, changes, outside>>
    BY DEF ServerIdle
<1>2. ServerOK'
    BY <1>1 DEF ServerOK
<1>3. Evolves(store, changes, store', changes') /\ Guards
    BY <1>1, StillStore
<1> QED
    BY <1>1, <1>2, <1>3, OneIsServed

Asked(kind, places, told, change) ==
    [NoRequest EXCEPT
        !.kind = kind, !.places = places, !.version = told, !.draft = change,
        !.at = IF Empty(kind, change) THEN "answered"
               ELSE CASE kind \in {"read", "update"} -> "type"
                      [] kind = "create" -> "exists"
                      [] kind \in {"delete", "delete many"} -> "delete",
        !.status = IF Empty(kind, change) THEN "failed" ELSE "none"]

LEMMA AskedIsGood ==
    ASSUME ServerOK, NEW kind, NEW places, NEW told, NEW change,
           Proper(kind, places, told, change), NEW u
    PROVE  /\ Asked(kind, places, told, change) \in Requests
           /\ Good(Asked(kind, places, told, change), u, store, changes)
           /\ Asked(kind, places, told, change).kind = kind
           /\ ~Asked(kind, places, told, change).committed
<1> DEFINE empty == Empty(kind, change)
           at == IF empty THEN "answered"
                 ELSE CASE kind \in {"read", "update"} -> "type"
                        [] kind = "create" -> "exists"
                        [] kind \in {"delete", "delete many"} -> "delete"
           code == IF empty THEN "failed" ELSE "none"
           a == Asked(kind, places, told, change)
<1>1. /\ a.kind = kind /\ a.places = places /\ a.version = told /\ a.draft = change
      /\ a.at = at /\ a.status = code /\ a.type = None /\ a.asOf = 0
      /\ a.committed = FALSE /\ a.detail = None /\ a.left = Forever
    BY DEF Asked, NoRequest
<1>2. /\ at \in {"answered", "type", "exists", "delete"} /\ code \in {"none", "failed"}
      /\ at = "type" => kind \in {"read", "update"}
      /\ at = "exists" => kind = "create"
      /\ at = "delete" => kind \in {"delete", "delete many"}
      /\ at # "answered" => ~empty
    <2>1. kind \in {"read", "update", "create", "delete", "delete many"}
        BY DEF Proper, Kinds
    <2> HIDE DEF empty
    <2> QED
        BY <2>1
<1>3. a \in Requests
    <2>1. Forever \in Lefts
        BY BoundsAssumption DEF Forever, Lefts
    <2>2. at \in Labels /\ code \in Statuses
        BY <1>2 DEF Labels, Statuses
    <2> HIDE DEF at, code
    <2>3. a = [NoRequest EXCEPT !.kind = kind, !.places = places, !.version = told,
                   !.draft = change, !.at = at, !.status = code]
        BY DEF Asked, at, code
    <2> HIDE DEF a
    <2> QED
        BY <2>1, <2>2, <2>3 DEF Proper, NoRequest, Requests
<1> HIDE DEF a, at, code
<1>4. CourseOK(a)
    <2>1. /\ kind \in {"update", "create"} /\ at # "answered"
          => change \in Drafts /\ change.shown \in Texts
        BY <1>2 DEF Proper, Drafts, Empty
    <2> QED
        BY <1>1, <1>2, <2>1 DEF Proper, CourseOK
<1>5. ReadingOK(a, store, changes)
    <2>1. at = "type" => changes[Where(a)] \in Nat
        <3>1. CASE at = "type"
            <4>1. PICK p \in Places : a.places = {p}
                BY <1>1, <1>2, <3>1 DEF Proper
            <4> QED
                BY <4>1, WhereIs DEF ServerOK
        <3> QED
            BY <3>1
    <2>2. at = "type" => 0 <= changes[Where(a)]
        BY <2>1
    <2> QED
        BY <1>1, <1>2, <2>2 DEF ReadingOK
<1>6. WatchOK(a, store, changes) /\ ConflictOK(a, changes)
    BY <1>1, <1>2 DEF WatchOK, ConflictOK
<1>7. Fits(a.version, store, changes) /\ Fits(a.detail, store, changes)
    BY <1>1 DEF Proper, Fits
<1>8. Good(a, u, store, changes)
    BY <1>4, <1>5, <1>6, <1>7 DEF Good
<1> QED
    BY <1>1, <1>3, <1>8 DEF a

\* A request of the page.
LEMMA AsksKeeps ==
    ASSUME ServerOK, RequestsOK, NEW r \in Slots, ServerIdle,
           NEW kind, NEW places, NEW told, NEW change,
           Proper(kind, places, told, change), Asks(r, kind, places, told, change)
    PROVE  /\ ServerOK' /\ RequestsOK' /\ NoCommits
           /\ \A x \in Slots : requests'[x].kind = IF x = r THEN kind ELSE requests[x].kind
<1> DEFINE a == Asked(kind, places, told, change)
<1>1. requests' = [requests EXCEPT ![r] = a]
    BY DEF Asks, Asked
<1>2. /\ a \in Requests /\ Good(a, r \notin touched, store, changes)
      /\ a.kind = kind /\ ~a.committed
    BY AskedIsGood
<1> HIDE DEF a
<1>3. ServerOK' /\ RequestsOK'
    BY <1>1, <1>2, SlotKeeps
<1> QED
    BY <1>1, <1>2, <1>3 DEF ServerOK, NoCommits, Commits

LEMMA CallsKeeps ==
    ASSUME ServerOK, RequestsOK, CallsOK, selected \in Names \cup {None}, ServerIdle,
           NEW does \in Deeds, NEW key \in Names \cup (SUBSET Names) \cup {None},
           NEW kind, NEW places, NEW told, NEW change,
           Proper(kind, places, told, change), Calls(does, key, kind, places, told, change),
           does = "create" => key \in Names,
           does \in {"load", "refresh"} => kind = "read"
    PROVE  ServerOK' /\ RequestsOK' /\ CallsOK' /\ NoCommits
<1> DEFINE call == [does |-> does, key |-> key,
                    selected |-> IF kind \in {"delete", "delete many"} THEN selected ELSE None]
<1>1. PICK r \in Slots : /\ calls' = [calls EXCEPT ![r] = call]
                         /\ Asks(r, kind, places, told, change)
    BY DEF Calls, Free
<1>2. /\ ServerOK' /\ RequestsOK' /\ NoCommits
      /\ \A x \in Slots : requests'[x].kind = IF x = r THEN kind ELSE requests[x].kind
    BY <1>1, AsksKeeps
<1>3. call \in CallTypes /\ call.does = does /\ call.key = key
    BY DEF CallTypes
<1> HIDE DEF call
<1>4. CallsOK'
    BY <1>1, <1>2, <1>3 DEF CallsOK
<1> QED
    BY <1>2, <1>4

LEMMA LoadIsProper ==
    ASSUME NEW d \in Dbs, NEW k \in Names
    PROVE  Proper("read", {<<d, k>>}, None, None)
BY DEF Proper, Kinds, Places, Fits

LEMMA LoadKeeps ==
    ASSUME ServerOK, RequestsOK, CallsOK, selected \in Names \cup {None}, ServerIdle,
           NEW does \in {"load", "refresh"}, NEW d \in Dbs, NEW k \in Names, Load(does, d, k)
    PROVE  ServerOK' /\ RequestsOK' /\ CallsOK' /\ NoCommits
<1>1. Proper("read", {<<d, k>>}, None, None)
    BY LoadIsProper
<1>2. does \in Deeds /\ does # "create" /\ k \in Names \cup (SUBSET Names) \cup {None}
    BY DEF Deeds
<1>3. Calls(does, k, "read", {<<d, k>>}, None, None)
    BY DEF Load
<1> QED
    BY <1>1, <1>2, <1>3, CallsKeeps

\* Nothing is asked for.
LEMMA QuietKeeps ==
    ASSUME ServerOK, RequestsOK, CallsOK, ServerIdle, UNCHANGED <<requests, calls>>
    PROVE  ServerOK' /\ RequestsOK' /\ CallsOK' /\ NoCommits
<1>1. UNCHANGED <<store, touched, changes, outside>>
    BY DEF ServerIdle
<1>2. ServerOK' /\ RequestsOK'
    BY <1>1 DEF ServerOK, RequestsOK
<1>3. CallsOK' /\ NoCommits
    BY DEF CallsOK, NoCommits, Commits
<1> QED
    BY <1>2, <1>3

\* An answer has been handled.
LEMMA FinishKeeps ==
    ASSUME ServerOK, RequestsOK, CallsOK, ServerIdle, NEW r \in Slots, Finish(r)
    PROVE  ServerOK' /\ RequestsOK' /\ CallsOK' /\ NoCommits
<1>1. NoRequest \in Requests /\ Good(NoRequest, r \notin touched, store, changes)
      /\ ~NoRequest.committed
    BY NoRequestIsGood DEF NoRequest
<1>2. /\ requests' = [requests EXCEPT ![r] = NoRequest]
      /\ calls' = [calls EXCEPT ![r] = NoCall]
    BY DEF Finish
<1>3. ServerOK' /\ RequestsOK'
    BY <1>1, <1>2, SlotKeeps
<1>4. NoCall \in CallTypes /\ NoCall.does = "nothing"
    BY DEF NoCall, CallTypes, Deeds
<1>5. CallsOK'
    BY <1>2, <1>4 DEF CallsOK, ServerOK
<1>6. NoCommits
    BY <1>1, <1>2 DEF ServerOK, NoCommits, Commits
<1> QED
    BY <1>3, <1>5, <1>6

LEMMA DraftIsDraft ==
    /\ DefaultDraft \in Drafts
    /\ \A d \in Details : DraftFromKey(d) \in Drafts
<1>1. TheOnly(Types) \in Types
    BY BoundsAssumption DEF TheOnly
<1> QED
    BY <1>1 DEF DefaultDraft, Drafts, DraftFromKey, Details

\* What the user does.
LEMMA UserKeeps ==
    ASSUME IInv, UserNext
    PROVE  IInv' /\ NoCommits
<1>1. /\ ServerOK /\ RequestsOK /\ CallsOK /\ PageOK /\ Fits(detail, store, changes)
      /\ db \in Dbs /\ selected \in Names \cup {None}
      /\ detail \in Details \cup {None} /\ draft \in Drafts
      /\ dirty \in BOOLEAN /\ saving \in BOOLEAN
    BY DEF IInv, PageOK
<1>2. acts' \in 0 .. MaxActs
    <2>1. UserActs
        BY DEF UserNext, Select, DeleteOne, Create, DeleteSelected, ChangeDb, Edit, Reset, Save
    <2> QED
        BY <1>1, <2>1, PageAssumption DEF UserActs, PageOK
<1>3. ServerIdle /\ UNCHANGED <<store, changes>>
    BY DEF UserNext, ServerIdle, Select, DeleteOne, Create, DeleteSelected, ChangeDb, Edit, Reset, Save
<1>4. ASSUME ServerOK' /\ RequestsOK' /\ CallsOK' /\ NoCommits,
             db' \in Dbs, selected' \in Names \cup {None}, detail' \in {detail, None},
             draft' \in Drafts, dirty' \in BOOLEAN, saving' \in BOOLEAN
      PROVE  IInv' /\ NoCommits
    <2>1. PageOK'
        BY <1>1, <1>2, <1>4 DEF PageOK
    <2>2. Fits(detail', store', changes')
        BY <1>1, <1>3, <1>4 DEF Fits
    <2> QED
        BY <1>4, <2>1, <2>2 DEF IInv
<1>5. ASSUME NEW k \in Names, Select(k) PROVE IInv' /\ NoCommits
    <2>1. ServerOK' /\ RequestsOK' /\ CallsOK' /\ NoCommits
        BY <1>1, <1>3, <1>5, LoadKeeps DEF Select
    <2> QED
        BY <1>1, <1>4, <1>5, <2>1 DEF Select
<1>6. ASSUME NEW k \in Names, DeleteOne(k) PROVE IInv' /\ NoCommits
    <2>1. Proper("delete", {<<db, k>>}, None, None)
        BY <1>1 DEF Proper, Kinds, Places, Fits
    <2>2. "delete" \in Deeds
        BY DEF Deeds
    <2>3. ServerOK' /\ RequestsOK' /\ CallsOK' /\ NoCommits
        BY <1>1, <1>3, <1>6, <2>1, <2>2, CallsKeeps DEF DeleteOne
    <2> QED
        BY <1>1, <1>4, <1>6, <2>3 DEF DeleteOne, page
<1>7. ASSUME NEW ks \in SUBSET Names, DeleteSelected(ks) PROVE IInv' /\ NoCommits
    <2>1. Proper("delete many", {<<db, k>> : k \in ks}, None, None)
        BY <1>1 DEF Proper, Kinds, Places, Fits
    <2>2. "delete many" \in Deeds
        BY DEF Deeds
    <2>3. ServerOK' /\ RequestsOK' /\ CallsOK' /\ NoCommits
        BY <1>1, <1>3, <1>7, <2>1, <2>2, CallsKeeps DEF DeleteSelected
    <2> QED
        BY <1>1, <1>4, <1>7, <2>3 DEF DeleteSelected, page
<1>8. ASSUME NEW new \in NewKeys, Create(new[1], new[2]) PROVE IInv' /\ NoCommits
    <2>1. new[1] \in Names /\ new[2] \in Drafts
        BY PageAssumption DEF Drafts
    <2>2. Proper("create", {<<db, new[1]>>}, None, new[2])
        BY <1>1, <2>1 DEF Proper, Kinds, Places, Fits
    <2>3. "create" \in Deeds
        BY DEF Deeds
    <2>4. Calls("create", new[1], "create", {<<db, new[1]>>}, None, new[2])
        BY <1>8 DEF Create
    <2>5. ServerOK' /\ RequestsOK' /\ CallsOK' /\ NoCommits
        BY <1>1, <1>3, <2>1, <2>2, <2>3, <2>4, CallsKeeps
    <2> QED
        BY <1>1, <1>4, <1>8, <2>5 DEF Create, page
<1>9. ASSUME NEW d \in Dbs, ChangeDb(d) PROVE IInv' /\ NoCommits
    <2>1. CASE selected # None
        <3>1. Load("load", d, selected) /\ selected \in Names
            BY <1>1, <1>9, <2>1 DEF ChangeDb
        <3> QED
            BY <1>1, <1>3, <3>1, LoadKeeps, <1>4, <1>9, DraftIsDraft DEF ChangeDb
    <2>2. CASE selected = None
        <3>1. UNCHANGED <<requests, calls>>
            BY <1>9, <2>2 DEF ChangeDb
        <3> QED
            BY <1>1, <1>3, <3>1, QuietKeeps, <1>4, <1>9, DraftIsDraft DEF ChangeDb
    <2> QED
        BY <2>1, <2>2
<1>10. CASE Edit
    <2>1. ServerOK' /\ RequestsOK' /\ CallsOK' /\ NoCommits
        BY <1>1, <1>3, <1>10, QuietKeeps DEF Edit
    <2>2. draft' \in Drafts
        BY <1>1, <1>10 DEF Edit, Drafts
    <2> QED
        BY <1>1, <1>4, <1>10, <2>1, <2>2 DEF Edit
<1>11. CASE Reset
    <2>1. ServerOK' /\ RequestsOK' /\ CallsOK' /\ NoCommits
        BY <1>1, <1>3, <1>11, QuietKeeps DEF Reset
    <2>2. detail \in Details
        BY <1>1, <1>11 DEF Reset
    <2> QED
        BY <1>1, <1>4, <1>11, <2>1, <2>2, DraftIsDraft DEF Reset
<1>12. CASE Save
    <2>1. detail \in Details /\ detail # None
        BY <1>1, <1>12 DEF Save
    <2>2. detail.place[2] \in Names
        BY <2>1 DEF Details, Places
    <2>3. Proper("update", {<<db, detail.place[2]>>}, detail, draft)
        BY <1>1, <2>1, <2>2 DEF Proper, Kinds, Places
    <2>4. "save" \in Deeds
        BY DEF Deeds
    <2>5. ServerOK' /\ RequestsOK' /\ CallsOK' /\ NoCommits
        BY <1>1, <1>3, <1>12, <2>2, <2>3, <2>4, CallsKeeps DEF Save
    <2> QED
        BY <1>1, <1>4, <1>12, <2>5 DEF Save
<1> QED
    BY <1>5, <1>6, <1>7, <1>8, <1>9, <1>10, <1>11, <1>12 DEF UserNext

LEMMA PollKeeps ==
    ASSUME IInv, Poll
    PROVE  IInv' /\ NoCommits
<1>1. /\ ServerOK /\ RequestsOK /\ CallsOK /\ PageOK /\ Fits(detail, store, changes)
      /\ db \in Dbs /\ selected \in Names
    BY DEF IInv, PageOK, Poll, Polls
<1>2. ServerIdle /\ UNCHANGED <<store, changes, page, acts>>
    BY DEF Poll, ServerIdle
<1>3. ServerOK' /\ RequestsOK' /\ CallsOK' /\ NoCommits
    BY <1>1, <1>2, LoadKeeps DEF Poll
<1>4. PageOK' /\ Fits(detail', store', changes')
    BY <1>1, <1>2 DEF PageOK, page
<1> QED
    BY <1>3, <1>4 DEF IInv

\* What it does with the answers.
LEMMA AnsweredKeeps ==
    ASSUME IInv, NEW r \in Slots, Answered(r)
    PROVE  IInv' /\ NoCommits
<1> DEFINE d == requests[r].detail
<1>1. /\ ServerOK /\ RequestsOK /\ CallsOK /\ PageOK /\ Fits(detail, store, changes)
      /\ db \in Dbs /\ selected \in Names \cup {None}
      /\ detail \in Details \cup {None} /\ draft \in Drafts
      /\ dirty \in BOOLEAN /\ saving \in BOOLEAN
    BY DEF IInv, PageOK
<1>2. ServerIdle /\ UNCHANGED <<store, changes, db, acts>>
    BY DEF Answered, ServerIdle, Loaded, Saved, DeleteAnswered, Created
<1>3. d \in Details \cup {None} /\ Fits(d, store, changes)
    BY <1>1 DEF ServerOK, Requests, RequestsOK, Good
<1>4. ASSUME ServerOK' /\ RequestsOK' /\ CallsOK' /\ NoCommits,
             selected' \in Names \cup {None}, detail' \in {detail, d, None},
             draft' \in Drafts, dirty' \in BOOLEAN, saving' \in BOOLEAN
      PROVE  IInv' /\ NoCommits
    <2>1. PageOK'
        BY <1>1, <1>2, <1>3, <1>4 DEF PageOK
    <2>2. Fits(None, store, changes)
        BY NoneFits
    <2>3. Fits(detail', store', changes')
        BY <1>1, <1>2, <1>3, <1>4, <2>2
    <2> QED
        BY <1>4, <2>1, <2>3 DEF IInv
<1>5. CASE Loaded(r)
    <2>1. ServerOK' /\ RequestsOK' /\ CallsOK' /\ NoCommits
        BY <1>1, <1>2, <1>5, FinishKeeps DEF Loaded
    <2>2. requests[r].status = "ok" => d \in Details
        BY <1>1, <1>5 DEF Loaded, CallsOK, RequestsOK, Good, CourseOK
    <2> QED
        BY <1>1, <1>4, <1>5, <2>1, <2>2, DraftIsDraft DEF Loaded, Shows
<1>6. CASE Saved(r)
    <2>1. ServerOK' /\ RequestsOK' /\ CallsOK' /\ NoCommits
        BY <1>1, <1>2, <1>6, FinishKeeps DEF Saved
    <2> QED
        BY <1>1, <1>3, <1>4, <1>6, <2>1, DraftIsDraft DEF Saved, Shows
<1>7. CASE DeleteAnswered(r)
    <2>1. ServerOK' /\ RequestsOK' /\ CallsOK' /\ NoCommits
        BY <1>1, <1>2, <1>7, FinishKeeps DEF DeleteAnswered
    <2> QED
        BY <1>1, <1>4, <1>7, <2>1 DEF DeleteAnswered
<1>8. CASE Created(r) /\ Finish(r) /\ UNCHANGED selected
    <2>1. ServerOK' /\ RequestsOK' /\ CallsOK' /\ NoCommits
        BY <1>1, <1>2, <1>8, FinishKeeps
    <2> QED
        BY <1>1, <1>4, <1>8, <2>1 DEF Created
<1>9. CASE Created(r) /\ requests[r].status = "ok" /\ selected # calls[r].key
    <2> DEFINE k == calls[r].key
               call == [NoCall EXCEPT !.does = "load", !.key = k]
    <2>1. k \in Names
        BY <1>1, <1>9 DEF Created, CallsOK
    <2>2. /\ selected' = k /\ calls' = [calls EXCEPT ![r] = call]
          /\ Asks(r, "read", {<<db, k>>}, None, None)
        BY <1>9 DEF Created
    <2>3. Proper("read", {<<db, k>>}, None, None)
        BY <1>1, <2>1, LoadIsProper
    <2>4. call \in CallTypes /\ call.does = "load"
        BY <2>1 DEF NoCall, CallTypes, Deeds
    <2> HIDE DEF call
    <2>5. /\ ServerOK' /\ RequestsOK' /\ NoCommits
          /\ \A x \in Slots : requests'[x].kind = IF x = r THEN "read" ELSE requests[x].kind
        BY <1>1, <1>2, <2>2, <2>3, AsksKeeps
    <2>6. CallsOK'
        BY <1>1, <2>2, <2>4, <2>5 DEF CallsOK
    <2> QED
        BY <1>1, <1>4, <1>9, <2>1, <2>2, <2>5, <2>6 DEF Created
<1> QED
    BY <1>5, <1>6, <1>7, <1>8, <1>9 DEF Answered, Created

(***************************************************************************)
(* The specification.                                                      *)
(***************************************************************************)

LEMMA InitIInv ==
    Init => IInv
<1> SUFFICES ASSUME Init PROVE IInv
    OBVIOUS
<1>1. ServerOK
    BY BoundsAssumption, NoRequestIsGood
    DEF Init, AdminInit, ServerOK, Places, Values, Lefts, Forever
<1>2. RequestsOK
    BY NoRequestIsGood DEF Init, AdminInit, RequestsOK
<1>3. CallsOK
    BY DEF Init, NoCall, CallsOK, CallTypes, Deeds
<1>4. PageOK /\ Fits(detail, store, changes)
    <2>1. acts \in 0 .. MaxActs
        BY PageAssumption DEF Init
    <2>2. CASE selected = None /\ detail = None /\ draft = DefaultDraft
        BY <2>1, <2>2, DraftIsDraft, NoneFits DEF Init, PageOK
    <2>3. CASE \E k \in Names :
            /\ store[<<db, k>>] # Absent
            /\ selected = k
            /\ detail = [place |-> <<db, k>>, type |-> store[<<db, k>>].type,
                          shown |-> store[<<db, k>>].shown, left |-> store[<<db, k>>].left, asOf |-> 0]
            /\ draft = DraftFromKey(detail)
        <3> PICK k \in Names :
            /\ store[<<db, k>>] # Absent
            /\ selected = k
            /\ detail = [place |-> <<db, k>>, type |-> store[<<db, k>>].type,
                          shown |-> store[<<db, k>>].shown, left |-> store[<<db, k>>].left, asOf |-> 0]
            /\ draft = DraftFromKey(detail)
            BY <2>3
        <3>1. <<db, k>> \in Places
            BY DEF Init, Places
        <3>2. store[<<db, k>>] \in Values /\ changes[<<db, k>>] = 0
            BY <1>1, <3>1 DEF ServerOK, Init, AdminInit
        <3>3. detail \in Details
            BY <3>1, <3>2 DEF Values, Details
        <3>4. Fits(detail, store, changes)
            BY <3>2 DEF Fits
        <3> QED
            BY <2>1, <3>3, <3>4, DraftIsDraft DEF Init, PageOK
    <2> QED
        BY <2>2, <2>3 DEF Init
<1> QED
    BY <1>1, <1>2, <1>3, <1>4 DEF IInv

LEMMA NextIInv ==
    IInv /\ [Next]_vars => IInv'
<1> SUFFICES ASSUME IInv, [Next]_vars PROVE IInv'
    OBVIOUS
<1>1. CASE UserNext \/ Poll \/ \E r \in Slots : Answered(r)
    BY <1>1, UserKeeps, PollKeeps, AnsweredKeeps
<1>2. ASSUME ServerOK' /\ RequestsOK' /\ Evolves(store, changes, store', changes'),
             \A x \in Slots : requests'[x].kind = requests[x].kind,
             UNCHANGED <<page, calls, acts>>
      PROVE  IInv'
    <2>1. PageOK' /\ CallsOK'
        BY <1>2 DEF IInv, PageOK, CallsOK, page
    <2>2. changes \in [Places -> Nat] /\ changes' \in [Places -> Nat]
          /\ detail \in Details \cup {None} /\ Fits(detail, store, changes)
        BY <1>2 DEF IInv, ServerOK, PageOK
    <2>3. Fits(detail, store', changes')
        BY <1>2, <2>2, FitsStays
    <2> QED
        BY <1>2, <2>1, <2>3 DEF IInv, page
<1>3. CASE (\E r \in Slots : Serves(r) \/ Fail(r)) /\ UNCHANGED <<page, calls, acts>>
    BY <1>2, <1>3, ServerKeeps, ServesKinds DEF IInv
<1>4. CASE Others /\ UNCHANGED <<page, calls, acts>>
    BY <1>2, <1>4, OthersKeep DEF IInv
<1>5. CASE UNCHANGED vars
    BY <1>5 DEF IInv, ServerOK, RequestsOK, CallsOK, PageOK, Fits, vars, adminVars, page
<1> QED
    BY <1>1, <1>3, <1>4, <1>5 DEF Next

LEMMA SpecIInv ==
    Spec => []IInv
BY InitIInv, NextIInv, PTL DEF Spec

\* Every variable of the page and the server has its type, and a conflict is
\* answered only to a request that wrote nothing, for a key that was changed
\* since its version was made, or one with a lifetime (the WATCH and the
\* versions of updateKey, pkg/cc/redis_admin.go).
THEOREM ConflictsReal ==
    Spec => []ConflictsAreReal
<1>1. IInv => ConflictsAreReal
    <2> SUFFICES ASSUME IInv PROVE ConflictsAreReal
        OBVIOUS
    <2>1. TypeOK
        BY DEF IInv, ServerOK, PageOK, CallsOK, Requests, CallTypes, Kinds, Labels, Statuses,
           Deeds, TypeOK, AdminTypeOK
    <2>2. ASSUME NEW r \in Slots, requests[r].status = "conflict"
          PROVE  /\ ~requests[r].committed
                 /\ requests[r].kind = "update" =>
                     \/ requests[r].version.asOf < changes[Place(r)]
                     \/ requests[r].version.left # Forever
                     \/ requests[r].version.place # Place(r)
        BY <2>2 DEF IInv, RequestsOK, Good, ConflictOK, Where, Place
    <2> QED
        BY <2>1, <2>2 DEF ConflictsAreReal
<1> QED
    BY <1>1, SpecIInv, PTL

\* A write replaces exactly what it was told it replaces (updateKey and
\* createKey, pkg/cc/redis_admin.go), whatever the services of the lab write
\* and however the commands of the requests interleave.
THEOREM WritesReplace ==
    Spec => WritesReplaceWhatTheyRead
<1>1. ASSUME IInv, [Next]_vars, NEW r \in Slots, Commits(r)
      PROVE  LET v == store[Place(r)] IN
             IF requests[r].kind = "create" THEN v = Absent
             ELSE v # Absent /\ <<v.type, v.shown>> = <<requests[r].version.type, requests[r].version.shown>>
    <2>1. PICK x \in Slots : Serves(x) \/ Fail(x)
        <3>1. CASE UserNext \/ Poll \/ \E y \in Slots : Answered(y)
            BY <1>1, <3>1, UserKeeps, PollKeeps, AnsweredKeeps DEF NoCommits
        <3>2. CASE Others
            BY <1>1, <3>2, OthersKeep DEF Commits, IInv
        <3>3. CASE UNCHANGED vars
            BY <1>1, <3>3 DEF Commits, vars, adminVars
        <3> QED
            BY <1>1, <3>1, <3>2, <3>3 DEF Next
    <2>2. requests \in [Slots -> Requests] /\ requests[x] \in Requests
        BY <1>1 DEF IInv, ServerOK
    <2>3. ASSUME NEW m, requests' = [requests EXCEPT ![x] = m], m.committed = requests[x].committed
          PROVE  FALSE
        BY <1>1, <2>2, <2>3 DEF Commits
    <2>4. ASSUME NEW code, NEW d, Answer(x, code, d) PROVE FALSE
        <3> DEFINE a == Answered1(requests[x], code, d)
        <3>1. a.committed = requests[x].committed
            BY DEF Answered1, NoRequest
        <3>2. requests' = [requests EXCEPT ![x] = a]
            BY <2>4 DEF Answer, Answered1
        <3> HIDE DEF a
        <3> QED
            BY <2>3, <3>1, <3>2
    <2>5. Execute(x) /\ Runs(x)
        <3>1. CASE ReadType(x)
            <4> DEFINE n == IF requests[x].committed THEN requests[x].asOf ELSE changes[Place(x)]
                       m == [requests[x] EXCEPT !.at = "content", !.type = store[Place(x)].type,
                                !.left = store[Place(x)].left, !.asOf = n]
            <4>1. m.committed = requests[x].committed
                BY <2>2 DEF Requests
            <4>2. requests' = [requests EXCEPT ![x] = m]
                BY <2>4, <3>1 DEF ReadType
            <4> HIDE DEF m
            <4> QED
                BY <2>3, <4>1, <4>2
        <3>2. CASE Compare(x) \/ Exists(x)
            <4> DEFINE m == [requests[x] EXCEPT !.at = "exec"]
            <4>1. m.committed = requests[x].committed
                BY <2>2 DEF Requests
            <4>2. requests' = [requests EXCEPT ![x] = m]
                BY <2>4, <3>2 DEF Compare, Exists
            <4> HIDE DEF m
            <4> QED
                BY <2>3, <4>1, <4>2
        <3>3. CASE Delete(x)
            <4>1. PICK p \in requests[x].places : requests' = [requests EXCEPT ![x].places = @ \ {p}]
                BY <3>3 DEF Delete
            <4> DEFINE m == [requests[x] EXCEPT !.places = requests[x].places \ {p}]
            <4>2. m.committed = requests[x].committed
                BY <2>2 DEF Requests
            <4>3. requests' = [requests EXCEPT ![x] = m]
                BY <4>1
            <4> HIDE DEF m
            <4> QED
                BY <2>3, <4>2, <4>3
        <3>4. CASE ReadContent(x) \/ Deleted(x) \/ Fail(x)
            BY <2>4, <3>4 DEF ReadContent, Deleted, Fail
        <3>5. CASE Execute(x)
            BY <2>4, <3>5 DEF Execute
        <3> QED
            BY <2>1, <3>1, <3>2, <3>3, <3>4, <3>5 DEF Serves
    <2>6. x = r
        BY <1>1, <2>2, <2>5 DEF Execute, Commits
    <2>7. /\ CourseOK(requests[r]) /\ WatchOK(requests[r], store, changes)
          /\ requests[r].at = "exec"
        BY <1>1, <2>5, <2>6 DEF Execute, Runs, IInv, RequestsOK, Good
    <2>8. requests[r].kind \in {"update", "create"} /\ Place(r) = Where(requests[r])
        BY <2>7 DEF CourseOK, Place, Where
    <2> QED
        BY <2>7, <2>8 DEF WatchOK
<1>2. IInv /\ [Next]_vars =>
      [\A r \in Slots : Commits(r) =>
          LET v == store[Place(r)] IN
          IF requests[r].kind = "create" THEN v = Absent
          ELSE v # Absent /\ <<v.type, v.shown>> = <<requests[r].version.type, requests[r].version.shown>>]_vars
    BY <1>1
<1> QED
    BY <1>2, SpecIInv, PTL DEF Spec, WritesReplaceWhatTheyRead

(***************************************************************************)
(* The status on the page: Dashboard, for any number of requests and       *)
(* connections and any buffer.                                             *)
(***************************************************************************)

Events == [name : EventNames, version : Nat]
Reports == Transitional \cup {"unknown", "running", "stopped"}
Fetches == [at : {"no", "asked", "answered", "used"}, status : Reports, version : Nat]

DashTypes ==
    /\ StackOpsTypeOK /\ version \in Nat /\ seen \in Nat
    /\ outbox \in [Ops -> Seq(Events)] /\ \A o \in Ops : Len(outbox[o]) <= 1
    /\ stop \in {"no", "signalled", "swept"}
    /\ clients \in SUBSET Connections /\ done \in SUBSET Connections
    /\ broken \in SUBSET Connections
    /\ events \in [Connections -> Seq(Events)]
    /\ \A c \in Connections : Len(events[c]) <= Capacity
    /\ handler \in [Connections -> {"none", "serves", "returned"}]
    /\ source \in {"connecting", "open", "waiting"} /\ conn \in 0 .. MaxConnections
    /\ fetch \in [Connections -> Fetches] /\ shown \in Reports
    /\ misled \in SUBSET {"failed", "restarted", "late", "lost"}

\* What an event that does not report a failure makes the page show.
Meaning == [stack_starting |-> "starting", stack_started |-> "running",
            stack_stopping |-> "stopping", stack_stopped |-> "stopped"]

\* The page's connection is the last one; as long as the hub does not stop it
\* is registered until the network or the page ends it.
Connected ==
    /\ clients \cup broken \cup done \subseteq 1 .. conn
    /\ source # "waiting" => conn \in Connections /\ conn \notin broken
    /\ source = "open" => fetch[conn].at # "no"
    /\ stop = "no" => done \subseteq broken
    /\ stop = "no" /\ source # "waiting" => conn \in clients

\* The last write of the status is told as it is.
Truthful(wrong) == wrong \cap {"failed", "restarted"} = {}

\* News of the present version v of the status is what is reported of it.
EventIsRight(e, v, wrong, reported) ==
    /\ e.version <= v
    /\ e.version = v /\ Truthful(wrong) =>
          e.name \in DOMAIN Meaning /\ Meaning[e.name] = reported

AnswerIsRight(a, v, wrong, reported) ==
    a.at = "answered" =>
        a.version <= v /\ (a.version = v /\ Truthful(wrong) => a.status = reported)

NewsIsRight ==
    /\ \A o \in Ops : \A i \in 1 .. Len(outbox[o]) :
          EventIsRight(outbox[o][i], version, misled, Reported)
    /\ \A c \in Connections : \A i \in 1 .. Len(events[c]) :
          EventIsRight(events[c][i], version, misled, Reported)
    /\ \A f \in Connections : AnswerIsRight(fetch[f], version, misled, Reported)

\* The page has handled something, and if that was news of the present status
\* it shows it.
Informed == seen > 0 \/ \E f \in Connections : fetch[f].at = "used"

ShownIsRight ==
    /\ seen <= version
    /\ seen = version /\ Truthful(misled) /\ "late" \notin misled /\ Informed => shown = Reported

\* News of the present status comes to an open page that has not handled it,
\* unless an event was lost.
Announced == \E o \in Ops : \E i \in 1 .. Len(outbox[o]) : outbox[o][i].version = version
Delivered == \E i \in 1 .. Len(events[conn]) : events[conn][i].version = version
Fetched ==
    \/ fetch[conn].at = "asked"
    \/ \E f \in Connections : fetch[f].at = "answered" /\ fetch[f].version = version

NewsComes ==
    source = "open" /\ stop = "no" /\ "lost" \notin misled =>
        seen = version \/ Announced \/ Delivered \/ Fetched

PageInv == DashTypes /\ Connected /\ NewsIsRight /\ ShownIsRight /\ NewsComes

LEMMA Queued ==
    ASSUME NEW S, NEW s \in Seq(S), NEW e \in S
    PROVE  /\ Append(s, e) \in Seq(S) /\ Len(Append(s, e)) = Len(s) + 1
           /\ Len(s) \in Nat
           /\ Append(s, e)[Len(s) + 1] = e
           /\ \A i \in 1 .. Len(Append(s, e)) :
                 \/ i \in 1 .. Len(s) /\ Append(s, e)[i] = s[i]
                 \/ i = Len(s) + 1
           /\ \A i \in 1 .. Len(s) : Append(s, e)[i] = s[i]
           /\ 1 .. Len(s) \subseteq 1 .. Len(Append(s, e))
OBVIOUS

LEMMA Taken ==
    ASSUME NEW S, NEW s \in Seq(S), s # <<>>
    PROVE  /\ Tail(s) \in Seq(S) /\ Len(Tail(s)) = Len(s) - 1 /\ Len(s) \in Nat
           /\ Head(s) = s[1] /\ 1 \in 1 .. Len(s) /\ s[1] \in S
           /\ \A i \in 1 .. Len(Tail(s)) :
                 i + 1 \in 1 .. Len(s) /\ Tail(s)[i] = s[i + 1]
OBVIOUS

LEMMA NoEvents == <<>> \in Seq(Events) /\ Len(<<>>) = 0
OBVIOUS

LEMMA PageStarts == DashboardInit => PageInv
<1> SUFFICES ASSUME DashboardInit PROVE PageInv OBVIOUS
<1>1. Fetch("no", "unknown", 0) \in Fetches /\ Fetch("no", "unknown", 0).at = "no"
  BY DEF Fetch, Fetches, Reports
<1>2. StackOpsTypeOK
  BY DEF DashboardInit, StackOpsInit, StackOpsTypeOK, Settled
<1>3. /\ outbox = [o \in Ops |-> <<>>] /\ events = [c \in Connections |-> <<>>]
      /\ fetch = [f \in Connections |-> Fetch("no", "unknown", 0)]
      /\ stop = "no" /\ clients = {} /\ done = {} /\ broken = {} /\ misled = {}
      /\ version = 0 /\ seen = 0 /\ conn = 0 /\ source = "waiting" /\ shown = "unknown"
      /\ handler = [c \in Connections |-> "none"]
  BY DEF DashboardInit
<1>4. /\ outbox \in [Ops -> Seq(Events)] /\ \A o \in Ops : outbox[o] = <<>>
      /\ events \in [Connections -> Seq(Events)]
      /\ \A c \in Connections : events[c] = <<>>
  BY <1>3, NoEvents
<1>5. fetch \in [Connections -> Fetches] /\ \A f \in Connections : fetch[f].at = "no"
  BY <1>1, <1>3
<1>6. DashTypes
  <2>1. conn \in 0 .. MaxConnections /\ Capacity \in Nat BY <1>3, DashboardAssumption
  <2>2. \A o \in Ops : Len(outbox[o]) <= 1
    <3>1. ASSUME NEW o \in Ops PROVE Len(outbox[o]) <= 1
      <4>1. Len(outbox[o]) = 0 BY <1>4, NoEvents
      <4> QED BY <4>1
    <3> QED BY <3>1
  <2>3. \A c \in Connections : Len(events[c]) <= Capacity
    <3>1. ASSUME NEW c \in Connections PROVE Len(events[c]) <= Capacity
      <4>1. Len(events[c]) = 0 BY <1>4, NoEvents
      <4> QED BY <2>1, <4>1
    <3> QED BY <3>1
  <2>4. shown \in Reports /\ version \in Nat /\ seen \in Nat BY <1>3 DEF Reports
  <2>5. handler \in [Connections -> {"none", "serves", "returned"}] BY <1>3
  <2> QED BY <1>2, <1>3, <1>4, <1>5, <2>1, <2>2, <2>3, <2>4, <2>5 DEF DashTypes
<1>7. Connected BY <1>3 DEF Connected
<1>8. NewsIsRight
  <2>1. \A o \in Ops : Len(outbox[o]) = 0 BY <1>4, NoEvents
  <2>2. \A c \in Connections : Len(events[c]) = 0 BY <1>4, NoEvents
  <2> QED BY <1>5, <2>1, <2>2 DEF NewsIsRight, AnswerIsRight
<1>9. ShownIsRight BY <1>3, <1>5 DEF ShownIsRight, Informed
<1>10. NewsComes BY <1>3 DEF NewsComes
<1> QED BY <1>6, <1>7, <1>8, <1>9, <1>10 DEF PageInv

(***************************************************************************)
(* The operations.                                                         *)
(***************************************************************************)

\* What an operation announces is what the server reports from then on, but
\* for a failure and the end of a restart.
LEMMA Announcements ==
    ASSUME StackOpsTypeOK, NEW o \in Ops, Accepts(o) \/ Works(o)
    PROVE  /\ StackOpsTypeOK' /\ UNCHANGED <<hub, browser>>
           /\ \E name \in EventNames, wrong \in SUBSET {"failed", "restarted"} :
                 /\ Announces(o, name, wrong)
                 /\ wrong = {} => name \in DOMAIN Meaning /\ Meaning[name] = Reported'
<1> USE DEF Moves, StackOpsTypeOK, Transitional, Settled, Busy, Reported, EventNames, Meaning
<1>1. CASE Accepts(o)
  <2>1. CASE Up(o) /\ Announces(o, "stack_starting", {})
    <3>1. StackOpsTypeOK' BY <2>1 DEF Up
    <3>2. Meaning["stack_starting"] = Reported' BY <2>1 DEF Up
    <3> QED BY <1>1, <2>1, <3>1, <3>2 DEF Accepts
  <2>2. CASE /\ Down(o) \/ Restart(o) \/ Cancel(o)
             /\ Announces(o, "stack_stopping", {})
    <3>1. StackOpsTypeOK' BY <2>2 DEF Down, Restart, Cancel
    <3>2. Meaning["stack_stopping"] = Reported' BY <2>2 DEF Down, Restart, Cancel
    <3> QED BY <1>1, <2>2, <3>1, <3>2 DEF Accepts
  <2> QED BY <1>1, <2>1, <2>2 DEF Accepts
<1>2. CASE Works(o)
  <2>1. CASE Boots(o) /\ Announces(o, "stack_starting", {})
    <3>1. StackOpsTypeOK' BY <2>1 DEF Boots
    <3>2. Meaning["stack_starting"] = Reported' BY <2>1 DEF Boots
    <3> QED BY <1>2, <2>1, <3>1, <3>2 DEF Works
  <2>2. CASE Fails(o) /\ Announces(o, "stack_error", {"failed"})
    <3>1. StackOpsTypeOK' BY <2>2 DEF Fails
    <3> QED BY <1>2, <2>2, <3>1 DEF Works
  <2>3. CASE Succeeds(o) /\ phase[o] = "booting" /\ Announces(o, "stack_started", {})
    <3>1. StackOpsTypeOK' BY <2>3 DEF Succeeds
    <3>2. Meaning["stack_started"] = Reported' BY <2>3 DEF Succeeds
    <3> QED BY <1>2, <2>3, <3>1, <3>2 DEF Works
  <2>4. CASE /\ Succeeds(o) /\ phase[o] = "rebooting"
             /\ Announces(o, "stack_started", {"restarted"})
    <3>1. StackOpsTypeOK' BY <2>4 DEF Succeeds
    <3> QED BY <1>2, <2>4, <3>1 DEF Works
  <2>5. CASE Succeeds(o) /\ phase[o] = "stopping" /\ Announces(o, "stack_stopped", {})
    <3>1. StackOpsTypeOK' BY <2>5 DEF Succeeds
    <3>2. Meaning["stack_stopped"] = Reported' BY <2>5 DEF Succeeds
    <3> QED BY <1>2, <2>5, <3>1, <3>2 DEF Works
  <2>6. Succeeds(o) => phase[o] \in {"booting", "rebooting", "stopping"} BY DEF Succeeds
  <2> QED BY <1>2, <2>1, <2>2, <2>3, <2>4, <2>5, <2>6 DEF Works
<1> QED BY <1>1, <1>2

LEMMA AnnouncingKeeps ==
    ASSUME PageInv, NEW o \in Ops, Accepts(o) \/ Works(o) PROVE PageInv'
<1>1. StackOpsTypeOK' /\ UNCHANGED <<hub, browser>>
  BY Announcements DEF PageInv, DashTypes
<1>2. PICK name \in EventNames, wrong \in SUBSET {"failed", "restarted"} :
         /\ Announces(o, name, wrong)
         /\ wrong = {} => name \in DOMAIN Meaning /\ Meaning[name] = Reported'
  BY Announcements DEF PageInv, DashTypes
<1> DEFINE e == Event(name, version + 1)
<1>3. e \in Events /\ e.name = name /\ e.version = version + 1
  BY DEF Event, Events, PageInv, DashTypes
<1>4. /\ version' = version + 1 /\ outbox' = [outbox EXCEPT ![o] = <<e>>]
      /\ misled' = (misled \ {"failed", "restarted"}) \cup wrong
  BY <1>2 DEF Announces
<1> HIDE DEF e
<1>5. version \in Nat /\ seen <= version /\ seen \in Nat /\ outbox \in [Ops -> Seq(Events)]
  BY DEF PageInv, DashTypes, ShownIsRight
<1>6. Truthful(misled') => wrong = {} BY <1>4 DEF Truthful
<1>7. /\ \A p \in Ops \ {o} : outbox'[p] = outbox[p]
      /\ Len(outbox'[o]) = 1 /\ outbox'[o][1] = e
  BY <1>4, <1>5
<1>8. DashTypes'
  <2>1. outbox' \in [Ops -> Seq(Events)] BY <1>3, <1>4, <1>5
  <2>2. \A p \in Ops : Len(outbox[p]) <= 1 BY DEF PageInv, DashTypes
  <2>3. ASSUME NEW p \in Ops PROVE Len(outbox'[p]) <= 1
    <3>1. Len(outbox'[p]) = 1 \/ outbox'[p] = outbox[p] BY <1>7
    <3>2. CASE Len(outbox'[p]) = 1 BY <3>2
    <3>3. CASE outbox'[p] = outbox[p] BY <2>2, <3>3
    <3> QED BY <3>1, <3>2, <3>3
  <2>4. misled' \in SUBSET {"failed", "restarted", "late", "lost"}
    BY <1>4 DEF PageInv, DashTypes
  <2> QED BY <1>1, <1>4, <1>5, <2>1, <2>3, <2>4 DEF PageInv, DashTypes, hub, browser
<1>9. Connected' BY <1>1, <1>4 DEF PageInv, Connected, hub, browser
<1>10. NewsIsRight'
  <2> DEFINE IsRight(d) == EventIsRight(d, version', misled', Reported')
  <2>1. ASSUME NEW d \in Events, EventIsRight(d, version, misled, Reported)
        PROVE  IsRight(d)
    BY <1>4, <1>5, <2>1 DEF EventIsRight, Events
  <2>2. IsRight(e) BY <1>2, <1>3, <1>4, <1>5, <1>6 DEF EventIsRight
  <2> HIDE DEF IsRight
  <2>3. ASSUME NEW p \in Ops, NEW i \in 1 .. Len(outbox'[p]) PROVE IsRight(outbox'[p][i])
    <3>1. CASE p = o
      <4>1. Len(outbox'[p]) = 1 BY <1>7, <3>1
      <4>2. i = 1 BY <4>1
      <4> QED BY <1>7, <2>2, <3>1, <4>2
    <3>2. CASE p # o
      <4>1. outbox'[p] = outbox[p] /\ outbox[p][i] \in Events BY <1>5, <1>7, <2>3, <3>2
      <4>2. EventIsRight(outbox[p][i], version, misled, Reported)
        BY <2>3, <4>1 DEF PageInv, NewsIsRight
      <4> QED BY <2>1, <4>1, <4>2
    <3> QED BY <3>1, <3>2
  <2>4. ASSUME NEW c \in Connections, NEW i \in 1 .. Len(events[c]) PROVE IsRight(events[c][i])
    <3>1. events[c][i] \in Events BY <2>4 DEF PageInv, DashTypes
    <3>2. EventIsRight(events[c][i], version, misled, Reported)
      BY <2>4 DEF PageInv, NewsIsRight
    <3> QED BY <2>1, <3>1, <3>2
  <2>5. ASSUME NEW f \in Connections
        PROVE  AnswerIsRight(fetch[f], version', misled', Reported')
    <3>1. fetch[f].version \in Nat BY DEF PageInv, DashTypes, Fetches
    <3>2. AnswerIsRight(fetch[f], version, misled, Reported)
      BY <2>5 DEF PageInv, NewsIsRight
    <3> QED BY <1>4, <1>5, <3>1, <3>2 DEF AnswerIsRight
  <2> QED BY <1>1, <2>3, <2>4, <2>5 DEF NewsIsRight, IsRight, hub, browser
<1>11. ShownIsRight' BY <1>1, <1>4, <1>5 DEF ShownIsRight, browser
<1>12. NewsComes'
  <2>1. Announced' BY <1>3, <1>4, <1>7 DEF Announced
  <2> QED BY <2>1 DEF NewsComes
<1> QED BY <1>8, <1>9, <1>10, <1>11, <1>12 DEF PageInv

(***************************************************************************)
(* The hub.                                                                *)
(***************************************************************************)

LEMMA BroadcastingKeeps ==
    ASSUME PageInv, NEW o \in Ops, Broadcasts(o) PROVE PageInv'
<1> DEFINE reached == clients \ broken
           full == {c \in reached : Len(events[c]) = Capacity}
           e == outbox[o][1]
<1>1. /\ UNCHANGED <<opVars, version, stop, clients, done, handler, broken, browser>>
      /\ outbox[o] # <<>> /\ outbox' = [outbox EXCEPT ![o] = <<>>]
  BY DEF Broadcasts
<1>2. /\ outbox \in [Ops -> Seq(Events)] /\ events \in [Connections -> Seq(Events)]
      /\ \A p \in Ops : Len(outbox[p]) <= 1
      /\ \A c \in Connections : Len(events[c]) <= Capacity
      /\ clients \in SUBSET Connections /\ Capacity \in Nat \ {0}
      /\ misled \in SUBSET {"failed", "restarted", "late", "lost"}
  BY DashboardAssumption DEF PageInv, DashTypes
<1>3. outbox[o] \in Seq(Events) BY <1>2
<1>4. e \in Events /\ Head(outbox[o]) = e /\ 1 \in 1 .. Len(outbox[o])
  BY <1>1, <1>3, Taken
<1>5. /\ events' = [c \in Connections |->
                      IF c \in reached \ full THEN Append(events[c], e) ELSE events[c]]
      /\ misled' = IF full = {} THEN misled ELSE misled \cup {"lost"}
  BY <1>4 DEF Broadcasts, Broadcast
<1> HIDE DEF reached, full, e
<1>6. /\ \A p \in Ops \ {o} : outbox'[p] = outbox[p]
      /\ outbox'[o] = <<>> /\ Len(outbox'[o]) = 0 /\ outbox'[o] \in Seq(Events)
      /\ outbox' \in [Ops -> Seq(Events)]
  BY <1>1, <1>2, NoEvents
<1>7. \A c \in Connections :
         /\ events'[c] \in Seq(Events) /\ Len(events'[c]) <= Capacity
         /\ \/ events'[c] = events[c]
            \/ events'[c] = Append(events[c], e)
  <2>1. ASSUME NEW c \in Connections
        PROVE  /\ events'[c] \in Seq(Events) /\ Len(events'[c]) <= Capacity
               /\ events'[c] = events[c] \/ events'[c] = Append(events[c], e)
    <3>1. CASE c \in reached \ full
      <4>1. events'[c] = Append(events[c], e) BY <1>5, <3>1
      <4>2. events[c] \in Seq(Events) BY <1>2
      <4>3. /\ Append(events[c], e) \in Seq(Events)
            /\ Len(Append(events[c], e)) = Len(events[c]) + 1 /\ Len(events[c]) \in Nat
        BY <1>4, <4>2, Queued
      <4>4. Len(events[c]) <= Capacity /\ Len(events[c]) # Capacity BY <1>2, <3>1 DEF full
      <4>5. Len(events[c]) + 1 <= Capacity BY <1>2, <4>3, <4>4
      <4> QED BY <4>1, <4>3, <4>5
    <3>2. CASE c \notin reached \ full BY <1>2, <1>5, <3>2
    <3> QED BY <3>1, <3>2
  <2> QED BY <2>1
<1>8. Truthful(misled') <=> Truthful(misled) BY <1>5 DEF Truthful
<1>9. "late" \in misled' <=> "late" \in misled BY <1>5
<1>10. Reported' = Reported BY <1>1 DEF opVars, Reported
<1>11. DashTypes'
  <2>1. events' \in [Connections -> Seq(Events)] BY <1>5, <1>7
  <2>2. \A p \in Ops : Len(outbox'[p]) <= 1
    <3>1. ASSUME NEW p \in Ops PROVE Len(outbox'[p]) <= 1
      <4>1. CASE p = o BY <1>6, <4>1
      <4>2. CASE p # o BY <1>2, <1>6, <4>2
      <4> QED BY <4>1, <4>2
    <3> QED BY <3>1
  <2>3. misled' \in SUBSET {"failed", "restarted", "late", "lost"} BY <1>2, <1>5
  <2>4. StackOpsTypeOK' BY <1>1 DEF PageInv, DashTypes, StackOpsTypeOK, opVars, Settled, Busy
  <2> QED BY <1>1, <1>6, <1>7, <2>1, <2>2, <2>3, <2>4 DEF PageInv, DashTypes, browser
<1>12. Connected' BY <1>1 DEF PageInv, Connected, browser
<1>13. NewsIsRight'
  <2> DEFINE IsRight(d) == EventIsRight(d, version', misled', Reported')
  <2>1. ASSUME NEW d, EventIsRight(d, version, misled, Reported) PROVE IsRight(d)
    BY <1>1, <1>8, <1>10, <2>1 DEF EventIsRight
  <2>2. IsRight(e) BY <1>4, <2>1 DEF PageInv, NewsIsRight, e
  <2> HIDE DEF IsRight
  <2>3. ASSUME NEW p \in Ops, NEW i \in 1 .. Len(outbox'[p]) PROVE IsRight(outbox'[p][i])
    <3>1. p # o BY <1>6, <2>3
    <3>2. outbox'[p] = outbox[p] BY <1>6, <3>1
    <3> QED BY <2>1, <2>3, <3>2 DEF PageInv, NewsIsRight
  <2>4. ASSUME NEW c \in Connections, NEW i \in 1 .. Len(events'[c]) PROVE IsRight(events'[c][i])
    <3>1. CASE events'[c] = events[c] BY <2>1, <2>4, <3>1 DEF PageInv, NewsIsRight
    <3>2. CASE events'[c] = Append(events[c], e)
      <4>1. events[c] \in Seq(Events) BY <1>2
      <4>2. \/ i \in 1 .. Len(events[c]) /\ events'[c][i] = events[c][i]
            \/ events'[c][i] = e
        BY <1>4, <2>4, <3>2, <4>1, Queued
      <4> QED BY <2>1, <2>2, <4>2 DEF PageInv, NewsIsRight
    <3> QED BY <1>7, <3>1, <3>2
  <2>5. ASSUME NEW f \in Connections
        PROVE  AnswerIsRight(fetch'[f], version', misled', Reported')
    BY <1>1, <1>8, <1>10 DEF PageInv, NewsIsRight, AnswerIsRight, browser
  <2> QED BY <2>3, <2>4, <2>5 DEF NewsIsRight, IsRight
<1>14. ShownIsRight' BY <1>1, <1>8, <1>9, <1>10 DEF PageInv, ShownIsRight, Informed, browser
<1>15. NewsComes'
  <2> SUFFICES ASSUME source' = "open", stop' = "no", "lost" \notin misled'
               PROVE  seen' = version' \/ Announced' \/ Delivered' \/ Fetched'
    BY DEF NewsComes
  <2>1. source = "open" /\ stop = "no" /\ "lost" \notin misled /\ full = {}
    BY <1>1, <1>5 DEF browser
  <2>2. conn \in reached /\ conn \in Connections
    BY <2>1 DEF PageInv, Connected, reached
  <2>3. events'[conn] = Append(events[conn], e) BY <1>5, <2>1, <2>2
  <2>4. events[conn] \in Seq(Events) BY <1>2, <2>2
  <2> DEFINE n == Len(events[conn])
  <2>5. /\ n \in Nat /\ Len(events'[conn]) = n + 1 /\ events'[conn][n + 1] = e
        /\ \A i \in 1 .. n : events'[conn][i] = events[conn][i]
    BY <1>4, <2>3, <2>4, Queued
  <2>6. conn' = conn /\ version' = version /\ seen' = seen /\ fetch' = fetch
    BY <1>1 DEF browser
  <2>7. seen = version \/ Announced \/ Delivered \/ Fetched
    BY <2>1 DEF PageInv, NewsComes
  <2>8. CASE Announced
    <3>1. PICK p \in Ops : \E i \in 1 .. Len(outbox[p]) : outbox[p][i].version = version
      BY <2>8 DEF Announced
    <3>2. CASE p # o BY <1>6, <2>6, <3>1, <3>2 DEF Announced
    <3>3. CASE p = o
      <4>1. PICK i \in 1 .. Len(outbox[o]) : outbox[o][i].version = version BY <3>1, <3>3
      <4>2. Len(outbox[o]) <= 1 /\ Len(outbox[o]) \in Nat BY <1>2, <1>3
      <4>3. i = 1 BY <4>2
      <4>4. e.version = version BY <4>1, <4>3 DEF e
      <4>5. n + 1 \in 1 .. Len(events'[conn]) BY <2>5
      <4>6. Delivered' BY <2>5, <2>6, <4>4, <4>5 DEF Delivered
      <4> QED BY <4>6
    <3> QED BY <3>2, <3>3
  <2>9. CASE Delivered
    <3>1. PICK i \in 1 .. n : events[conn][i].version = version BY <2>9 DEF Delivered
    <3>2. i \in 1 .. Len(events'[conn]) BY <2>5
    <3>3. events'[conn][i].version = version BY <2>5, <3>1
    <3> QED BY <2>6, <3>2, <3>3 DEF Delivered
  <2>10. CASE Fetched BY <2>6, <2>10 DEF Fetched
  <2> QED BY <2>6, <2>7, <2>8, <2>9, <2>10
<1> QED BY <1>11, <1>12, <1>13, <1>14, <1>15 DEF PageInv

\* A step that writes no status and loses no event keeps what is under way.
LEMMA QuietTypes ==
    ASSUME PageInv, UNCHANGED <<opVars, version, outbox>>
    PROVE  /\ StackOpsTypeOK' /\ Reported' = Reported
           /\ Announced' = Announced
BY DEF PageInv, DashTypes, StackOpsTypeOK, opVars, Settled, Busy, Reported, Announced

LEMMA QuietNews ==
    ASSUME PageInv, UNCHANGED <<opVars, version, outbox, events, fetch, misled>>
    PROVE  NewsIsRight'
BY QuietTypes DEF PageInv, NewsIsRight

LEMMA ReturningKeeps ==
    ASSUME PageInv, NEW c \in Connections, Returns(c) PROVE PageInv'
<1>1. /\ UNCHANGED <<opVars, version, outbox, stop, events, broken, browser, misled>>
      /\ handler' = [handler EXCEPT ![c] = "returned"]
      /\ clients' = clients \ {c} /\ done' \in {done, done \cup {c}}
      /\ c \in clients \/ done' = done
      /\ c \in broken \/ stop # "no" \/ c \in done
  BY DEF Returns, Unregister, LetGo
<1>2. DashTypes'
  BY <1>1, QuietTypes DEF PageInv, DashTypes, browser
<1>3. Connected'
  <2>1. stop = "no" => c \in broken BY <1>1 DEF PageInv, Connected
  <2> QED BY <1>1, <2>1 DEF PageInv, Connected, browser
<1>4. NewsIsRight' BY <1>1, QuietNews DEF browser
<1>5. ShownIsRight' BY <1>1, QuietTypes DEF PageInv, ShownIsRight, Informed, browser
<1>6. NewsComes'
  BY <1>1, QuietTypes DEF PageInv, NewsComes, Delivered, Fetched, browser
<1> QED BY <1>2, <1>3, <1>4, <1>5, <1>6 DEF PageInv

LEMMA StoppingKeeps ==
    ASSUME PageInv, StopSignals \/ StopSweeps PROVE PageInv'
<1>1. /\ UNCHANGED <<opVars, version, outbox, events, handler, broken, browser, misled>>
      /\ stop' \in {"signalled", "swept"}
      /\ clients' \in {clients, {}} /\ done' \in {done, done \cup clients}
  BY DEF StopSignals, StopSweeps
<1>2. DashTypes'
  BY <1>1, QuietTypes DEF PageInv, DashTypes, browser
<1>3. Connected' BY <1>1 DEF PageInv, Connected, browser
<1>4. NewsIsRight' BY <1>1, QuietNews DEF browser
<1>5. ShownIsRight' BY <1>1, QuietTypes DEF PageInv, ShownIsRight, Informed, browser
<1>6. NewsComes' BY <1>1 DEF NewsComes
<1> QED BY <1>2, <1>3, <1>4, <1>5, <1>6 DEF PageInv

LEMMA StutteringKeeps ==
    ASSUME PageInv, UNCHANGED dvars PROVE PageInv'
<1>1. UNCHANGED <<opVars, version, outbox, stop, clients, events, done, handler, broken,
                  browser, misled>>
  BY DEF dvars, hub
<1>2. DashTypes' BY <1>1, QuietTypes DEF PageInv, DashTypes, browser
<1>3. Connected' BY <1>1 DEF PageInv, Connected, browser
<1>4. NewsIsRight' BY <1>1, QuietNews DEF browser
<1>5. ShownIsRight' BY <1>1, QuietTypes DEF PageInv, ShownIsRight, Informed, browser
<1>6. NewsComes' BY <1>1, QuietTypes DEF PageInv, NewsComes, Delivered, Fetched, browser
<1> QED BY <1>2, <1>3, <1>4, <1>5, <1>6 DEF PageInv

(***************************************************************************)
(* The page.                                                               *)
(***************************************************************************)

LEMMA ConnectingKeeps == ASSUME PageInv, Connects PROVE PageInv'
<1>1. /\ UNCHANGED <<opVars, version, outbox, stop, events, done, broken,
                     fetch, shown, seen, misled>>
      /\ source' = "connecting" /\ conn' = conn + 1 /\ conn < MaxConnections
      /\ clients' = clients \cup {conn + 1}
      /\ handler' = [handler EXCEPT ![conn + 1] = "serves"]
  BY DEF Connects
<1>2. /\ conn \in 0 .. MaxConnections /\ MaxConnections \in Nat
      /\ conn + 1 \in Connections /\ conn' \in 0 .. MaxConnections
  BY <1>1, DashboardAssumption DEF PageInv, DashTypes, Connections
<1>3. DashTypes' BY <1>1, <1>2, QuietTypes DEF PageInv, DashTypes
<1>4. Connected'
  <2>1. clients \cup broken \cup done \subseteq 1 .. conn /\ (stop = "no" => done \subseteq broken)
    BY DEF PageInv, Connected
  <2>2. 1 .. conn \subseteq 1 .. conn' /\ conn' \in 1 .. conn' /\ conn' \notin 1 .. conn
    BY <1>1, <1>2
  <2>3. conn' \in Connections /\ conn' \notin broken' BY <1>1, <1>2, <2>1, <2>2
  <2> QED BY <1>1, <2>1, <2>2, <2>3 DEF Connected
<1>5. NewsIsRight' BY <1>1, QuietNews
<1>6. ShownIsRight' BY <1>1, QuietTypes DEF PageInv, ShownIsRight, Informed
<1>7. NewsComes' BY <1>1 DEF NewsComes
<1> QED BY <1>3, <1>4, <1>5, <1>6, <1>7 DEF PageInv

LEMMA OpeningKeeps == ASSUME PageInv, Opens PROVE PageInv'
<1>1. /\ UNCHANGED <<opVars, version, outbox, hub, conn, shown, seen, misled>>
      /\ source = "connecting" /\ source' = "open"
      /\ fetch' = [fetch EXCEPT ![conn].at = "asked"]
  BY DEF Opens
<1>2. conn \in Connections /\ conn \notin broken /\ fetch \in [Connections -> Fetches]
  BY <1>1 DEF PageInv, Connected, DashTypes
<1>3. /\ fetch'[conn].at = "asked" /\ fetch' \in [Connections -> Fetches]
      /\ \A f \in Connections \ {conn} : fetch'[f] = fetch[f]
  <2>1. fetch' = [fetch EXCEPT ![conn] = [fetch[conn] EXCEPT !.at = "asked"]]
    BY <1>1
  <2>2. /\ [fetch[conn] EXCEPT !.at = "asked"] \in Fetches
        /\ [fetch[conn] EXCEPT !.at = "asked"].at = "asked"
    BY <1>2 DEF Fetches
  <2> QED BY <1>2, <2>1, <2>2
<1>4. DashTypes' BY <1>1, <1>3, QuietTypes DEF PageInv, DashTypes, hub
<1>5. Connected' BY <1>1, <1>2, <1>3 DEF PageInv, Connected, hub
<1>6. NewsIsRight'
  <2>1. \A f \in Connections : AnswerIsRight(fetch'[f], version', misled', Reported')
    BY <1>1, <1>3, QuietTypes DEF PageInv, NewsIsRight, AnswerIsRight
  <2> QED BY <1>1, <2>1, QuietTypes DEF PageInv, NewsIsRight, hub
<1>7. ShownIsRight' BY <1>1, <1>3, QuietTypes DEF PageInv, ShownIsRight, Informed
<1>8. NewsComes' BY <1>1, <1>3 DEF NewsComes, Fetched
<1> QED BY <1>4, <1>5, <1>6, <1>7, <1>8 DEF PageInv

LEMMA BreakingKeeps == ASSUME PageInv, Breaks PROVE PageInv'
<1>1. /\ UNCHANGED <<opVars, version, outbox, stop, clients, done, handler,
                     conn, fetch, shown, seen, misled>>
      /\ source # "waiting" /\ source' = "waiting" /\ broken' = broken \cup {conn}
      /\ events' = [events EXCEPT ![conn] = <<>>]
  BY DEF Breaks
<1>2. conn \in Connections /\ conn \in 1 .. conn
  BY <1>1 DEF PageInv, Connected, Connections
<1>3. /\ events \in [Connections -> Seq(Events)]
      /\ \A c \in Connections : Len(events[c]) <= Capacity
      /\ Capacity \in Nat
  BY DashboardAssumption DEF PageInv, DashTypes
<1>4. /\ events' \in [Connections -> Seq(Events)]
      /\ events'[conn] = <<>> /\ Len(events'[conn]) = 0
      /\ \A c \in Connections \ {conn} : events'[c] = events[c]
  BY <1>1, <1>2, <1>3, NoEvents
<1>5. \A c \in Connections : Len(events'[c]) <= Capacity
  <2>1. ASSUME NEW c \in Connections PROVE Len(events'[c]) <= Capacity
    <3>1. CASE c = conn BY <1>3, <1>4, <3>1
    <3>2. CASE c # conn BY <1>3, <1>4, <3>2
    <3> QED BY <3>1, <3>2
  <2> QED BY <2>1
<1>6. DashTypes' BY <1>1, <1>2, <1>4, <1>5, QuietTypes DEF PageInv, DashTypes
<1>7. Connected' BY <1>1, <1>2 DEF PageInv, Connected
<1>8. NewsIsRight'
  <2>1. ASSUME NEW c \in Connections, NEW i \in 1 .. Len(events'[c])
        PROVE  EventIsRight(events'[c][i], version', misled', Reported')
    <3>1. c # conn BY <1>4, <2>1
    <3>2. events'[c] = events[c] BY <1>4, <3>1
    <3> QED BY <1>1, <2>1, <3>2, QuietTypes DEF PageInv, NewsIsRight
  <2> QED BY <1>1, <2>1, QuietTypes DEF PageInv, NewsIsRight
<1>9. ShownIsRight' BY <1>1, QuietTypes DEF PageInv, ShownIsRight, Informed
<1>10. NewsComes' BY <1>1 DEF NewsComes
<1> QED BY <1>6, <1>7, <1>8, <1>9, <1>10 DEF PageInv

LEMMA AnsweringKeeps ==
    ASSUME PageInv, NEW f \in Connections, Answers(f) PROVE PageInv'
<1>1. /\ UNCHANGED <<opVars, version, outbox, hub, source, conn, shown, seen, misled>>
      /\ fetch[f].at = "asked"
      /\ fetch' = [fetch EXCEPT ![f] = Fetch("answered", Reported, version)]
  BY DEF Answers
<1> DEFINE a == Fetch("answered", Reported, version)
<1>2. /\ a \in Fetches /\ a.at = "answered" /\ a.status = Reported /\ a.version = version
      /\ version \in Nat /\ fetch \in [Connections -> Fetches]
  BY DEF PageInv, DashTypes, Fetch, Fetches, Reported, Reports
<1>3. /\ fetch'[f] = a /\ fetch' \in [Connections -> Fetches]
      /\ \A g \in Connections \ {f} : fetch'[g] = fetch[g]
  BY <1>1, <1>2
<1> HIDE DEF a
<1>4. DashTypes' BY <1>1, <1>3, QuietTypes DEF PageInv, DashTypes, hub
<1>5. Connected' BY <1>1, <1>2, <1>3 DEF PageInv, Connected, hub
<1>6. NewsIsRight'
  <2>1. AnswerIsRight(a, version', misled', Reported')
    BY <1>1, <1>2, QuietTypes DEF AnswerIsRight
  <2>2. \A g \in Connections : AnswerIsRight(fetch'[g], version', misled', Reported')
    BY <1>1, <1>3, <2>1, QuietTypes DEF PageInv, NewsIsRight
  <2> QED BY <1>1, <2>2, QuietTypes DEF PageInv, NewsIsRight, hub
<1>7. ShownIsRight' BY <1>1, <1>2, <1>3, QuietTypes DEF PageInv, ShownIsRight, Informed
<1>8. NewsComes'
  <2>1. fetch'[f].at = "answered" /\ fetch'[f].version = version' BY <1>1, <1>2, <1>3
  <2>2. (seen = version \/ Announced \/ Delivered) =>
           (seen' = version' \/ Announced' \/ Delivered')
    BY <1>1, QuietTypes DEF Delivered, hub
  <2>3. Fetched' BY <2>1 DEF Fetched
  <2> QED BY <2>3 DEF NewsComes
<1> QED BY <1>4, <1>5, <1>6, <1>7, <1>8 DEF PageInv

\* What the page handles was never written after the present status; if it is
\* of the present status it is shown as it is.
LEMMA Seeing ==
    ASSUME PageInv, UNCHANGED <<opVars, version, outbox>>,
           NEW v \in Nat, v <= version, Sees(v),
           v = version /\ Truthful(misled) => shown' = Reported
    PROVE  /\ seen' \in Nat /\ misled' \in SUBSET {"failed", "restarted", "late", "lost"}
           /\ ShownIsRight'
           /\ Truthful(misled') <=> Truthful(misled)
           /\ v = version \/ seen = version => seen' = version'
           /\ v # version /\ "lost" \in misled => "lost" \in misled'
<1>1. /\ version \in Nat /\ seen \in Nat /\ seen <= version
      /\ misled \in SUBSET {"failed", "restarted", "late", "lost"}
  BY DEF PageInv, DashTypes, ShownIsRight
<1>2. version' = version /\ Reported' = Reported BY QuietTypes
<1>3. Truthful(misled') <=> Truthful(misled) BY DEF Sees, Truthful
<1>4. CASE v < seen
  <2>1. seen' = seen /\ v # version BY <1>1, <1>4 DEF Sees
  <2>2. misled' = misled \cup {"late"} BY <2>1, <1>4 DEF Sees
  <2> QED BY <1>1, <1>2, <1>3, <2>1, <2>2 DEF ShownIsRight
<1>5. CASE ~(v < seen)
  <2>1. seen' = v BY <1>5 DEF Sees
  <2>2. misled' \subseteq misled /\ (v # version => misled' = misled \ {"late"})
    BY <1>5 DEF Sees
  <2>3. ShownIsRight' BY <1>1, <1>2, <1>3, <2>1 DEF ShownIsRight
  <2>4. seen = version => v = version BY <1>1, <1>5
  <2> QED BY <1>1, <1>2, <1>3, <2>1, <2>2, <2>3, <2>4
<1> QED BY <1>4, <1>5

LEMMA TakingKeeps ==
    ASSUME PageInv, NEW f \in Connections, TakesAnswer(f) PROVE PageInv'
<1> DEFINE v == fetch[f].version
           u == Fetch("used", "unknown", 0)
<1>1. /\ UNCHANGED <<opVars, version, outbox, hub, source, conn>>
      /\ fetch[f].at = "answered" /\ shown' = fetch[f].status /\ Sees(v)
      /\ fetch' = [fetch EXCEPT ![f] = u]
  BY DEF TakesAnswer
<1>2. /\ fetch \in [Connections -> Fetches] /\ v \in Nat
      /\ fetch[f].status \in Reports /\ version \in Nat
      /\ u \in Fetches /\ u.at = "used"
  BY DEF PageInv, DashTypes, Fetches, Fetch, Reports
<1>3. v <= version /\ (v = version /\ Truthful(misled) => shown' = Reported)
  BY <1>1 DEF PageInv, NewsIsRight, AnswerIsRight
<1> HIDE DEF v, u
<1>4. /\ seen' \in Nat /\ misled' \in SUBSET {"failed", "restarted", "late", "lost"}
      /\ ShownIsRight'
      /\ Truthful(misled') <=> Truthful(misled)
      /\ v = version \/ seen = version => seen' = version'
      /\ v # version /\ "lost" \in misled => "lost" \in misled'
  BY <1>1, <1>2, <1>3, Seeing
<1>5. /\ fetch'[f] = u /\ fetch' \in [Connections -> Fetches]
      /\ \A g \in Connections \ {f} : fetch'[g] = fetch[g]
  BY <1>1, <1>2
<1>6. DashTypes'
  <2>1. shown' \in Reports BY <1>1, <1>2
  <2> QED BY <1>1, <1>4, <1>5, <2>1, QuietTypes DEF PageInv, DashTypes, hub
<1>7. Connected' BY <1>1, <1>2, <1>5 DEF PageInv, Connected, hub
<1>8. NewsIsRight'
  <2>1. version' = version /\ Reported' = Reported BY <1>1, QuietTypes
  <2>2. \A g \in Connections : AnswerIsRight(fetch'[g], version', misled', Reported')
    BY <1>2, <1>4, <1>5, <2>1 DEF PageInv, NewsIsRight, AnswerIsRight
  <2>3. ASSUME NEW d, EventIsRight(d, version, misled, Reported)
        PROVE  EventIsRight(d, version', misled', Reported')
    BY <1>4, <2>1, <2>3 DEF EventIsRight
  <2> QED BY <1>1, <2>2, <2>3 DEF PageInv, NewsIsRight, hub
<1>9. NewsComes'
  <2> SUFFICES ASSUME source' = "open", stop' = "no", "lost" \notin misled'
               PROVE  seen' = version' \/ Announced' \/ Delivered' \/ Fetched'
    BY DEF NewsComes
  <2>1. CASE v = version BY <1>4, <2>1
  <2>2. CASE v # version
    <3>1. seen = version \/ Announced \/ Delivered \/ Fetched
      BY <1>1, <1>4, <2>2 DEF PageInv, NewsComes, hub
    <3>2. CASE Fetched
      <4>1. version' = version /\ conn' = conn BY <1>1
      <4>2. fetch[f].at = "answered" /\ fetch[f].version # version BY <1>1, <2>2 DEF v
      <4>3. source = "open" BY <1>1
      <4>4. conn \in Connections BY <4>3 DEF PageInv, Connected
      <4>5. CASE fetch[conn].at = "asked"
        <5>1. conn # f BY <4>2, <4>5
        <5> QED BY <1>5, <4>1, <4>4, <4>5, <5>1 DEF Fetched
      <4>6. CASE \E g \in Connections : fetch[g].at = "answered" /\ fetch[g].version = version
        BY <1>5, <4>1, <4>2, <4>6 DEF Fetched
      <4> QED BY <3>2, <4>5, <4>6 DEF Fetched
    <3>3. Announced' = Announced /\ Delivered' = Delivered
      BY <1>1, QuietTypes DEF Delivered, hub
    <3> QED BY <1>4, <3>1, <3>2, <3>3
  <2> QED BY <2>1, <2>2
<1> QED BY <1>4, <1>6, <1>7, <1>8, <1>9 DEF PageInv

LEMMA ReceivingKeeps == ASSUME PageInv, Receives PROVE PageInv'
<1> DEFINE s == events[conn]
           e == s[1]
           v == e.version
<1>1. /\ UNCHANGED <<opVars, version, outbox, stop, clients, done, handler,
                     broken, source, conn, fetch>>
      /\ source = "open" /\ s # <<>> /\ events' = [events EXCEPT ![conn] = Tail(s)]
  BY DEF Receives
<1>2. /\ conn \in Connections /\ events \in [Connections -> Seq(Events)]
      /\ \A c \in Connections : Len(events[c]) <= Capacity
      /\ shown \in Reports /\ version \in Nat /\ Capacity \in Nat
  BY <1>1, DashboardAssumption DEF PageInv, Connected, DashTypes
<1>3. s \in Seq(Events) BY <1>2
<1>4. /\ Tail(s) \in Seq(Events) /\ Len(Tail(s)) = Len(s) - 1 /\ Len(s) \in Nat
      /\ Head(s) = e /\ 1 \in 1 .. Len(s) /\ e \in Events
      /\ \A i \in 1 .. Len(Tail(s)) : i + 1 \in 1 .. Len(s) /\ Tail(s)[i] = s[i + 1]
  BY <1>1, <1>3, Taken
<1>5. shown' = ShownAfter(e.name) /\ Sees(v)
  BY <1>4 DEF Receives
<1>6. EventIsRight(e, version, misled, Reported)
  BY <1>2, <1>4 DEF PageInv, NewsIsRight
<1>7. v \in Nat /\ v <= version /\ e.name \in EventNames
  BY <1>4, <1>6 DEF Events, EventIsRight
<1>8. shown' \in Reports BY <1>2, <1>5 DEF ShownAfter, Reports, Transitional
<1>9. v = version /\ Truthful(misled) => shown' = Reported
  BY <1>5, <1>6 DEF EventIsRight, Meaning, ShownAfter
<1>10. /\ events' \in [Connections -> Seq(Events)] /\ events'[conn] = Tail(s)
       /\ \A c \in Connections \ {conn} : events'[c] = events[c]
  BY <1>1, <1>2, <1>4
<1> HIDE DEF s, e, v
<1>11. /\ seen' \in Nat /\ misled' \in SUBSET {"failed", "restarted", "late", "lost"}
       /\ ShownIsRight'
       /\ Truthful(misled') <=> Truthful(misled)
       /\ v = version \/ seen = version => seen' = version'
       /\ v # version /\ "lost" \in misled => "lost" \in misled'
  BY <1>1, <1>7, <1>5, <1>9, Seeing
<1>12. \A c \in Connections : Len(events'[c]) <= Capacity
  <2>1. Len(Tail(s)) <= Capacity
    <3>1. Len(s) <= Capacity BY <1>2 DEF s
    <3> QED BY <1>2, <1>4, <3>1
  <2> QED BY <1>2, <1>10, <2>1
<1>13. DashTypes' BY <1>1, <1>8, <1>10, <1>11, <1>12, QuietTypes DEF PageInv, DashTypes
<1>14. Connected' BY <1>1 DEF PageInv, Connected
<1>15. version' = version /\ Reported' = Reported BY <1>1, QuietTypes
<1>16. NewsIsRight'
  <2>1. ASSUME NEW d, EventIsRight(d, version, misled, Reported)
        PROVE  EventIsRight(d, version', misled', Reported')
    BY <1>11, <1>15, <2>1 DEF EventIsRight
  <2>2. ASSUME NEW c \in Connections, NEW i \in 1 .. Len(events'[c])
        PROVE  EventIsRight(events'[c][i], version', misled', Reported')
    <3>1. CASE c = conn
      <4>1. i \in 1 .. Len(Tail(s)) /\ events'[c] = Tail(s) BY <1>10, <2>2, <3>1
      <4>2. i + 1 \in 1 .. Len(s) /\ events'[c][i] = s[i + 1] BY <1>4, <4>1
      <4> QED BY <1>2, <2>1, <4>2 DEF PageInv, NewsIsRight, s
    <3>2. CASE c # conn BY <1>10, <2>1, <2>2, <3>2 DEF PageInv, NewsIsRight
    <3> QED BY <3>1, <3>2
  <2>3. \A f \in Connections : AnswerIsRight(fetch'[f], version', misled', Reported')
    BY <1>1, <1>11, <1>15 DEF PageInv, NewsIsRight, AnswerIsRight
  <2> QED BY <1>1, <2>1, <2>2, <2>3 DEF PageInv, NewsIsRight
<1>17. NewsComes'
  <2> SUFFICES ASSUME source' = "open", stop' = "no", "lost" \notin misled'
               PROVE  seen' = version' \/ Announced' \/ Delivered' \/ Fetched'
    BY DEF NewsComes
  <2>1. CASE v = version BY <1>11, <2>1
  <2>2. CASE v # version
    <3>1. seen = version \/ Announced \/ Delivered \/ Fetched
      BY <1>1, <1>11, <2>2 DEF PageInv, NewsComes
    <3>2. CASE Delivered
      <4>1. PICK i \in 1 .. Len(s) : s[i].version = version BY <3>2 DEF Delivered, s
      <4>2. i # 1 BY <2>2, <4>1 DEF v, e
      <4>3. i - 1 \in 1 .. Len(Tail(s)) BY <1>4, <4>2
      <4>4. Tail(s)[i - 1] = s[(i - 1) + 1] /\ (i - 1) + 1 = i BY <1>4, <4>3
      <4>5. events'[conn'] = Tail(s) BY <1>1, <1>10
      <4> QED BY <1>15, <4>1, <4>3, <4>4, <4>5 DEF Delivered
    <3>3. Announced' = Announced /\ Fetched' = Fetched
      BY <1>1, QuietTypes DEF Fetched
    <3> QED BY <1>11, <3>1, <3>2, <3>3
  <2> QED BY <2>1, <2>2
<1> QED BY <1>11, <1>13, <1>14, <1>16, <1>17 DEF PageInv

(***************************************************************************)
(* The theorem.                                                            *)
(***************************************************************************)

\* What PageInv says holds in every state.
THEOREM PageInvariant == DashboardSpec => []PageInv
<1>1. DashboardInit => PageInv BY PageStarts
<1>2. PageInv /\ [DashboardNext]_dvars => PageInv'
  BY AnnouncingKeeps, BroadcastingKeeps, ReturningKeeps, AnsweringKeeps, TakingKeeps,
     StoppingKeeps, ConnectingKeeps, OpeningKeeps, BreakingKeeps, ReceivingKeeps,
     StutteringKeeps
     DEF DashboardNext
<1> QED BY <1>1, <1>2, PTL DEF DashboardSpec

LEMMA SettledFromInvariant == PageInv => SettledPageIsRight
<1> SUFFICES ASSUME PageInv PROVE SettledPageIsRight OBVIOUS
<1>1. DashboardTypeOK
  <2>1. ASSUME NEW d \in Events PROVE IsEvent(d) BY DEF Events, IsEvent
  <2>2. ASSUME NEW q \in Seq(Events) PROVE \A i \in DOMAIN q : IsEvent(q[i])
    BY <2>1
  <2>3. \A o \in Ops : Len(outbox[o]) <= 1 /\ \A i \in DOMAIN outbox[o] : IsEvent(outbox[o][i])
    BY <2>2 DEF PageInv, DashTypes
  <2>4. \A c \in Connections :
           Len(events[c]) <= Capacity /\ \A i \in DOMAIN events[c] : IsEvent(events[c][i])
    BY <2>2 DEF PageInv, DashTypes
  <2>5. \A f \in Connections :
           /\ fetch[f].at \in {"no", "asked", "answered", "used"}
           /\ fetch[f].status \in Reports /\ fetch[f].version \in Nat
    BY DEF PageInv, DashTypes, Fetches
  <2> QED BY <2>3, <2>4, <2>5 DEF DashboardTypeOK, PageInv, DashTypes, Reports
<1>2. ASSUME ~Settling, misled = {}, stop = "no" PROVE shown = Reported
  <2>1. /\ \A o \in Ops : outbox[o] = <<>>
        /\ source = "open" /\ events[conn] = <<>> /\ conn \in Connections
        /\ \A f \in Connections : fetch[f].at \notin {"asked", "answered"}
    BY <1>2 DEF Settling, PageInv, Connected
  <2>2. ~Announced
    <3>1. \A o \in Ops : Len(outbox[o]) = 0 BY <2>1, NoEvents
    <3> QED BY <3>1 DEF Announced
  <2>3. ~Delivered
    <3>1. Len(events[conn]) = 0 BY <2>1, NoEvents
    <3> QED BY <3>1 DEF Delivered
  <2>4. ~Fetched BY <2>1 DEF Fetched
  <2>5. seen = version BY <1>2, <2>1, <2>2, <2>3, <2>4 DEF PageInv, NewsComes
  <2>6. fetch[conn].at = "used"
    BY <2>1 DEF PageInv, Connected, DashTypes, Fetches
  <2> QED BY <1>2, <2>1, <2>5, <2>6 DEF PageInv, ShownIsRight, Informed, Truthful
<1> QED BY <1>1, <1>2 DEF SettledPageIsRight

\* Once nothing is under way a page shows the status the server reports, but
\* for the ways of being told wrong that the code has: SettledPageIsRight of
\* every run (Dashboard.tsx:245-291, 315-476, api_stack.go).
THEOREM SettledPageRight == DashboardSpec => []SettledPageIsRight
<1> QED BY PageInvariant, SettledFromInvariant, PTL
=============================================================================
