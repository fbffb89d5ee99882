------------------------------- MODULE Dashboard -------------------------------
(***************************************************************************)
(* What a browser shows of the stack: the stack operations of StackOps     *)
(* announce every change of the status to the SSE hub (pkg/cc/sse.go),     *)
(* which hands the event to the connected clients; the page (pkg/cc/       *)
(* frontend, useSSE.ts and Dashboard.tsx) combines the events with the     *)
(* answers of the REST calls it makes when it is loaded and whenever its   *)
(* connection opens.  The status changes under a lock and is announced     *)
(* after the lock was released; a client whose channel is full loses the   *)
(* event; connections break and are made anew.                             *)
(***************************************************************************)
EXTENDS StackOps, Sequences

CONSTANTS
    MaxConnections,   \* bound: the connections the page makes
    MaxInputs,        \* bound: the requests and connections together
    Capacity          \* the events a client's channel holds, 64 in the code

ASSUME DashboardAssumption ==
    MaxConnections \in Nat /\ MaxInputs \in Nat /\ Capacity \in Nat \ {0}

Connections == 1 .. MaxConnections

VARIABLES
    version,    \* auxiliary: how often the status was written
    outbox,     \* what an operation has still to broadcast
    stop,       \* SSEHub.Stop: "no", "signalled" or "swept"
    clients,    \* SSEHub.clients
    events,     \* sseClient.events, with what the network holds of it
    done,       \* the connections whose sseClient.done is closed
    handler,    \* ServeHTTP of a connection: "none", "serves" or "returned"
    broken,     \* the connections the network or the page has ended
    source,     \* the EventSource: "connecting", "open" or "waiting"
    conn,       \* its connection, the last one the page has made
    fetch,      \* the GET /stack/status requests
    shown,      \* Dashboard's stackStatus
    seen,       \* auxiliary: the version of what the page has handled last
    misled      \* auxiliary: in which ways the page was told wrong

hub == <<stop, clients, events, done, handler, broken>>
browser == <<source, conn, fetch, shown, seen>>
dvars == <<opVars, version, outbox, hub, browser, misled>>

Event(name, v) == [name |-> name, version |-> v]
EventNames == {"stack_starting", "stack_started", "stack_stopping",
               "stack_stopped", "stack_error"}
IsEvent(e) == e.name \in EventNames /\ e.version \in Nat
Fetch(at, s, v) == [at |-> at, status |-> s, version |-> v]

DashboardTypeOK ==
    /\ version \in Nat /\ seen \in Nat
    /\ \A o \in Ops : /\ Len(outbox[o]) <= 1
                      /\ \A i \in DOMAIN outbox[o] : IsEvent(outbox[o][i])
    /\ stop \in {"no", "signalled", "swept"}
    /\ clients \in SUBSET Connections
    /\ \A c \in Connections : Len(events[c]) <= Capacity
                              /\ \A i \in DOMAIN events[c] : IsEvent(events[c][i])
    /\ done \subseteq Connections
    /\ handler \in [Connections -> {"none", "serves", "returned"}]
    /\ broken \in SUBSET Connections
    /\ source \in {"connecting", "open", "waiting"} /\ conn \in 0 .. MaxConnections
    /\ \A f \in Connections : fetch[f].at \in {"no", "asked", "answered", "used"}
                              /\ fetch[f].status \in
                                    Transitional \cup {"unknown", "running", "stopped"}
                              /\ fetch[f].version \in Nat
    /\ shown \in Transitional \cup {"unknown", "running", "stopped"}
    /\ misled \in SUBSET {"failed", "restarted", "late", "lost"}

\* The page is loaded: it asks for the status and connects.
DashboardInit ==
    /\ StackOpsInit
    /\ version = 0 /\ seen = 0
    /\ outbox = [o \in Ops |-> <<>>]
    /\ stop = "no"
    /\ clients = {}
    /\ events = [c \in Connections |-> <<>>]
    /\ done = {}
    /\ handler = [c \in Connections |-> "none"]
    /\ broken = {}
    /\ source = "waiting" /\ conn = 0
    /\ fetch = [f \in Connections |-> Fetch("no", "unknown", 0)]
    /\ shown = "unknown"
    /\ misled = {}

\* getStackStatusData: what the server reports of its status.
Reported == IF status \in Transitional \cup {"running"} THEN status ELSE "stopped"

(***************************************************************************)
(* The operations.  A step that writes the status has an event to          *)
(* broadcast before the operation goes on.  That of a failure leaves the   *)
(* shown status alone, and the last one of a restart says that the stack   *)
(* is running when its status is idle.                                     *)
(***************************************************************************)

Announces(o, name, wrong) ==
    /\ version' = version + 1
    /\ outbox' = [outbox EXCEPT ![o] = <<Event(name, version + 1)>>]
    /\ misled' = (misled \ {"failed", "restarted"}) \cup wrong

Accepts(o) ==
    /\ outbox[o] = <<>> /\ o + conn <= MaxInputs
    /\ \/ Up(o) /\ Announces(o, "stack_starting", {})
       \/ Down(o) /\ Announces(o, "stack_stopping", {})
       \/ Restart(o) /\ Announces(o, "stack_stopping", {})
       \/ Cancel(o) /\ Announces(o, "stack_stopping", {})
    /\ UNCHANGED <<hub, browser>>

Works(o) ==
    /\ outbox[o] = <<>>
    /\ \/ Boots(o) /\ Announces(o, "stack_starting", {})
       \/ Fails(o) /\ Announces(o, "stack_error", {"failed"})
       \/ /\ Succeeds(o)
          /\ CASE phase[o] = "booting"   -> Announces(o, "stack_started", {})
               [] phase[o] = "rebooting" -> Announces(o, "stack_started", {"restarted"})
               [] phase[o] = "stopping"  -> Announces(o, "stack_stopped", {})
    /\ UNCHANGED <<hub, browser>>

(***************************************************************************)
(* The hub.                                                                *)
(***************************************************************************)

\* Every client with room in its channel gets the event.  The channel of a
\* connection that is broken is not read again.  The loop of the stack's context
\* broadcasts a stack_status every two seconds as well; the page, which has no
\* listener for it, is as if it did not (useSSE.ts:24-38).
Broadcast(e) ==
    LET reached == clients \ broken
        full == {c \in reached : Len(events[c]) = Capacity}
    IN  /\ events' = [c \in Connections |->
                        IF c \in reached \ full THEN Append(events[c], e) ELSE events[c]]
        /\ misled' = IF full = {} THEN misled ELSE misled \cup {"lost"}

Broadcasts(o) ==
    /\ outbox[o] # <<>>
    /\ Broadcast(Head(outbox[o]))
    /\ outbox' = [outbox EXCEPT ![o] = <<>>]
    /\ UNCHANGED <<opVars, version, stop, clients, done, handler, broken,
                   browser>>

\* useSSE connects, at first at once and later three seconds after an error;
\* ServeHTTP registers the connection and sends its first bytes.
Connects ==
    /\ source = "waiting" /\ conn < MaxConnections
    /\ \A o \in Ops : phase[o] # "new" => o + conn < MaxInputs
    /\ source' = "connecting" /\ conn' = conn + 1
    /\ clients' = clients \cup {conn'}
    /\ handler' = [handler EXCEPT ![conn'] = "serves"]
    /\ UNCHANGED <<opVars, version, outbox, stop, events, done, broken,
                   fetch, shown, seen, misled>>

\* A client that Stop has taken out is left alone.
Unregister(c) ==
    /\ clients' = clients \ {c}
    /\ done' = IF c \in clients THEN done \cup {c} ELSE done

\* Mutation of LetGo: only the client's own channel ends its handler.
LetGoByClient(c) == c \in broken \cup done

LetGo(c) == c \in broken \/ stop # "no" \/ c \in done

Returns(c) ==
    /\ handler[c] = "serves" /\ LetGo(c)
    /\ handler' = [handler EXCEPT ![c] = "returned"]
    /\ Unregister(c)
    /\ UNCHANGED <<opVars, version, outbox, stop, events, broken, browser,
                   misled>>

\* The channel of the hub is closed before its lock is taken.
StopSignals ==
    /\ stop = "no" /\ stop' = "signalled"
    /\ UNCHANGED <<opVars, version, outbox, clients, events, done, handler,
                   broken, browser, misled>>

StopSweeps ==
    /\ stop = "signalled" /\ stop' = "swept"
    /\ done' = done \cup clients
    /\ clients' = {}
    /\ UNCHANGED <<opVars, version, outbox, events, handler, broken, browser,
                   misled>>

(***************************************************************************)
(* The page.                                                               *)
(***************************************************************************)

\* Mutation of Opens: the data is loaded with the page only.
OpensSilently ==
    /\ source = "connecting"
    /\ source' = "open"
    /\ UNCHANGED <<opVars, version, outbox, hub, conn, fetch, shown, seen, misled>>

Opens ==
    /\ source = "connecting"
    /\ source' = "open"
    /\ fetch' = [fetch EXCEPT ![conn].at = "asked"]
    /\ UNCHANGED <<opVars, version, outbox, hub, conn, shown, seen, misled>>

Breaks ==
    /\ source # "waiting"
    /\ source' = "waiting"
    /\ broken' = broken \cup {conn}
    /\ events' = [events EXCEPT ![conn] = <<>>]
    /\ UNCHANGED <<opVars, version, outbox, stop, clients, done, handler,
                   conn, fetch, shown, seen, misled>>

\* handleGetStackStatus
Answers(f) ==
    /\ fetch[f].at = "asked"
    /\ fetch' = [fetch EXCEPT ![f] = Fetch("answered", Reported, version)]
    /\ UNCHANGED <<opVars, version, outbox, hub, source, conn, shown, seen, misled>>

\* The page cannot tell an old status from a new one: it shows what it handles.
Sees(v) ==
    /\ seen' = IF v < seen THEN seen ELSE v
    /\ misled' = (IF v < seen THEN misled \cup {"late"} ELSE misled \ {"late"})
                 \ (IF v = version THEN {"lost"} ELSE {})

TakesAnswer(f) ==
    /\ fetch[f].at = "answered"
    /\ shown' = fetch[f].status
    /\ Sees(fetch[f].version)
    /\ fetch' = [fetch EXCEPT ![f] = Fetch("used", "unknown", 0)]
    /\ UNCHANGED <<opVars, version, outbox, hub, source, conn>>

ShownAfter(name) ==
    CASE name = "stack_starting" -> "starting"
      [] name = "stack_started"  -> "running"
      [] name = "stack_stopping" -> "stopping"
      [] name = "stack_stopped"  -> "stopped"
      [] OTHER                   -> shown

Receives ==
    /\ source = "open" /\ events[conn] # <<>>
    /\ LET e == Head(events[conn])
       IN  /\ shown' = ShownAfter(e.name)
           /\ Sees(e.version)
    /\ events' = [events EXCEPT ![conn] = Tail(@)]
    /\ UNCHANGED <<opVars, version, outbox, stop, clients, done, handler,
                   broken, source, conn, fetch>>

DashboardNext ==
    \/ \E o \in Ops : Accepts(o) \/ Works(o) \/ Broadcasts(o)
    \/ \E c \in Connections : Returns(c)
    \/ \E f \in Connections : Answers(f) \/ TakesAnswer(f)
    \/ StopSignals \/ StopSweeps
    \/ Connects \/ Opens \/ Breaks \/ Receives

\* The handlers run; the server need not stop, and no request need be made.
DashboardSpec ==
    /\ DashboardInit /\ [][DashboardNext]_dvars
    /\ WF_dvars(\E c \in Connections : Returns(c))

(***************************************************************************)
(* Properties.                                                             *)
(***************************************************************************)

\* A hub that stops is left by every connection, those that register while
\* or after it sweeps its clients too: the shutdown of the HTTP server waits
\* for them (sse.go:94-104, 128-140, server.go:169-191).
ConnectionsAreLetGo ==
    stop # "no" ~> \A c \in Connections : handler[c] # "serves"

Settling ==
    \/ \E o \in Ops : outbox[o] # <<>>
    \/ source # "open" \/ events[conn] # <<>>
    \/ \E f \in Connections : fetch[f].at \in {"asked", "answered"}

\* Once nothing is under way any more, a page shows what the server reports,
\* but for a failure, the end of a restart, a status that it handled after a
\* newer one, and an event or answer that was lost with none after it
\* (Dashboard.tsx:245-291, 315-476 against the writes of api_stack.go).
SettledPageIsRight ==
    /\ DashboardTypeOK
    /\ ~Settling /\ misled = {} /\ stop = "no" => shown = Reported
=============================================================================
