---------------------------- MODULE CommandCenter ----------------------------
(***************************************************************************)
(* The live part of the command-center server for one stack (pkg/cc:       *)
(* stack_context.go, server.go; pkg/tui: logs.go, health.go): log          *)
(* streams, the health monitor, the loop that broadcasts what they send,   *)
(* and their shutdown.                                                     *)
(***************************************************************************)
EXTENDS Naturals, FiniteSets

CONSTANTS
    Names,      \* the services of the stack
    Streams,    \* bound: the log streams there are at a time
    MaxLines,   \* the buffer of LogStreamer.output (10000 in the code)
    None

ASSUME CommandCenterAssumption ==
    /\ MaxLines \in Nat \ {0}
    /\ None \notin Streams /\ None \notin Names

VARIABLES
    containers,\* the services whose logs Docker has; the others have a file
    running,   \* the services that run
    ctx,       \* the context of the command has not been cancelled
    entry,     \* LogStreamer.services
    of,        \* the service of a stream
    stream,    \* where the goroutine of a stream is
    child,     \* the streams whose tail or docker logs runs
    cut,       \* the streams whose context was cancelled
    lines,     \* the lines in LogStreamer.output
    open,      \* the channels that are not closed: "output", "health"
    monitor,   \* where the goroutine of the health monitor is
    watched,   \* the context of the monitor has not been cancelled
    loop,      \* where broadcastLoop is
    todo,      \* the services it still has to stop or to start following
    seen,      \* the services GetServices reported to it
    server,    \* where Server.Stop is
    crashed,   \* a goroutine panicked
    detached   \* auxiliary: an entry was removed whose goroutine had not ended

logVars == <<entry, of, stream, child, cut, lines, detached>>
healthVars == <<monitor, watched>>
loopVars == <<loop, todo, seen>>
centerVars ==
    <<containers, running, ctx, logVars, open, healthVars, loopVars, server, crashed>>

\* The goroutine of a stream has not left its entry yet.
Live == {s \in Streams : stream[s] \in {"reads", "sends", "ends"}}

\* The steps of Server.Stop, in their order.
Stopping == {"health", "channel", "logs", "output",
             "shutdown", "wait", "stopped", "failed"}

\* Values of every variable, and the buffer of the log channel.
CenterTypeOK ==
    /\ containers \in SUBSET Names /\ running \in SUBSET Names
    /\ ctx \in BOOLEAN
    /\ entry \in [Names -> Streams \cup {None}]
    /\ of \in [Streams -> Names \cup {None}]
    /\ stream \in [Streams -> {"gone", "reads", "sends", "ends", "closes"}]
    /\ child \in SUBSET Streams /\ cut \in SUBSET Streams
    /\ lines \in 0 .. MaxLines
    /\ open \in SUBSET {"output", "health"}
    /\ monitor \in {"ticks", "gone"} /\ watched \in BOOLEAN
    /\ loop \in {"selects", "stops", "starts", "gone"}
    /\ todo \in SUBSET Names /\ seen \in SUBSET Names
    /\ server \in Stopping \cup {"serves"}
    /\ crashed \in BOOLEAN /\ detached \in BOOLEAN

\* Server.Start has started the monitor and the loop.
CenterInit ==
    /\ containers \in SUBSET Names /\ running \in SUBSET Names /\ ctx = TRUE
    /\ entry = [n \in Names |-> None] /\ of = [s \in Streams |-> None]
    /\ stream = [s \in Streams |-> "gone"] /\ child = {} /\ cut = {}
    /\ lines = 0 /\ open = {"output", "health"}
    /\ monitor = "ticks" /\ watched = TRUE
    /\ loop = "selects" /\ todo = {} /\ seen = {}
    /\ server = "serves" /\ crashed = FALSE /\ detached = FALSE

\* A send on a closed channel takes the whole process down.
Panics == crashed' = TRUE

(***************************************************************************)
(* The services, external; a container's end ends its docker logs.  Bound: *)
(* they stay as they are while the server shuts down.                      *)
(***************************************************************************)

ServiceStarts(n) ==
    /\ ctx /\ n \notin running /\ running' = running \cup {n}
    /\ UNCHANGED <<containers, ctx, logVars, open, healthVars, loopVars, server,
                   crashed>>

ServiceStops(n) ==
    /\ ctx /\ n \in running /\ running' = running \ {n}
    /\ child' = IF n \in containers
                THEN {s \in child : of[s] # n} ELSE child
    /\ UNCHANGED <<containers, ctx, entry, of, stream, cut, lines, detached, open,
                   healthVars, loopVars, server, crashed>>

\* tail or docker logs ends by itself, or is killed.
ChildEnds(s) ==
    /\ s \in child /\ child' = child \ {s}
    /\ UNCHANGED <<containers, running, ctx, entry, of, stream, cut, lines,
                   detached, open, healthVars, loopVars, server, crashed>>

(***************************************************************************)
(* Log streams.                                                            *)
(***************************************************************************)

Follow(n, s) ==
    /\ stream[s] = "gone"
    /\ entry' = [entry EXCEPT ![n] = s]
    /\ of' = [of EXCEPT ![s] = n]
    /\ stream' = [stream EXCEPT ![s] = "reads"]
    /\ child' = child \cup {s}
    /\ UNCHANGED cut

\* Mutation of Kept: a stream is started whether there is one or not.
KeptNever(n) == FALSE

\* An entry is kept, unless it is that of a container and the goroutine has
\* closed its done channel.
Kept(n) ==
    entry[n] # None /\ (n \in containers => stream[entry[n]] # "gone")

\* Start and StartDocker, under the mutex; with all streams of the bound in
\* use nothing is started.
StartFollowing(n) ==
    IF Kept(n) \/ \A s \in Streams : stream[s] # "gone"
    THEN UNCHANGED logVars
    ELSE /\ \E s \in Streams :
               /\ \A u \in Streams : stream[u] = "gone" => s = u \/ stream[s] = "gone"
               /\ Follow(n, s)
         /\ UNCHANGED <<lines, detached>>

\* StopService cancels the stream and forgets it; its goroutine will notice.
StopService(n) ==
    IF entry[n] = None THEN UNCHANGED logVars
    ELSE /\ cut' = cut \cup ({entry[n]} \cap Live) /\ child' = child \ {entry[n]}
         /\ detached' = (detached \/ entry[n] \in Live)
         /\ entry' = [entry EXCEPT ![n] = None]
         /\ UNCHANGED <<of, stream, lines>>

\* The scanner has a line, or the end of the pipe.
Reads(s) ==
    /\ stream[s] = "reads"
    /\ \/ s \in child /\ stream' = [stream EXCEPT ![s] = "sends"]
       \/ s \notin child /\ stream' = [stream EXCEPT ![s] = "ends"]
    /\ UNCHANGED <<containers, running, ctx, entry, of, child, cut, lines, detached, open,
                   healthVars, loopVars, server, crashed>>

\* The line is sent when there is room, or the stream was cancelled; when
\* the channel is closed the send panics.
Sends(s) ==
    /\ stream[s] = "sends"
    /\ \/ /\ "output" \in open /\ lines < MaxLines
          /\ stream' = [stream EXCEPT ![s] = "reads"] /\ lines' = lines + 1
          /\ UNCHANGED crashed
       \/ /\ s \in cut
          /\ stream' = [stream EXCEPT ![s] = "ends"]
          /\ UNCHANGED <<lines, crashed>>
       \/ "output" \notin open /\ Panics /\ UNCHANGED <<stream, lines>>
    /\ UNCHANGED <<containers, running, ctx, entry, of, child, cut, detached, open,
                   healthVars, loopVars, server>>

\* Mutation of Forgets: a stream that ends closes the channel of all.
ForgetsAll(s) ==
    /\ stream[s] = "ends"
    /\ entry' = [entry EXCEPT ![of[s]] = None]
    /\ stream' = [stream EXCEPT ![s] = "gone"]
    /\ child' = child \ {s} /\ cut' = cut \ {s}
    /\ of' = [of EXCEPT ![s] = None]
    /\ open' = open \ {"output"}
    /\ UNCHANGED <<containers, running, ctx, lines, detached, healthVars, loopVars,
                   server, crashed>>

\* Mutation of Forgets: the entry stays.
ForgetsNothing(s) ==
    /\ stream[s] = "ends"
    /\ stream' = [stream EXCEPT ![s] =
                     IF of[s] \in containers THEN "closes" ELSE "gone"]
    /\ child' = child \ {s} /\ cut' = cut \ {s}
    /\ of' = [of EXCEPT ![s] = None]
    /\ UNCHANGED <<containers, running, ctx, entry, detached, lines, open,
                   healthVars, loopVars, server, crashed>>

\* The goroutine removes the entry of its service, whichever stream it holds
\* by now; that of a container closes its done channel after that.
Forgets(s) ==
    /\ stream[s] = "ends"
    /\ entry' = [entry EXCEPT ![of[s]] = None]
    /\ stream' = [stream EXCEPT ![s] =
                     IF of[s] \in containers THEN "closes" ELSE "gone"]
    /\ child' = child \ {s} /\ cut' = cut \ {s}
    /\ of' = [of EXCEPT ![s] = None]
    /\ detached' = (detached \/ entry[of[s]] \notin {s, None})
    /\ UNCHANGED <<containers, running, ctx, lines, open, healthVars, loopVars,
                   server, crashed>>

ClosesDone(s) ==
    /\ stream[s] = "closes"
    /\ stream' = [stream EXCEPT ![s] = "gone"]
    /\ UNCHANGED <<containers, running, ctx, entry, of, child, cut, lines, detached, open,
                   healthVars, loopVars, server, crashed>>

(***************************************************************************)
(* The health monitor.                                                     *)
(***************************************************************************)

\* A tick, which select may pick although the context has ended, and the
\* check of every service over the network that follows it; then the result
\* is sent, or dropped if nobody took the last ones: nothing of this state
\* changes unless the channel was closed meanwhile.
Checks ==
    /\ monitor = "ticks" /\ "health" \notin open
    /\ Panics
    /\ UNCHANGED <<containers, running, ctx, logVars, open, healthVars, loopVars,
                   server>>

MonitorEnds ==
    /\ monitor = "ticks" /\ ~watched
    /\ monitor' = "gone"
    /\ UNCHANGED <<containers, running, ctx, logVars, open, watched, loopVars,
                   server, crashed>>

(***************************************************************************)
(* broadcastLoop.                                                          *)
(***************************************************************************)

\* Mutation of LoopEnds: it ends when no stream is left.
LoopEndsLast ==
    /\ loop = "selects" /\ ~ctx /\ running = {} /\ Live = {}
    /\ loop' = "gone"
    /\ UNCHANGED <<containers, running, ctx, logVars, open, healthVars, todo, seen,
                   server, crashed>>

\* It ends with the context, or when a channel it reads is closed.
LoopEnds ==
    /\ loop = "selects"
    /\ ~ctx \/ "health" \notin open \/ ("output" \notin open /\ lines = 0)
    /\ loop' = "gone"
    /\ UNCHANGED <<containers, running, ctx, logVars, open, healthVars, todo, seen,
                   server, crashed>>

LoopTakesLine ==
    /\ loop = "selects" /\ lines > 0
    /\ lines' = lines - 1
    /\ UNCHANGED <<containers, running, ctx, entry, of, stream, child, cut, detached, open,
                   healthVars, loopVars, server, crashed>>

\* Every two seconds the services and the streams are compared.
LoopTicks ==
    /\ loop = "selects"
    /\ seen' = running
    /\ todo' = {n \in Names : entry[n] # None} \ running
    /\ loop' = "stops"
    /\ UNCHANGED <<containers, running, ctx, logVars, open, healthVars, server,
                   crashed>>

LoopStops ==
    /\ loop = "stops"
    /\ IF todo = {}
       THEN loop' = "starts" /\ todo' = seen /\ seen' = {} /\ UNCHANGED logVars
       ELSE \E n \in todo :
               StopService(n) /\ todo' = todo \ {n} /\ UNCHANGED <<loop, seen>>
    /\ UNCHANGED <<containers, running, ctx, open, healthVars, server, crashed>>

LoopStarts ==
    /\ loop = "starts"
    /\ IF todo = {}
       THEN loop' = "selects" /\ UNCHANGED <<todo, logVars>>
       ELSE \E n \in todo :
               StartFollowing(n) /\ todo' = todo \ {n} /\ UNCHANGED loop
    /\ UNCHANGED <<containers, running, ctx, open, healthVars, seen, server,
                   crashed>>

(***************************************************************************)
(* Server.Stop, one step after the other.                                  *)
(***************************************************************************)

Interrupted ==
    /\ server = "serves" /\ ctx
    /\ ctx' = FALSE /\ server' = "health"
    /\ UNCHANGED <<containers, running, logVars, open, healthVars, loopVars, crashed>>

StopsMonitor ==
    /\ server = "health"
    /\ watched' = FALSE /\ server' = "channel"
    /\ UNCHANGED <<containers, running, ctx, logVars, open, monitor, loopVars,
                   crashed>>

ClosesHealth ==
    /\ server = "channel"
    /\ open' = open \ {"health"} /\ server' = "logs"
    /\ UNCHANGED <<containers, running, ctx, logVars, healthVars, loopVars, crashed>>

StopsStreams ==
    /\ server = "logs"
    /\ LET kept == {entry[n] : n \in Names} \ {None}
       IN /\ cut' = cut \cup (kept \cap Live) /\ child' = child \ kept
          /\ detached' = (detached \/ kept \cap Live # {})
    /\ entry' = [n \in Names |-> None]
    /\ server' = "output"
    /\ UNCHANGED <<containers, running, ctx, of, stream, lines, open, healthVars, loopVars, crashed>>

ClosesOutput ==
    /\ server = "output"
    /\ open' = open \ {"output"} /\ server' = "shutdown"
    /\ UNCHANGED <<containers, running, ctx, logVars, healthVars, loopVars, crashed>>

\* The HTTP server waits for its handlers, for five seconds.
Shutdown ==
    /\ server = "shutdown"
    /\ server' \in {"wait", "failed"}
    /\ UNCHANGED <<containers, running, ctx, logVars, open, healthVars, loopVars,
                   crashed>>

WaitsForLoop ==
    /\ server = "wait" /\ loop = "gone"
    /\ server' = "stopped"
    /\ UNCHANGED <<containers, running, ctx, logVars, open, healthVars, loopVars,
                   crashed>>

Stop == \/ StopsMonitor \/ ClosesHealth
        \/ StopsStreams \/ ClosesOutput \/ Shutdown \/ WaitsForLoop

Stream(s) == Reads(s) \/ Sends(s) \/ Forgets(s) \/ ClosesDone(s)
Compares == LoopStops \/ LoopStarts

\* A panic, and the return of the command, end every goroutine.
Ended == crashed \/ server \in {"stopped", "failed"}

CenterNext ==
    /\ ~Ended
    /\ \/ \E n \in Names : ServiceStarts(n) \/ ServiceStops(n)
       \/ \E s \in Streams : Stream(s) \/ ChildEnds(s)
       \/ Checks \/ MonitorEnds
       \/ LoopTicks \/ Compares \/ LoopTakesLine \/ LoopEnds
       \/ Interrupted \/ Stop

CenterSpec == CenterInit /\ [][CenterNext]_centerVars

\* Goroutines run, and select picks every channel that stays ready.
CenterFairSpec ==
    /\ CenterSpec
    /\ \A s \in Streams : SF_centerVars(~Ended /\ Stream(s))
    /\ SF_centerVars(~Ended /\ LoopTicks) /\ SF_centerVars(~Ended /\ LoopTakesLine)
    /\ SF_centerVars(~Ended /\ LoopEnds)
    /\ WF_centerVars(~Ended /\ Compares) /\ WF_centerVars(~Ended /\ Stop)

(***************************************************************************)
(* Properties.                                                             *)
(***************************************************************************)

\* A channel is closed under its senders only when the server stops: until
\* then no goroutine of a stream or of the monitor panics (logs.go:203,
\* health.go:56).
CrashesOnlyWhenStopping == CenterTypeOK /\ (crashed => server \in Stopping)

\* Every stream that runs can be found and stopped, and no service has two,
\* as long as no stream was stopped whose goroutine was still at work; the
\* goroutine removes the entry by the name of the service, so from then on an
\* entry may be removed by the stream before (logs.go:156, 264).
StreamsAreTracked ==
    ~detached => \A s \in Live : entry[of[s]] = s

\* A service that keeps running is followed, whatever happened to the streams
\* before (startLogStreaming, StartDocker, the removal of ended streams).
RunningIsFollowed ==
    \A n \in Names :
        (n \in running /\ server = "serves") ~>
            \/ n \notin running \/ server # "serves"
            \/ \E s \in child : of[s] = n

\* The command returns after Ctrl-C, or the process has panicked.
ServerStops == ~ctx ~> Ended
=============================================================================
