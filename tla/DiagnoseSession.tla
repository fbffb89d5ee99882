--------------------------- MODULE DiagnoseSession ---------------------------
(***************************************************************************)
(* One AI diagnosis session of the command center (pkg/cc/api_diagnose.go) *)
(* and the command-line process it talks to (pkg/ai).  The requests of the *)
(* dashboard start turns, interrupt them and close the session; each turn  *)
(* is a goroutine, and one more goroutine carries what the process prints  *)
(* through a bounded channel to the turn that is reading.                  *)
(***************************************************************************)
EXTENDS Naturals, Sequences, FiniteSets

CONSTANTS
    MaxTurns,        \* bound: the turns a session is asked for
    MaxInterrupts,   \* bound: the interrupts it is asked for
    Capacity         \* the buffer of claudeSession.messages (64 in the code)

ASSUME SessionAssumption ==
    MaxTurns \in Nat /\ MaxInterrupts \in Nat /\ Capacity \in Nat \ {0}

Turns == 1 .. MaxTurns

\* Nobody holds runMu; the process works on nothing; there is no message.
NoTurn == 0
Nothing == [turn |-> NoTurn, kind |-> "none"]

\* A line for the process, and a message of it.  "delta" is a part of an
\* answer, "assistant" a whole text of it, "ok" and "err" a result with and
\* without a text; "broken" is a line that cannot be read.
Lines == {[kind |-> "prompt", turn |-> t] : t \in Turns} \cup
         {[kind |-> "interrupt", turn |-> NoTurn]}
Messages == [turn : Turns, kind : {"delta", "assistant", "ok", "err"}] \cup
            {[turn |-> NoTurn, kind |-> "broken"]}

VARIABLES
    stored,       \* the session is in apiHandler.diagnoseSessions
    closed,       \* claudeSession.closed
    closing,      \* the request that closes the session: "no", "waits", "done"
    runMu,        \* the turn that holds diagnoseSession.runMu
    interrupted,  \* diagnoseSession.interrupted
    at,           \* where the goroutine of a turn is
    gathered,     \* the turns whose text askStreamState has
    streaming,    \* askStreamState.streamChars > 0
    outcome,      \* what a turn ended with, and of which turns its text is
    signals,      \* interrupts: how many were made, and one about to be sent
    stdin,        \* the lines the process has not read
    prompts,      \* the prompts the process has read and not answered
    cli,          \* the turn the process works on, NoTurn when idle
    alive,        \* the process runs
    said,         \* what it has said of the turn it works on
    hand,         \* the message the goroutine of readStdout holds
    reader,       \* that goroutine: "reads", "fails", "done" (channel closed)
    messages,     \* the channel claudeSession.messages
    gaveUp,       \* auxiliary: the turns that timed out
    streamed      \* auxiliary: how often the answer to a turn was streamed

turnVars == <<runMu, at, gathered, streaming, outcome, gaveUp, streamed>>
cliVars == <<prompts, cli, alive, said>>
readerVars == <<hand, reader, messages>>
sessionVars == <<stored, closed, closing, interrupted, signals, stdin, turnVars,
                cliVars, readerVars>>

Outcomes == [kind : {"none", "result", "error", "silent"}, of : SUBSET Turns]
NoOutcome == [kind |-> "none", of |-> {}]

\* Values of every variable, and the buffer of the channel.
SessionTypeOK ==
    /\ stored \in BOOLEAN /\ closed \in BOOLEAN /\ interrupted \in BOOLEAN
    /\ closing \in {"no", "waits", "done"}
    /\ runMu \in Turns \cup {NoTurn} /\ cli \in Turns \cup {NoTurn}
    /\ at \in [Turns -> {"none", "lock", "ask", "stream", "report", "done"}]
    /\ gathered \in [Turns -> SUBSET Turns] /\ streaming \in [Turns -> BOOLEAN]
    /\ outcome \in [Turns -> Outcomes]
    /\ signals \in [made : 0 .. MaxInterrupts, sending : BOOLEAN]
    /\ stdin \in Seq(Lines) /\ prompts \in Seq(Turns)
    /\ alive \in BOOLEAN /\ said \in SUBSET {"delta", "assistant", "cut"}
    /\ hand \in Messages \cup {Nothing}
    /\ reader \in {"reads", "fails", "done"}
    /\ messages \in Seq(Messages) /\ Len(messages) <= Capacity
    /\ gaveUp \in SUBSET Turns
    /\ streamed \in [Turns -> 0 .. 2]

\* A process that has just been started, and the goroutine that reads it.
ProcessRuns ==
    alive = TRUE /\ cli = NoTurn /\ said = {} /\ stdin = <<>> /\ prompts = <<>>
ReaderRuns == messages = <<>> /\ hand = Nothing /\ reader = "reads"

\* handlePostDiagnoseStart has started the process and stored the session;
\* the goroutine of the first turn is about to run.
SessionInit ==
    /\ ProcessRuns /\ ReaderRuns
    /\ stored = TRUE /\ closed = FALSE /\ closing = "no" /\ interrupted = FALSE
    /\ runMu = NoTurn
    /\ at = [t \in Turns |-> IF t = 1 THEN "lock" ELSE "none"]
    /\ gathered = [t \in Turns |-> {}] /\ streaming = [t \in Turns |-> FALSE]
    /\ outcome = [t \in Turns |-> NoOutcome]
    /\ signals = [made |-> 0, sending |-> FALSE]
    /\ gaveUp = {} /\ streamed = [t \in Turns |-> 0]

TurnGoes(t, label) == at' = [at EXCEPT ![t] = label]

(***************************************************************************)
(* The requests of the dashboard.                                          *)
(***************************************************************************)

\* A follow-up question; its turn starts whatever the others are doing.
PostMessage(t) ==
    /\ stored
    /\ at[t] = "none" /\ \A u \in 1 .. (t - 1) : at[u] # "none"
    /\ TurnGoes(t, "lock")
    /\ UNCHANGED <<stored, closed, closing, interrupted, signals, stdin,
                   runMu, gathered, streaming, outcome, gaveUp, streamed,
                   cliVars, readerVars>>

\* An interrupt marks the session first.
PostInterrupt ==
    /\ stored /\ ~signals.sending /\ signals.made < MaxInterrupts
    /\ interrupted' = TRUE
    /\ signals' = [made |-> signals.made + 1, sending |-> TRUE]
    /\ UNCHANGED <<stored, closed, closing, stdin, turnVars, cliVars, readerVars>>

\* It then writes to the process, unless the session is closed; a write to a
\* process that is gone fails.
Interrupt ==
    /\ signals.sending
    /\ signals' = [signals EXCEPT !.sending = FALSE]
    /\ stdin' = IF closed \/ ~alive THEN stdin
                ELSE Append(stdin, [kind |-> "interrupt", turn |-> NoTurn])
    /\ UNCHANGED <<stored, closed, closing, interrupted, turnVars, cliVars,
                   readerVars>>

\* Mutation of Close: the process is not killed.
CloseSparing ==
    /\ stored
    /\ stored' = FALSE /\ closed' = TRUE /\ closing' = "waits"
    /\ UNCHANGED <<interrupted, signals, stdin, turnVars, cliVars,
                   readerVars>>

\* DELETE of the session, or the shutdown of the server, takes the session
\* out of the map, closes the input of the process and kills it.
Close ==
    /\ stored
    /\ stored' = FALSE /\ closed' = TRUE /\ closing' = "waits"
    /\ alive' = FALSE
    /\ UNCHANGED <<interrupted, signals, stdin, turnVars, prompts, cli,
                   said, readerVars>>

\* It waits for the goroutine that reads, then for the process.
CloseEnds ==
    /\ closing = "waits" /\ reader = "done" /\ ~alive
    /\ closing' = "done"
    /\ UNCHANGED <<stored, closed, interrupted, signals, stdin, turnVars,
                   cliVars, readerVars>>

(***************************************************************************)
(* The goroutine of a turn, runDiagnoseTurn.                               *)
(***************************************************************************)

Starts(t) ==
    /\ at[t] = "lock"
    /\ TurnGoes(t, "ask")
    /\ UNCHANGED <<stored, closed, closing, signals, stdin, gathered,
                   streaming, outcome, gaveUp, streamed, cliVars, readerVars>>

\* One turn at a time, and no interrupt of before counts.
Locks(t) ==
    /\ runMu = NoTurn
    /\ Starts(t) /\ runMu' = t /\ interrupted' = FALSE

Ends(t, kind, texts) ==
    /\ TurnGoes(t, "report")
    /\ outcome' = [outcome EXCEPT ![t] = [kind |-> kind, of |-> texts]]

\* AskStream writes the prompt, unless the session is closed.
Asks(t) ==
    /\ at[t] = "ask"
    /\ IF closed \/ ~alive
       THEN Ends(t, "error", {}) /\ UNCHANGED stdin
       ELSE /\ stdin' = Append(stdin, [kind |-> "prompt", turn |-> t])
            /\ TurnGoes(t, "stream") /\ UNCHANGED outcome
    /\ UNCHANGED <<stored, closed, closing, interrupted, signals, runMu,
                   gathered, streaming, gaveUp, streamed, cliVars, readerVars>>

\* The texts a turn has are its answer, if it has any (bestOutput).
Answers(t) ==
    Ends(t, IF gathered[t] = {} THEN "error" ELSE "result", gathered[t])

\* Mutation of Shows: a whole text is streamed after its parts, too.
ShowsTwice(t, m) == TRUE

\* What is passed on to the dashboard: parts of an answer, and a whole text
\* only if there were no parts.
Shows(t, m) == m.kind = "delta" \/ ~streaming[t]

\* A part or a whole text of an answer is gathered, and shown.
Gathers(t, m) ==
    /\ m.kind \in {"delta", "assistant"}
    /\ gathered' = [gathered EXCEPT ![t] = @ \cup {m.turn}]
    /\ streaming' = [streaming EXCEPT ![t] = @ \/ m.kind = "delta"]
    /\ streamed' = IF Shows(t, m) /\ streamed[m.turn] < 2
                   THEN [streamed EXCEPT ![m.turn] = @ + 1] ELSE streamed
    /\ UNCHANGED <<at, outcome>>

\* Mutation of Concludes: a whole text of the answer ends the turn, too.
ConcludesAtText(t, m) ==
    /\ \/ m.kind \in {"ok", "assistant"} /\ Ends(t, "result", {m.turn})
       \/ m.kind = "err" /\ Answers(t)
       \/ m.kind = "broken" /\ Ends(t, "error", {})
    /\ UNCHANGED <<gathered, streaming, streamed>>

\* A result ends the turn, with its text or with what was gathered.
Concludes(t, m) ==
    /\ \/ m.kind = "ok" /\ Ends(t, "result", {m.turn})
       \/ m.kind = "err" /\ Answers(t)
       \/ m.kind = "broken" /\ Ends(t, "error", {})
    /\ UNCHANGED <<gathered, streaming, streamed>>

\* Whatever comes out of the channel belongs to the turn that reads it.
Receives(t) ==
    /\ at[t] = "stream" /\ messages # <<>>
    /\ messages' = Tail(messages)
    /\ Gathers(t, Head(messages)) \/ Concludes(t, Head(messages))
    /\ UNCHANGED <<stored, closed, closing, interrupted, signals, stdin,
                   runMu, gaveUp, cliVars, hand, reader>>

\* The channel is closed when the process has ended.
ReceivesEnd(t) ==
    /\ at[t] = "stream" /\ messages = <<>> /\ reader = "done"
    /\ Answers(t)
    /\ UNCHANGED <<stored, closed, closing, interrupted, signals, stdin,
                   runMu, gathered, streaming, gaveUp, streamed, cliVars,
                   readerVars>>

\* Mutation of TimesOut: a turn has no time limit.
TimesOutNever(t) == FALSE /\ UNCHANGED sessionVars

\* Half an hour passes; nobody tells the process.
TimesOut(t) ==
    /\ at[t] = "stream"
    /\ Ends(t, "error", {})
    /\ gaveUp' = gaveUp \cup {t}
    /\ UNCHANGED <<stored, closed, closing, interrupted, signals, stdin,
                   runMu, gathered, streaming, streamed, cliVars, readerVars>>

\* The result or the error is broadcast; the error of an interrupted turn is
\* not.  Then the next turn may run.
Reports(t) ==
    /\ at[t] = "report"
    /\ outcome' = IF outcome[t].kind = "error" /\ interrupted
                  THEN [outcome EXCEPT ![t].kind = "silent"] ELSE outcome
    /\ runMu' = NoTurn
    /\ TurnGoes(t, "done")
    /\ UNCHANGED <<stored, closed, closing, interrupted, signals, stdin,
                   gathered, streaming, gaveUp, streamed, cliVars, readerVars>>

(***************************************************************************)
(* The process (external), and the goroutine that reads what it prints.    *)
(***************************************************************************)

\* Lines are read in order: a prompt waits its turn, an interrupt cuts short
\* what the process is doing, if it is doing anything.
CliReads ==
    /\ alive /\ stdin # <<>>
    /\ stdin' = Tail(stdin)
    /\ IF Head(stdin).kind = "prompt"
       THEN prompts' = Append(prompts, Head(stdin).turn) /\ UNCHANGED said
       ELSE /\ said' = IF cli = NoTurn THEN said ELSE said \cup {"cut"}
            /\ UNCHANGED prompts
    /\ UNCHANGED <<stored, closed, closing, interrupted, signals, turnVars,
                   cli, alive, readerVars>>

CliStarts ==
    /\ alive /\ cli = NoTurn /\ prompts # <<>>
    /\ cli' = Head(prompts) /\ prompts' = Tail(prompts) /\ said' = {}
    /\ UNCHANGED <<stored, closed, closing, interrupted, signals, stdin,
                   turnVars, alive, readerVars>>

\* A turn of the process: parts of the answer, then its text, then a result.
CliSays ==
    /\ alive /\ cli # NoTurn /\ hand = Nothing /\ reader = "reads"
    /\ \E kind \in {"delta", "assistant", "ok", "err"} :
          /\ kind \in {"delta", "assistant"} =>
                kind \notin said /\ said \subseteq {"delta"}
          /\ kind = "ok" => "cut" \notin said
          /\ hand' = [turn |-> cli, kind |-> kind]
          /\ IF kind \in {"ok", "err"}
             THEN cli' = NoTurn /\ said' = {}
             ELSE said' = said \cup {kind} /\ UNCHANGED cli
    /\ UNCHANGED <<stored, closed, closing, interrupted, signals, stdin,
                   turnVars, prompts, alive, reader, messages>>

CliExits ==
    /\ alive
    /\ alive' = FALSE
    /\ UNCHANGED <<stored, closed, closing, interrupted, signals, stdin,
                   turnVars, prompts, cli, said, readerVars>>

\* A line that is too long ends the reading.
ReaderFails ==
    /\ reader = "reads" /\ hand = Nothing /\ alive
    /\ reader' = "fails"
    /\ hand' = [turn |-> NoTurn, kind |-> "broken"]
    /\ UNCHANGED <<stored, closed, closing, interrupted, signals, stdin,
                   turnVars, cliVars, messages>>

\* readStdout waits while the channel is full.
ReaderSends ==
    /\ hand # Nothing /\ Len(messages) < Capacity
    /\ messages' = Append(messages, hand)
    /\ hand' = Nothing
    /\ reader' = IF reader = "fails" THEN "done" ELSE reader
    /\ UNCHANGED <<stored, closed, closing, interrupted, signals, stdin,
                   turnVars, cliVars>>

ReaderEnds ==
    /\ reader = "reads" /\ hand = Nothing /\ ~alive
    /\ reader' = "done"
    /\ UNCHANGED <<stored, closed, closing, interrupted, signals, stdin,
                   turnVars, cliVars, hand, messages>>

Turn(t) == Asks(t) \/ Receives(t) \/ ReceivesEnd(t) \/ Reports(t)

Reader == ReaderSends \/ ReaderEnds

SessionNext ==
    \/ PostInterrupt \/ Interrupt \/ Close \/ CloseEnds
    \/ CliReads \/ CliStarts \/ CliSays \/ CliExits
    \/ Reader \/ ReaderFails
    \/ \E t \in Turns : PostMessage(t) \/ Locks(t) \/ Turn(t) \/ TimesOut(t)

SessionSpec == SessionInit /\ [][SessionNext]_sessionVars

\* Goroutines run, timers fire, and a mutex that keeps being free is given to
\* everyone who waits (the starvation mode of sync.Mutex).  Nothing is
\* assumed of the process.
SessionFairSpec ==
    /\ SessionSpec
    /\ WF_sessionVars(Reader) /\ WF_sessionVars(CloseEnds)
    /\ \A t \in Turns :
          /\ WF_sessionVars(Turn(t)) /\ SF_sessionVars(Locks(t))
          /\ WF_sessionVars(TimesOut(t))

(***************************************************************************)
(* Properties.                                                             *)
(***************************************************************************)

\* As long as no turn was given up, the result a turn reports answers its own
\* question, although the messages carry no sign of theirs: turns exclude
\* each other, and each leaves the channel as it found it (runMu,
\* api_diagnose.go:381; the loop of claude.go:337-367).
AnswersAreOwn ==
    /\ SessionTypeOK
    /\ gaveUp = {} =>
        \A t \in Turns : outcome[t].kind = "result" => outcome[t].of = {t}

\* An answer is shown once, from its parts or from its text
\* (claude_stream.go:102-134).
AnswersAreShownOnce ==
    gaveUp = {} => \A t \in Turns : streamed[t] <= 1

\* Closing a session returns, also while a turn is running and the channel is
\* full, as long as no turn was given up (Close, claude.go:393-423; with a
\* turn given up nobody may be left to empty the channel for readStdout, 293).
CloseReturns == closing = "waits" ~> (closing = "done" \/ gaveUp # {})

\* Every turn that was accepted ends, whatever the process does
\* (runDiagnoseTurn, AskStream).
TurnsReturn == \A t \in Turns : at[t] = "lock" ~> at[t] = "done"
=============================================================================
