-------------------------- MODULE InferenceService --------------------------
(***************************************************************************)
(* services/inference_service.py with the part of routers/inference.py that*)
(* follows the rate limit: the slot (semaphore and active counter), the    *)
(* call to the engine, the stream to the client, the request metrics, the  *)
(* usage log, and the shutdown that waits for all of it (main.lifespan).   *)
(*                                                                         *)
(* One event loop runs every request, so an action is what a coroutine does*)
(* between two awaits.  A client of a stream can go away at any await; the *)
(* coroutine then sees CancelledError, or GeneratorExit at a yield.  A     *)
(* "json" request is not cancelled when its client goes away.              *)
(***************************************************************************)
EXTENDS Integers, Sequences, FiniteSets

CONSTANTS Requests,        \* identities of chat completion requests
          MaxConcurrent,   \* MAX_CONCURRENT_INFERENCE
          MaxChunks,       \* bound on the tokens counted chunk by chunk
          Reported         \* token totals the engine may report

ASSUME ServiceAssumption ==
    /\ IsFiniteSet(Requests)
    /\ MaxConcurrent \in Nat \ {0}
    /\ MaxChunks \in Nat
    /\ Reported \subseteq Nat

VARIABLES
    value,      \* _inference_semaphore._value
    active,     \* _active_inferences
    engine,     \* INFERENCE_ENGINE
    mode,       \* "stream" or "json"
    pc,         \* where each request stands
    tokens,     \* completion_tokens of the request, then the engine's report
    metrics,    \* statuses passed to _record_metrics, in order
    wire,       \* what the client has been sent
    pending,    \* usage rows handed to the shielded _do_log, not yet written
    usage,      \* rows of usage_logs, by request
    server,     \* "up", "stopping" or "exited"
    silent      \* history: requests whose engine outlasted the timeout

vars == <<value, active, engine, mode, pc, tokens, metrics, wire, pending, usage, server, silent>>

(***************************************************************************)
(*  new      not arrived                                                   *)
(*  slot     admitted by the limiter; a stream's 200 has been sent         *)
(*  engine   slot taken, the engine has been asked                         *)
(*  reading  stream: waiting for the engine's next line                    *)
(*  chunk    stream: suspended at the yield of a chunk                     *)
(*  last     stream: suspended at the yield of the chunk behind which the  *)
(*           loop breaks                                                   *)
(*  skipped  stream: bytes came that yield no chunk (a blank line, a       *)
(*           keep-alive, part of a line); the time limit starts afresh     *)
(*  closing  stream: slot released, suspended at the yield of [DONE]       *)
(*  logging  the usage log is being written                                *)
(*  end      nothing left to do                                            *)
(***************************************************************************)
Stages == {"new", "slot", "engine", "reading", "chunk", "last", "skipped", "closing",
           "logging", "end"}
Holding == {"engine", "reading", "chunk", "last", "skipped"}
Engines == {"ollama", "openai_compatible"}
Statuses == {"success", "timeout", "error", "cancelled"}
Wires == {"nothing", "started", "[DONE]", "truncated", "answer", "503", "504"}
Rows == [status : {"success", "cancelled"}, tokens : Nat]

Holders == {r \in Requests : pc[r] \in Holding}

Init ==
    /\ value = MaxConcurrent /\ active = 0
    /\ engine \in Engines
    /\ mode = [r \in Requests |-> "json"]
    /\ pc = [r \in Requests |-> "new"]
    /\ tokens = [r \in Requests |-> 0]
    /\ metrics = [r \in Requests |-> <<>>]
    /\ wire = [r \in Requests |-> "nothing"]
    /\ pending = [r \in Requests |-> {}]
    /\ usage = [r \in Requests |-> {}]
    /\ server = "up"
    /\ silent = {}

-----------------------------------------------------------------------------
Goto(r, stage) == pc' = [pc EXCEPT ![r] = stage]
Send(r, what) == wire' = [wire EXCEPT ![r] = what]

\* _record_metrics
Record(r, status) == metrics' = [metrics EXCEPT ![r] = Append(@, status)]

\* The finally of _inference_slot.  It contains no await: a cancellation
\* cannot come between its lines.
Release == value' = value + 1 /\ active' = active - 1

\* The row on_complete_callback(tokens) writes.
Row(n) == [status |-> IF n > 0 THEN "success" ELSE "cancelled", tokens |-> n]

Arrive(r, m) ==
    /\ pc[r] = "new" /\ server = "up"
    /\ mode' = [mode EXCEPT ![r] = m]
    /\ Goto(r, "slot")
    /\ Send(r, IF m = "stream" THEN "started" ELSE "nothing")
    /\ UNCHANGED <<value, active, engine, tokens, metrics, pending, usage, server, silent>>

\* (mutant) enters without looking at the semaphore
EnterSlotUnchecked(r) ==
    /\ pc[r] = "slot"
    /\ value' = value - 1
    /\ active' = active + 1
    /\ Goto(r, "engine")
    /\ UNCHANGED <<engine, mode, tokens, metrics, wire, pending, usage, server, silent>>

\* _inference_slot with a slot free: acquire returns without waiting.
EnterSlot(r) ==
    /\ pc[r] = "slot"
    /\ value > 0
    /\ value' = value - 1
    /\ active' = active + 1
    /\ Goto(r, "engine")
    /\ UNCHANGED <<engine, mode, tokens, metrics, wire, pending, usage, server, silent>>

\* (mutant) refuses while a slot is left
BusyEarly(r) ==
    /\ pc[r] = "slot"
    /\ value <= 1
    /\ Goto(r, "end")
    /\ Send(r, IF mode[r] = "stream" THEN "truncated" ELSE "503")
    /\ UNCHANGED <<value, active, engine, mode, tokens, metrics, pending, usage, server, silent>>

\* _inference_slot with sem.locked().  Nothing is recorded or logged, and a
\* stream, whose status line is out, can only be cut.
Busy(r) ==
    /\ pc[r] = "slot"
    /\ value = 0
    /\ Goto(r, "end")
    /\ Send(r, IF mode[r] = "stream" THEN "truncated" ELSE "503")
    /\ UNCHANGED <<value, active, engine, mode, tokens, metrics, pending, usage, server, silent>>

-----------------------------------------------------------------------------
\* asyncio.wait_for runs out.
JsonTimeout(r) ==
    /\ pc[r] = "engine" /\ mode[r] = "json"
    /\ Release
    /\ Record(r, "timeout")
    /\ Goto(r, "end")
    /\ Send(r, "504")
    /\ silent' = silent \cup {r}
    /\ UNCHANGED <<engine, mode, tokens, pending, usage, server>>

\* No connection, any other transport error, a status other than 200 or a body
\* that is not JSON: recorded once on each of these paths.
JsonError(r) ==
    /\ pc[r] = "engine" /\ mode[r] = "json"
    /\ Release
    /\ Record(r, "error")
    /\ Goto(r, "end")
    /\ Send(r, "503")
    /\ UNCHANGED <<engine, mode, tokens, pending, usage, server, silent>>

\* The engine answers with text: success is recorded, the response built.
JsonAnswer(r, n) ==
    /\ pc[r] = "engine" /\ mode[r] = "json"
    /\ Release
    /\ Record(r, "success")
    /\ tokens' = [tokens EXCEPT ![r] = n]
    /\ pending' = [pending EXCEPT ![r] = {[status |-> "success", tokens |-> n]}]
    /\ Goto(r, "logging")
    /\ UNCHANGED <<engine, mode, wire, usage, server, silent>>

\* The engine answers with an empty text.  Success is recorded before
\* ChatCompletionResponse refuses the text (min_length=1); the handler of that
\* exception records an error and answers 503.
JsonEmptyAnswer(r, n) ==
    /\ pc[r] = "engine" /\ mode[r] = "json"
    /\ Release
    /\ metrics' = [metrics EXCEPT ![r] = @ \o <<"success", "error">>]
    /\ Goto(r, "end")
    /\ Send(r, "503")
    /\ UNCHANGED <<engine, mode, tokens, pending, usage, server, silent>>

-----------------------------------------------------------------------------
\* The engine accepts the stream.
StreamOpen(r) ==
    /\ pc[r] = "engine" /\ mode[r] = "stream"
    /\ Goto(r, "reading")
    /\ UNCHANGED <<value, active, engine, mode, tokens, metrics, wire, pending, usage, server, silent>>

\* (mutant) the status check records, and so does the last handler
StreamErrorTwice(r) ==
    /\ pc[r] \in {"engine", "reading"} /\ mode[r] = "stream"
    /\ Release
    /\ metrics' = [metrics EXCEPT ![r] = @ \o <<"error", "error">>]
    /\ Goto(r, "end")
    /\ Send(r, "truncated")
    /\ UNCHANGED <<engine, mode, tokens, pending, usage, server, silent>>

\* No connection, a status other than 200, or an exception while reading.
StreamError(r) ==
    /\ pc[r] \in {"engine", "reading"} /\ mode[r] = "stream"
    /\ Release
    /\ Record(r, "error")
    /\ Goto(r, "end")
    /\ Send(r, "truncated")
    /\ UNCHANGED <<engine, mode, tokens, pending, usage, server, silent>>

\* (mutant) a time limit for the connection alone
StreamTimeoutConnecting(r) ==
    /\ pc[r] = "engine" /\ mode[r] = "stream"
    /\ Release
    /\ Record(r, "error")
    /\ Goto(r, "end")
    /\ Send(r, "truncated")
    /\ silent' = silent \cup {r}
    /\ UNCHANGED <<engine, mode, tokens, pending, usage, server>>

\* The engine is silent for INFERENCE_TIMEOUT_SECONDS.  httpx raises its own
\* ReadTimeout, which no asyncio.TimeoutError clause catches: it reaches the
\* last handler, which records an error.
StreamTimeout(r) ==
    /\ pc[r] \in {"engine", "reading"} /\ mode[r] = "stream"
    /\ Release
    /\ Record(r, "error")
    /\ Goto(r, "end")
    /\ Send(r, "truncated")
    /\ silent' = silent \cup {r}
    /\ UNCHANGED <<engine, mode, tokens, pending, usage, server>>

\* A chunk with text is counted, one without (role, finish reason) is not.
StreamChunk(r) ==
    /\ pc[r] = "reading"
    /\ \/ tokens[r] < MaxChunks /\ tokens' = [tokens EXCEPT ![r] = @ + 1]
       \/ UNCHANGED tokens
    /\ Goto(r, "chunk")
    /\ UNCHANGED <<value, active, engine, mode, metrics, wire, pending, usage, server, silent>>

\* A chunk carries the engine's own count.  With Ollama it is the one that says
\* done, and the loop breaks behind it; with the other engine reading goes on.
StreamCount(r, n) ==
    /\ pc[r] = "reading"
    /\ tokens' = [tokens EXCEPT ![r] = n]
    /\ Goto(r, IF engine = "ollama" THEN "last" ELSE "chunk")
    /\ UNCHANGED <<value, active, engine, mode, metrics, wire, pending, usage, server, silent>>

\* The loop of either engine continues on what it cannot use.
SkipLine(r) ==
    /\ pc[r] = "reading"
    /\ Goto(r, "skipped")
    /\ UNCHANGED <<value, active, engine, mode, tokens, metrics, wire, pending, usage, server, silent>>

ReadOn(r) ==
    /\ pc[r] = "skipped"
    /\ Goto(r, "reading")
    /\ UNCHANGED <<value, active, engine, mode, tokens, metrics, wire, pending, usage, server, silent>>

\* The client takes the chunk; the generator asks the engine for more.
ChunkTaken(r) ==
    /\ pc[r] = "chunk"
    /\ Goto(r, "reading")
    /\ UNCHANGED <<value, active, engine, mode, tokens, metrics, wire, pending, usage, server, silent>>

\* The loop is left: Ollama's last chunk is taken, the other engine's [DONE] is
\* read, or the body ends without either.  The slot is released, [DONE] yielded.
LeaveLoop(r) ==
    /\ pc[r] \in {"last", "reading"} /\ mode[r] = "stream"
    /\ Release
    /\ Goto(r, "closing")
    /\ UNCHANGED <<engine, mode, tokens, metrics, wire, pending, usage, server, silent>>

\* [DONE] leaves for the client while the generator is still suspended there.
DoneSent(r) ==
    /\ pc[r] = "closing" /\ wire[r] = "started"
    /\ Send(r, "[DONE]")
    /\ UNCHANGED <<value, active, engine, mode, pc, tokens, metrics, pending, usage, server, silent>>

\* (mutant) on_complete called with the tokens of the last chunk only
StreamCompleteShort(r) ==
    /\ pc[r] = "closing" /\ wire[r] = "[DONE]"
    /\ Record(r, "success")
    /\ pending' = [pending EXCEPT ![r] = {Row(IF tokens[r] > 0 THEN 1 ELSE 0)}]
    /\ Goto(r, "logging")
    /\ UNCHANGED <<value, active, engine, mode, tokens, wire, usage, server, silent>>

\* The generator resumes behind [DONE]: success, and on_complete.
StreamComplete(r) ==
    /\ pc[r] = "closing" /\ wire[r] = "[DONE]"
    /\ Record(r, "success")
    /\ pending' = [pending EXCEPT ![r] = {Row(tokens[r])}]
    /\ Goto(r, "logging")
    /\ UNCHANGED <<value, active, engine, mode, tokens, wire, usage, server, silent>>

\* (mutant) the slot is not released by a finally
HangUpLeaky(r) ==
    /\ mode[r] = "stream" /\ pc[r] \in Holding \cup {"closing"}
    /\ UNCHANGED <<value, active>>
    /\ Record(r, "cancelled")
    /\ pending' = [pending EXCEPT ![r] = {Row(0)}]
    /\ Goto(r, "logging")
    /\ UNCHANGED <<engine, mode, tokens, wire, usage, server, silent>>

\* The client is gone, at any await between the slot and the end of the stream:
\* the slot, if still held, is released on the way out; "cancelled" is recorded
\* and on_complete(0, 0) called.
HangUp(r) ==
    /\ mode[r] = "stream" /\ pc[r] \in Holding \cup {"closing"}
    /\ IF pc[r] \in Holding THEN Release ELSE UNCHANGED <<value, active>>
    /\ Record(r, "cancelled")
    /\ pending' = [pending EXCEPT ![r] = {Row(0)}]
    /\ Goto(r, "logging")
    /\ UNCHANGED <<engine, mode, tokens, wire, usage, server, silent>>

\* The client is gone before the generator has started, or while it awaits the
\* shielded log: there is nothing to undo, and the log goes on by itself.
HangUpOutside(r) ==
    /\ mode[r] = "stream" /\ pc[r] \in {"slot", "logging"}
    /\ Goto(r, "end")
    /\ UNCHANGED <<value, active, engine, mode, tokens, metrics, wire, pending, usage, server, silent>>

-----------------------------------------------------------------------------
\* log_usage and the commit in a session of their own; a failure is swallowed.
WriteUsage(r) ==
    /\ pending[r] # {} /\ server # "exited"
    /\ \/ usage' = [usage EXCEPT ![r] = @ \cup pending[r]]
       \/ UNCHANGED usage
    /\ pending' = [pending EXCEPT ![r] = {}]
    /\ UNCHANGED <<value, active, engine, mode, pc, tokens, metrics, wire, server, silent>>

\* The handler, or the generator, returns after the log.
Return(r) ==
    /\ pc[r] = "logging" /\ pending[r] = {}
    /\ Goto(r, "end")
    /\ Send(r, IF mode[r] = "json" THEN "answer" ELSE wire[r])
    /\ UNCHANGED <<value, active, engine, mode, tokens, metrics, pending, usage, server, silent>>

-----------------------------------------------------------------------------
\* SIGTERM: no new connections.
Stop ==
    /\ server = "up"
    /\ server' = "stopping"
    /\ UNCHANGED <<value, active, engine, mode, pc, tokens, metrics, wire, pending, usage, silent>>

\* uvicorn has seen every request end and the lifespan active = 0: the process
\* exits, and a shielded log that no request waits for is cancelled with it.
Exit ==
    /\ server = "stopping"
    /\ active = 0
    /\ \A r \in Requests : pc[r] \in {"new", "end"}
    /\ server' = "exited"
    /\ pending' = [r \in Requests |-> {}]
    /\ UNCHANGED <<value, active, engine, mode, pc, tokens, metrics, wire, usage, silent>>

Exited == server = "exited" /\ UNCHANGED vars

Next ==
    \/ \E r \in Requests, m \in {"json", "stream"} : Arrive(r, m)
    \/ \E r \in Requests, n \in Reported :
          JsonAnswer(r, n) \/ JsonEmptyAnswer(r, n) \/ StreamCount(r, n)
    \/ \E r \in Requests :
          \/ EnterSlot(r) \/ Busy(r) \/ JsonTimeout(r) \/ JsonError(r)
          \/ StreamOpen(r) \/ StreamError(r) \/ StreamTimeout(r) \/ StreamChunk(r)
          \/ SkipLine(r) \/ ReadOn(r) \/ ChunkTaken(r) \/ LeaveLoop(r) \/ DoneSent(r)
          \/ StreamComplete(r) \/ HangUp(r) \/ HangUpOutside(r) \/ WriteUsage(r) \/ Return(r)
    \/ Stop \/ Exit \/ Exited

Spec == Init /\ [][Next]_vars

(***************************************************************************)
(* Fairness.  The loop runs what is ready.  Time limits end a wait for an  *)
(* engine that stays silent: asyncio.wait_for the whole of a json call,    *)
(* httpx each read of a stream.  That the engine does anything else is not *)
(* assumed.  A client takes what it is sent or goes away; this the server  *)
(* cannot enforce, as there is no write timeout.                           *)
(***************************************************************************)
LoopRuns(r) ==
    EnterSlot(r) \/ Busy(r) \/ ReadOn(r) \/ StreamComplete(r) \/ WriteUsage(r) \/ Return(r)
TimeRuns(r) == JsonTimeout(r) \/ StreamTimeout(r)
ClientTakes(r) ==
    \/ ChunkTaken(r) \/ DoneSent(r)
    \/ pc[r] = "last" /\ LeaveLoop(r)
    \/ pc[r] \in {"chunk", "last", "closing"} /\ HangUp(r)

FairSpec ==
    /\ Spec
    /\ \A r \in Requests : WF_vars(LoopRuns(r)) /\ WF_vars(TimeRuns(r)) /\ WF_vars(ClientTakes(r))
    /\ WF_vars(Exit)
-----------------------------------------------------------------------------
\* Every variable keeps its type; the semaphore never goes below zero.
TypeOK ==
    /\ value \in 0..MaxConcurrent
    /\ active \in Nat
    /\ engine \in Engines
    /\ mode \in [Requests -> {"json", "stream"}]
    /\ pc \in [Requests -> Stages]
    /\ tokens \in [Requests -> Nat]
    /\ metrics \in [Requests -> Seq(Statuses)]
    /\ wire \in [Requests -> Wires]
    /\ pending \in [Requests -> SUBSET Rows]
    /\ usage \in [Requests -> SUBSET Rows]
    /\ server \in {"up", "stopping", "exited"}
    /\ silent \subseteq Requests

(***************************************************************************)
(* Whatever timeouts, errors and hang-ups come in whatever order, semaphore*)
(* and counter both agree with the requests at the engine: no slot is lost *)
(* or released twice.                                                      *)
(***************************************************************************)
SlotsConserved ==
    /\ value + Cardinality(Holders) = MaxConcurrent
    /\ active = Cardinality(Holders)

TurnedAway ==
    {r \in Requests : pc[r] = "end" /\ wire[r] \in {"503", "truncated"} /\ metrics[r] = <<>>}

Pool == INSTANCE SlotPool WITH inside <- Holders, turnedAway <- TurnedAway

(***************************************************************************)
(* The slot is an admission control: at most MaxConcurrent requests at the *)
(* engine, and "server too busy" said only when that many are there.       *)
(***************************************************************************)
ImplementsPool == Pool!Spec

InGenerator(r) == pc[r] \in Holding \cup {"closing"}

(***************************************************************************)
(* A stream that got its slot is counted in inference_requests_total once, *)
(* when it ends, however it ends.                                          *)
(***************************************************************************)
StreamCountedOnce ==
    [][\A r \in Requests : mode[r] = "stream" =>
          IF InGenerator(r) /\ ~InGenerator(r)'
          THEN Len(metrics[r]) = 0 /\ Len(metrics'[r]) = 1
          ELSE metrics'[r] = metrics[r]]_vars

(***************************************************************************)
(* The usage log and the metrics tell the same story: at most one row, its *)
(* status the one that was counted, with all the tokens for a success and  *)
(* none for a cancellation.  One exception, which the code has: a stream   *)
(* that ends well without any token is a success in the metrics and        *)
(* "cancelled" in the log, which goes by the number of tokens.             *)
(***************************************************************************)
UsageMatchesMetrics ==
    \A r \in Requests :
      /\ Cardinality(usage[r] \cup pending[r]) <= 1
      /\ \A row \in usage[r] \cup pending[r] :
           \/ /\ metrics[r] = <<row.status>>
              /\ row.tokens = IF row.status = "success" THEN tokens[r] ELSE 0
           \/ /\ metrics[r] = <<"success">> /\ row.status = "cancelled"
              /\ mode[r] = "stream" /\ tokens[r] = 0 /\ row.tokens = 0

\* The premise of what follows: no engine sends for ever.  The time limit of a
\* stream is for each read, so bytes in time, of any kind, keep a slot taken.
FiniteStreams == \A r \in Requests : <>[](pc[r] \notin {"chunk", "skipped"})

\* No request keeps its slot for ever.
SlotsFreed ==
    FiniteStreams => \A r \in Requests : pc[r] \in Holding ~> pc[r] \notin Holding

\* The wait for active inferences at shutdown ends, and the process exits.
ShutdownCompletes ==
    FiniteStreams => (server = "stopping" ~> server = "exited")

-----------------------------------------------------------------------------
(***************************************************************************)
(* FR-003: when the engine does not respond within the window, a clear     *)
(* timeout error is returned; so a request that runs into the timeout is   *)
(* reported as one, streamed or not.                                       *)
(***************************************************************************)
TimeoutIsReported ==
    \A r \in silent : metrics[r] = <<"timeout">>
=============================================================================
