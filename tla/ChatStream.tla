------------------------------ MODULE ChatStream ------------------------------
(***************************************************************************)
(* One streamed chat request, POST /sessions/{id}/chat/stream, from the    *)
(* stored user message to the end of the response.                         *)
(*                                                                         *)
(* Two threads share an unbounded queue.  The WORKER drives the runtime's  *)
(* generator: it pulls the snapshots of the agent graph one by one, puts   *)
(* the events they call for on the queue, and stops at the first snapshot  *)
(* that decides the outcome.  The CONSUMER is the response generator: it   *)
(* takes items off the queue with a 0.2 s timeout, looks whether the       *)
(* worker is alive when the timeout expires, stores the assistant's reply  *)
(* when it meets the terminal item and yields the events to the client.    *)
(* The client may go away at any time; the generator notices at its next   *)
(* yield.  Database writes and node calls may fail.                        *)
(*                                                                         *)
(* A snapshot's events are put on the queue in one step: the worker is     *)
(* alive throughout, so a consumer that timed out in between only polls    *)
(* again.                                                                  *)
(***************************************************************************)
EXTENDS ChatEvents, FiniteSets

CONSTANTS
  Pipeline,      \* the nodes of the compiled graph, in order
  MaxAgentSteps, \* ExecutionLimits.max_agent_steps, langgraph's recursion limit
  MaxDeltas      \* bound of the model: text deltas one LLM call may stream

ASSUME PipelineAssumption == Pipeline \in Seq(Stages)
ASSUME LimitAssumption == MaxAgentSteps \in Nat \ {0} /\ MaxDeltas \in Nat

VARIABLES
  client,        \* "connected", or "gone" once the client has disconnected
  cpc,           \* where the response generator is
  atYield,       \* the generator is suspended at a yield
  held,          \* outcome of the terminal item in the consumer's hands
  out,           \* closing events still to be yielded
  tokenEmitted,  \* some text delta went through this stream
  sent,          \* the events the client received, in order
  replies,       \* the assistant messages of this run in the database
  queue,
  wpc,           \* where the worker thread is
  input,         \* the state the graph was started with
  snap,          \* the last snapshot the runtime yielded
  pos,           \* nodes completed so far
  deltas,        \* deltas streamed by the node that is running
  tracker,       \* StreamLifecycleTracker
  runStatus      \* status of the AgentRun row

consumerVars == <<cpc, atYield, held, out, tokenEmitted, sent, replies>>
workerVars   == <<wpc, input, snap, pos, deltas, tracker, runStatus>>
vars == <<client, consumerVars, queue, workerVars>>

-----------------------------------------------------------------------------

\* Queue items: progress events, a terminal item, and the marker an exception
\* leaves behind.
Terminal(outcome) == Event("terminal", outcome)
Terminals == {Terminal(o) : o \in Outcomes}
Done == Event("done", "done")
Items == ProgressEvents \cup Terminals \cup {Done}

\* Mutant of ClosingEvents: the end is announced before the text.
EndBeforeText(outcome, streamed) ==
  CASE outcome = "answer"        -> IF streamed THEN <<Completed>>
                                                ELSE <<Completed, Delta>>
    [] outcome = "clarification" -> IF streamed THEN <<Clarified>>
                                                ELSE <<Clarified, Delta>>
    [] outcome = "error"         -> <<ErrorEvent, Failed>>

\* Mutant of ClosingEvents: token_emitted is ignored, the text is always sent.
TextAgain(outcome, streamed) ==
  CASE outcome = "answer"        -> <<Delta, Completed>>
    [] outcome = "clarification" -> <<Delta, Clarified>>
    [] outcome = "error"         -> <<ErrorEvent, Failed>>

\* Mutant of ClosingEvents: the text of a reply that was not streamed is left out.
TextForgotten(outcome, streamed) ==
  CASE outcome = "answer"        -> <<Completed>>
    [] outcome = "clarification" -> <<Clarified>>
    [] outcome = "error"         -> <<ErrorEvent, Failed>>

\* terminal_stream_events: the text is sent here only if none was streamed.
ClosingEvents(outcome, streamed) ==
  CASE outcome = "answer"        -> IF streamed THEN <<Completed>>
                                                ELSE <<Delta, Completed>>
    [] outcome = "clarification" -> IF streamed THEN <<Clarified>>
                                                ELSE <<Delta, Clarified>>
    [] outcome = "error"         -> <<ErrorEvent, Failed>>

Init ==
  /\ client = "connected"
  /\ cpc = "first"
  /\ atYield = FALSE
  /\ held = "none"
  /\ out = <<>>
  /\ tokenEmitted = FALSE
  /\ sent = <<>>
  /\ replies = <<>>
  /\ queue = <<>>
  /\ wpc = "none"
  /\ input \in {InputState(p) : p \in BOOLEAN}
  /\ snap = input
  /\ pos = 0
  /\ deltas = 0
  /\ tracker = {}
  /\ runStatus = "absent"

-----------------------------------------------------------------------------
(* The consumer.                                                           *)

\* The event reaches the client if it is still there; the generator waits.
Yield(event) ==
  /\ sent' = IF client = "connected" THEN Append(sent, event) ELSE sent
  /\ atYield' = TRUE

\* The router asks for the first event before it answers.
First ==
  /\ cpc = "first"
  /\ cpc' = "setup"
  /\ Yield(Started)
  /\ UNCHANGED <<client, held, out, tokenEmitted, replies, queue, workerVars>>

\* Recorder, runtime and thread are created; building the runtime may raise.
Setup ==
  /\ cpc = "setup" /\ ~atYield
  /\ \/ /\ cpc' = "poll"
        /\ wpc' = "start"
     \/ /\ cpc' = "raised"
        /\ UNCHANGED wpc
  /\ UNCHANGED <<client, atYield, held, out, tokenEmitted, sent, replies, queue,
                 input, snap, pos, deltas, tracker, runStatus>>

\* queue.get: a terminal item is kept for Persist, "done" ends the stream,
\* anything else is passed on.
Get ==
  /\ cpc = "poll" /\ ~atYield
  /\ queue # <<>>
  /\ queue' = Tail(queue)
  /\ LET item == Head(queue) IN
       IF item \in Terminals
       THEN /\ cpc' = "persist"
            /\ held' = item.what
            /\ UNCHANGED <<atYield, sent, tokenEmitted>>
       ELSE IF item = Done
       THEN /\ cpc' = "ended"
            /\ UNCHANGED <<atYield, held, sent, tokenEmitted>>
       ELSE /\ Yield(item)
            /\ tokenEmitted' = (tokenEmitted \/ item = Delta)
            /\ UNCHANGED <<cpc, held>>
  /\ UNCHANGED <<client, out, replies, workerVars>>

\* queue.get raises Empty after 0.2 s ...
Timeout ==
  /\ cpc = "poll" /\ ~atYield
  /\ queue = <<>>
  /\ cpc' = "check"
  /\ UNCHANGED <<client, atYield, held, out, tokenEmitted, sent, replies, queue,
                 workerVars>>

\* Mutant of CheckAlive: an empty queue ends the stream, alive or not.
EndOnTimeout ==
  /\ cpc = "check"
  /\ cpc' = "ended"
  /\ UNCHANGED <<client, atYield, held, out, tokenEmitted, sent, replies, queue,
                 workerVars>>

\* ... and only then is the worker looked at.
CheckAlive ==
  /\ cpc = "check"
  /\ cpc' = IF wpc = "dead" THEN "ended" ELSE "poll"
  /\ UNCHANGED <<client, atYield, held, out, tokenEmitted, sent, replies, queue,
                 workerVars>>

\* Mutant of Persist: a failing write is swallowed and the outcome told anyway.
TellUnstored ==
  /\ cpc = "persist"
  /\ replies' \in {replies, Append(replies, held)}
  /\ out' = ClosingEvents(held, tokenEmitted)
  /\ cpc' = "emit"
  /\ UNCHANGED <<client, atYield, held, tokenEmitted, sent, queue, workerVars>>

\* The reply is stored before any closing event is sent; the write may fail.
Persist ==
  /\ cpc = "persist"
  /\ \/ /\ replies' = Append(replies, held)
        /\ out' = ClosingEvents(held, tokenEmitted)
        /\ cpc' = "emit"
     \/ /\ cpc' = "raised"
        /\ UNCHANGED <<replies, out>>
  /\ UNCHANGED <<client, atYield, held, tokenEmitted, sent, queue, workerVars>>

\* An exception of the generator is turned into two events by the router.
RouterCatch ==
  /\ cpc = "raised"
  /\ out' = <<ErrorEvent, Failed>>
  /\ cpc' = "emit"
  /\ UNCHANGED <<client, atYield, held, tokenEmitted, sent, replies, queue,
                 workerVars>>

Emit ==
  /\ cpc = "emit" /\ ~atYield
  /\ IF out # <<>>
     THEN /\ Yield(Head(out))
          /\ out' = Tail(out)
          /\ UNCHANGED cpc
     ELSE /\ cpc' = "ended"
          /\ UNCHANGED <<atYield, out, sent>>
  /\ UNCHANGED <<client, held, tokenEmitted, replies, queue, workerVars>>

\* The server asks for the next event as long as there is a client.
Resume ==
  /\ atYield /\ client = "connected"
  /\ atYield' = FALSE
  /\ UNCHANGED <<client, cpc, held, out, tokenEmitted, sent, replies, queue,
                 workerVars>>

\* Otherwise the generator is dropped where it is suspended.
Close ==
  /\ atYield /\ client = "gone"
  /\ atYield' = FALSE
  /\ cpc' = "closed"
  /\ UNCHANGED <<client, held, out, tokenEmitted, sent, replies, queue, workerVars>>

Disconnect ==
  /\ client = "connected"
  /\ cpc \notin {"first", "ended"}
  /\ client' = "gone"
  /\ UNCHANGED <<consumerVars, queue, workerVars>>

-----------------------------------------------------------------------------
(* The worker, and the runtime generator it drives.                        *)

\* recorder.finish inside the runtime: the row is updated, or the write fails.
Finish(status) == runStatus' \in {status, runStatus}

\* First next(): the run row is created and langgraph yields the input.
Begin ==
  /\ wpc = "start"
  /\ \/ /\ runStatus' = "running"
        /\ wpc' = "handle"
     \/ /\ wpc' = "raised"
        /\ UNCHANGED runStatus
  /\ UNCHANGED <<client, consumerVars, queue, input, snap, pos, deltas, tracker>>

\* Mutant of Handle: the worker does not return when it has decided.
HandleOn ==
  /\ wpc = "handle"
  /\ LET events  == RuntimeEvents(snap.event, tracker)
         outcome == OutcomeOf(snap)
     IN queue' = queue \o events
                 \o (IF outcome = "none" THEN <<>> ELSE <<Terminal(outcome)>>)
  /\ wpc' = "next"
  /\ tracker' = Announced(snap.event, tracker)
  /\ UNCHANGED <<client, consumerVars, input, snap, pos, deltas, runStatus>>

\* One turn of the worker's loop: the events of a snapshot, preceded by the
\* logs the tools returned, followed by the terminal item if it decides.
Handle ==
  /\ wpc = "handle"
  /\ \E logs \in IF snap.event = Event("tool_executor", "completed")
                 THEN {<<>>, <<ToolLogs>>} ELSE {<<>>} :
       LET events  == logs \o RuntimeEvents(snap.event, tracker)
           outcome == OutcomeOf(snap)
       IN IF outcome = "none"
          THEN /\ queue' = queue \o events
               /\ wpc' = "next"
          ELSE /\ queue' = Append(queue \o events, Terminal(outcome))
               /\ wpc' = "exit"
  /\ tracker' = Announced(snap.event, tracker)
  /\ UNCHANGED <<client, consumerVars, input, snap, pos, deltas, runStatus>>

StartNode ==
  /\ wpc = "next"
  /\ pos < Len(Pipeline) /\ pos < MaxAgentSteps
  /\ wpc' = "node"
  /\ deltas' = 0
  /\ UNCHANGED <<client, consumerVars, queue, input, snap, pos, tracker, runStatus>>

\* langgraph stops when the limit leaves no step for the next node (or, when
\* it is exactly used up, for noticing that the graph has ended).
RecursionLimit ==
  /\ wpc = "next"
  /\ pos >= MaxAgentSteps
  /\ \/ /\ runStatus' = "failed"
        /\ snap' = [input EXCEPT !.error = "recursion_limit"]
        /\ wpc' = "handle"
     \/ /\ wpc' = "raised"
        /\ UNCHANGED <<runStatus, snap>>
  /\ UNCHANGED <<client, consumerVars, queue, input, pos, deltas, tracker>>

\* The graph has ended; a failing finish("completed") is followed by a
\* finish("failed") and raised.
GraphEnd ==
  /\ wpc = "next"
  /\ pos = Len(Pipeline) /\ pos <= MaxAgentSteps
  /\ \/ /\ runStatus' = "completed"
        /\ wpc' = "drained"
     \/ /\ Finish("failed")
        /\ wpc' = "raised"
  /\ UNCHANGED <<client, consumerVars, queue, input, snap, pos, deltas, tracker>>

\* The loop ended without an outcome: the last state's answer or an error.
Drained ==
  /\ wpc = "drained"
  /\ queue' = Append(queue, Terminal(IF snap.answer THEN "answer" ELSE "error"))
  /\ wpc' = "exit"
  /\ UNCHANGED <<client, consumerVars, input, snap, pos, deltas, tracker, runStatus>>

Node == Pipeline[pos + 1]

\* on_llm_delta, called from within the node.
StreamDelta ==
  /\ wpc = "node"
  /\ StreamsText(Node, snap)
  /\ deltas < MaxDeltas
  /\ deltas' = deltas + 1
  /\ queue' = queue \o LlmDeltaEvents(Node, tracker)
  /\ tracker' = IF Node = "answer" THEN tracker \cup {"answer"} ELSE tracker
  /\ UNCHANGED <<client, consumerVars, wpc, input, snap, pos, runStatus>>

\* A streamed answer has text, and a streamed question is a clarification.
NodeDone ==
  /\ wpc = "node"
  /\ \E s \in NodeOutput(Node, snap) :
       /\ (Node = "answer" /\ s.answer) => deltas > 0
       /\ (Node = "clarifier" /\ deltas > 0) => s.error = "clarification_required"
       /\ snap' = s
  /\ pos' = pos + 1
  /\ wpc' = "handle"
  /\ UNCHANGED <<client, consumerVars, queue, input, deltas, tracker, runStatus>>

\* Mutant of NodeRaise: the exception is caught inside and the node is stuck.
NodeStuck ==
  /\ wpc = "node"
  /\ MayRaise(Node, snap, pos = 0)
  /\ Finish("failed")
  /\ UNCHANGED <<client, consumerVars, queue, wpc, input, snap, pos, deltas, tracker>>

NodeRaise ==
  /\ wpc = "node"
  /\ MayRaise(Node, snap, pos = 0)
  /\ Finish("failed")
  /\ wpc' = "raised"
  /\ UNCHANGED <<client, consumerVars, queue, input, snap, pos, deltas, tracker>>

\* Mutant of WorkerCatch: only the end marker is queued.
CatchSilently ==
  /\ wpc = "raised"
  /\ queue' = Append(queue, Done)
  /\ wpc' = "exit"
  /\ UNCHANGED <<client, consumerVars, input, snap, pos, deltas, tracker, runStatus>>

WorkerCatch ==
  /\ wpc = "raised"
  /\ queue' = queue \o <<Terminal("error"), Done>>
  /\ wpc' = "exit"
  /\ UNCHANGED <<client, consumerVars, input, snap, pos, deltas, tracker, runStatus>>

\* The worker returns; a runtime suspended at its yield is closed, which runs
\* neither of its finish calls.
Exit ==
  /\ wpc = "exit"
  /\ wpc' = "dead"
  /\ UNCHANGED <<client, consumerVars, queue, input, snap, pos, deltas, tracker,
                 runStatus>>

-----------------------------------------------------------------------------

Consumer == \/ First \/ Setup \/ Get \/ Timeout \/ CheckAlive \/ Persist
            \/ RouterCatch \/ Emit \/ Resume \/ Close

Worker == \/ Begin \/ Handle \/ StartNode \/ RecursionLimit \/ GraphEnd
          \/ Drained \/ StreamDelta \/ NodeDone \/ NodeRaise \/ WorkerCatch
          \/ Exit

Next == Consumer \/ Worker \/ Disconnect

Spec == Init /\ [][Next]_vars

\* Both threads are scheduled, and the calls a node makes return; nothing
\* makes a client disconnect or a write fail.
Fairness == WF_vars(Consumer) /\ WF_vars(Worker)

FairSpec == Spec /\ Fairness

-----------------------------------------------------------------------------

TypeOK ==
  /\ client \in {"connected", "gone"}
  /\ cpc \in {"first", "setup", "poll", "check", "persist", "raised", "emit",
              "ended", "closed"}
  /\ atYield \in BOOLEAN
  /\ held \in Outcomes \cup {"none"}
  /\ out \in Seq(ClientEvents)
  /\ tokenEmitted \in BOOLEAN
  /\ sent \in Seq(ClientEvents)
  /\ replies \in Seq(Outcomes)
  /\ queue \in Seq(Items)
  /\ wpc \in {"none", "start", "handle", "next", "node", "drained", "raised",
              "exit", "dead"}
  /\ input \in AgentState
  /\ snap \in AgentState
  /\ pos \in 0..Len(Pipeline)
  /\ deltas \in 0..MaxDeltas
  /\ tracker \subseteq TrackedStages
  /\ runStatus \in {"absent", "running", "completed", "failed"}

-----------------------------------------------------------------------------
(* Safety.                                                                 *)

Sent(event) == \E i \in 1..Len(sent) : sent[i] = event

Told == \E i \in 1..Len(sent) : sent[i] \in RunEnds

TerminalQueued == \E i \in 1..Len(queue) : queue[i] \in Terminals

\* agent_run.completed or agent_run.failed is the last event of a stream, also
\* when storing the reply failed or the router had to report an exception.
NothingAfterTheEnd ==
  \A i \in 1..Len(sent) : sent[i] \in RunEnds => i = Len(sent)

\* The outcome the client is told is the one in the stored assistant message:
\* success is never told without its message, and there is at most one message.
ReplyMatchesEnd ==
  /\ Len(replies) <= 1
  /\ Sent(Completed) => replies = <<"answer">>
  /\ Sent(Clarified) => replies = <<"clarification">>
  /\ Sent(Failed) => replies \in {<<>>, <<"error">>}

\* The outcome the worker decided is never dropped or doubled on its way: once
\* the worker has returned it is on the queue or in the consumer's hands, not
\* both.
OutcomeConserved ==
  wpc \in {"exit", "dead"} => (TerminalQueued <=> held = "none")

\* A stream that ends under a connected client without telling an outcome has
\* left that outcome on the queue: missing it there is the only way to lose it.
EndedToldOrQueued ==
  (cpc = "ended" /\ client = "connected") => (Told \/ TerminalQueued)

\* A run the database calls failed is never stored or told as a success: a
\* node that raises and an exhausted step limit both end in an error reply.
StatusMatchesOutcome ==
  runStatus = "failed" =>
    /\ ~Sent(Completed) /\ ~Sent(Clarified)
    /\ replies \in {<<>>, <<"error">>}

\* Every stage is announced as started exactly once, before the first event
\* that says how it went, however deltas and snapshots interleave.
StagesAnnounced ==
  \A i \in 1..Len(sent) : sent[i] \in StageEvents =>
    Cardinality({j \in 1..i : sent[j] = Event(sent[i].stage, "started")}) = 1

\* What the client receives is in the order the events of a run have, whatever
\* was streamed and whatever failed: the order the web client relies on.
SentInOrder == PhaseAfter(sent) # "out_of_order"

\* A run told as a success has shown the user its text before, streamed or not.
TextBeforeSuccess ==
  (Sent(Completed) \/ Sent(Clarified)) => Sent(Delta)

\* The closing events repeat no text: they carry a delta only if none was
\* streamed before.
TextNotRepeated ==
  [][(cpc = "emit" /\ sent' = Append(sent, Delta)) => ~Sent(Delta)]_vars

-----------------------------------------------------------------------------
(* Liveness.                                                               *)

\* The response ends and its worker thread ends, whether or not the client is
\* still there and whichever calls fail.
StreamEnds == <>[](cpc \in {"ended", "closed"} /\ wpc \in {"none", "dead"})

\* If nothing is put on the queue between a timed-out get and the look at the
\* thread that follows, a client that stays is told the outcome.
ToldUnlessRaced ==
  [](cpc = "check" => queue = <<>>) => <>(client = "gone" \/ Told)

\* The turn this stream implements.
OutcomeTold ==
  IF Sent(Completed) THEN "answer"
  ELSE IF Sent(Clarified) THEN "clarification"
  ELSE IF Sent(Failed) THEN "error"
  ELSE "none"

Turn == INSTANCE ChatTurn WITH
  reply <- IF replies = <<>> THEN "none" ELSE replies[1],
  told  <- OutcomeTold,
  over  <- cpc \in {"ended", "closed"}

\* The stream keeps every promise of the abstract turn, including that it ends.
ImplementsTurn == Turn!Spec

-----------------------------------------------------------------------------
(* What the repository says of a streamed run, and the code does not do.   *)

\* packages/shared/schemas/agent_run.json: the status of a run is completed,
\* failed or aborted.  Of a run whose answer the client was told, and whose
\* response and worker have ended, no write has failed and none is to come.
StreamedRunClosed ==
  (Sent(Completed) /\ cpc = "ended" /\ wpc = "dead") => runStatus # "running"

\* README, "Failures are explicit and observable": a stream that ends under a
\* connected client has told it an outcome.
EndIsObservable ==
  (cpc = "ended" /\ client = "connected") => Told

=============================================================================
