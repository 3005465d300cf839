# Verification of ops-copilot-agent

TLA+ models of the copilot's own logic: the API's chat requests, the agent
runtime behind them, the calls the agent makes, the chat of the web client and
the ingestion of documents. TLC checks the models on
small instances; TLAPS proves the properties that matter most for every value
of the constants. The code is the reference for every definition;
`PROJECT.json` ("map") names the lines each one stands for. Paths below are
relative to the repository root.

## The system

A user chats with an agent that looks into a Kubernetes cluster. Its parts:

| Part | State | Operations | Hard behaviour | What makes it correct |
|---|---|---|---|---|
| Web client (`apps/web`) | transcript, pages of messages, the open stream | post a message and read the SSE stream, retry, load pages, switch session | a retry after the server has accepted the message; a page that arrives after the session changed | one post, one turn; what is shown belongs to the session shown |
| Session router and `ChatService` (`apps/api`) | `Message` rows | `run`, `run_stream`, prompt history | two threads and a queue per stream; a client that leaves; failing writes; overlapping requests on one session | the outcome told is the outcome stored; every stream ends with one |
| `AgentRuntime` (`packages/agent-runtime`) | the agent state, the `AgentRun` row | drive the graph, yield snapshots, close the run | the generator is abandoned by its reader; the step limit | the status of the run is what happened |
| Nodes: scope check, planner, clarifier, tool executor, answer | none of their own | LLM and tool calls, next state | always run in sequence; only their own look at the error stops them | no tool runs after a rejection or a question |
| LLM calls (`llm/base.py`, `packages/llm-gateway`) | a budget per component, `LlmCall` and `BudgetEvent` rows | invoke, check, spend, record | the check follows the call; the rows are separate transactions | spending within the budget; a completed run fully recorded |
| MCP client and tool server (`mcp_client.py`, `apps/tool-server`) | attempts; nothing on the server | list and call tools, retry | a retry of a call that has run | bounded executions, each row stands for one |
| Run service (`run_service.py`) | none | sum up what was recorded | totals of several enforcers, order of runs | sums that agree with the rows |
| RAG (`packages/rag`) | OpenSearch index | chunk, index, retrieve | chunk boundaries, ingestion run again | the chunks cover the text |

A streamed request goes: the client posts; the router takes the first event
from `ChatService.run_stream`, which has stored the user message; a worker
thread drives `AgentRuntime.run_stream` and puts events on a queue; the
response generator takes them off, stores the assistant message and closes the
stream. Inside the worker, each node calls the model or the tools and the
recorder writes what it did.

## Modules

| Module | What it models |
|---|---|
| `AgentNodes` | The agent state reduced to what later decisions look at, each node as a relation on it, and the stream decisions (`stream_decisions.py`) as operators. |
| `ChatTurn` | Abstract: what one streamed request promises. |
| `ChatStream` | One streamed request: consumer, queue, worker, client. Implements `ChatTurn`. |
| `ChatStreamProofs` | Theorems about `ChatStream`: types, the outcome and where it is, the refinement; what the client was sent against what is still on its way. |
| `AgentRun` | One run from the inside: LLM calls, budgets, tool calls, retries, rows. |
| `AgentRunProofs` | Theorems about `AgentRun`. |
| `ChatSession`, `ChatSessionProofs` | The requests of one session: stored messages and the prompt history read from them; theorems about it. |
| `ChatEvents`, `ChatEventsProofs` | The order of the events of a streamed request, shared by `ChatStream` and `WebChat`, and facts about it for the proofs of both. |
| `WebChat`, `WebChatProofs` | The web client's side of a message: attempts, event handlers, transcript; theorems about it. |
| `MessagePager`, `MessagePagerProofs` | Pages of messages loaded while sessions are selected, and theorems about them. |
| `TextChunks`, `TextChunksProofs` | `chunk_text`, and theorems about it. |
| `RagIngest`, `RagIngestProofs` | Ingestion of documents that change, and theorems about it. |
| `MC*` | Constants for TLC. |

`ChatStream` and `AgentRun` both build on `AgentNodes`. `ChatStream` takes a node
as one step given by `NodeOutput` and `MayRaise`; `AgentRun` opens the step and
shows (`NodesAsAbstracted`) that the nodes return only states `NodeOutput`
allows, raise only where `MayRaise` says so, and stream text only where
`StreamsText` does. The two are thus levels of one system: what `ChatStream`
shows holds whatever happens inside the nodes. `ChatSession` is the level
above: a request there is a place in its turn, and what a run may come to
(a question, another reply, none) is what `ChatTurn` leaves open.

### ChatStream

Variables and code: `queue` is the `Queue` of `run_stream`; `cpc`, `atYield`,
`held`, `out` are the place of the response generator, whether it is suspended
at a `yield`, the terminal item it took and the closing events left;
`tokenEmitted`, `tracker` are the locals `token_emitted` and
`StreamLifecycleTracker`; `wpc`, `snap`, `pos`, `input` are the worker thread
and the runtime generator it drives; `sent` is what the client received,
`replies` and `runStatus` are rows. One action stands for one step between
points where the other thread, the client or a failing call can intervene:
`Timeout` and `CheckAlive` are separate because `queue.get` and `is_alive` are.
The events of one snapshot are queued in one step: the worker is alive
throughout, so a consumer that times out in between polls again. The number of
text chunks and of streamed deltas is reduced to "some" (`MaxDeltas`), since
no decision depends on more than whether there was one.

Not in it: other requests (each has its own queue and threads), the content
of events, and a process that stops.

### AgentRun

`pc` is the place inside the run, `spent` the `BudgetState` of each of the four
components, `billed` the estimated cost of every response, and `llmRows`,
`budgetRows`, `toolRows` the rows of the recorder. `driver` says whether the
run is drained (`AgentRuntime.run`) or left at the deciding snapshot (the
worker of a stream). Every provider call, tool attempt and write may fail.
Costs are whole units, so sums are exact where the code adds floats. The step
limit is left out: ten by default, five nodes in the graph; `ChatStream` has it.

### ChatSession

`log` has an entry per `created_at` taken, in that order, because
`MessageRepo.list_by_session` orders by it; `stored` says whether the row has
been written, which happens later and may fail. `pc[r]` is the place of request
`r` in `ChatService.run` or `run_stream`, which treat messages alike; `history[r]`
is what `_load_prompt_history` gave it. `Turn` is the body of that function's
loop, and `PromptHistory` the loop, a recursive function over the places of the log
that passes over messages without a row. `Leave` is a client that goes away: it may then post again, which is how
two requests of one client overlap. `Delete` needs a session without messages,
since `messages.session_id` is a foreign key. A text is blank or not, which is
all the history looks at.

### WebChat

One message at a time, as the form allows: `pc` and `attempt` are the place in
`streamChat` with its retries, `phase` what `ChatEvents` still allows the server
to send, `stream` the transcript, `pending` and `pendingRef` the run's logs in
the state and in the ref that a state updater writes, `unrendered` whether React
has updates to render. The handler of an event is one action. `accepted` and
`prompts` count what the server took, which the client may not have heard of.
A failure sets the error only if its text is not blank; `mute` remembers that
one was blank. The server can send such a text: a rejection whose answer is
white space (`scope_check_node.py:60`), or an exception without a message
(`sessions_router.py:126`).

### MessagePager

`fetches` are the calls of `loadMessagePage` that wait, in the order they were
made, each for its page, its handler or its tool calls; `loading`, `offset`,
`hasMore` and `shown` are the state of `App`. A message is its session and
the time it bears there, by which the server orders the list. `created_at` is
taken before the row is written (`chat_service.py:265`), so `NewMessage` stores a
message at any time that is free, behind pages already loaded or before them,
and every message stored shifts the offsets of those before it. Two messages of
one session at the same microsecond, which the list leaves in no fixed order,
are not in the model. `late` remembers the messages that were stored when the
client had read an older one, or all it would: no page brings them. What a run
adds at the new end of the list is among them, and is shown by `WebChat`.
`AutoLoad` is the effect that asks for one more page, part of every handler that
changes what it depends on. `hasty` remembers that the session on the screen was selected while a call waited:
its first page is then not asked for and it gets the page of another, which the
properties except by name.

### TextChunks and RagIngest

`TextChunks` has the variables of `chunk_text` and one action for a turn of its
loop; a piece is the range of text it takes. `RagIngest` has the pieces of a
document as a number, and a place in `ingest_documents` for reading, embedding
and the bulk request. An item of the bulk request is written or refused by
itself, and `Abort` is any exception outside of it or the process stopped.

## What is checked

| Run | Instance | Shows |
|---|---|---|
| `stream_full` | the graph `RuntimeFactory` builds, limit 10, up to 2 deltas per call | with failures anywhere and a client leaving anywhere: types; the end of a run is the last event; told = stored, at most one reply; the outcome is on the queue or in the consumer's hands; a stream that ended untold left its outcome queued; failed runs are never told as success; each stage announced once; events in the order `ChatEvents` gives; text before success, never twice; every stream and its worker end; a client that stays is told unless the race below happened; the stream implements `ChatTurn` |
| `stream_tools` | a graph without scope check and answer, limit exactly used up | the status written matches the outcome when the loop drains or hits its limit |
| `stream_run_closed` | as full, 1 delta | finding: a streamed run whose answer the client was told, and whose response and worker have ended, stays `running` |
| `stream_observable` | as full, 1 delta | finding: an outcome queued between timeout and liveness check is lost |
| `agent_calls` | budget 3, costs 0, 1, 2, 5, 1 retry, plans of up to 2 steps | spending per component within the budget; an unaccounted call is the last of a failed run; running totals explained by rows; completed runs recorded in full; tool executions bounded by rows and retries; tools only for an accepted plan; nodes as abstracted; the run ends |
| `agent_budget` | same | finding: a run spends more than the budget |
| `session_turns` | 4 requests one by one | the history read back is the open chain of clarifications, also when requests fail or stay without a reply |
| `session_overlap` | 3 requests, 2 open at a time, leaving clients, blank texts | no history names a prompt twice, out of order, or the request's own |
| `web_messages` | 2 sessions, 2 messages, 2 retries | what is shown for a message stems from one run; no message ends silently but after a failure told with a blank text; logs shown unless their events came before one render; no text doubled; foreign text only of a message open during a switch; every message settles |
| `pager_pages` | 2 sessions, up to 4 messages stored at any of 4 times, pages of 2, 2 failures | a session selected in rest shows its own messages, without gaps and, when it asks for no more, all of them, but for late ones; in order and none twice unless one came late; loading ends |
| `text_chunks` | lengths up to 14, sizes and overlaps from -1 to 5 | every character is in a piece; each piece brings new text |
| `rag_changes` | 2 documents of 0, 1 or 2 pieces, batches of 2, 2 changes, 2 ingestions | entries have the vector of their own text; all of what the last successful ingestion loaded is served |

Bounds. Two deltas distinguish "the first" from "a later" one. One request is
the whole of `ChatStream`; two would not interact through anything it models.
Costs of 0, 1, 2 and 5 against a budget of 3 cover unknown usage, calls that
fit together, one by one, and never. One retry and two plan steps give a retry
of the first, the second and the last step. A chain of clarifications needs two
requests to exist, a third to be closed and a fourth to read the result;
overlap needs two requests and a third to read what they left. Requests are
interchangeable, hence the symmetry. Four messages in pages of two give two full
pages and an empty one, or a full and a short one, and as messages are stored at
any of the four times, also between pages, every way in which a stored message can
shift the next page of two: by one, by two, and past it. Two failures let a page
fail and the one that is asked for instead. Two documents of up to two pieces in batches of
two give batches across documents and a document that becomes shorter.

Deadlock is off in every run, since a request and a run end, and the requests
of a session are used up. `StreamEnds` and
`RunEnds` say that they end where they should.

Fairness. `ChatStream`: weak fairness of the consumer and of the worker: both
are threads the operating system schedules, and calls made inside a node return
or raise. No fairness of the client, and none that makes a write succeed.
`AgentRun`: weak fairness of its one thread. `WebChat`: a post is answered or
fails, the delay before a retry passes, a stream goes on or breaks; users have
none. `MessagePager`: requests are answered or fail, and their handlers run;
the failures are bounded. Neither forces a particular branch:
calls may fail forever, retries are bounded by the code.

## What is proved

In `ChatStreamProofs`, for every pipeline over the stages, every step limit and
number of deltas (`PipelineAssumption`, `LimitAssumption`):

- `TypeCorrect`: `Spec => []TypeOK`.
- `EndIsLast`: nothing follows the event that ends the run. Not inductive by
  itself: the strengthening `EndInv` says which events may still come at each
  place of the consumer, that no progress event ends a run, and that the closing
  events left have their end last.
- `ReplyAgrees`: the outcome told is the stored one. `EndInv` ties `replies`
  and `out` at each place of the consumer.
- `OutcomeNotLost`: once the worker has returned, its outcome is on the queue
  or held, never both. The strengthening `Handover` says that the queue has at
  most one terminal item, and none before the worker has decided.
- `RefinesTurn`: the initial state and every step are those of `ChatTurn`, or
  stutter. Rests on `EndInv` (an end is told for the reply that was stored) and
  on `YieldsWhereItMay` (the generator is suspended at no other place than a
  yield, so it ends once).

In its second half, under the same assumptions and on top of the invariants above:

- `TextFirst`, `TextOnce`: from `TextInv`, as long as no outcome is decided a
  client that stays was sent text exactly when `token_emitted` says so, and a
  closing delta is next only where none was sent.
- `FailureNotSuccess`: from `StatusInv`, a row closed as failed leaves the worker
  with an error to report, and every outcome on the queue or held is an error.
- `EndedTold`: from `LeftInv`, the end marker stands behind a terminal item, so a
  consumer that meets it has told an outcome. What is left is the race of
  `stream_observable`.
- `StagesOnce`: from `AnnounceInv`, a stage in the tracker was announced to the
  client or its announcement is still on the queue, never both, and an event of
  a stage has its announcement before it or told already.
- `OrderKept`: from `OrderInv`. The phases of `ChatEvents` are read as modes of the
  conversation; `Path` says that the items on the queue lead from the mode the
  client is in to the mode the worker is in, and `AtWork` which mode that is at
  each place of the worker. An append extends the path, a taken item shortens it.
- `StreamAsAssumed`: what `WebChat` takes for granted of the server. Each event sent is one
  that `Deliver` of `WebChat` accepts in the phase the client is in, and a response that
  ends under a connected client ends where the guard of `Close` holds. So the theorems
  about `WebChat` are about the streams `ChatStream` produces.
- `OnlyPollingRepeats`, the safety half of `StreamEnds`: two natural numbers, the steps left
  to the worker (`WorkLeft`) and to the reply (`TellLeft`), fall in lexical order with every
  step but the poll of a worker that has not ended, whatever fails and whoever leaves.

`ChatEventsProofs` has what `OrderKept` and the proofs about `WebChat` need of
`ChatEvents`: the recursion of `PhaseAfter` has exactly one solution, and an event
more is one step more. With no induction over data to cite, this is shown with
the least natural number at which two solutions would differ, which exists
because strict inclusion is well-founded on finite sets.

In `WebChatProofs`, for any number of sessions, messages and retries
(`WebAssumption`):

- `OneRunShown`, `AnswerOnce`, `ForeignTextOpen`: from `Kept` and `Transcript`. A post
  that is repeated has heard nothing, so every bubble of a message is of one run;
  a bubble of the open message is of its session and is whole only when its
  answer is; and a bubble of a session not in view has its message in `switched`.
- `LossIsShown`: from `Heard`, a message whose run has ended for the client ended
  well or shows an error, unless its failure was told with a blank text.
- `LogsAreShown`: from `LogsKept`, logs that were heard wait in the state, once
  rendered in the ref, or are shown.
- `StoredPerAttempt`: from `Stored`, a message is stored at most once per attempt, and a run
  whose end was heard had its message stored.
- `RetriesRunOut`, the safety half of `MessageSettles`: what is left of the attempts and the
  phases (`PostLeft`) falls with every step of an open message but renders, switches of the
  session and events that keep their phase.

In `MessagePagerProofs`, for any page size, numbers of messages and failures
(`PagerAssumption`):

- `OwnScreen`, `NothingSkipped`, `NothingTwice`, `AllAreShown`: from `ScreenInv`. A
  call waits exactly while `loading` is set, so there is one at most. The place of
  a message in the list is the number of newer ones (`Newer`); there is one message
  at every place (`EveryPlace`), so a page is what lies at its places. `Covered` says
  what has been read: whatever is newer than a message read was read or came late,
  and the offset is no further than the oldest of them. A message that is stored
  keeps this, as it pushes messages to older places only (`PlaceAfter`), and the
  next page carries it on, from an offset that leaves no place out (`PageCovers`).
- `LoadingRunsOut`, the safety half of `LoadingEnds`: from `LoadingInv`. The pages the effect
  may still ask for and the requests that may still fail (`LoadLeft`) fall with every step of
  a call, also when one page asks for the next; a message stored meanwhile leaves them as
  they are, and only the selection of another session starts anew.

In `AgentRunProofs`, for every budget, set of costs, number of retries and length
of plan (`CostAssumption`, `BoundAssumption`):

- `TypeCorrect`: `Spec => []TypeOK`. The strengthening `TInv` says that a call is
  made by the node at hand on a state on which it makes calls
  (`CallBelongsToNode`), and that a plan being executed has steps left.
- `BudgetRespected`, `OverBudgetEndsRun`: from `Accounted`, what was billed is what
  the enforcers have accounted for as long as the run goes on, up to the last
  call of a run that fails.
- `ExecutionsBounded`: from `RunsCounted`, which counts executions against rows
  and attempts at each place of a tool call.
- `ToolsForAcceptedPlans`: from `Accepted`, a plan that reaches the executor
  without an error has the clarifier's event.
- `NodesDoAsAbstracted`: node by node, from `TInv` and `NoResultsYet`. This is what
  carries the theorems about `ChatStream` over to nodes that make calls.
- `LedgerExplained`: from `TotalsInv`, what an enforcer holds is the sum of its
  component's rows, but for the call that is being recorded, and each row was
  written with the sum up to itself.
- `CompletionRecorded`: from `RecordedInv`, what was billed is the sum of the rows
  but for the one that is being written, every row of a call has its budget event
  but for the one that is next, and results in the state have their rows
  (`ResultsRecorded`).
  The last two rest on lemmas about `SumFunctionOnSet` (`SumsAgree`, `SumsExist`, `SumGrows`):
  its recursion over subsets has one solution, shown by a least finite set where
  it would fail, and a part more adds its amount.
- `RunIsBounded`, the safety half of `RunEnds`: a natural number, `StepsLeft`, falls with
  every step of a run, however calls fail and are retried.

In `TextChunksProofs`, for every length, size and overlap:

- `NothingLost`, `PiecesOverlap`, `IdentitiesDiffer`, `LoopBounded`: the pieces cover the
  text, share exactly the overlap, bring new text, have their place as index, and
  are at most as many as characters. The invariant `LoopInv` says where the next
  piece begins, behind what is covered so far, and that only accepted sizes and
  overlaps reach the loop.

In `RagIngestProofs`, for every set of documents, piece counts and batch size
(`IngestAssumption`):

- `TypeCorrect`, `VectorsBelong`, `OneEntryEach`, `LastIngestedServed`: from `IndexInv`,
  which says that the pieces are those of the contents loaded, all of them, that
  vectors and pieces are aligned, and that what the bulk request has written and
  what it has still to write make up the documents loaded.

In `ChatSessionProofs`, for any number of requests (`ClientAssumption`). Both
theorems rest on what the loop of `_load_prompt_history` has read after each message
(`Readings`): the recursion has a solution, and what holds of an empty log and is kept
by one message more holds of all of it (`AllNaturals`, from the least natural number
again).

- `HistoriesInOrder`, however requests overlap: from `OrderInv`. What the loop has read
  is in order whatever the log holds (`TurnInOrder`), as long as a request has one prompt
  in it (`OnePrompt`). A request that posts has none yet (`NotYet`), so what it reads
  stands before what it will store; and a prompt keeps its place while the log grows
  (`PositionKept`).
- `OpenChainIsRead`, with one client that has one request open at a time, waits for its
  end and sends no blank text (`MaxOpen = 1`, `MayLeave = FALSE`, `MayBeBlank = FALSE`, as
  in `session_turns`): from `TurnsInv`. One request has the session (`InTurn`), and a reply
  stands right behind its prompt, whose row is there (`RepliesBehind`). So the prompt
  pending when the loop meets a reply is the one that was answered, and the chain names
  the questions asked so far, one for one (`TurnOpen`, `NamesMore`). Each hypothesis is
  needed: with a blank prompt or two requests at a time the chain read is another.

Model-checked only: liveness (`StreamEnds`, `RunEnds`, `MessageSettles`,
`LoadingEnds`, `ToldUnlessRaced` and the fairness part of `ImplementsTurn`), since the
prover reasons about neither fairness nor ENABLED. The measures proved above
(`RunIsBounded`, `OnlyPollingRepeats`, `RetriesRunOut`, `LoadingRunsOut`) leave of the first
four what fairness gives: that whoever can take a step takes one, and that the steps
excepted above do not go on alone for ever.

## Where code and documents disagree

- `chat_service.py:344`: the worker leaves at the snapshot that decides, so neither
  `finish` call of the runtime runs, and a streamed run whose answer was stored and told
  stays `running`, while
  `packages/shared/schemas/agent_run.json:12` lists `completed`, `failed`,
  `aborted`.
- `chat_service.py:386`: a lost outcome, while `README.md:183` says failures are
  explicit and observable.
- `llm/answer.py:104` and its siblings: four budgets, while `README.md:181` says
  execution is bounded by budget.

Met while modelling, without a run of their own: `execute_plan` looks at no limit
(`tool_executor_node.py:50`), and the final reply to a blank prompt leaves the
chain of clarifications before it open (`chat_service.py:78`, against the comment at
`chat_service.py:88`). A failure told with a blank text ends the message with
no error on the screen (`App.tsx:743` and `751`), against "failures are explicit and
observable" (`README.md:183`); `NoSilentLoss` excepts it by name.

## Not modelled

- Tool server: stateless handlers whose checks would be a module of their own;
  in the plan below.
- Run service: it reads rows and sums them up, with no state of its own; in the
  plan below.
- The session list of the web client, and a window that changes its size, which
  may start two loads in one render.
- `normalize_text`, and two ingestions at a time.
- Renaming sessions, routers without logic, schemas: no state beyond a row.
- Kubernetes, OpenSearch, Bedrock: external; calls to them answer or fail.
- Telemetry, deployment, scripts: no influence on the rest.
- Time: timeouts are steps that may happen; how long a call takes is left open.
- A process that stops: nothing is recovered at start, so a restart adds no
  behaviour but rows left as they are.

## Plan

In order of what the system depends on most; 1 to 6 and 9 are done.

1. `ChatStream` with `AgentNodes`, refining `ChatTurn`; types, ends, conservation
   and refinement proved.
2. `AgentRun`, shown to do what `AgentNodes` abstracts; budgets, executions and
   node behaviour proved.
3. `ChatSession`: history over several and overlapping requests.
4. Violations the documents deny, one run each.
5. `WebChat` and `MessagePager`: the chat of the client, its retries and pages.
6. `TextChunks` and `RagIngest`, with their theorems.
7. `ToolServer`: the order of the checks, the allowlist and the deadline of a tool
   call, in a cluster whose namespaces change; theorems that nothing outside
   the allowlist is asked for and that a refused call asks for nothing.
8. `RunMetrics`: the aggregations of `run_service.py` against the rows of several
   runs, newest first; the splitting of a reply into words.
9. Proofs of the invariants of `ChatStream`, `AgentRun`, `WebChat`, `MessagePager` and
   `ChatSession` (done).
10. The pages of the session list, with renaming and deletion.
