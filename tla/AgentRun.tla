------------------------------- MODULE AgentRun -------------------------------
(***************************************************************************)
(* One run of the agent graph from the inside: the calls each node makes   *)
(* to the language model and to the tool server, what they cost, and what  *)
(* the recorder writes about them.                                         *)
(*                                                                         *)
(* An LLM call is billed by the provider, checked against the budget of    *)
(* the component that made it, then recorded in two rows.  A tool call is  *)
(* retried by the MCP client, so the server may run it more often than it  *)
(* answers.  Every call and every write may fail, and a failure ends the   *)
(* run.  The run is driven either by AgentRuntime.run, which drains the    *)
(* graph, or by the worker of a streamed request, which leaves at the      *)
(* first snapshot that decides the outcome.                                *)
(*                                                                         *)
(* AgentNodes abstracts a node to one step; NodesAsAbstracted says that    *)
(* the nodes here do what it allows.  The step limit is in ChatStream: it  *)
(* is never reached by the five nodes of this graph under the default ten. *)
(***************************************************************************)
EXTENDS AgentNodes, FiniteSets, Functions

CONSTANTS
  MaxBudget,    \* LLM_MAX_BUDGET_USD, in whole units
  Costs,        \* bound of the model: what one provider call may cost
  MaxRetries,   \* MCP_MAX_RETRIES
  MaxPlan       \* bound of the model: steps a plan may have

ASSUME CostAssumption == MaxBudget \in Nat /\ Costs \subseteq Nat
ASSUME BoundAssumption ==
  /\ MaxRetries \in Nat
  /\ MaxPlan \in Nat \ {0}

VARIABLES
  driver,      \* "drain" or "stream"
  pc,          \* where the run is, see Places
  pos,         \* nodes completed so far
  st,          \* the agent state after them
  steps,       \* steps of the plan in st
  llm,         \* the LLM call that is being made: its agent_node
  cost,        \* what it cost
  spent,       \* BudgetState.total_usd of each component's enforcer
  billed,      \* estimated cost of every response the provider has given
  llmRows,     \* LlmCall rows of the run, in order
  budgetRows,  \* BudgetEvent rows, in order
  attempt,     \* attempts of the tool call that is being made
  toolRuns,    \* executions of tools on the server
  toolRows,    \* ToolCall rows
  runStatus    \* status of the AgentRun row

llmVars  == <<llm, cost, spent, billed, llmRows, budgetRows>>
toolVars == <<attempt, toolRuns, toolRows>>
vars     == <<driver, pc, pos, st, steps, llmVars, toolVars, runStatus>>

Pipeline == <<"scope_check", "planner", "clarifier", "tool_executor", "answer">>

Node == Pipeline[pos + 1]

\* Each component has an enforcer of its own; the clarifier makes two calls on one.
Budgets == {"scope", "planner", "clarifier", "answer"}

LlmNodes == Budgets \cup {"clarifier_question"}

BudgetOf(l) == IF l = "clarifier_question" THEN "clarifier" ELSE l

Places == {"start", "next", "call", "row", "event", "reply", "tool", "toolrow",
           "raised", "over"}

Spent == spent["scope"] + spent["planner"] + spent["clarifier"] + spent["answer"]

Init ==
  /\ driver \in {"drain", "stream"}
  /\ pc = "start"
  /\ pos = 0
  /\ st \in {InputState(p) : p \in BOOLEAN}
  /\ steps = 0
  /\ llm = "scope"
  /\ cost = 0
  /\ spent = [b \in Budgets |-> 0]
  /\ billed = 0
  /\ llmRows = <<>>
  /\ budgetRows = <<>>
  /\ attempt = 0
  /\ toolRuns = 0
  /\ toolRows = 0
  /\ runStatus = "absent"

-----------------------------------------------------------------------------
(* The driver.                                                             *)

\* recorder.start is outside the try: its failure leaves no row behind.
Begin ==
  /\ pc = "start"
  /\ \/ pc' = "next" /\ runStatus' = "running"
     \/ pc' = "over" /\ UNCHANGED runStatus
  /\ UNCHANGED <<driver, pos, st, steps, llmVars, toolVars>>

\* The worker of a stream stops pulling: the runtime writes nothing more.
Leave ==
  /\ pc = "next" /\ driver = "stream"
  /\ OutcomeOf(st) # "none"
  /\ pc' = "over"
  /\ UNCHANGED <<driver, pos, st, steps, llmVars, toolVars, runStatus>>

Continues == driver = "drain" \/ OutcomeOf(st) = "none"

GraphEnd ==
  /\ pc = "next" /\ Continues
  /\ pos = Len(Pipeline)
  /\ \/ pc' = "over" /\ runStatus' = "completed"
     \/ pc' = "raised" /\ UNCHANGED runStatus
  /\ UNCHANGED <<driver, pos, st, steps, llmVars, toolVars>>

\* finish("failed"), which may itself fail, and the exception goes on.
Fail ==
  /\ pc = "raised"
  /\ pc' = "over"
  /\ runStatus' \in {"failed", runStatus}
  /\ UNCHANGED <<driver, pos, st, steps, llmVars, toolVars>>

\* What a node makes of the state; the next one is looked for.
NodeDone(s) ==
  /\ st' = s
  /\ pos' = pos + 1
  /\ pc' = "next"

\* Mutant of Calls: the tool executor does not look at the error.
CallsDespiteError(n, s) ==
  CASE n = "scope_check"   -> s.error = "none" /\ s.prompt
    [] n = "planner"       -> s.error = "none" /\ s.prompt
    [] n = "clarifier"     -> s.error = "none" /\ s.plan = "steps"
    [] n = "tool_executor" -> s.plan = "steps"
    [] n = "answer"        -> s.error = "none" /\ CanAnswer(s)

\* The calls a node makes on a state, if it makes any.
Calls(n, s) ==
  CASE n = "scope_check"   -> s.error = "none" /\ s.prompt
    [] n = "planner"       -> s.error = "none" /\ s.prompt
    [] n = "clarifier"     -> s.error = "none" /\ s.plan = "steps"
    [] n = "tool_executor" -> s.error = "none" /\ s.plan = "steps"
    [] n = "answer"        -> s.error = "none" /\ CanAnswer(s)

\* The LLM call a node starts with, of the nodes that start with one.
FirstCall(n) ==
  CASE n = "scope_check" -> "scope"
    [] n = "planner"     -> "planner"
    [] n = "clarifier"   -> "clarifier"
    [] n = "answer"      -> "answer"

Running == pc = "next" /\ Continues /\ pos < Len(Pipeline)

\* The node starts the first of its calls.
StartCalls ==
  /\ Running
  /\ Calls(Node, st)
  /\ IF Node = "tool_executor"
     THEN pc' = "tool" /\ attempt' = 1 /\ UNCHANGED llm
     ELSE pc' = "call" /\ llm' = FirstCall(Node) /\ UNCHANGED attempt
  /\ UNCHANGED <<driver, pos, st, steps, cost, spent, billed, llmRows, budgetRows,
                 toolRuns, toolRows, runStatus>>

\* The first node lists the tools, which may fail after all retries.
ListToolsFails ==
  /\ Running /\ pos = 0
  /\ pc' = "raised"
  /\ UNCHANGED <<driver, pos, st, steps, llmVars, toolVars, runStatus>>

-----------------------------------------------------------------------------
(* Nodes that make no call.                                                *)

\* The state passes through: it has an error, or nothing for the node to do.
PassOn ==
  /\ Running
  /\ \/ st.error # "none"
     \/ Node = "scope_check" /\ ~st.prompt
     \/ Node = "clarifier" /\ st.plan # "steps"
  /\ NodeDone(st)
  /\ UNCHANGED <<driver, steps, llmVars, toolVars, runStatus>>

\* Without a prompt the first tool is planned, if there is one.
FallbackPlan ==
  /\ Running
  /\ Node = "planner" /\ st.error = "none" /\ ~st.prompt
  /\ \/ /\ NodeDone([st EXCEPT !.plan = "steps",
                               !.event = Event("planner", "completed")])
        /\ steps' = 1
     \/ /\ NodeDone([st EXCEPT !.error = "planner_error"])
        /\ UNCHANGED steps
  /\ UNCHANGED <<driver, llmVars, toolVars, runStatus>>

EmptyPlan ==
  /\ Running
  /\ Node = "tool_executor" /\ st.error = "none" /\ st.plan = "empty"
  /\ NodeDone([st EXCEPT !.event = Event("tool_executor", "completed")])
  /\ UNCHANGED <<driver, steps, llmVars, toolVars, runStatus>>

\* Mutant of NothingToAnswer: the node neither raises nor returns.
AnswerWaits ==
  /\ Running
  /\ Node = "answer" /\ st.error = "none" /\ ~CanAnswer(st)
  /\ UNCHANGED vars

\* No prompt, or neither results nor a context: the answer node raises.
NothingToAnswer ==
  /\ Running
  /\ Node = "answer" /\ st.error = "none" /\ ~CanAnswer(st)
  /\ pc' = "raised"
  /\ UNCHANGED <<driver, pos, st, steps, llmVars, toolVars, runStatus>>

-----------------------------------------------------------------------------
(* LLM calls: provider, budget, ledger; then the rows.                     *)

\* Mutant of Invoke: the budget is checked without the call that is being made.
CheckedBeforeCost ==
  /\ pc = "call"
  /\ \/ /\ pc' = "raised"
        /\ UNCHANGED <<cost, spent, billed>>
     \/ \E c \in Costs :
          /\ billed' = billed + c
          /\ cost' = c
          /\ IF spent[BudgetOf(llm)] <= MaxBudget
             THEN /\ spent' = [spent EXCEPT ![BudgetOf(llm)] = @ + c]
                  /\ pc' = "row"
             ELSE /\ pc' = "raised"
                  /\ UNCHANGED spent
  /\ UNCHANGED <<driver, pos, st, steps, llm, llmRows, budgetRows, toolVars, runStatus>>

\* Mutant of Invoke: a call over budget is not accounted for, and used all the same.
OverBudgetUsed ==
  /\ pc = "call"
  /\ \/ /\ pc' = "raised"
        /\ UNCHANGED <<cost, spent, billed>>
     \/ \E c \in Costs :
          /\ billed' = billed + c
          /\ cost' = c
          /\ pc' = "row"
          /\ spent' = IF spent[BudgetOf(llm)] + c <= MaxBudget
                      THEN [spent EXCEPT ![BudgetOf(llm)] = @ + c]
                      ELSE spent
  /\ UNCHANGED <<driver, pos, st, steps, llm, llmRows, budgetRows, toolVars, runStatus>>

\* The check comes after the provider was paid; a call over budget raises.
Invoke ==
  /\ pc = "call"
  /\ \/ /\ pc' = "raised"
        /\ UNCHANGED <<cost, spent, billed>>
     \/ \E c \in Costs :
          /\ billed' = billed + c
          /\ cost' = c
          /\ IF spent[BudgetOf(llm)] + c <= MaxBudget
             THEN /\ spent' = [spent EXCEPT ![BudgetOf(llm)] = @ + c]
                  /\ pc' = "row"
             ELSE /\ pc' = "raised"
                  /\ UNCHANGED spent
  /\ UNCHANGED <<driver, pos, st, steps, llm, llmRows, budgetRows, toolVars, runStatus>>

RecordLlmCall ==
  /\ pc = "row"
  /\ \/ /\ llmRows' = Append(llmRows, [node |-> llm, cost |-> cost])
        /\ pc' = "event"
     \/ /\ pc' = "raised"
        /\ UNCHANGED llmRows
  /\ UNCHANGED <<driver, pos, st, steps, llm, cost, spent, billed, budgetRows,
                 toolVars, runStatus>>

\* Mutant of RecordBudgetEvent: a failed write is ignored.
BudgetEventOptional ==
  /\ pc = "event"
  /\ budgetRows' \in {budgetRows, Append(budgetRows, [node |-> llm, delta |-> cost,
                                                      total |-> spent[BudgetOf(llm)]])}
  /\ pc' = "reply"
  /\ UNCHANGED <<driver, pos, st, steps, llm, cost, spent, billed, llmRows,
                 toolVars, runStatus>>

RecordBudgetEvent ==
  /\ pc = "event"
  /\ \/ /\ budgetRows' = Append(budgetRows, [node |-> llm, delta |-> cost,
                                             total |-> spent[BudgetOf(llm)]])
        /\ pc' = "reply"
     \/ /\ pc' = "raised"
        /\ UNCHANGED budgetRows
  /\ UNCHANGED <<driver, pos, st, steps, llm, cost, spent, billed, llmRows,
                 toolVars, runStatus>>

-----------------------------------------------------------------------------
(* What the nodes make of a reply.                                         *)

Replied(l) == pc = "reply" /\ llm = l

\* A reply the node cannot read (JSON of another shape), and an empty question
\* or answer, raise.
Unusable == pc' = "raised" /\ UNCHANGED <<pos, st>>

Retrieved == {st.rag, TRUE}

\* Mutant of ScopeReply: a rejection keeps the context that was retrieved.
RejectionKeepsContext ==
  /\ Replied("scope")
  /\ \E r \in Retrieved :
       \/ NodeDone([st EXCEPT !.rag = r, !.answer = TRUE,
                              !.event = Event("scope_check", "rejected"),
                              !.error = "out_of_scope"])
       \/ NodeDone([st EXCEPT !.rag = r, !.event = Event("scope_check", "completed")])
  /\ UNCHANGED <<driver, steps, llmVars, toolVars, runStatus>>

\* A rejection is merged into the state from before the retrieval.
ScopeReply ==
  /\ Replied("scope")
  /\ \/ NodeDone([st EXCEPT !.answer = TRUE,
                            !.event = Event("scope_check", "rejected"),
                            !.error = "out_of_scope"])
     \/ \E r \in Retrieved :
          NodeDone([st EXCEPT !.rag = r, !.event = Event("scope_check", "completed")])
     \/ Unusable
  /\ UNCHANGED <<driver, steps, llmVars, toolVars, runStatus>>

PlannerReply ==
  /\ Replied("planner")
  /\ \/ \E r \in Retrieved, n \in 0..MaxPlan :
          /\ NodeDone([st EXCEPT !.rag = r,
                                 !.plan = IF n = 0 THEN "empty" ELSE "steps",
                                 !.event = Event("planner", "completed")])
          /\ steps' = n
     \/ Unusable /\ UNCHANGED steps
  /\ UNCHANGED <<driver, llmVars, toolVars, runStatus>>

Clarification == [st EXCEPT !.event = Event("clarifier", "clarification_required"),
                            !.error = "clarification_required"]

\* The steps are accepted, the reply brings a question for missing fields, or a
\* question is still to be asked for: by the reply, or because the steps do not
\* fit the tools.
ClarifierReply ==
  /\ Replied("clarifier")
  /\ \/ \E n \in 1..MaxPlan :
          /\ NodeDone([st EXCEPT !.event = Event("clarifier", "completed")])
          /\ steps' = n
          /\ UNCHANGED llm
     \/ /\ NodeDone(Clarification)
        /\ UNCHANGED <<steps, llm>>
     \/ /\ pc' = "call"
        /\ llm' = "clarifier_question"
        /\ UNCHANGED <<pos, st, steps>>
     \/ Unusable /\ UNCHANGED <<steps, llm>>
  /\ UNCHANGED <<driver, cost, spent, billed, llmRows, budgetRows, toolVars, runStatus>>

QuestionReply ==
  /\ Replied("clarifier_question")
  /\ \/ NodeDone(Clarification)
     \/ Unusable
  /\ UNCHANGED <<driver, steps, llmVars, toolVars, runStatus>>

AnswerReply ==
  /\ Replied("answer")
  /\ \/ NodeDone([st EXCEPT !.answer = TRUE, !.event = Event("answer", "completed")])
     \/ Unusable
  /\ UNCHANGED <<driver, steps, llmVars, toolVars, runStatus>>

-----------------------------------------------------------------------------
(* Tool calls.                                                             *)

\* Mutant of CallToolFails: one attempt too many.
OneMoreAttempt ==
  /\ pc = "tool"
  /\ toolRuns' \in {toolRuns, toolRuns + 1}
  /\ IF attempt > MaxRetries + 1
     THEN pc' = "raised" /\ UNCHANGED attempt
     ELSE attempt' = attempt + 1 /\ UNCHANGED pc
  /\ UNCHANGED <<driver, pos, st, steps, llmVars, toolRows, runStatus>>

\* A session with the server fails before the tool has run or after it.
CallToolFails ==
  /\ pc = "tool"
  /\ toolRuns' \in {toolRuns, toolRuns + 1}
  /\ IF attempt > MaxRetries
     THEN pc' = "raised" /\ UNCHANGED attempt
     ELSE attempt' = attempt + 1 /\ UNCHANGED pc
  /\ UNCHANGED <<driver, pos, st, steps, llmVars, toolRows, runStatus>>

\* An answer without structured content raises before it is recorded.
CallTool ==
  /\ pc = "tool"
  /\ toolRuns' = toolRuns + 1
  /\ pc' \in {"toolrow", "raised"}
  /\ UNCHANGED <<driver, pos, st, steps, llmVars, attempt, toolRows, runStatus>>

RecordToolCall ==
  /\ pc = "toolrow"
  /\ \/ /\ toolRows' = toolRows + 1
        /\ IF toolRows + 1 = steps
           THEN /\ NodeDone([st EXCEPT !.results = TRUE,
                                       !.event = Event("tool_executor", "completed")])
                /\ UNCHANGED attempt
           ELSE /\ pc' = "tool"
                /\ attempt' = 1
                /\ UNCHANGED <<pos, st>>
     \/ /\ pc' = "raised"
        /\ UNCHANGED <<toolRows, attempt, pos, st>>
  /\ UNCHANGED <<driver, steps, llmVars, toolRuns, runStatus>>

-----------------------------------------------------------------------------

NodeWork == \/ StartCalls \/ ListToolsFails \/ PassOn \/ FallbackPlan \/ EmptyPlan
            \/ NothingToAnswer \/ Invoke \/ RecordLlmCall \/ RecordBudgetEvent
            \/ ScopeReply \/ PlannerReply \/ ClarifierReply \/ QuestionReply
            \/ AnswerReply \/ CallToolFails \/ CallTool \/ RecordToolCall

Next == Begin \/ Leave \/ GraphEnd \/ Fail \/ NodeWork

Spec == Init /\ [][Next]_vars

\* The thread runs, and the calls it makes return or fail.
FairSpec == Spec /\ WF_vars(Next)

-----------------------------------------------------------------------------

TypeOK ==
  /\ driver \in {"drain", "stream"}
  /\ pc \in Places
  /\ pos \in 0..Len(Pipeline)
  /\ st \in AgentState
  /\ steps \in 0..MaxPlan
  /\ llm \in LlmNodes
  /\ cost \in Nat
  /\ spent \in [Budgets -> Nat]
  /\ billed \in Nat
  /\ llmRows \in Seq([node : LlmNodes, cost : Nat])
  /\ budgetRows \in Seq([node : LlmNodes, delta : Nat, total : Nat])
  /\ attempt \in 0..(MaxRetries + 1)
  /\ toolRuns \in Nat
  /\ toolRows \in 0..MaxPlan
  /\ runStatus \in {"absent", "running", "completed", "failed"}

\* No component spends more than the budget it was built with, over all its calls.
BudgetKept == \A b \in Budgets : spent[b] <= MaxBudget

\* A call the provider billed and no enforcer accounts for is the last of the run,
\* and the run is not called completed.
UnaccountedCallFails ==
  /\ billed >= Spent
  /\ billed # Spent => /\ pc \in {"raised", "over"} /\ runStatus # "completed"
                       /\ billed - Spent = cost

\* Each running total in the database is the sum of the amounts recorded for its
\* component up to there: no recorded amount is missing in between.
TotalsExplained ==
  \A i \in 1..Len(budgetRows) :
    LET mine == {j \in 1..i : BudgetOf(budgetRows[j].node) = BudgetOf(budgetRows[i].node)}
    IN budgetRows[i].total = SumFunctionOnSet([j \in mine |-> budgetRows[j].delta], mine)

\* A run recorded as completed has every cost and every tool result on record.
CompletedIsRecorded ==
  runStatus = "completed" =>
    /\ SumFunctionOnSet([i \in DOMAIN llmRows |-> llmRows[i].cost], DOMAIN llmRows) = billed
    /\ Len(budgetRows) = Len(llmRows)
    /\ st.results => toolRows = steps

\* A row stands for an execution, and retries run a step at most so many times.
ToolRunsBounded ==
  /\ toolRows <= toolRuns
  /\ toolRuns <= (toolRows + 1) * (MaxRetries + 1)

\* A tool runs only for a plan the clarifier has accepted, never after the run
\* was rejected or is waiting for the user.
ToolsOnlyWhenClear ==
  [][toolRuns' > toolRuns =>
       st.error = "none" /\ st.event = Event("clarifier", "completed")]_vars

\* The nodes do what AgentNodes says of them: the states they return, when they
\* may raise, and which of their calls stream text to the user.
NodesAsAbstracted ==
  [][/\ pos' # pos => pos' = pos + 1 /\ st' \in NodeOutput(Node, st)
     /\ pos' = pos => st' = st
     /\ (pc' = "raised" /\ pos < Len(Pipeline)) => MayRaise(Node, st, pos = 0)
     /\ (pc' = "call" /\ llm' \in {"clarifier_question", "answer"}) =>
          StreamsText(Node, st)]_vars

\* The run is over at last, however often calls fail and are retried.
RunEnds == <>(pc = "over")

-----------------------------------------------------------------------------
(* What the repository says of a run, and the code does not do.            *)

\* README: execution is bounded by step count, time, and budget.
BudgetBoundsRun == Spent <= MaxBudget

=============================================================================
