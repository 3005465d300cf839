---------------------------- MODULE AgentRunProofs ----------------------------
(***************************************************************************)
(* Proofs about AgentRun, for every budget, every set of costs, and every  *)
(* number of retries and plan steps: its type invariant, that no component *)
(* spends more than its budget and a call beyond it fails the run, how     *)
(* often tools run, that they run for accepted plans only, that the nodes  *)
(* do what AgentNodes says of them, what the rows of a run add up to, and  *)
(* that a run has only so many steps.                                      *)
(***************************************************************************)
EXTENDS AgentRun, FiniteSetTheorems, TLAPS

InLlmCall == pc \in {"call", "row", "event", "reply"}

InToolCall == pc \in {"tool", "toolrow"}

Stopped == pc \in {"raised", "over"}

\* Inside a call the node at hand is the one that makes it, on a state on which
\* it makes calls at all.
CallBelongsToNode ==
  /\ InLlmCall => \/ pos = 0 /\ llm = "scope" /\ st.error = "none" /\ st.prompt
                  \/ pos = 1 /\ llm = "planner" /\ st.error = "none" /\ st.prompt
                  \/ /\ pos = 2 /\ llm \in {"clarifier", "clarifier_question"}
                     /\ st.error = "none" /\ st.plan = "steps"
                  \/ pos = 4 /\ llm = "answer" /\ st.error = "none" /\ CanAnswer(st)
  /\ InToolCall => /\ pos = 3 /\ st.error = "none" /\ st.plan = "steps"
                   /\ attempt \in 1..(MaxRetries + 1)

\* A plan with steps has them counted; its execution has some left.
StepsCounted ==
  /\ st.plan = "steps" => steps \in 1..MaxPlan
  /\ InToolCall => toolRows < steps
  /\ pos <= 3 /\ ~InToolCall /\ ~Stopped => toolRows = 0

TInv == TypeOK /\ CallBelongsToNode /\ StepsCounted

-----------------------------------------------------------------------------
(* Facts about the operators.                                              *)

\* The graph, node by node.
LEMMA Nodes ==
  /\ Len(Pipeline) = 5
  /\ pos = 0 => Node = "scope_check"
  /\ pos = 1 => Node = "planner"
  /\ pos = 2 => Node = "clarifier"
  /\ pos = 3 => Node = "tool_executor"
  /\ pos = 4 => Node = "answer"
  BY DEF Pipeline, Node

\* The calls of each node belong to a component that exists.
LEMMA CallTypes ==
  /\ \A l \in LlmNodes : BudgetOf(l) \in Budgets
  /\ FirstCall("scope_check") = "scope" /\ FirstCall("planner") = "planner"
  /\ FirstCall("clarifier") = "clarifier" /\ FirstCall("answer") = "answer"
<1>1. \A l \in LlmNodes : BudgetOf(l) \in Budgets
  BY DEF LlmNodes, Budgets, BudgetOf
<1>2. FirstCall("scope_check") = "scope"
  BY DEF FirstCall
<1>3. FirstCall("planner") = "planner"
  BY DEF FirstCall
<1>4. FirstCall("clarifier") = "clarifier"
  BY DEF FirstCall
<1>5. FirstCall("answer") = "answer"
  BY DEF FirstCall
<1>6. QED
  BY <1>1, <1>2, <1>3, <1>4, <1>5

\* When each node makes calls.
LEMMA CallsOf ==
  ASSUME NEW s \in AgentState
  PROVE  /\ Calls("scope_check", s) = (s.error = "none" /\ s.prompt)
         /\ Calls("planner", s) = (s.error = "none" /\ s.prompt)
         /\ Calls("clarifier", s) = (s.error = "none" /\ s.plan = "steps")
         /\ Calls("tool_executor", s) = (s.error = "none" /\ s.plan = "steps")
         /\ Calls("answer", s) = (s.error = "none" /\ CanAnswer(s))
<1>1. Calls("scope_check", s) = (s.error = "none" /\ s.prompt)
  BY DEF Calls
<1>2. Calls("planner", s) = (s.error = "none" /\ s.prompt)
  BY DEF Calls
<1>3. Calls("clarifier", s) = (s.error = "none" /\ s.plan = "steps")
  BY DEF Calls
<1>4. Calls("tool_executor", s) = (s.error = "none" /\ s.plan = "steps")
  BY DEF Calls
<1>5. Calls("answer", s) = (s.error = "none" /\ CanAnswer(s))
  BY DEF Calls
<1>6. QED
  BY <1>1, <1>2, <1>3, <1>4, <1>5

\* The changes nodes make to a state keep its type.
LEMMA StateEdits ==
  ASSUME NEW s \in AgentState
  PROVE  /\ [s EXCEPT !.answer = TRUE, !.event = Event("scope_check", "rejected"),
                      !.error = "out_of_scope"] \in AgentState
         /\ \A r \in BOOLEAN :
              [s EXCEPT !.rag = r, !.event = Event("scope_check", "completed")]
                \in AgentState
         /\ \A r \in BOOLEAN, p \in {"empty", "steps"} :
              [s EXCEPT !.rag = r, !.plan = p, !.event = Event("planner", "completed")]
                \in AgentState
         /\ [s EXCEPT !.plan = "steps", !.event = Event("planner", "completed")]
              \in AgentState
         /\ [s EXCEPT !.error = "planner_error"] \in AgentState
         /\ [s EXCEPT !.event = Event("clarifier", "completed")] \in AgentState
         /\ [s EXCEPT !.event = Event("clarifier", "clarification_required"),
                      !.error = "clarification_required"] \in AgentState
         /\ [s EXCEPT !.event = Event("tool_executor", "completed")] \in AgentState
         /\ [s EXCEPT !.results = TRUE,
                      !.event = Event("tool_executor", "completed")] \in AgentState
         /\ [s EXCEPT !.answer = TRUE, !.event = Event("answer", "completed")]
              \in AgentState
<1> DEFINE Evs  == AgentEvents \cup {NoEvent}
           Errs == Errors \cup {"none"}
           Plans == {"none", "empty", "steps"}
<1>1. \A e \in AgentEvents : e \in Evs
  OBVIOUS
<1>2. /\ Event("scope_check", "rejected") \in Evs
      /\ Event("scope_check", "completed") \in Evs
      /\ Event("planner", "completed") \in Evs
      /\ Event("clarifier", "completed") \in Evs
      /\ Event("clarifier", "clarification_required") \in Evs
      /\ Event("tool_executor", "completed") \in Evs
      /\ Event("answer", "completed") \in Evs
  BY <1>1 DEF AgentEvents
<1>3. "out_of_scope" \in Errs /\ "planner_error" \in Errs
      /\ "clarification_required" \in Errs
  BY DEF Errors
<1>4. AgentState = [prompt : BOOLEAN, rag : BOOLEAN, plan : Plans, results : BOOLEAN,
                    answer : BOOLEAN, event : Evs, error : Errs]
  BY DEF AgentState
<1>5. "empty" \in Plans /\ "steps" \in Plans
  OBVIOUS
<1> HIDE DEF Evs, Errs, Plans
<1>6. QED
  BY <1>2, <1>3, <1>4, <1>5

-----------------------------------------------------------------------------
(* Types.                                                                  *)

\* A run begins within its types.
LEMMA InitTInv == Init => TInv
<1> SUFFICES ASSUME Init PROVE TInv
  OBVIOUS
<1>1. PICK p \in BOOLEAN : st = InputState(p)
  BY DEF Init
<1>2. NoEvent \in AgentEvents \cup {NoEvent} /\ "none" \in Errors \cup {"none"}
  OBVIOUS
<1>3. st \in AgentState /\ st.plan = "none"
  BY <1>1, <1>2 DEF InputState, AgentState
<1>4. QED
  BY <1>3, BoundAssumption, Nodes DEF Init, TInv, TypeOK, CallBelongsToNode,
     StepsCounted, Places, LlmNodes, Budgets, InLlmCall, InToolCall, Stopped

\* The driver's steps and those of a node that makes no call.
LEMMA DriverTInv ==
  ASSUME TInv, Begin \/ Leave \/ GraphEnd \/ Fail
  PROVE  TInv'
BY Nodes DEF Begin, Leave, GraphEnd, Fail, llmVars, toolVars, TInv, TypeOK,
   CallBelongsToNode, StepsCounted, Places, InLlmCall, InToolCall, Stopped

\* Starting and ending a node keeps the types and the place of its calls.
LEMMA StartTInv ==
  ASSUME TInv, StartCalls
  PROVE  TInv'
<1>1. st \in AgentState /\ pos \in 0..4
  BY Nodes DEF TInv, TypeOK, StartCalls, Running
<1>2. CASE pos = 3
  <2>1. /\ pc' = "tool" /\ attempt' = 1 /\ llm' = llm
        /\ st.error = "none" /\ st.plan = "steps"
    BY <1>1, <1>2, Nodes, CallsOf DEF StartCalls
  <2>2. toolRows = 0
    BY <1>2 DEF StartCalls, Running, TInv, StepsCounted, InToolCall, Stopped
  <2>3. QED
    BY <1>2, <2>1, <2>2, BoundAssumption DEF StartCalls, TInv, TypeOK,
       CallBelongsToNode, StepsCounted, Places, InLlmCall, InToolCall, Stopped
<1>3. CASE pos # 3
  <2>1. Node # "tool_executor"
    BY <1>1, <1>3, Nodes
  <2>2. pc' = "call" /\ llm' = FirstCall(Node) /\ attempt' = attempt
    BY <2>1 DEF StartCalls
  <2>3. /\ pos = 0 => llm' = "scope" /\ st.error = "none" /\ st.prompt
        /\ pos = 1 => llm' = "planner" /\ st.error = "none" /\ st.prompt
        /\ pos = 2 => llm' = "clarifier" /\ st.error = "none" /\ st.plan = "steps"
        /\ pos = 4 => llm' = "answer" /\ st.error = "none" /\ CanAnswer(st)
    BY <1>1, <2>2, Nodes, CallsOf, CallTypes DEF StartCalls
  <2>4. CallBelongsToNode' /\ llm' \in LlmNodes
    BY <1>1, <1>3, <2>2, <2>3 DEF StartCalls, CallBelongsToNode, InLlmCall, InToolCall,
       LlmNodes, Budgets, CanAnswer
  <2>5. QED
    BY <2>2, <2>4 DEF StartCalls, Running, TInv, TypeOK, StepsCounted, Places,
       InToolCall, Stopped
<1>4. QED
  BY <1>2, <1>3

\* A node completes, or the run is stopped by an exception.
LEMMA CompletesTInv ==
  ASSUME TInv, pos \in 0..4,
         NEW s \in AgentState, NodeDone(s),
         steps' \in 0..MaxPlan, s.plan = "steps" => steps' \in 1..MaxPlan,
         toolRows' \in 0..MaxPlan, pos <= 2 => toolRows' = 0,
         UNCHANGED <<driver, llmVars, attempt, toolRuns, runStatus>>
  PROVE  TInv'
<1>1. st' = s /\ pos' = pos + 1 /\ pc' = "next"
  BY DEF NodeDone
<1>2. TypeOK'
  BY <1>1, Nodes DEF llmVars, TInv, TypeOK, Places
<1>3. CallBelongsToNode' /\ StepsCounted'
  BY <1>1 DEF CallBelongsToNode, StepsCounted, InLlmCall, InToolCall, Stopped
<1>4. QED
  BY <1>2, <1>3 DEF TInv

\* So does a step that raises.
LEMMA RaisesTInv ==
  ASSUME TInv, pc' = "raised",
         UNCHANGED <<driver, pos, st, steps, llmVars, toolVars, runStatus>>
  PROVE  TInv'
BY DEF llmVars, toolVars, TInv, TypeOK, CallBelongsToNode, StepsCounted, Places,
   InLlmCall, InToolCall, Stopped

\* So does a node that makes no call.
LEMMA NoCallTInv ==
  ASSUME TInv, ListToolsFails \/ PassOn \/ FallbackPlan \/ EmptyPlan \/ NothingToAnswer
  PROVE  TInv'
<1>1. st \in AgentState
  BY DEF TInv, TypeOK
<1>2. Running => /\ pos \in 0..4
                 /\ pos <= 2 => toolRows = 0
  BY Nodes DEF TInv, TypeOK, StepsCounted, Running, InToolCall, Stopped
<1>3. /\ steps \in 0..MaxPlan /\ toolRows \in 0..MaxPlan
      /\ st.plan = "steps" => steps \in 1..MaxPlan
  BY DEF TInv, TypeOK, StepsCounted
<1>4. CASE ListToolsFails
  BY <1>4, RaisesTInv DEF ListToolsFails
<1>5. CASE PassOn
  BY <1>1, <1>2, <1>3, <1>5, CompletesTInv DEF PassOn, toolVars
<1>6. CASE FallbackPlan
  <2>1. UNCHANGED <<driver, llmVars, attempt, toolRuns, runStatus, toolRows>>
    BY <1>6 DEF FallbackPlan, toolVars
  <2>2. CASE /\ NodeDone([st EXCEPT !.plan = "steps",
                                    !.event = Event("planner", "completed")])
             /\ steps' = 1
    <3>1. steps' \in 0..MaxPlan /\ steps' \in 1..MaxPlan
      BY <2>2, BoundAssumption
    <3>2. Running
      BY <1>6 DEF FallbackPlan
    <3>3. toolRows' \in 0..MaxPlan /\ (pos <= 2 => toolRows' = 0) /\ pos \in 0..4
      BY <1>2, <1>3, <2>1, <3>2
    <3>4. QED
      BY <1>1, <2>1, <2>2, <3>1, <3>3, StateEdits, CompletesTInv
  <2>3. CASE NodeDone([st EXCEPT !.error = "planner_error"]) /\ UNCHANGED steps
    <3>1. [st EXCEPT !.error = "planner_error"].plan = st.plan
      BY <1>1 DEF AgentState
    <3>2. QED
      BY <1>1, <1>2, <1>3, <1>6, <2>1, <2>3, <3>1, StateEdits, CompletesTInv
         DEF FallbackPlan
  <2>4. QED
    BY <1>6, <2>2, <2>3 DEF FallbackPlan
<1>7. CASE EmptyPlan
  <2>1. [st EXCEPT !.event = Event("tool_executor", "completed")].plan = st.plan
    BY <1>1 DEF AgentState
  <2>2. QED
    BY <1>1, <1>2, <1>3, <1>7, <2>1, StateEdits, CompletesTInv DEF EmptyPlan, toolVars
<1>8. CASE NothingToAnswer
  BY <1>8, RaisesTInv DEF NothingToAnswer
<1>9. QED
  BY <1>4, <1>5, <1>6, <1>7, <1>8

\* So does each step of an LLM call.
LEMMA LlmCallTInv ==
  ASSUME TInv, Invoke \/ RecordLlmCall \/ RecordBudgetEvent
  PROVE  TInv'
<1>1. BudgetOf(llm) \in Budgets
  BY CallTypes DEF TInv, TypeOK
<1>2. CallBelongsToNode' /\ StepsCounted'
  BY DEF TInv, CallBelongsToNode, StepsCounted, InLlmCall, InToolCall, Stopped,
     Invoke, RecordLlmCall, RecordBudgetEvent, toolVars, CanAnswer
<1>3. CASE Invoke
  <2>1. spent' \in [Budgets -> Nat] /\ cost' \in Nat /\ billed' \in Nat
    BY <1>1, <1>3, CostAssumption DEF Invoke, TInv, TypeOK
  <2>2. TypeOK'
    BY <1>3, <2>1 DEF Invoke, TInv, TypeOK, Places, toolVars
  <2>3. QED
    BY <1>2, <2>2 DEF TInv
<1>4. CASE RecordLlmCall
  <2>1. llmRows' \in Seq([node : LlmNodes, cost : Nat])
    <3> DEFINE Rows == [node : LlmNodes, cost : Nat]
               row == [node |-> llm, cost |-> cost]
    <3>1. row \in Rows /\ llmRows \in Seq(Rows)
      BY DEF TInv, TypeOK
    <3>2. llmRows' = llmRows \/ llmRows' = Append(llmRows, row)
      BY <1>4 DEF RecordLlmCall
    <3> HIDE DEF Rows, row
    <3>3. llmRows' \in Seq(Rows)
      BY <3>1, <3>2
    <3>4. QED
      BY <3>3 DEF Rows
  <2>2. TypeOK'
    BY <1>4, <2>1 DEF RecordLlmCall, TInv, TypeOK, Places, toolVars
  <2>3. QED
    BY <1>2, <2>2 DEF TInv
<1>5. CASE RecordBudgetEvent
  <2>1. spent[BudgetOf(llm)] \in Nat
    BY <1>1 DEF TInv, TypeOK
  <2>2. budgetRows' \in Seq([node : LlmNodes, delta : Nat, total : Nat])
    <3> DEFINE Rows == [node : LlmNodes, delta : Nat, total : Nat]
               row == [node |-> llm, delta |-> cost, total |-> spent[BudgetOf(llm)]]
    <3>1. row \in Rows /\ budgetRows \in Seq(Rows)
      BY <2>1 DEF TInv, TypeOK
    <3>2. budgetRows' = budgetRows \/ budgetRows' = Append(budgetRows, row)
      BY <1>5 DEF RecordBudgetEvent
    <3> HIDE DEF Rows, row
    <3>3. budgetRows' \in Seq(Rows)
      BY <3>1, <3>2
    <3>4. QED
      BY <3>3 DEF Rows
  <2>3. TypeOK'
    BY <1>5, <2>2 DEF RecordBudgetEvent, TInv, TypeOK, Places, toolVars
  <2>4. QED
    BY <1>2, <2>3 DEF TInv
<1>6. QED
  BY <1>3, <1>4, <1>5

\* So does what a node makes of a reply.
LEMMA ReplyTInv ==
  ASSUME TInv, ScopeReply \/ PlannerReply \/ ClarifierReply \/ QuestionReply \/ AnswerReply
  PROVE  TInv'
<1>1. st \in AgentState /\ Retrieved \subseteq BOOLEAN
  BY DEF TInv, TypeOK, Retrieved, AgentState
<1>2. pc = "reply" => /\ pos \in 0..4 /\ pos # 3
                      /\ pos <= 2 => toolRows = 0
                      /\ llm = "clarifier" => pos = 2 /\ st.plan = "steps"
                                              /\ st.error = "none"
  BY DEF TInv, CallBelongsToNode, StepsCounted, InLlmCall, InToolCall, Stopped
<1>3. /\ steps \in 0..MaxPlan /\ toolRows \in 0..MaxPlan
      /\ st.plan = "steps" => steps \in 1..MaxPlan
  BY DEF TInv, TypeOK, StepsCounted
<1>4. /\ [st EXCEPT !.answer = TRUE, !.event = Event("scope_check", "rejected"),
                    !.error = "out_of_scope"].plan = st.plan
      /\ \A r \in BOOLEAN :
           [st EXCEPT !.rag = r, !.event = Event("scope_check", "completed")].plan
             = st.plan
      /\ [st EXCEPT !.event = Event("clarifier", "completed")].plan = st.plan
      /\ Clarification.plan = st.plan
      /\ [st EXCEPT !.answer = TRUE, !.event = Event("answer", "completed")].plan
           = st.plan
  BY <1>1 DEF AgentState, Clarification
<1>5. Clarification \in AgentState
  BY <1>1, StateEdits DEF Clarification
<1>6. CASE ScopeReply
  <2>1. /\ pc = "reply"
        /\ UNCHANGED <<driver, steps, llmVars, attempt, toolRuns, toolRows, runStatus>>
    BY <1>6 DEF ScopeReply, Replied, toolVars
  <2>2. CASE Unusable
    BY <2>1, <2>2, RaisesTInv DEF Unusable, toolVars
  <2>3. CASE NodeDone([st EXCEPT !.answer = TRUE,
                                 !.event = Event("scope_check", "rejected"),
                                 !.error = "out_of_scope"])
    BY <1>1, <1>2, <1>3, <1>4, <2>1, <2>3, StateEdits, CompletesTInv
  <2>4. ASSUME NEW r \in Retrieved,
               NodeDone([st EXCEPT !.rag = r, !.event = Event("scope_check", "completed")])
        PROVE  TInv'
    BY <1>1, <1>2, <1>3, <1>4, <2>1, <2>4, StateEdits, CompletesTInv
  <2>5. QED
    BY <1>6, <2>2, <2>3, <2>4 DEF ScopeReply
<1>7. CASE PlannerReply
  <2>1. /\ pc = "reply"
        /\ UNCHANGED <<driver, llmVars, attempt, toolRuns, toolRows, runStatus>>
    BY <1>7 DEF PlannerReply, Replied, toolVars
  <2>2. CASE Unusable /\ UNCHANGED steps
    BY <2>1, <2>2, RaisesTInv DEF Unusable, toolVars
  <2>3. ASSUME NEW r \in Retrieved, NEW n \in 0..MaxPlan,
               NodeDone([st EXCEPT !.rag = r,
                                   !.plan = IF n = 0 THEN "empty" ELSE "steps",
                                   !.event = Event("planner", "completed")]),
               steps' = n
        PROVE  TInv'
    <3> DEFINE p == IF n = 0 THEN "empty" ELSE "steps"
               s == [st EXCEPT !.rag = r, !.plan = p,
                               !.event = Event("planner", "completed")]
    <3>1. s \in AgentState
      BY <1>1, StateEdits
    <3>2. s.plan = p
      BY <1>1 DEF AgentState
    <3>3. s.plan = "steps" => steps' \in 1..MaxPlan
      BY <2>3, <3>2, BoundAssumption
    <3>4. NodeDone(s)
      BY <2>3
    <3> HIDE DEF s
    <3>5. QED
      BY <1>2, <1>3, <2>1, <2>3, <3>1, <3>3, <3>4, CompletesTInv
  <2>4. QED
    BY <1>7, <2>2, <2>3 DEF PlannerReply
<1>8. CASE ClarifierReply
  <2>1. /\ pc = "reply" /\ llm = "clarifier"
        /\ UNCHANGED <<driver, cost, spent, billed, llmRows, budgetRows, attempt,
                       toolRuns, toolRows, runStatus>>
    BY <1>8 DEF ClarifierReply, Replied, toolVars
  <2>2. CASE Unusable /\ UNCHANGED <<steps, llm>>
    BY <2>1, <2>2, RaisesTInv DEF Unusable, llmVars, toolVars
  <2>3. CASE NodeDone(Clarification) /\ UNCHANGED <<steps, llm>>
    BY <1>2, <1>3, <1>4, <1>5, <2>1, <2>3, CompletesTInv DEF llmVars
  <2>4. ASSUME NEW n \in 1..MaxPlan,
               NodeDone([st EXCEPT !.event = Event("clarifier", "completed")]),
               steps' = n, UNCHANGED llm
        PROVE  TInv'
    <3>1. steps' \in 0..MaxPlan /\ steps' \in 1..MaxPlan
      BY <2>4, BoundAssumption
    <3>2. QED
      BY <1>1, <1>2, <1>3, <2>1, <2>4, <3>1, StateEdits, CompletesTInv DEF llmVars
  <2>5. CASE /\ pc' = "call" /\ llm' = "clarifier_question"
             /\ UNCHANGED <<pos, st, steps>>
    BY <1>2, <2>1, <2>5 DEF TInv, TypeOK, CallBelongsToNode, StepsCounted, Places,
       LlmNodes, InLlmCall, InToolCall, Stopped
  <2>6. QED
    BY <1>8, <2>2, <2>3, <2>4, <2>5 DEF ClarifierReply
<1>9. CASE QuestionReply
  <2>1. /\ pc = "reply"
        /\ UNCHANGED <<driver, steps, llmVars, attempt, toolRuns, toolRows, runStatus>>
    BY <1>9 DEF QuestionReply, Replied, toolVars
  <2>2. CASE Unusable
    BY <2>1, <2>2, RaisesTInv DEF Unusable, toolVars
  <2>3. CASE NodeDone(Clarification)
    BY <1>2, <1>3, <1>4, <1>5, <2>1, <2>3, CompletesTInv
  <2>4. QED
    BY <1>9, <2>2, <2>3 DEF QuestionReply
<1>10. CASE AnswerReply
  <2>1. /\ pc = "reply"
        /\ UNCHANGED <<driver, steps, llmVars, attempt, toolRuns, toolRows, runStatus>>
    BY <1>10 DEF AnswerReply, Replied, toolVars
  <2>2. CASE Unusable
    BY <2>1, <2>2, RaisesTInv DEF Unusable, toolVars
  <2>3. CASE NodeDone([st EXCEPT !.answer = TRUE, !.event = Event("answer", "completed")])
    BY <1>1, <1>2, <1>3, <1>4, <2>1, <2>3, StateEdits, CompletesTInv
  <2>4. QED
    BY <1>10, <2>2, <2>3 DEF AnswerReply
<1>11. QED
  BY <1>6, <1>7, <1>8, <1>9, <1>10

\* So does each step of a tool call.
LEMMA ToolTInv ==
  ASSUME TInv, CallToolFails \/ CallTool \/ RecordToolCall
  PROVE  TInv'
<1>1. st \in AgentState
  BY DEF TInv, TypeOK
<1>2. InToolCall /\ pos = 3 /\ toolRows < steps
      /\ st.error = "none" /\ st.plan = "steps"
  BY DEF TInv, CallBelongsToNode, StepsCounted, InToolCall, CallToolFails, CallTool,
     RecordToolCall
<1>3. CASE CallToolFails
  BY <1>2, <1>3, BoundAssumption DEF CallToolFails, llmVars, TInv, TypeOK,
     CallBelongsToNode, StepsCounted, Places, InLlmCall, InToolCall, Stopped
<1>4. CASE CallTool
  BY <1>2, <1>4 DEF CallTool, llmVars, TInv, TypeOK,
     CallBelongsToNode, StepsCounted, Places, InLlmCall, InToolCall, Stopped
<1>5. CASE RecordToolCall
  <2>1. UNCHANGED <<driver, steps, llmVars, toolRuns, runStatus>>
    BY <1>5 DEF RecordToolCall
  <2>2. CASE pc' = "raised" /\ UNCHANGED <<toolRows, attempt, pos, st>>
    BY <2>1, <2>2, RaisesTInv DEF toolVars
  <2>3. CASE /\ toolRows' = toolRows + 1 /\ pc' = "tool" /\ attempt' = 1
             /\ UNCHANGED <<pos, st>> /\ toolRows + 1 # steps
    BY <1>2, <2>1, <2>3, BoundAssumption DEF llmVars, TInv, TypeOK,
       CallBelongsToNode, StepsCounted, Places, InLlmCall, InToolCall, Stopped
  <2>4. CASE /\ toolRows' = toolRows + 1 /\ UNCHANGED attempt
             /\ NodeDone([st EXCEPT !.results = TRUE,
                                    !.event = Event("tool_executor", "completed")])
    <3>1. [st EXCEPT !.results = TRUE,
                     !.event = Event("tool_executor", "completed")].plan = st.plan
      BY <1>1 DEF AgentState
    <3>2. /\ toolRows + 1 \in 0..MaxPlan /\ steps \in 1..MaxPlan /\ pos \in 0..4
          /\ ~(pos <= 2)
      BY <1>2, BoundAssumption DEF TInv, TypeOK
    <3>3. /\ steps' \in 0..MaxPlan /\ steps' \in 1..MaxPlan
          /\ toolRows' \in 0..MaxPlan
      BY <2>1, <2>4, <3>2, BoundAssumption
    <3>4. QED
      BY <1>1, <2>1, <2>4, <3>1, <3>2, <3>3, StateEdits, CompletesTInv
  <2>5. QED
    BY <1>5, <2>2, <2>3, <2>4 DEF RecordToolCall
<1>6. QED
  BY <1>3, <1>4, <1>5

\* What TInv speaks of is part of the variables.
LEMMA StutterTInv ==
  ASSUME TInv, UNCHANGED vars
  PROVE  TInv'
BY DEF vars, llmVars, toolVars, TInv, TypeOK, CallBelongsToNode, StepsCounted,
   InLlmCall, InToolCall, Stopped, CanAnswer

\* Every step of a run keeps the types.
LEMMA StepTInv ==
  ASSUME TInv, [Next]_vars
  PROVE  TInv'
BY DriverTInv, StartTInv, NoCallTInv, LlmCallTInv, ReplyTInv, ToolTInv, StutterTInv
   DEF Next, NodeWork

\* The variables keep their types; calls are made where a node makes calls.
THEOREM TypesAndPlaces == Spec => []TInv
<1>1. QED
  BY InitTInv, StepTInv, PTL DEF Spec

\* The run's state, its rows and its counters keep their types and bounds.
THEOREM TypeCorrect == Spec => []TypeOK
<1>1. TInv => TypeOK
  BY DEF TInv
<1>2. QED
  BY <1>1, TypesAndPlaces, PTL

-----------------------------------------------------------------------------
(* Budgets.                                                                *)

\* While the run goes on, what the provider was paid is what the enforcers have
\* accounted for; at most the last call is beyond that.
Accounted ==
  /\ billed >= Spent
  /\ ~Stopped => billed = Spent
  /\ billed # Spent => billed - Spent = cost /\ runStatus # "completed"
  /\ runStatus = "completed" => pc = "over"

BInv == TInv /\ BudgetKept /\ Accounted

\* What a component has spent is a number.
LEMMA SpentType ==
  ASSUME TypeOK
  PROVE  /\ Spent \in Nat
         /\ \A b \in Budgets : spent[b] \in Nat
BY DEF TypeOK, Spent, Budgets

\* A call that is billed is accounted for, or it is the last.
LEMMA InvokeAccounted ==
  ASSUME BInv, Invoke
  PROVE  BudgetKept' /\ Accounted'
<1>1. /\ BudgetOf(llm) \in Budgets /\ spent \in [Budgets -> Nat] /\ billed \in Nat
      /\ Spent \in Nat /\ billed = Spent /\ pc # "over" /\ runStatus # "completed"
  BY CallTypes, SpentType DEF BInv, TInv, TypeOK, Accounted, Stopped, Invoke
<1>2. runStatus' = runStatus
  BY DEF Invoke
<1>3. CASE pc' = "raised" /\ UNCHANGED <<cost, spent, billed>>
  BY <1>1, <1>2, <1>3 DEF BInv, BudgetKept, Accounted, Stopped, Spent
<1>4. ASSUME NEW c \in Costs, billed' = billed + c, cost' = c,
             IF spent[BudgetOf(llm)] + c <= MaxBudget
             THEN /\ spent' = [spent EXCEPT ![BudgetOf(llm)] = @ + c]
                  /\ pc' = "row"
             ELSE /\ pc' = "raised"
                  /\ UNCHANGED spent
      PROVE  BudgetKept' /\ Accounted'
  <2>1. c \in Nat
    BY CostAssumption
  <2>2. CASE spent[BudgetOf(llm)] + c <= MaxBudget
    <3>1. /\ spent' = [spent EXCEPT ![BudgetOf(llm)] = @ + c]
          /\ pc' = "row"
      BY <1>4, <2>2
    <3>2. BudgetKept'
      BY <1>1, <2>2, <3>1 DEF BInv, BudgetKept
    <3>3. Spent' = Spent + c
      BY <1>1, <2>1, <3>1 DEF Spent, Budgets
    <3>4. Accounted'
      BY <1>1, <1>2, <1>4, <2>1, <3>1, <3>3 DEF Accounted, Stopped
    <3>5. QED
      BY <3>2, <3>4
  <2>3. CASE ~(spent[BudgetOf(llm)] + c <= MaxBudget)
    <3>1. spent' = spent /\ pc' = "raised"
      BY <1>4, <2>3
    <3>2. Spent' = Spent
      BY <3>1 DEF Spent
    <3>3. QED
      BY <1>1, <1>2, <1>4, <2>1, <3>1, <3>2 DEF BInv, BudgetKept, Accounted, Stopped
  <2>4. QED
    BY <2>2, <2>3
<1>5. QED
  BY <1>3, <1>4 DEF Invoke

\* Every step keeps the accounts.
LEMMA StepBInv ==
  ASSUME BInv, [Next]_vars
  PROVE  BInv'
<1>1. SUFFICES BudgetKept' /\ Accounted'
  BY StepTInv DEF BInv
<1>2. CASE Begin \/ Leave \/ GraphEnd \/ Fail
  <2>1. UNCHANGED <<spent, billed, cost>>
    BY <1>2 DEF Begin, Leave, GraphEnd, Fail, llmVars
  <2>2. Spent' = Spent
    BY <2>1 DEF Spent
  <2>3. Accounted'
    BY <1>2, <2>1, <2>2 DEF Begin, Leave, GraphEnd, Fail, BInv, Accounted, Stopped
  <2>4. QED
    BY <2>1, <2>3 DEF BInv, BudgetKept
<1>3. CASE Invoke
  BY <1>3, InvokeAccounted
<1>4. CASE NodeWork /\ ~Invoke
  <2>1. UNCHANGED <<spent, billed, cost, runStatus>> /\ ~Stopped
    BY <1>4 DEF NodeWork, StartCalls, ListToolsFails, PassOn, FallbackPlan, EmptyPlan,
       NothingToAnswer, RecordLlmCall, RecordBudgetEvent, ScopeReply, PlannerReply,
       ClarifierReply, QuestionReply, AnswerReply, CallToolFails, CallTool,
       RecordToolCall, Running, Replied, llmVars, Stopped
  <2>2. Spent' = Spent
    BY <2>1 DEF Spent
  <2>3. QED
    BY <2>1, <2>2 DEF BInv, BudgetKept, Accounted, Stopped
<1>5. CASE UNCHANGED vars
  BY <1>5 DEF vars, llmVars, BInv, BudgetKept, Accounted, Stopped, Spent
<1>6. QED
  BY <1>2, <1>3, <1>4, <1>5, Zenon DEF Next

\* The accounts begin empty.
LEMMA InitBInv == Init => BInv
<1> SUFFICES ASSUME Init PROVE BInv
  OBVIOUS
<1>1. Spent = 0
  BY DEF Init, Spent, Budgets
<1>2. QED
  BY <1>1, InitTInv, CostAssumption DEF Init, BInv, BudgetKept, Accounted, Stopped

\* The accounts are kept throughout.
LEMMA AccountsKept == Spec => []BInv
  BY InitBInv, StepBInv, PTL DEF Spec

\* BudgetEnforcer.check_and_spend: no component spends more than it was given.
THEOREM BudgetRespected == Spec => []BudgetKept
<1>1. BInv => BudgetKept
  BY DEF BInv
<1>2. QED
  BY <1>1, AccountsKept, PTL

\* invoke_and_account pays before it checks: the call that goes over the budget is
\* the only one unaccounted for, ends the run, and the run is not completed.
THEOREM OverBudgetEndsRun == Spec => []UnaccountedCallFails
<1>1. BInv => UnaccountedCallFails
  BY DEF BInv, Accounted, Stopped, UnaccountedCallFails
<1>2. QED
  BY <1>1, AccountsKept, PTL

-----------------------------------------------------------------------------
(* Tools.                                                                  *)

Attempts == MaxRetries + 1

\* A row stands for an execution; each step of the plan is run at most once per
\* attempt.  Inside a call the attempts made count, behind it all of them may.
RunsCounted ==
  /\ toolRows <= toolRuns
  /\ pc = "tool" => toolRuns <= toolRows * Attempts + (attempt - 1)
  /\ pc = "toolrow" => /\ toolRows + 1 <= toolRuns
                       /\ toolRuns <= toolRows * Attempts + attempt
  /\ Stopped => toolRuns <= (toolRows + 1) * Attempts
  /\ ~InToolCall /\ ~Stopped => toolRuns <= toolRows * Attempts

RInv == TInv /\ RunsCounted

\* Counting one more row of attempts.
LEMMA Products ==
  ASSUME NEW n \in Nat
  PROVE  /\ Attempts \in Nat /\ n * Attempts \in Nat /\ (n + 1) * Attempts \in Nat
         /\ (n + 1) * Attempts = n * Attempts + Attempts
BY BoundAssumption DEF Attempts

\* The steps of a tool call keep the count of executions.
LEMMA ToolStepCounted ==
  ASSUME RInv, CallToolFails \/ CallTool \/ RecordToolCall
  PROVE  RunsCounted'
<1> DEFINE spentRuns == toolRows * Attempts
<1>1. /\ toolRows \in Nat /\ toolRuns \in Nat /\ attempt \in Nat /\ MaxRetries \in Nat
      /\ attempt \in 1..Attempts /\ Attempts \in Nat /\ Attempts = MaxRetries + 1
  BY BoundAssumption DEF RInv, TInv, TypeOK, CallBelongsToNode, InToolCall,
     CallToolFails, CallTool, RecordToolCall, Attempts
<1>2. spentRuns \in Nat /\ (toolRows + 1) * Attempts = spentRuns + Attempts
  BY <1>1, Products
<1> HIDE DEF spentRuns
<1>3. CASE CallToolFails
  <2>1. toolRows' = toolRows /\ toolRuns' \in {toolRuns, toolRuns + 1} /\ pc = "tool"
    BY <1>3 DEF CallToolFails
  <2>2. toolRows <= toolRuns /\ toolRuns <= spentRuns + (attempt - 1)
    BY <2>1 DEF RInv, RunsCounted, spentRuns
  <2>3. CASE attempt > MaxRetries
    <3>1. pc' = "raised" /\ attempt = Attempts
      BY <1>1, <1>3, <2>3 DEF CallToolFails
    <3>2. toolRuns' <= (toolRows' + 1) * Attempts
      BY <1>1, <1>2, <2>1, <2>2, <3>1
    <3>3. QED
      BY <1>1, <2>1, <2>2, <3>1, <3>2 DEF RunsCounted, InToolCall, Stopped
  <2>4. CASE ~(attempt > MaxRetries)
    <3>1. pc' = "tool" /\ attempt' = attempt + 1
      BY <1>3, <2>1, <2>4 DEF CallToolFails
    <3>2. toolRuns' <= toolRows' * Attempts + (attempt' - 1)
      BY <1>1, <1>2, <2>1, <2>2, <3>1 DEF spentRuns
    <3>3. QED
      BY <1>1, <2>1, <2>2, <3>1, <3>2 DEF RunsCounted, InToolCall, Stopped
  <2>5. QED
    BY <2>3, <2>4
<1>4. CASE CallTool
  <2>1. /\ toolRows' = toolRows /\ toolRuns' = toolRuns + 1 /\ attempt' = attempt
        /\ pc = "tool" /\ pc' \in {"toolrow", "raised"}
    BY <1>4 DEF CallTool
  <2>2. toolRows <= toolRuns /\ toolRuns <= spentRuns + (attempt - 1)
    BY <2>1 DEF RInv, RunsCounted, spentRuns
  <2>3. /\ toolRuns' <= toolRows' * Attempts + attempt'
        /\ toolRuns' <= (toolRows' + 1) * Attempts
        /\ toolRows' + 1 <= toolRuns' /\ toolRows' <= toolRuns'
    BY <1>1, <1>2, <2>1, <2>2 DEF spentRuns
  <2>4. QED
    BY <2>1, <2>3 DEF RunsCounted, InToolCall, Stopped
<1>5. CASE RecordToolCall
  <2>1. toolRuns' = toolRuns /\ pc = "toolrow"
    BY <1>5 DEF RecordToolCall
  <2>2. toolRows + 1 <= toolRuns /\ toolRuns <= spentRuns + attempt
    BY <2>1 DEF RInv, RunsCounted, spentRuns
  <2>3. CASE pc' = "raised" /\ toolRows' = toolRows
    <3>1. toolRuns' <= (toolRows' + 1) * Attempts /\ toolRows' <= toolRuns'
      BY <1>1, <1>2, <2>1, <2>2, <2>3
    <3>2. QED
      BY <2>3, <3>1 DEF RunsCounted, InToolCall, Stopped
  <2>4. CASE /\ toolRows' = toolRows + 1
             /\ pc' = "next" \/ (pc' = "tool" /\ attempt' = 1)
    <3>1. toolRows' * Attempts = spentRuns + Attempts
      BY <1>2, <2>4
    <3>2. /\ toolRuns' <= toolRows' * Attempts /\ toolRows' <= toolRuns'
          /\ attempt' = 1 => toolRuns' <= toolRows' * Attempts + (attempt' - 1)
      BY <1>1, <1>2, <2>1, <2>2, <2>4, <3>1
    <3>3. QED
      BY <2>4, <3>2 DEF RunsCounted, InToolCall, Stopped
  <2>5. \/ pc' = "raised" /\ toolRows' = toolRows
        \/ /\ toolRows' = toolRows + 1
           /\ pc' = "next" \/ (pc' = "tool" /\ attempt' = 1)
    <3>1. CASE toolRows + 1 = steps
      BY <1>5, <3>1 DEF RecordToolCall, NodeDone
    <3>2. CASE toolRows + 1 # steps
      BY <1>5, <3>2 DEF RecordToolCall
    <3>3. QED
      BY <3>1, <3>2
  <2>6. QED
    BY <2>3, <2>4, <2>5
<1>6. QED
  BY <1>3, <1>4, <1>5

\* Every other step leaves the counters as they are, and starts from none when it
\* starts to call tools.
LEMMA OtherStepCounted ==
  ASSUME RInv, UNCHANGED <<toolRuns, toolRows>>, ~InToolCall,
         pc # "over" \/ pc' = "over", pc = "raised" => pc' = "over",
         pc' = "tool" => toolRows = 0 /\ attempt' = 1, pc' # "toolrow"
  PROVE  RunsCounted'
<1>1. toolRows \in Nat /\ toolRuns \in Nat
  BY BoundAssumption DEF RInv, TInv, TypeOK
<1>2. /\ toolRows * Attempts \in Nat /\ Attempts \in Nat
      /\ (toolRows + 1) * Attempts = toolRows * Attempts + Attempts
  BY <1>1, Products
<1>3. toolRows <= toolRuns
  BY DEF RInv, RunsCounted
<1>4. CASE Stopped
  BY <1>3, <1>4 DEF RInv, RunsCounted, InToolCall, Stopped
<1>5. CASE ~Stopped
  <2>1. toolRuns <= toolRows * Attempts
    BY <1>5 DEF RInv, RunsCounted
  <2>2. toolRuns <= (toolRows + 1) * Attempts
    BY <1>1, <1>2, <2>1
  <2>3. pc' = "tool" => toolRuns <= toolRows * Attempts + (attempt' - 1)
    BY <1>1, <1>2, <2>1
  <2>4. QED
    BY <1>3, <2>1, <2>2, <2>3 DEF RunsCounted, InToolCall, Stopped
<1>6. QED
  BY <1>4, <1>5

\* Every step keeps the count of executions.
LEMMA StepRInv ==
  ASSUME RInv, [Next]_vars
  PROVE  RInv'
<1>1. SUFFICES RunsCounted'
  BY StepTInv DEF RInv
<1>2. CASE Begin \/ Leave \/ GraphEnd \/ Fail
  BY <1>2, OtherStepCounted DEF Begin, Leave, GraphEnd, Fail, toolVars, InToolCall
<1>3. CASE StartCalls
  <2>1. pc' = "tool" => toolRows = 0 /\ attempt' = 1
    <3>1. ASSUME pc' = "tool" PROVE Node = "tool_executor" /\ attempt' = 1
      BY <1>3, <3>1 DEF StartCalls
    <3>2. Node = "tool_executor" => pos = 3
      BY <1>3, Nodes DEF StartCalls, Running, RInv, TInv, TypeOK
    <3>3. pos = 3 => toolRows = 0
      BY <1>3 DEF StartCalls, Running, RInv, TInv, StepsCounted, InToolCall, Stopped
    <3>4. QED
      BY <3>1, <3>2, <3>3
  <2>2. QED
    BY <1>3, <2>1, OtherStepCounted DEF StartCalls, Running, InToolCall
<1>4. CASE ListToolsFails \/ PassOn \/ FallbackPlan \/ EmptyPlan \/ NothingToAnswer
  BY <1>4, OtherStepCounted DEF ListToolsFails, PassOn, FallbackPlan, EmptyPlan,
     NothingToAnswer, Running, NodeDone, toolVars, InToolCall
<1>5. CASE Invoke \/ RecordLlmCall \/ RecordBudgetEvent
  BY <1>5, OtherStepCounted DEF Invoke, RecordLlmCall, RecordBudgetEvent, toolVars,
     InToolCall
<1>6. CASE ScopeReply \/ PlannerReply \/ ClarifierReply \/ QuestionReply \/ AnswerReply
  BY <1>6, OtherStepCounted DEF ScopeReply, PlannerReply, ClarifierReply,
     QuestionReply, AnswerReply, Replied, NodeDone, Unusable, toolVars, InToolCall
<1>7. CASE CallToolFails \/ CallTool \/ RecordToolCall
  BY <1>7, ToolStepCounted
<1>8. CASE UNCHANGED vars
  BY <1>8 DEF vars, toolVars, RInv, RunsCounted, InToolCall, Stopped
<1>9. QED
  BY <1>2, <1>3, <1>4, <1>5, <1>6, <1>7, <1>8, Zenon DEF Next, NodeWork

\* Nothing was executed at first.
LEMMA InitRInv == Init => RInv
<1> SUFFICES ASSUME Init PROVE RInv
  OBVIOUS
<1>1. 0 * Attempts = 0
  BY Products
<1>2. QED
  BY <1>1, InitTInv DEF Init, RInv, RunsCounted, InToolCall, Stopped

\* MCPClient.call_tool retries what may have run: however calls fail, a step of a
\* plan runs at most once per attempt, and no row is without an execution.
THEOREM ExecutionsBounded == Spec => []ToolRunsBounded
<1>1. RInv => ToolRunsBounded
  <2> SUFFICES ASSUME RInv PROVE ToolRunsBounded
    OBVIOUS
  <2>1. toolRows \in Nat /\ toolRuns \in Nat /\ attempt \in Nat
    BY BoundAssumption DEF RInv, TInv, TypeOK
  <2>2. /\ toolRows \in Nat /\ toolRuns \in Nat /\ attempt \in Nat
        /\ toolRows * Attempts \in Nat /\ Attempts \in Nat
        /\ (toolRows + 1) * Attempts = toolRows * Attempts + Attempts
    BY <2>1, Products
  <2>3. InToolCall => attempt <= Attempts
    BY BoundAssumption DEF RInv, TInv, CallBelongsToNode, Attempts
  <2>4. /\ toolRows <= toolRuns
        /\ \/ toolRuns <= (toolRows + 1) * Attempts
           \/ toolRuns <= toolRows * Attempts
           \/ toolRuns <= toolRows * Attempts + (attempt - 1) /\ attempt <= Attempts
           \/ toolRuns <= toolRows * Attempts + attempt /\ attempt <= Attempts
    BY <2>3 DEF RInv, RunsCounted, InToolCall, Stopped
  <2>5. toolRuns <= (toolRows + 1) * Attempts
    <3> DEFINE product == toolRows * Attempts
    <3>1. product \in Nat /\ (toolRows + 1) * Attempts = product + Attempts
      BY <2>2
    <3>2. \/ toolRuns <= product + Attempts
          \/ toolRuns <= product
          \/ toolRuns <= product + (attempt - 1) /\ attempt <= Attempts
          \/ toolRuns <= product + attempt /\ attempt <= Attempts
      BY <2>2, <2>4, Zenon
    <3> HIDE DEF product
    <3>3. toolRuns <= product + Attempts
      BY <2>2, <3>1, <3>2
    <3>4. QED
      BY <3>1, <3>3
  <2>6. QED
    BY <2>4, <2>5 DEF ToolRunsBounded, Attempts
<1>2. QED
  BY <1>1, InitRInv, StepRInv, PTL DEF Spec

-----------------------------------------------------------------------------
(* What the nodes do.                                                      *)

\* A plan that reaches the executor with no error was accepted by the clarifier.
Accepted ==
  pos = 3 /\ st.error = "none" /\ st.plan = "steps" =>
    st.event = Event("clarifier", "completed")

\* There are no results before the executor has run.
NoResultsYet == pos <= 3 => st.results = FALSE

AInv == TInv /\ Accepted /\ NoResultsYet

\* Results come from the executor only.
LEMMA StepNoResults ==
  ASSUME TInv, NoResultsYet, [Next]_vars
  PROVE  NoResultsYet'
<1>1. st \in AgentState /\ pos \in 0..5
  BY Nodes DEF TInv, TypeOK
<1>2. CASE UNCHANGED <<pos, st>>
  BY <1>2 DEF NoResultsYet
<1>3. CASE pos' = pos + 1 /\ (st'.results = st.results \/ pos = 3)
  BY <1>1, <1>3 DEF NoResultsYet
<1>4. CASE Begin \/ Leave \/ GraphEnd \/ Fail \/ StartCalls \/ ListToolsFails
           \/ NothingToAnswer \/ Invoke \/ RecordLlmCall \/ RecordBudgetEvent
           \/ CallToolFails \/ CallTool
  BY <1>2, <1>4 DEF Begin, Leave, GraphEnd, Fail, StartCalls, ListToolsFails,
     NothingToAnswer, Invoke, RecordLlmCall, RecordBudgetEvent, CallToolFails, CallTool
<1>5. CASE PassOn \/ EmptyPlan \/ FallbackPlan
  BY <1>1, <1>3, <1>5 DEF PassOn, EmptyPlan, FallbackPlan, NodeDone, AgentState
<1>6. CASE RecordToolCall
  <2>1. pos = 3
    BY <1>6 DEF RecordToolCall, TInv, CallBelongsToNode, InToolCall
  <2>2. QED
    BY <1>2, <1>3, <1>6, <2>1 DEF RecordToolCall, NodeDone
<1>7. CASE ScopeReply \/ PlannerReply \/ ClarifierReply \/ QuestionReply \/ AnswerReply
  <2>1. UNCHANGED <<pos, st>> \/ (pos' = pos + 1 /\ st'.results = st.results)
    <3>1. CASE ScopeReply
      BY <1>1, <3>1 DEF ScopeReply, NodeDone, Unusable, AgentState
    <3>2. CASE PlannerReply
      BY <1>1, <3>2 DEF PlannerReply, NodeDone, Unusable, AgentState
    <3>3. CASE ClarifierReply
      BY <1>1, <3>3 DEF ClarifierReply, Clarification, NodeDone, Unusable, AgentState
    <3>4. CASE QuestionReply
      BY <1>1, <3>4 DEF QuestionReply, Clarification, NodeDone, Unusable, AgentState
    <3>5. CASE AnswerReply
      BY <1>1, <3>5 DEF AnswerReply, NodeDone, Unusable, AgentState
    <3>6. QED
      BY <1>7, <3>1, <3>2, <3>3, <3>4, <3>5
  <2>2. QED
    BY <1>2, <1>3, <2>1
<1>8. CASE UNCHANGED vars
  BY <1>2, <1>8 DEF vars
<1>9. QED
  BY <1>4, <1>5, <1>6, <1>7, <1>8, Zenon DEF Next, NodeWork

\* Every step keeps what is said of accepted plans.
LEMMA StepAInv ==
  ASSUME AInv, [Next]_vars
  PROVE  AInv'
<1>1. SUFFICES Accepted'
  BY StepTInv, StepNoResults DEF AInv
<1>2. st \in AgentState /\ pos \in 0..5
  BY Nodes DEF AInv, TInv, TypeOK
<1>3. CASE UNCHANGED <<pos, st>>
  BY <1>3 DEF AInv, Accepted
<1>4. CASE pos' = pos + 1 /\ pos # 2
  BY <1>2, <1>4 DEF Accepted
<1>5. CASE PassOn /\ pos = 2
  BY <1>5, Nodes DEF PassOn, NodeDone, Accepted
<1>6. CASE ClarifierReply /\ pos' = pos + 1
  <2>1. \/ st' = [st EXCEPT !.event = Event("clarifier", "completed")]
        \/ st' = Clarification
    BY <1>2, <1>6 DEF ClarifierReply, NodeDone, Unusable
  <2>2. QED
    BY <1>2, <2>1 DEF Accepted, Clarification, AgentState
<1>7. CASE QuestionReply /\ pos' = pos + 1
  <2>1. st' = Clarification
    BY <1>2, <1>7 DEF QuestionReply, NodeDone, Unusable
  <2>2. QED
    BY <1>2, <2>1 DEF Accepted, Clarification, AgentState
<1>8. ASSUME Next, ~UNCHANGED <<pos, st>>
      PROVE  /\ pos' = pos + 1
             /\ pos = 2 => PassOn \/ ClarifierReply \/ QuestionReply
  <2>1. CASE Begin \/ Leave \/ GraphEnd \/ Fail \/ StartCalls \/ ListToolsFails
             \/ NothingToAnswer \/ Invoke \/ RecordLlmCall \/ RecordBudgetEvent
             \/ CallToolFails \/ CallTool
    BY <1>8, <2>1 DEF Begin, Leave, GraphEnd, Fail, StartCalls, ListToolsFails,
       NothingToAnswer, Invoke, RecordLlmCall, RecordBudgetEvent, CallToolFails, CallTool
  <2>2. CASE PassOn \/ ClarifierReply \/ QuestionReply
    BY <1>8, <2>2 DEF PassOn, ClarifierReply, QuestionReply, NodeDone, Unusable
  <2>3. CASE FallbackPlan \/ EmptyPlan
    BY <1>2, <1>8, <2>3, Nodes DEF FallbackPlan, EmptyPlan, NodeDone
  <2>4. CASE ScopeReply \/ PlannerReply \/ AnswerReply
    <3>1. pos # 2
      <4>1. pc = "reply" /\ llm \in {"scope", "planner", "answer"}
        BY <2>4, Zenon DEF ScopeReply, PlannerReply, AnswerReply, Replied
      <4>2. QED
        BY <4>1 DEF AInv, TInv, CallBelongsToNode, InLlmCall
    <3>2. pos' = pos + 1 \/ Unusable
      BY <2>4, Zenon DEF ScopeReply, PlannerReply, AnswerReply, NodeDone
    <3>3. QED
      BY <1>8, <3>1, <3>2 DEF Unusable
  <2>5. CASE RecordToolCall
    BY <1>2, <1>8, <2>5 DEF RecordToolCall, NodeDone, AInv, TInv, CallBelongsToNode,
       InToolCall
  <2>6. QED
    BY <1>8, <2>1, <2>2, <2>3, <2>4, <2>5, Zenon DEF Next, NodeWork
<1>9. UNCHANGED vars => UNCHANGED <<pos, st>>
  BY DEF vars
<1>10. QED
  BY <1>3, <1>4, <1>5, <1>6, <1>7, <1>8, <1>9

\* No plan is there at first.
LEMMA InitAInv == Init => AInv
<1> SUFFICES ASSUME Init PROVE AInv
  OBVIOUS
<1>1. PICK p \in BOOLEAN : st = InputState(p)
  BY DEF Init
<1>2. st.results = FALSE
  BY <1>1 DEF InputState
<1>3. QED
  BY <1>2, InitTInv DEF Init, AInv, Accepted, NoResultsYet

\* ToolExecutorNode: tools run for a plan the clarifier accepted, and not after a
\* rejection or while a question to the user is open.
THEOREM ToolsForAcceptedPlans == Spec => ToolsOnlyWhenClear
<1>1. ASSUME AInv, [Next]_vars
      PROVE  [toolRuns' > toolRuns =>
                st.error = "none" /\ st.event = Event("clarifier", "completed")]_vars
  <2>1. CASE CallToolFails \/ CallTool
    BY <1>1, <2>1 DEF CallToolFails, CallTool, AInv, TInv, CallBelongsToNode,
       InToolCall, Accepted
  <2>2. CASE ~(CallToolFails \/ CallTool)
    <3>1. toolRuns' = toolRuns
      BY <1>1, <2>2 DEF Next, NodeWork, Begin, Leave, GraphEnd, Fail, StartCalls,
         ListToolsFails, PassOn, FallbackPlan, EmptyPlan, NothingToAnswer, Invoke,
         RecordLlmCall, RecordBudgetEvent, ScopeReply, PlannerReply, ClarifierReply,
         QuestionReply, AnswerReply, RecordToolCall, vars, toolVars
    <3>2. toolRuns \in Nat
      BY <1>1 DEF AInv, TInv, TypeOK
    <3>3. QED
      BY <3>1, <3>2
  <2>3. QED
    BY <2>1, <2>2
<1>2. QED
  BY <1>1, InitAInv, StepAInv, PTL DEF Spec, ToolsOnlyWhenClear

\* What AgentNodes lets a step do.
NodeStep ==
  /\ pos' # pos => pos' = pos + 1 /\ st' \in NodeOutput(Node, st)
  /\ pos' = pos => st' = st
  /\ (pc' = "raised" /\ pos < Len(Pipeline)) => MayRaise(Node, st, pos = 0)
  /\ (pc' = "call" /\ llm' \in {"clarifier_question", "answer"}) => StreamsText(Node, st)

\* The outputs of the nodes, written out.
LEMMA OutputOf ==
  ASSUME NEW s
  PROVE  /\ NodeOutput("scope_check", s) = ScopeCheck(s)
         /\ NodeOutput("planner", s) = Planner(s)
         /\ NodeOutput("clarifier", s) = Clarifier(s)
         /\ NodeOutput("tool_executor", s) = ToolExecutor(s)
         /\ NodeOutput("answer", s) = Answer(s)
<1>1. NodeOutput("scope_check", s) = ScopeCheck(s)
  BY DEF NodeOutput
<1>2. NodeOutput("planner", s) = Planner(s)
  BY DEF NodeOutput
<1>3. NodeOutput("clarifier", s) = Clarifier(s)
  BY DEF NodeOutput
<1>4. NodeOutput("tool_executor", s) = ToolExecutor(s)
  BY DEF NodeOutput
<1>5. NodeOutput("answer", s) = Answer(s)
  BY DEF NodeOutput
<1>6. QED
  BY <1>1, <1>2, <1>3, <1>4, <1>5

\* Inside a call the node may raise; a completed node has returned a state.
LEMMA NodeMayRaise ==
  ASSUME TInv, InLlmCall \/ InToolCall
  PROVE  MayRaise(Node, st, pos = 0)
BY Nodes DEF TInv, CallBelongsToNode, MayRaise

\* A node that is done with one of its outputs does as AgentNodes allows.
LEMMA CompletesAsAbstracted ==
  ASSUME pos \in Nat, NEW s \in NodeOutput(Node, st), NodeDone(s)
  PROVE  NodeStep
BY DEF NodeDone, NodeStep

\* So does one that raises where it may.
LEMMA RaisesAsAbstracted ==
  ASSUME TInv, InLlmCall \/ InToolCall, pc' = "raised", UNCHANGED <<pos, st>>
  PROVE  NodeStep
BY NodeMayRaise DEF NodeStep

\* So do the nodes that make no call.
LEMMA NoCallAsAbstracted ==
  ASSUME AInv, ListToolsFails \/ PassOn \/ FallbackPlan \/ EmptyPlan \/ NothingToAnswer
  PROVE  NodeStep
<1>1. st \in AgentState /\ pos \in Nat
  BY DEF AInv, TInv, TypeOK
<1>2. pos \in 0..4
  BY Nodes DEF AInv, TInv, TypeOK, ListToolsFails, PassOn, FallbackPlan, EmptyPlan,
     NothingToAnswer, Running
<1>3. CASE ListToolsFails
  BY <1>3 DEF ListToolsFails, NodeStep, MayRaise
<1>4. CASE PassOn
  <2>1. \/ st.error # "none"
        \/ pos = 0 /\ ~st.prompt
        \/ pos = 2 /\ st.plan # "steps"
    BY <1>2, <1>4, Nodes DEF PassOn
  <2>2. st \in NodeOutput(Node, st)
    <3>1. CASE st.error # "none"
      <4>1. st \in ScopeCheck(st) /\ st \in Planner(st) /\ st \in Clarifier(st)
        <5>1. /\ ScopeCheck(st) = {st} /\ Planner(st) = {st}
              /\ Clarifier(st) = {st}
          BY <3>1 DEF ScopeCheck, Planner, Clarifier
        <5>2. QED
          BY <5>1
      <4>2. st \in ToolExecutor(st) /\ st \in Answer(st)
        BY <3>1, Zenon DEF ToolExecutor, Answer
      <4>3. QED
        BY <1>2, <4>1, <4>2, Nodes, OutputOf
    <3>2. CASE pos = 0 /\ ~st.prompt
      <4>1. st \in ScopeCheck(st)
        BY <3>2, Zenon DEF ScopeCheck
      <4>2. QED
        BY <3>2, <4>1, Nodes, OutputOf
    <3>3. CASE pos = 2 /\ st.plan # "steps"
      <4>1. st \in Clarifier(st)
        BY <3>3, Zenon DEF Clarifier
      <4>2. QED
        BY <3>3, <4>1, Nodes, OutputOf
    <3>4. QED
      BY <2>1, <3>1, <3>2, <3>3
  <2>3. QED
    BY <1>1, <1>4, <2>2, CompletesAsAbstracted DEF PassOn
<1>5. CASE FallbackPlan
  <2>1. /\ NodeOutput(Node, st) = Planner(st)
        /\ st.error = "none" /\ ~st.prompt
    BY <1>5, OutputOf DEF FallbackPlan
  <2>2. /\ [st EXCEPT !.plan = "steps", !.event = Event("planner", "completed")]
             \in NodeOutput(Node, st)
        /\ [st EXCEPT !.error = "planner_error"] \in NodeOutput(Node, st)
    <3>1. Planner(st) = {[st EXCEPT !.error = "planner_error"],
                         [st EXCEPT !.plan = "steps",
                                    !.event = Event("planner", "completed")]}
      BY <2>1 DEF Planner
    <3>2. QED
      BY <2>1, <3>1, Zenon
  <2>3. QED
    BY <1>1, <1>5, <2>2, CompletesAsAbstracted DEF FallbackPlan
<1>6. CASE EmptyPlan
  <2>1. st.error = "none" /\ st.plan = "empty" /\ NodeOutput(Node, st) = ToolExecutor(st)
    BY <1>6, OutputOf DEF EmptyPlan
  <2>2. [st EXCEPT !.event = Event("tool_executor", "completed")] \in ToolExecutor(st)
    <3>1. st.results = FALSE
      BY <1>2, <1>6, Nodes DEF EmptyPlan, AInv, NoResultsYet
    <3>2. ToolExecutor(st) = {[st EXCEPT !.results = FALSE,
                                         !.event = Event("tool_executor", "completed")]}
      BY <2>1 DEF ToolExecutor
    <3>3. [st EXCEPT !.results = FALSE, !.event = Event("tool_executor", "completed")]
            = [st EXCEPT !.event = Event("tool_executor", "completed")]
      BY <1>1, <3>1 DEF AgentState
    <3>4. QED
      BY <3>2, <3>3
  <2>3. QED
    BY <1>1, <1>6, <2>1, <2>2, CompletesAsAbstracted DEF EmptyPlan
<1>7. CASE NothingToAnswer
  BY <1>7 DEF NothingToAnswer, NodeStep, MayRaise
<1>8. QED
  BY <1>3, <1>4, <1>5, <1>6, <1>7


\* So does what a node makes of a reply.
LEMMA ReplyAsAbstracted ==
  ASSUME TInv, ScopeReply \/ PlannerReply \/ ClarifierReply \/ QuestionReply \/ AnswerReply
  PROVE  NodeStep
<1>1. st \in AgentState /\ pos \in Nat /\ InLlmCall
  <2>1. pc = "reply"
    BY Zenon DEF ScopeReply, PlannerReply, ClarifierReply, QuestionReply, AnswerReply,
       Replied
  <2>2. QED
    BY <2>1, Nodes DEF TInv, TypeOK, InLlmCall
<1>2. /\ llm = "scope" => pos = 0 /\ st.error = "none" /\ st.prompt
      /\ llm = "planner" => pos = 1 /\ st.error = "none" /\ st.prompt
      /\ llm \in {"clarifier", "clarifier_question"} =>
           pos = 2 /\ st.error = "none" /\ st.plan = "steps"
      /\ llm = "answer" => pos = 4 /\ st.error = "none" /\ CanAnswer(st)
  BY <1>1 DEF TInv, CallBelongsToNode
<1>3. CASE Unusable
  BY <1>1, <1>3, RaisesAsAbstracted DEF Unusable
<1>4. CASE ScopeReply
  <2>1. st.error = "none" /\ st.prompt /\ NodeOutput(Node, st) = ScopeCheck(st)
    BY <1>2, <1>4, Nodes, OutputOf DEF ScopeReply, Replied
  <2>2. /\ [st EXCEPT !.answer = TRUE, !.event = Event("scope_check", "rejected"),
                      !.error = "out_of_scope"] \in ScopeCheck(st)
        /\ \A r \in Retrieved :
             [st EXCEPT !.rag = r, !.event = Event("scope_check", "completed")]
               \in ScopeCheck(st)
    BY <2>1, Zenon DEF ScopeCheck, Retrieved
  <2>3. QED
    BY <1>1, <1>3, <1>4, <2>1, <2>2, CompletesAsAbstracted DEF ScopeReply
<1>5. CASE PlannerReply
  <2>1. st.error = "none" /\ st.prompt /\ NodeOutput(Node, st) = Planner(st)
    BY <1>2, <1>5, Nodes, OutputOf DEF PlannerReply, Replied
  <2>2. \A r \in Retrieved, p \in {"empty", "steps"} :
          [st EXCEPT !.rag = r, !.plan = p, !.event = Event("planner", "completed")]
            \in Planner(st)
    <3> SUFFICES ASSUME NEW r \in {st.rag, TRUE}, NEW p \in {"empty", "steps"}
                 PROVE  [st EXCEPT !.rag = r, !.plan = p,
                                   !.event = Event("planner", "completed")] \in Planner(st)
      BY DEF Retrieved
    <3> DEFINE R == {st.rag, TRUE}
               P == {"empty", "steps"}
               edit(x, y) == [st EXCEPT !.rag = x, !.plan = y,
                                        !.event = Event("planner", "completed")]
    <3>1. Planner(st) = {edit(x, y) : x \in R, y \in P}
      BY <2>1 DEF Planner
    <3>2. r \in R /\ p \in P
      OBVIOUS
    <3> SUFFICES edit(r, p) \in Planner(st)
      OBVIOUS
    <3> HIDE DEF R, P, edit
    <3>3. QED
      BY <3>1, <3>2
  <2>3. ASSUME NEW r \in Retrieved, NEW p \in {"empty", "steps"},
               NodeDone([st EXCEPT !.rag = r, !.plan = p,
                                   !.event = Event("planner", "completed")])
        PROVE  NodeStep
    BY <1>1, <2>1, <2>2, <2>3, CompletesAsAbstracted
  <2>4. QED
    BY <1>3, <1>5, <2>3 DEF PlannerReply
<1>6. st.plan = "steps" /\ st.error = "none" =>
        /\ [st EXCEPT !.event = Event("clarifier", "completed")] \in Clarifier(st)
        /\ Clarification \in Clarifier(st)
  BY Zenon DEF Clarifier, Clarification
<1>7. CASE ClarifierReply
  <2>1. /\ st.error = "none" /\ st.plan = "steps" /\ NodeOutput(Node, st) = Clarifier(st)
        /\ Node = "clarifier"
    BY <1>2, <1>7, Nodes, OutputOf DEF ClarifierReply, Replied
  <2>2. CASE pc' = "call" /\ llm' = "clarifier_question" /\ UNCHANGED <<pos, st, steps>>
    BY <1>1, <2>1, <2>2 DEF NodeStep, StreamsText
  <2>3. QED
    BY <1>1, <1>3, <1>6, <1>7, <2>1, <2>2, CompletesAsAbstracted DEF ClarifierReply
<1>8. CASE QuestionReply
  <2>1. st.error = "none" /\ st.plan = "steps" /\ NodeOutput(Node, st) = Clarifier(st)
    BY <1>2, <1>8, Nodes, OutputOf DEF QuestionReply, Replied
  <2>2. QED
    BY <1>1, <1>3, <1>6, <1>8, <2>1, CompletesAsAbstracted DEF QuestionReply
<1>9. CASE AnswerReply
  <2>1. st.error = "none" /\ CanAnswer(st) /\ NodeOutput(Node, st) = Answer(st)
    BY <1>2, <1>9, Nodes, OutputOf DEF AnswerReply, Replied
  <2>2. [st EXCEPT !.answer = TRUE, !.event = Event("answer", "completed")] \in Answer(st)
    BY <2>1, Zenon DEF Answer
  <2>3. QED
    BY <1>1, <1>3, <1>9, <2>1, <2>2, CompletesAsAbstracted DEF AnswerReply
<1>10. QED
  BY <1>4, <1>5, <1>7, <1>8, <1>9

\* So does the failure of an LLM call.
LEMMA CallsAsAbstracted ==
  ASSUME TInv, StartCalls \/ Invoke \/ RecordLlmCall \/ RecordBudgetEvent
  PROVE  NodeStep
<1>1. CASE StartCalls
  <2>1. st \in AgentState /\ pos \in 0..4 /\ UNCHANGED <<pos, st>> /\ pc' # "raised"
    BY <1>1, Nodes DEF TInv, TypeOK, StartCalls, Running
  <2>2. pc' = "call" => llm' = FirstCall(Node) /\ Node # "tool_executor"
    BY <1>1 DEF StartCalls
  <2>3. pc' = "call" /\ llm' \in {"clarifier_question", "answer"} =>
          Node = "answer" /\ Calls(Node, st)
    BY <1>1, <2>1, <2>2, Nodes, CallTypes DEF StartCalls
  <2>4. QED
    BY <2>1, <2>3, CallsOf DEF NodeStep, StreamsText
<1>2. CASE Invoke \/ RecordLlmCall \/ RecordBudgetEvent
  <2>1. InLlmCall /\ UNCHANGED <<pos, st>> /\ pc' # "call"
    BY <1>2 DEF Invoke, RecordLlmCall, RecordBudgetEvent, InLlmCall
  <2>2. QED
    BY <2>1, NodeMayRaise DEF NodeStep
<1>3. QED
  BY <1>1, <1>2

\* So does the execution of a plan.
LEMMA ToolsAsAbstracted ==
  ASSUME TInv, CallToolFails \/ CallTool \/ RecordToolCall
  PROVE  NodeStep
<1>1. /\ InToolCall /\ st \in AgentState /\ pos = 3
      /\ st.error = "none" /\ st.plan = "steps"
  BY DEF TInv, TypeOK, CallBelongsToNode, InToolCall, CallToolFails, CallTool,
     RecordToolCall
<1>2. CASE UNCHANGED <<pos, st>> /\ pc' # "call"
  BY <1>1, <1>2, NodeMayRaise DEF NodeStep
<1>3. CASE NodeDone([st EXCEPT !.results = TRUE,
                              !.event = Event("tool_executor", "completed")])
  <2>1. NodeOutput(Node, st) = ToolExecutor(st)
    BY <1>1, Nodes, OutputOf
  <2>2. [st EXCEPT !.results = TRUE, !.event = Event("tool_executor", "completed")]
          \in ToolExecutor(st)
    BY <1>1 DEF ToolExecutor
  <2>3. QED
    BY <1>1, <1>3, <2>1, <2>2, CompletesAsAbstracted
<1>4. QED
  BY <1>1, <1>2, <1>3 DEF CallToolFails, CallTool, RecordToolCall, InToolCall

\* The driver between the nodes does nothing a node would do.
LEMMA DriverAsAbstracted ==
  ASSUME TInv, Begin \/ Leave \/ GraphEnd \/ Fail
  PROVE  NodeStep
BY DEF Begin, Leave, GraphEnd, Fail, NodeStep

\* ChatStream takes a node as one step given by NodeOutput, MayRaise and StreamsText:
\* the nodes with all their calls, retries and failures do no more than that.
THEOREM NodesDoAsAbstracted == Spec => NodesAsAbstracted
<1>1. ASSUME AInv, [Next]_vars
      PROVE  [NodeStep]_vars
  <2>1. TInv
    BY <1>1 DEF AInv
  <2>2. QED
    BY <1>1, <2>1, DriverAsAbstracted, CallsAsAbstracted, NoCallAsAbstracted,
       ReplyAsAbstracted, ToolsAsAbstracted DEF Next, NodeWork
<1>2. QED
  BY <1>1, InitAInv, StepAInv, PTL DEF Spec, NodesAsAbstracted, NodeStep

-----------------------------------------------------------------------------
(* Sums.  SumFunctionOnSet folds over a set; its recursion is unfolded here. *)

\* g sums f over every subset of S, an element at a time.
Sums(f, S, g) ==
  g = [s \in SUBSET S |-> IF s = {} THEN 0
                          ELSE f[CHOOSE x \in s : TRUE] + g[s \ {CHOOSE x \in s : TRUE}]]

\* Of sets of finite sets one is least.
LEMMA LeastSet ==
  ASSUME NEW S, IsFiniteSet(S), NEW B \in SUBSET SUBSET S, B # {}
  PROVE  \E s \in B : \A t \in B : t \subseteq s => t = s
<1>1. IsWellFoundedOn(StrictSubsetOrdering(S), FiniteSubsetsOf(S))
  BY FS_StrictSubsetOrderingWellFounded
<1>2. B \subseteq FiniteSubsetsOf(S)
  BY FS_Subset DEF FiniteSubsetsOf
<1>3. PICK s \in B : \A t \in B : <<t, s>> \notin StrictSubsetOrdering(S)
  BY <1>1, <1>2, WFMin
<1>4. QED
  BY <1>3 DEF StrictSubsetOrdering

\* The recursion a sum is defined by.
LEMMA SumUnfolds ==
  ASSUME NEW f, NEW S
  PROVE  SumFunctionOnSet(f, S) = (CHOOSE g : Sums(f, S, g))[S]
  BY Zenon DEF SumFunctionOnSet, FoldFunctionOnSet, MapThenFoldSet, Sums

\* Two solutions of the recursion agree.
LEMMA SumsAgree ==
  ASSUME NEW f, NEW S, NEW T, NEW s, NEW g, NEW h, Sums(f, S, g), Sums(f, T, h),
         IsFiniteSet(s), s \subseteq S, s \subseteq T
  PROVE  g[s] = h[s]
<1> DEFINE Bad == {t \in SUBSET s : g[t] # h[t]}
<1>1. SUFFICES ASSUME Bad # {} PROVE FALSE
  OBVIOUS
<1>a. Bad \in SUBSET SUBSET s
  OBVIOUS
<1>2. PICK b \in Bad : \A t \in Bad : t \subseteq b => t = b
  <2> HIDE DEF Bad
  <2>1. QED
    BY <1>1, <1>a, LeastSet
<1>3. b \in SUBSET S /\ b \in SUBSET T /\ b \in SUBSET s /\ g[b] # h[b]
  OBVIOUS
<1>4. PICK x : x = CHOOSE y \in b : TRUE
  OBVIOUS
<1>5. /\ g[b] = IF b = {} THEN 0 ELSE f[x] + g[b \ {x}]
      /\ h[b] = IF b = {} THEN 0 ELSE f[x] + h[b \ {x}]
  BY <1>3, <1>4 DEF Sums
<1>6. CASE b = {}
  BY <1>3, <1>5, <1>6
<1>7. CASE b # {}
  <2>1. x \in b
    BY <1>4, <1>7
  <2>2. b \ {x} \in SUBSET s /\ b \ {x} # b /\ b \ {x} \subseteq b
    BY <1>3, <2>1
  <2>3. g[b \ {x}] = h[b \ {x}]
    BY <1>2, <2>2
  <2>4. QED
    BY <1>3, <1>5, <1>7, <2>3
<1>8. QED
  BY <1>6, <1>7

\* There is a solution.
LEMMA SumsExist ==
  ASSUME NEW f, NEW S, IsFiniteSet(S)
  PROVE  \E g : Sums(f, S, g)
<1> DEFINE Bad == {T \in SUBSET S : ~\E g : Sums(f, T, g)}
<1>1. SUFFICES ASSUME Bad # {} PROVE FALSE
  OBVIOUS
<1>a. Bad \in SUBSET SUBSET S
  OBVIOUS
<1>2. PICK b \in Bad : \A t \in Bad : t \subseteq b => t = b
  <2> HIDE DEF Bad
  <2>1. QED
    BY <1>1, <1>a, LeastSet
<1> DEFINE h(s) == CHOOSE g : Sums(f, s, g)
           first(s) == CHOOSE x \in s : TRUE
           part == [s \in SUBSET b |-> h(s)[s]]
           g == [s \in SUBSET b |-> IF s = {} THEN 0
                                    ELSE f[first(s)] + part[s \ {first(s)}]]
<1>3. ASSUME NEW s \in SUBSET b, s # b PROVE Sums(f, s, h(s)) /\ IsFiniteSet(s)
  <2>1. s \in SUBSET S /\ s \subseteq b
    OBVIOUS
  <2>2. s \notin Bad
    BY <1>2, <1>3, <2>1
  <2>3. \E k : Sums(f, s, k)
    BY <2>1, <2>2
  <2>4. IsFiniteSet(s)
    BY <2>1, FS_Subset
  <2>5. QED
    BY <2>3, <2>4
<1>4. ASSUME NEW s \in SUBSET b, s # b PROVE g[s] = part[s]
  <2>1. part[s] = h(s)[s] /\ Sums(f, s, h(s)) /\ IsFiniteSet(s)
    BY <1>3, <1>4
  <2>2. h(s)[s] = IF s = {} THEN 0 ELSE f[first(s)] + h(s)[s \ {first(s)}]
    <3>1. s \in SUBSET s
      OBVIOUS
    <3>2. QED
      BY <2>1, <3>1 DEF Sums
  <2>3. CASE s = {}
    BY <2>1, <2>2, <2>3
  <2>4. CASE s # {}
    <3> DEFINE t == s \ {first(s)}
    <3>1. first(s) \in s
      BY <2>4
    <3>2. t \in SUBSET b /\ t # b /\ t \subseteq s
      BY <1>4, <3>1
    <3>3. Sums(f, t, h(t)) /\ IsFiniteSet(t) /\ part[t] = h(t)[t]
      BY <1>3, <3>2
    <3> HIDE DEF h, t
    <3>4. h(s)[t] = h(t)[t]
      BY <2>1, <3>2, <3>3, SumsAgree
    <3>5. g[s] = f[first(s)] + part[t]
      BY <2>4 DEF t
    <3>6. h(s)[s] = f[first(s)] + h(s)[t]
      BY <2>2, <2>4 DEF t
    <3>7. QED
      BY <2>1, <3>3, <3>4, <3>5, <3>6
  <2>5. QED
    BY <2>3, <2>4
<1>5. Sums(f, b, g)
  <2>1. ASSUME NEW s \in SUBSET b
        PROVE  g[s] = IF s = {} THEN 0 ELSE f[first(s)] + g[s \ {first(s)}]
    <3>1. CASE s = {}
      BY <3>1
    <3>2. CASE s # {}
      <4>1. first(s) \in s
        BY <3>2
      <4>2. s \ {first(s)} \in SUBSET b /\ s \ {first(s)} # b
        BY <4>1
      <4>3. g[s] = f[first(s)] + part[s \ {first(s)}]
        BY <3>2
      <4>4. g[s \ {first(s)}] = part[s \ {first(s)}]
        BY <1>4, <4>2
      <4> HIDE DEF g, part
      <4>5. QED
        BY <3>2, <4>3, <4>4
    <3>3. QED
      BY <3>1, <3>2
  <2> DEFINE k == [s \in SUBSET b |-> IF s = {} THEN 0 ELSE f[first(s)] + g[s \ {first(s)}]]
  <2>2. DOMAIN g = SUBSET b /\ g = [s \in SUBSET b |-> g[s]]
    OBVIOUS
  <2> HIDE DEF g
  <2>3. g = k
    BY <2>1, <2>2
  <2>4. QED
    BY <2>3 DEF Sums
<1>6. QED
  BY <1>5

\* A sum over a finite set is that without an element, and the element's part.
LEMMA SumOfNothing == ASSUME NEW f PROVE SumFunctionOnSet(f, {}) = 0
<1>1. IsFiniteSet({})
  BY FS_EmptySet
<1>2. PICK g : Sums(f, {}, g) /\ SumFunctionOnSet(f, {}) = g[{}]
  BY <1>1, SumsExist, SumUnfolds
<1>3. QED
  BY <1>2 DEF Sums

\* A sum is the value of the one solution.
LEMMA SumsOne ==
  ASSUME NEW D, NEW f \in [D -> Nat], NEW S \in SUBSET D, IsFiniteSet(S), NEW g, Sums(f, S, g)
  PROVE  /\ \A s \in SUBSET S : g[s] \in Nat
         /\ \A s \in SUBSET S : \A x \in s : g[s] = f[x] + g[s \ {x}]
<1>1. \A s \in SUBSET S : g[s] \in Nat
  <2> DEFINE Bad == {s \in SUBSET S : g[s] \notin Nat}
  <2>1. SUFFICES ASSUME Bad # {} PROVE FALSE
    OBVIOUS
  <2>a. Bad \in SUBSET SUBSET S
    OBVIOUS
  <2>2. PICK b \in Bad : \A t \in Bad : t \subseteq b => t = b
    <3> HIDE DEF Bad
    <3>1. QED
      BY <2>1, <2>a, LeastSet
  <2>3. PICK x : x = CHOOSE y \in b : TRUE
    OBVIOUS
  <2>4. b \in SUBSET S /\ g[b] \notin Nat /\ g[b] = IF b = {} THEN 0 ELSE f[x] + g[b \ {x}]
    BY <2>3 DEF Sums
  <2>5. b # {} /\ x \in b
    BY <2>3, <2>4
  <2>6. b \ {x} \in SUBSET S /\ b \ {x} \subseteq b /\ b \ {x} # b
    BY <2>4, <2>5
  <2>7. g[b \ {x}] \in Nat /\ f[x] \in Nat
    BY <2>2, <2>4, <2>5, <2>6
  <2>8. QED
    BY <2>4, <2>5, <2>7
<1>2. \A s \in SUBSET S : \A x \in s : g[s] = f[x] + g[s \ {x}]
  <2> DEFINE Bad == {s \in SUBSET S : ~\A x \in s : g[s] = f[x] + g[s \ {x}]}
  <2>1. SUFFICES ASSUME Bad # {} PROVE FALSE
    OBVIOUS
  <2>a. Bad \in SUBSET SUBSET S
    OBVIOUS
  <2>2. PICK b \in Bad : \A t \in Bad : t \subseteq b => t = b
    <3> HIDE DEF Bad
    <3>1. QED
      BY <2>1, <2>a, LeastSet
  <2>3. PICK x \in b : g[b] # f[x] + g[b \ {x}]
    OBVIOUS
  <2>4. PICK y : y = CHOOSE z \in b : TRUE
    OBVIOUS
  <2>5. b \in SUBSET S /\ y \in b /\ g[b] = f[y] + g[b \ {y}]
    BY <2>3, <2>4 DEF Sums
  <2>6. x # y
    BY <2>3, <2>5
  <2>7. /\ b \ {y} \in SUBSET S /\ b \ {y} \subseteq b /\ b \ {y} # b /\ x \in b \ {y}
        /\ b \ {x} \in SUBSET S /\ b \ {x} \subseteq b /\ b \ {x} # b /\ y \in b \ {x}
    BY <2>3, <2>5, <2>6
  <2>8. b \ {y} \notin Bad /\ b \ {x} \notin Bad
    BY <2>2, <2>7
  <2>9. /\ g[b \ {y}] = f[x] + g[(b \ {y}) \ {x}]
        /\ g[b \ {x}] = f[y] + g[(b \ {x}) \ {y}]
    BY <2>7, <2>8
  <2>10. (b \ {y}) \ {x} = (b \ {x}) \ {y} /\ (b \ {y}) \ {x} \in SUBSET S
    BY <2>5
  <2>11. PICK n : n = g[(b \ {y}) \ {x}]
    OBVIOUS
  <2>12. n \in Nat /\ f[x] \in Nat /\ f[y] \in Nat
    BY <1>1, <2>3, <2>5, <2>10, <2>11
  <2>13. g[b] = f[y] + (f[x] + n) /\ g[b \ {x}] = f[y] + n
    BY <2>5, <2>9, <2>10, <2>11
  <2>14. QED
    BY <2>3, <2>12, <2>13
<1>3. QED
  BY <1>1, <1>2

\* One index more adds its number.
LEMMA SumOfOneMore ==
  ASSUME NEW D, NEW f \in [D -> Nat], NEW S \in SUBSET D, IsFiniteSet(S), NEW x \in S
  PROVE  /\ SumFunctionOnSet(f, S) = f[x] + SumFunctionOnSet(f, S \ {x})
         /\ SumFunctionOnSet(f, S \ {x}) \in Nat
<1>1. PICK g : Sums(f, S, g) /\ SumFunctionOnSet(f, S) = g[S]
  BY SumsExist, SumUnfolds
<1>2. IsFiniteSet(S \ {x}) /\ S \ {x} \in SUBSET S /\ S \in SUBSET S
  BY FS_RemoveElement
<1>3. PICK h : Sums(f, S \ {x}, h) /\ SumFunctionOnSet(f, S \ {x}) = h[S \ {x}]
  BY <1>2, SumsExist, SumUnfolds
<1>4. h[S \ {x}] = g[S \ {x}]
  BY <1>1, <1>2, <1>3, SumsAgree
<1>5. QED
  BY <1>1, <1>2, <1>3, <1>4, SumsOne

\* A sum depends on the numbers it adds only.
LEMMA SumOfSame ==
  ASSUME NEW f, NEW h, NEW S, IsFiniteSet(S), \A x \in S : f[x] = h[x]
  PROVE  SumFunctionOnSet(f, S) = SumFunctionOnSet(h, S)
<1> DEFINE first(s) == CHOOSE x \in s : TRUE
<1>1. ASSUME NEW g PROVE Sums(f, S, g) <=> Sums(h, S, g)
  <2>1. \A s \in SUBSET S : s # {} => f[first(s)] = h[first(s)]
    <3>1. ASSUME NEW s \in SUBSET S, s # {} PROVE first(s) \in S
      BY <3>1
    <3>2. QED
      BY <3>1
  <2>2. [s \in SUBSET S |-> IF s = {} THEN 0 ELSE f[first(s)] + g[s \ {first(s)}]]
        = [s \in SUBSET S |-> IF s = {} THEN 0 ELSE h[first(s)] + g[s \ {first(s)}]]
    BY <2>1
  <2>3. QED
    BY <2>2 DEF Sums
<1>2. PICK g : Sums(f, S, g) /\ SumFunctionOnSet(f, S) = g[S]
  BY SumsExist, SumUnfolds
<1>3. PICK k : Sums(h, S, k) /\ SumFunctionOnSet(h, S) = k[S]
  BY SumsExist, SumUnfolds
<1>4. g[S] = k[S]
  BY <1>1, <1>2, <1>3, SumsAgree
<1>5. QED
  BY <1>2, <1>3, <1>4

\* A sum of naturals is one.
LEMMA SumType ==
  ASSUME NEW D, IsFiniteSet(D), NEW f \in [D -> Nat]
  PROVE  SumFunctionOnSet(f, D) \in Nat
<1>1. PICK g : Sums(f, D, g) /\ SumFunctionOnSet(f, D) = g[D]
  BY SumsExist, SumUnfolds
<1>2. D \in SUBSET D
  OBVIOUS
<1>3. QED
  BY <1>1, <1>2, SumsOne

\* A part more adds its amount to the sum.
LEMMA SumGrows ==
  ASSUME NEW D, IsFiniteSet(D), NEW f \in [D -> Nat], NEW x, x \notin D,
         NEW g \in [D \cup {x} -> Nat], \A y \in D : g[y] = f[y]
  PROVE  SumFunctionOnSet(g, D \cup {x}) = SumFunctionOnSet(f, D) + g[x]
<1> DEFINE E == D \cup {x}
<1>1. IsFiniteSet(E) /\ E \in SUBSET E /\ x \in E /\ E \ {x} = D /\ g \in [E -> Nat]
  BY FS_AddElement
<1> HIDE DEF E
<1>2. SumFunctionOnSet(g, E) = g[x] + SumFunctionOnSet(g, D)
  BY <1>1, SumOfOneMore
<1>3. SumFunctionOnSet(f, D) = SumFunctionOnSet(g, D)
  BY SumOfSame
<1>4. SumFunctionOnSet(f, D) \in Nat /\ g[x] \in Nat
  BY <1>1, SumType
<1>5. QED
  BY <1>2, <1>3, <1>4 DEF E

-----------------------------------------------------------------------------
(* The ledger.                                                             *)

BudgetRow == [node : LlmNodes, delta : Nat, total : Nat]

LlmRow == [node : LlmNodes, cost : Nat]

RowsOf(rows, b, n) == {j \in 1..n : BudgetOf(rows[j].node) = b}

\* What the first n rows record for a component.
SumOf(rows, b, n) ==
  SumFunctionOnSet([j \in RowsOf(rows, b, n) |-> rows[j].delta], RowsOf(rows, b, n))

CostsOf(rows) == SumFunctionOnSet([i \in DOMAIN rows |-> rows[i].cost], DOMAIN rows)

\* What a budget event more does to the totals.
LEMMA BudgetRowAppended ==
  ASSUME NEW rows \in Seq(BudgetRow), NEW r \in BudgetRow, NEW b
  PROVE  /\ \A n \in 0..Len(rows) : SumOf(Append(rows, r), b, n) = SumOf(rows, b, n)
         /\ SumOf(Append(rows, r), b, Len(rows) + 1)
              = SumOf(rows, b, Len(rows)) + (IF BudgetOf(r.node) = b THEN r.delta ELSE 0)
         /\ SumOf(rows, b, Len(rows)) \in Nat
<1> DEFINE more == Append(rows, r)
           N == Len(rows)
<1>1. /\ N \in Nat /\ Len(more) = N + 1 /\ more[N + 1] = r /\ r.delta \in Nat
      /\ \A j \in 1..N : more[j] = rows[j] /\ rows[j].delta \in Nat
  <2>1. r.delta \in Nat /\ \A x \in BudgetRow : x.delta \in Nat
    BY DEF BudgetRow
  <2> HIDE DEF BudgetRow
  <2>2. /\ N \in Nat /\ Len(more) = N + 1 /\ more[N + 1] = r
        /\ \A j \in 1..N : more[j] = rows[j] /\ rows[j] \in BudgetRow
    OBVIOUS
  <2>3. QED
    BY <2>1, <2>2
<1> HIDE DEF more, N
<1>2. \A n \in 0..N : SumOf(more, b, n) = SumOf(rows, b, n)
  <2>1. SUFFICES ASSUME NEW n \in 0..N PROVE SumOf(more, b, n) = SumOf(rows, b, n)
    OBVIOUS
  <2>2. RowsOf(more, b, n) = RowsOf(rows, b, n)
    BY <1>1 DEF RowsOf
  <2>3. [j \in RowsOf(more, b, n) |-> more[j].delta]
        = [j \in RowsOf(rows, b, n) |-> rows[j].delta]
    BY <1>1, <2>2 DEF RowsOf
  <2>4. QED
    BY <2>2, <2>3 DEF SumOf
<1> DEFINE D == RowsOf(rows, b, N)
           f == [j \in D |-> rows[j].delta]
<1>3. IsFiniteSet(D) /\ f \in [D -> Nat] /\ (N + 1) \notin D
  <2>1. IsFiniteSet(1..N) /\ D \in SUBSET (1..N)
    BY <1>1, FS_Interval DEF RowsOf
  <2>2. IsFiniteSet(D)
    BY <2>1, FS_Subset
  <2>3. QED
    BY <1>1, <2>2 DEF RowsOf
<1>4. SumOf(rows, b, N) = SumFunctionOnSet(f, D)
  BY DEF SumOf
<1>5. SumOf(rows, b, N) \in Nat
  BY <1>3, <1>4, SumType
<1>6. CASE BudgetOf(r.node) = b
  <2> DEFINE g == [j \in D \cup {N + 1} |-> more[j].delta]
  <2>1. RowsOf(more, b, N + 1) = D \cup {N + 1}
    BY <1>1, <1>6 DEF RowsOf
  <2>2. g \in [D \cup {N + 1} -> Nat] /\ g[N + 1] = r.delta /\ \A j \in D : g[j] = f[j]
    BY <1>1 DEF RowsOf
  <2>3. SumOf(more, b, N + 1) = SumFunctionOnSet(g, D \cup {N + 1})
    BY <2>1 DEF SumOf
  <2> HIDE DEF D, f, g
  <2>4. SumFunctionOnSet(g, D \cup {N + 1}) = SumFunctionOnSet(f, D) + g[N + 1]
    BY <1>3, <2>2, SumGrows
  <2>5. QED
    BY <1>2, <1>4, <1>5, <1>6, <2>2, <2>3, <2>4 DEF more, N
<1>7. CASE BudgetOf(r.node) # b
  <2>1. RowsOf(more, b, N + 1) = RowsOf(more, b, N)
    BY <1>1, <1>7 DEF RowsOf
  <2>2. SumOf(more, b, N + 1) = SumOf(more, b, N)
    BY <2>1 DEF SumOf
  <2>3. N \in 0..N
    BY <1>1
  <2>4. QED
    BY <1>2, <1>5, <1>7, <2>2, <2>3 DEF more, N
<1>8. QED
  BY <1>6, <1>7

\* What a row of a call more does to the sum of all rows.
LEMMA LlmRowAppended ==
  ASSUME NEW rows \in Seq(LlmRow), NEW r \in LlmRow
  PROVE  /\ CostsOf(Append(rows, r)) = CostsOf(rows) + r.cost
         /\ CostsOf(rows) \in Nat
<1> DEFINE more == Append(rows, r)
           N == Len(rows)
           D == 1..N
           f == [i \in D |-> rows[i].cost]
           g == [i \in D \cup {N + 1} |-> more[i].cost]
<1>1. /\ N \in Nat /\ DOMAIN rows = D /\ DOMAIN more = D \cup {N + 1}
      /\ more[N + 1] = r /\ r.cost \in Nat
      /\ \A j \in D : more[j] = rows[j] /\ rows[j].cost \in Nat
  <2>1. r.cost \in Nat /\ \A x \in LlmRow : x.cost \in Nat
    BY DEF LlmRow
  <2>2. N \in Nat /\ DOMAIN rows = 1..N /\ \A j \in 1..N : rows[j] \in LlmRow
    OBVIOUS
  <2>3. /\ Len(more) = N + 1 /\ more[N + 1] = r
        /\ \A j \in 1..N : more[j] = rows[j]
    OBVIOUS
  <2>4. DOMAIN more = 1..(N + 1)
    OBVIOUS
  <2> HIDE DEF more, N
  <2>5. 1..(N + 1) = D \cup {N + 1}
    BY <2>2
  <2>6. QED
    BY <2>1, <2>2, <2>3, <2>4, <2>5
<1>2. CostsOf(rows) = SumFunctionOnSet(f, D)
  BY <1>1 DEF CostsOf
<1>3. CostsOf(more) = SumFunctionOnSet(g, D \cup {N + 1})
  BY <1>1 DEF CostsOf
<1> HIDE DEF more, N
<1>4. /\ IsFiniteSet(D) /\ f \in [D -> Nat] /\ (N + 1) \notin D
      /\ g \in [D \cup {N + 1} -> Nat] /\ g[N + 1] = r.cost
      /\ \A j \in D : g[j] = f[j]
  <2>1. IsFiniteSet(D) /\ (N + 1) \notin D
    BY <1>1, FS_Interval
  <2> HIDE DEF D
  <2>2. f \in [D -> Nat] /\ g \in [D \cup {N + 1} -> Nat] /\ g[N + 1] = r.cost
    BY <1>1
  <2>3. \A j \in D : g[j] = f[j]
    BY <1>1
  <2>4. QED
    BY <2>1, <2>2, <2>3
<1> HIDE DEF D, f, g
<1>5. SumFunctionOnSet(g, D \cup {N + 1}) = SumFunctionOnSet(f, D) + g[N + 1]
  BY <1>4, SumGrows
<1>6. SumFunctionOnSet(f, D) \in Nat
  BY <1>4, SumType
<1>7. QED
  BY <1>2, <1>3, <1>4, <1>5, <1>6 DEF more

\* While a run goes on, the rows of each component add up to what its enforcer holds,
\* but for the call that is being recorded, and each row was written with that total.
TotalsInv ==
  /\ \A i \in 1..Len(budgetRows) :
       budgetRows[i].total = SumOf(budgetRows, BudgetOf(budgetRows[i].node), i)
  /\ ~Stopped => \A b \in Budgets :
       spent[b] = SumOf(budgetRows, b, Len(budgetRows))
                  + (IF pc \in {"row", "event"} /\ BudgetOf(llm) = b THEN cost ELSE 0)

\* A billed call is in its enforcer before it is in a row.
LEMMA InvokeTotals == TInv /\ TotalsInv /\ Invoke => TotalsInv'
<1> SUFFICES ASSUME TInv, TotalsInv, Invoke PROVE TotalsInv'
  OBVIOUS
<1>1. /\ pc = "call" /\ BudgetOf(llm) \in Budgets /\ spent \in [Budgets -> Nat]
      /\ budgetRows \in Seq(BudgetRow) /\ UNCHANGED <<budgetRows, llm>>
  BY CallTypes DEF TInv, TypeOK, Invoke, BudgetRow
<1>2. CASE pc' = "raised"
  BY <1>1, <1>2 DEF TotalsInv, Stopped
<1>3. CASE pc' # "raised"
  <2>1. PICK c \in Costs : /\ cost' = c /\ pc' = "row"
                           /\ spent' = [spent EXCEPT ![BudgetOf(llm)] = @ + c]
    BY <1>3 DEF Invoke
  <2>2. \A b \in Budgets : spent[b] = SumOf(budgetRows, b, Len(budgetRows)) + 0
    BY <1>1 DEF TotalsInv, Stopped
  <2>3. \A b \in Budgets : SumOf(budgetRows, b, Len(budgetRows)) \in Nat
    <3>1. ASSUME NEW b \in Budgets PROVE SumOf(budgetRows, b, Len(budgetRows)) \in Nat
      <4>1. \E r : r \in BudgetRow
        <5>1. [node |-> "scope", delta |-> 0, total |-> 0] \in BudgetRow
          BY DEF BudgetRow, LlmNodes, Budgets
        <5>2. QED
          BY <5>1
      <4>2. QED
        BY <1>1, <4>1, BudgetRowAppended
    <3>2. QED
      BY <3>1
  <2>4. \A b \in Budgets :
          spent'[b] = SumOf(budgetRows, b, Len(budgetRows))
                      + (IF BudgetOf(llm) = b THEN c ELSE 0)
    <3>1. c \in Nat
      BY CostAssumption
    <3>2. QED
      BY <1>1, <2>1, <2>2, <2>3, <3>1
  <2>5. QED
    BY <1>1, <2>1, <2>4 DEF TotalsInv, Stopped
<1>4. QED
  BY <1>2, <1>3

\* Its budget event closes the gap.
LEMMA EventTotals == TInv /\ TotalsInv /\ RecordBudgetEvent => TotalsInv'
<1> SUFFICES ASSUME TInv, TotalsInv, RecordBudgetEvent PROVE TotalsInv'
  OBVIOUS
<1>1. /\ pc = "event" /\ BudgetOf(llm) \in Budgets /\ llm \in LlmNodes /\ cost \in Nat
      /\ spent \in [Budgets -> Nat] /\ spent[BudgetOf(llm)] \in Nat
      /\ budgetRows \in Seq(BudgetRow) /\ UNCHANGED <<spent, cost, llm>>
  BY CallTypes DEF TInv, TypeOK, RecordBudgetEvent, BudgetRow
<1>2. CASE pc' = "raised" /\ budgetRows' = budgetRows
  BY <1>1, <1>2 DEF TotalsInv, Stopped
<1>3. CASE /\ budgetRows' = Append(budgetRows, [node |-> llm, delta |-> cost,
                                                total |-> spent[BudgetOf(llm)]])
           /\ pc' = "reply"
  <2>1. PICK r \in BudgetRow : /\ r.node = llm /\ r.delta = cost
                               /\ r.total = spent[BudgetOf(llm)]
                               /\ budgetRows' = Append(budgetRows, r)
    <3>1. [node |-> llm, delta |-> cost, total |-> spent[BudgetOf(llm)]] \in BudgetRow
      BY <1>1 DEF BudgetRow
    <3>2. QED
      BY <1>3, <3>1
  <2>2. PICK n \in Nat : n = Len(budgetRows)
    BY <1>1
  <2>3. /\ Len(budgetRows') = n + 1 /\ budgetRows'[n + 1] = r
        /\ \A i \in 1..n : budgetRows'[i] = budgetRows[i]
    BY <1>1, <2>1, <2>2
  <2>4. ASSUME NEW b
        PROVE  /\ \A i \in 0..n : SumOf(budgetRows', b, i) = SumOf(budgetRows, b, i)
               /\ SumOf(budgetRows', b, n + 1)
                    = SumOf(budgetRows, b, n) + (IF BudgetOf(llm) = b THEN cost ELSE 0)
    BY <1>1, <2>1, <2>2, BudgetRowAppended
  <2>5. \A b \in Budgets :
          spent[b] = SumOf(budgetRows, b, n) + (IF BudgetOf(llm) = b THEN cost ELSE 0)
    BY <1>1, <2>2 DEF TotalsInv, Stopped
  <2>6. \A b \in Budgets : spent[b] = SumOf(budgetRows', b, n + 1)
    BY <2>4, <2>5
  <2>7. \A i \in 1..(n + 1) :
          budgetRows'[i].total = SumOf(budgetRows', BudgetOf(budgetRows'[i].node), i)
    <3>1. ASSUME NEW i \in 1..n
          PROVE  budgetRows'[i].total = SumOf(budgetRows', BudgetOf(budgetRows'[i].node), i)
      <4>1. budgetRows[i].total = SumOf(budgetRows, BudgetOf(budgetRows[i].node), i)
        BY <2>2 DEF TotalsInv
      <4>2. i \in 0..n
        OBVIOUS
      <4>3. QED
        BY <2>3, <2>4, <4>1, <4>2
    <3>2. budgetRows'[n + 1].total
            = SumOf(budgetRows', BudgetOf(budgetRows'[n + 1].node), n + 1)
      BY <1>1, <2>1, <2>3, <2>6
    <3>3. QED
      BY <3>1, <3>2
  <2>8. \A b \in Budgets : spent'[b] \in Nat /\ spent'[b] = spent[b]
    BY <1>1
  <2>9. \A b \in Budgets : spent'[b] = SumOf(budgetRows', b, Len(budgetRows')) + 0
    BY <2>3, <2>6, <2>8
  <2>10. QED
    BY <1>3, <2>3, <2>7, <2>9 DEF TotalsInv, Stopped
<1>4. QED
  BY <1>2, <1>3 DEF RecordBudgetEvent

\* Every running total in the ledger is explained by the rows up to it, whichever
\* call or write has failed.
THEOREM LedgerExplained == Spec => []TotalsExplained
<1>1. Init => TotalsInv
  <2> SUFFICES ASSUME Init PROVE TotalsInv
    OBVIOUS
  <2>1. budgetRows = <<>> /\ Len(budgetRows) = 0 /\ pc = "start"
    BY DEF Init
  <2>2. ASSUME NEW b PROVE SumOf(budgetRows, b, 0) = 0
    <3>1. RowsOf(budgetRows, b, 0) = {}
      BY DEF RowsOf
    <3>2. QED
      BY <3>1, SumOfNothing DEF SumOf
  <2>3. \A b \in Budgets : spent[b] = 0
    BY DEF Init
  <2>4. QED
    BY <2>1, <2>2, <2>3 DEF TotalsInv
<1>2. TInv /\ TotalsInv /\ [Next]_vars => TotalsInv'
  <2> SUFFICES ASSUME TInv, TotalsInv, [Next]_vars PROVE TotalsInv'
    OBVIOUS
  <2>1. CASE Invoke \/ RecordBudgetEvent
    BY <2>1, InvokeTotals, EventTotals
  <2>2. CASE RecordLlmCall
    BY <2>2 DEF RecordLlmCall, TotalsInv, Stopped
  <2>3. CASE /\ Begin \/ Leave \/ GraphEnd \/ Fail \/ NodeWork \/ UNCHANGED vars
             /\ ~Invoke /\ ~RecordBudgetEvent /\ ~RecordLlmCall
    <3>1. /\ UNCHANGED <<spent, cost, budgetRows>>
          /\ ~Stopped' => ~Stopped
          /\ \/ pc' \notin {"row", "event"} /\ pc \notin {"row", "event"}
             \/ UNCHANGED <<pc, llm>>
      BY <2>3 DEF Begin, Leave, GraphEnd, Fail, NodeWork, StartCalls, ListToolsFails, PassOn,
         FallbackPlan, EmptyPlan, NothingToAnswer, ScopeReply, PlannerReply, ClarifierReply,
         QuestionReply, AnswerReply, CallToolFails, CallTool, RecordToolCall, Running,
         Replied, NodeDone, Unusable, llmVars, vars, Stopped
    <3>2. QED
      BY <3>1 DEF TotalsInv
  <2>4. QED
    BY <2>1, <2>2, <2>3 DEF Next
<1>3. TotalsInv => TotalsExplained
  BY Zenon DEF TotalsInv, TotalsExplained, SumOf, RowsOf
<1>4. QED
  BY <1>1, <1>2, <1>3, TypesAndPlaces, PTL DEF Spec

-----------------------------------------------------------------------------
(* Completed runs.                                                         *)

\* What the tools returned is in the state once every step of the plan has its row.
ResultsRecorded == ~Stopped /\ st.results => pos >= 4 /\ toolRows = steps

\* Results in the state have their rows.
LEMMA StepResults ==
  ASSUME AInv, ResultsRecorded, [Next]_vars
  PROVE  ResultsRecorded'
<1>1. st \in AgentState /\ pos \in 0..5 /\ NoResultsYet /\ NoResultsYet'
  BY StepNoResults, Nodes DEF AInv, TInv, TypeOK
<1>2. CASE UNCHANGED <<pos, st, steps, toolRows>> /\ (Stopped => Stopped')
  BY <1>2 DEF ResultsRecorded
<1>3. CASE pos' <= 3
  BY <1>1, <1>3 DEF ResultsRecorded, NoResultsYet
<1>4. CASE Begin \/ Leave \/ GraphEnd \/ Fail \/ StartCalls \/ ListToolsFails
           \/ NothingToAnswer \/ Invoke \/ RecordLlmCall \/ RecordBudgetEvent
           \/ CallToolFails \/ CallTool
  BY <1>2, <1>4 DEF Begin, Leave, GraphEnd, Fail, StartCalls, ListToolsFails,
     NothingToAnswer, Invoke, RecordLlmCall, RecordBudgetEvent, CallToolFails, CallTool,
     toolVars, Running, Stopped
<1>5. CASE PassOn \/ EmptyPlan \/ AnswerReply
  <2>1. ~Stopped /\ UNCHANGED <<steps, toolRows>>
    BY <1>5 DEF PassOn, EmptyPlan, AnswerReply, Running, Replied, Stopped, toolVars
  <2>2. UNCHANGED <<pos, st>> \/ (pos' = pos + 1 /\ st'.results = st.results)
    BY <1>1, <1>5 DEF PassOn, EmptyPlan, AnswerReply, NodeDone, Unusable, AgentState
  <2>3. CASE UNCHANGED <<pos, st>>
    BY <2>1, <2>3 DEF ResultsRecorded
  <2>4. CASE pos' = pos + 1 /\ st'.results = st.results
    <3>1. st'.results => st.results
      BY <2>4, Zenon
    <3>2. ~Stopped' /\ st'.results => pos >= 4 /\ toolRows = steps
      BY <2>1, <3>1 DEF ResultsRecorded
    <3>3. ~Stopped' /\ st'.results => pos' >= 4 /\ toolRows' = steps'
      BY <1>1, <2>1, <2>4, <3>2
    <3>4. QED
      BY <3>3 DEF ResultsRecorded
  <2>5. QED
    BY <2>2, <2>3, <2>4
<1>6. CASE FallbackPlan \/ ScopeReply \/ PlannerReply \/ ClarifierReply \/ QuestionReply
  <2>1. pos <= 2
    <3>1. CASE FallbackPlan
      BY <1>1, <3>1, Nodes DEF FallbackPlan, Running
    <3>2. CASE ~FallbackPlan
      <4>1. pc = "reply" /\ llm \in {"scope", "planner", "clarifier", "clarifier_question"}
        BY <1>6, <3>2, Zenon DEF ScopeReply, PlannerReply, ClarifierReply, QuestionReply, Replied
      <4>2. QED
        BY <4>1 DEF AInv, TInv, CallBelongsToNode, InLlmCall
    <3>3. QED
      BY <3>1, <3>2
  <2>2. pos' = pos \/ pos' = pos + 1
    BY <1>6, Zenon DEF FallbackPlan, ScopeReply, PlannerReply, ClarifierReply, QuestionReply,
       NodeDone, Unusable
  <2>3. QED
    BY <1>1, <1>3, <2>1, <2>2
<1>7. CASE RecordToolCall
  <2>1. pos = 3
    BY <1>7 DEF RecordToolCall, AInv, TInv, CallBelongsToNode, InToolCall
  <2>2. QED
    BY <1>3, <1>7, <2>1 DEF RecordToolCall, NodeDone, ResultsRecorded
<1>8. CASE UNCHANGED vars
  BY <1>2, <1>8 DEF vars, toolVars, Stopped
<1>9. QED
  BY <1>4, <1>5, <1>6, <1>7, <1>8, Zenon DEF Next, NodeWork

\* While a run goes on its rows cost what the provider was paid, but for a call whose
\* row is being written, and every row has its budget event, but for the last one's.
RecordedInv ==
  /\ ~Stopped => /\ billed = CostsOf(llmRows) + (IF pc = "row" THEN cost ELSE 0)
                 /\ Len(llmRows) = Len(budgetRows) + (IF pc = "event" THEN 1 ELSE 0)
  /\ ResultsRecorded
  /\ CompletedIsRecorded

\* What is billed is a number.
LEMMA CostsType == TypeOK => CostsOf(llmRows) \in Nat
<1> SUFFICES ASSUME TypeOK PROVE CostsOf(llmRows) \in Nat
  OBVIOUS
<1>1. llmRows \in Seq(LlmRow)
  BY DEF TypeOK, LlmRow
<1>2. [node |-> "scope", cost |-> 0] \in LlmRow
  BY DEF LlmRow, LlmNodes, Budgets
<1>3. QED
  BY <1>1, <1>2, LlmRowAppended

\* Once completed a run is over, and nothing is written any more.
LEMMA CompletedStays ==
  ASSUME BInv, RecordedInv, [Next]_vars
  PROVE  CompletedIsRecorded'
<1>1. CASE UNCHANGED <<runStatus, llmRows, budgetRows, billed, st, toolRows, steps>>
  BY <1>1 DEF RecordedInv, CompletedIsRecorded
<1>2. CASE GraphEnd
  <2>1. ~Stopped /\ pc = "next"
        /\ UNCHANGED <<llmRows, budgetRows, billed, st, toolRows, steps>>
    BY <1>2 DEF GraphEnd, llmVars, toolVars, Stopped
  <2>2. TypeOK
    BY DEF BInv, TInv
  <2>3. /\ billed = CostsOf(llmRows) + 0 /\ CostsOf(llmRows) \in Nat
        /\ Len(llmRows) = Len(budgetRows) + 0 /\ Len(budgetRows) \in Nat
        /\ st.results => toolRows = steps
    BY <2>1, <2>2, CostsType DEF RecordedInv, ResultsRecorded, TypeOK
  <2>4. /\ CostsOf(llmRows) = billed /\ Len(budgetRows) = Len(llmRows)
        /\ st.results => toolRows = steps
    BY <2>3
  <2>5. CompletedIsRecorded'
    BY <2>1, <2>4 DEF CompletedIsRecorded, CostsOf
  <2>6. QED
    BY <2>5
<1>3. CASE Begin \/ Leave \/ Fail
  BY <1>1, <1>3 DEF Begin, Leave, Fail, llmVars, toolVars, CompletedIsRecorded
<1>4. CASE NodeWork
  <2>1. runStatus' = runStatus /\ pc # "over"
    BY <1>4 DEF NodeWork, StartCalls, ListToolsFails, PassOn, FallbackPlan, EmptyPlan,
       NothingToAnswer, Invoke, RecordLlmCall, RecordBudgetEvent, ScopeReply, PlannerReply,
       ClarifierReply, QuestionReply, AnswerReply, CallToolFails, CallTool,
       RecordToolCall, Running, Replied
  <2>2. QED
    BY <2>1 DEF BInv, Accounted, CompletedIsRecorded
<1>5. CASE UNCHANGED vars
  BY <1>1, <1>5 DEF vars, llmVars, toolVars
<1>6. QED
  BY <1>2, <1>3, <1>4, <1>5, Zenon DEF Next

\* Every step keeps the record complete but for the call at hand.
LEMMA StepRecorded ==
  ASSUME AInv, BInv, RecordedInv, [Next]_vars
  PROVE  RecordedInv'
<1> DEFINE Rows == /\ billed = CostsOf(llmRows) + (IF pc = "row" THEN cost ELSE 0)
                   /\ Len(llmRows) = Len(budgetRows) + (IF pc = "event" THEN 1 ELSE 0)
<1>1. SUFFICES (~Stopped => Rows)'
  BY StepResults, CompletedStays DEF RecordedInv
<1>2. /\ TypeOK /\ CostsOf(llmRows) \in Nat
      /\ llmRows \in Seq(LlmRow) /\ budgetRows \in Seq(BudgetRow)
      /\ llm \in LlmNodes /\ cost \in Nat /\ billed \in Nat
  BY CostsType DEF BInv, TInv, TypeOK, LlmRow, BudgetRow
<1>3. ~Stopped => Rows
  BY DEF RecordedInv
<1>4. CASE Invoke
  <2>1. /\ ~Stopped /\ pc = "call" /\ UNCHANGED <<llmRows, budgetRows>>
        /\ pc' \in {"raised", "row"}
    BY <1>4 DEF Invoke, Stopped
  <2>2. billed = CostsOf(llmRows) + 0 /\ Len(llmRows) = Len(budgetRows) + 0
    BY <1>3, <2>1
  <2>3. CASE pc' = "raised"
    BY <2>3 DEF Stopped
  <2>4. CASE pc' = "row"
    <3>1. PICK c \in Costs : billed' = billed + c /\ cost' = c
      BY <1>4, <2>4 DEF Invoke
    <3>2. c \in Nat
      BY CostAssumption
    <3>3. billed' = CostsOf(llmRows') + cost'
      BY <1>2, <2>1, <2>2, <3>1, <3>2
    <3>4. QED
      BY <2>1, <2>2, <2>4, <3>3
  <2>5. QED
    BY <2>1, <2>3, <2>4
<1>5. CASE RecordLlmCall
  <2>1. /\ ~Stopped /\ pc = "row" /\ UNCHANGED <<billed, cost, budgetRows>>
    BY <1>5 DEF RecordLlmCall, Stopped
  <2>2. billed = CostsOf(llmRows) + cost /\ Len(llmRows) = Len(budgetRows) + 0
    BY <1>3, <2>1
  <2>3. CASE pc' = "raised"
    BY <2>3 DEF Stopped
  <2>4. CASE pc' # "raised"
    <3>1. PICK r \in LlmRow : r.cost = cost /\ llmRows' = Append(llmRows, r)
      <4>1. [node |-> llm, cost |-> cost] \in LlmRow
        BY <1>2 DEF LlmRow
      <4>2. QED
        BY <1>5, <2>4, <4>1 DEF RecordLlmCall
    <3>2. pc' = "event"
      BY <1>5, <2>4 DEF RecordLlmCall
    <3>3. CostsOf(llmRows') = CostsOf(llmRows) + cost
      BY <1>2, <3>1, LlmRowAppended
    <3>4. Len(llmRows') = Len(llmRows) + 1 /\ Len(budgetRows) \in Nat
      BY <1>2, <3>1
    <3>5. /\ billed' = CostsOf(llmRows') + 0
          /\ Len(llmRows') = Len(budgetRows') + 1
      BY <1>2, <2>1, <2>2, <3>3, <3>4
    <3>6. QED
      BY <3>2, <3>5
  <2>5. QED
    BY <2>3, <2>4
<1>6. CASE RecordBudgetEvent
  <2>1. /\ ~Stopped /\ pc = "event" /\ UNCHANGED <<billed, cost, llmRows>>
    BY <1>6 DEF RecordBudgetEvent, Stopped
  <2>2. billed = CostsOf(llmRows) + 0 /\ Len(llmRows) = Len(budgetRows) + 1
    BY <1>3, <2>1
  <2>3. CASE pc' = "raised"
    BY <2>3 DEF Stopped
  <2>4. CASE pc' # "raised"
    <3>1. pc' = "reply" /\ \E r : budgetRows' = Append(budgetRows, r)
      BY <1>6, <2>4 DEF RecordBudgetEvent
    <3>2. Len(budgetRows') = Len(budgetRows) + 1 /\ Len(budgetRows) \in Nat
      BY <1>2, <3>1
    <3>3. billed' = CostsOf(llmRows') + 0 /\ Len(llmRows') = Len(budgetRows') + 0
      BY <1>2, <2>1, <2>2, <3>2
    <3>4. QED
      BY <3>1, <3>3
  <2>5. QED
    BY <2>3, <2>4
<1>7. CASE /\ Begin \/ Leave \/ GraphEnd \/ Fail \/ NodeWork \/ UNCHANGED vars
           /\ ~Invoke /\ ~RecordLlmCall /\ ~RecordBudgetEvent
  <2>1. /\ UNCHANGED <<billed, cost, llmRows, budgetRows>>
        /\ ~Stopped' => ~Stopped
        /\ \/ pc' \notin {"row", "event"} /\ pc \notin {"row", "event"}
           \/ UNCHANGED pc
    BY <1>7 DEF Begin, Leave, GraphEnd, Fail, NodeWork, StartCalls, ListToolsFails, PassOn,
       FallbackPlan, EmptyPlan, NothingToAnswer, ScopeReply, PlannerReply, ClarifierReply,
       QuestionReply, AnswerReply, CallToolFails, CallTool, RecordToolCall, Running,
       Replied, NodeDone, Unusable, llmVars, vars, Stopped
  <2>2. QED
    BY <1>3, <2>1
<1>8. QED
  BY <1>4, <1>5, <1>6, <1>7 DEF Next

\* A completed run has a row for all that was paid, a budget event for every call and
\* a row for every step of the plan its answer rests on.
THEOREM CompletionRecorded == Spec => []CompletedIsRecorded
<1>1. Init => RecordedInv
  <2> SUFFICES ASSUME Init PROVE RecordedInv
    OBVIOUS
  <2>1. PICK p \in BOOLEAN : st = InputState(p)
    BY DEF Init
  <2>2. st.results = FALSE
    BY <2>1 DEF InputState
  <2>3. CostsOf(<<>>) = 0
    BY SumOfNothing DEF CostsOf
  <2>4. QED
    BY <2>2, <2>3 DEF Init, RecordedInv, ResultsRecorded, CompletedIsRecorded, Stopped
<1>2. RecordedInv => CompletedIsRecorded
  BY DEF RecordedInv
<1>3. Spec => []AInv
  BY InitAInv, StepAInv, PTL DEF Spec
<1>4. QED
  BY <1>1, <1>2, <1>3, AccountsKept, StepRecorded, PTL DEF Spec

-----------------------------------------------------------------------------
(* How long a run takes.                                                   *)

\* A step of a plan takes its attempts and a row, a node at most that for every
\* step, or two LLM calls and a question's reply.
StepLength == MaxRetries + 2

NodeLength == MaxPlan * StepLength + 9

NodesLeft(n) == n * NodeLength + 2

\* What is left of the LLM calls of a node, and of the execution of a plan.
CallLeft ==
  (CASE pc = "call" -> 4 [] pc = "row" -> 3 [] pc = "event" -> 2 [] pc = "reply" -> 1)
  + (IF llm = "clarifier_question" THEN 0 ELSE 4)

ToolLeft ==
  (steps - (toolRows + 1)) * StepLength
  + (IF pc = "tool" THEN (StepLength + 1) - attempt ELSE 1)

\* The steps a run may still take.
StepsLeft ==
  CASE pc = "over"   -> 0
    [] pc = "raised" -> 1
    [] pc = "start"  -> NodesLeft(Len(Pipeline) - pos) + 1
    [] pc = "next"   -> NodesLeft(Len(Pipeline) - pos)
    [] InLlmCall     -> NodesLeft(Len(Pipeline) - (pos + 1)) + CallLeft
    [] InToolCall    -> NodesLeft(Len(Pipeline) - (pos + 1)) + ToolLeft

\* The lengths are numbers, and a node more adds one length.
LEMMA Lengths ==
  /\ StepLength \in Nat /\ StepLength = MaxRetries + 2 /\ MaxRetries \in Nat
  /\ NodeLength \in Nat /\ NodeLength >= 9
  /\ \A n \in Nat : /\ NodesLeft(n) \in Nat /\ NodesLeft(n) >= 2
                   /\ NodesLeft(n + 1) = NodesLeft(n) + NodeLength
<1>1. StepLength \in Nat /\ MaxRetries \in Nat /\ MaxPlan \in Nat
  BY BoundAssumption DEF StepLength
<1>2. MaxPlan * StepLength \in Nat
  BY <1>1
<1>3. NodeLength \in Nat /\ NodeLength >= 9
  BY <1>2 DEF NodeLength
<1>4. ASSUME NEW n \in Nat
      PROVE  /\ n * NodeLength \in Nat
             /\ (n + 1) * NodeLength = n * NodeLength + NodeLength
  BY <1>3
<1>5. QED
  BY <1>1, <1>3, <1>4 DEF NodesLeft, StepLength

\* A plan's execution is shorter than its node.
LEMMA ToolLeftBound ==
  ASSUME TInv, InToolCall
  PROVE  ToolLeft \in 1..(NodeLength - 9)
<1>1. /\ steps \in 1..MaxPlan /\ toolRows \in Nat /\ toolRows < steps /\ MaxPlan \in Nat
      /\ attempt \in 1..(MaxRetries + 1)
  BY BoundAssumption DEF TInv, TypeOK, CallBelongsToNode, StepsCounted
<1>2. StepLength \in Nat /\ StepLength = MaxRetries + 2 /\ MaxRetries \in Nat
  BY Lengths
<1>3. PICK k \in Nat : k = steps - (toolRows + 1) /\ k + 1 <= MaxPlan
  BY <1>1
<1>4. PICK m \in Nat : MaxPlan = (k + 1) + m
  <2>1. MaxPlan - (k + 1) \in Nat /\ MaxPlan = (k + 1) + (MaxPlan - (k + 1))
    BY <1>1, <1>3
  <2>2. QED
    BY <2>1
<1>5. /\ k * StepLength \in Nat /\ m * StepLength \in Nat
      /\ MaxPlan * StepLength = k * StepLength + StepLength + m * StepLength
  BY <1>2, <1>4
<1> DEFINE ks == k * StepLength
           here == IF pc = "tool" THEN (StepLength + 1) - attempt ELSE 1
<1>6. ToolLeft = ks + here
  BY <1>3 DEF ToolLeft
<1>7. here \in 1..StepLength
  BY <1>1, <1>2
<1>8. NodeLength - 9 = ks + StepLength + m * StepLength
  BY <1>1, <1>2, <1>5 DEF NodeLength
<1> HIDE DEF ks, here
<1>9. ks \in Nat
  BY <1>5 DEF ks
<1>10. QED
  BY <1>2, <1>5, <1>6, <1>7, <1>8, <1>9

\* StepsLeft, place by place.
LeftByPlace ==
  /\ StepsLeft \in Nat
  /\ pc = "over" => StepsLeft = 0
  /\ pc = "raised" => StepsLeft = 1
  /\ ~Stopped => StepsLeft >= 2
  /\ pc = "start" => StepsLeft = NodesLeft(5 - pos) + 1
  /\ pc = "next" => StepsLeft = NodesLeft(5 - pos)
  /\ InLlmCall => StepsLeft = NodesLeft(4 - pos) + CallLeft
  /\ InToolCall => StepsLeft = NodesLeft(4 - pos) + ToolLeft
  /\ InLlmCall \/ InToolCall => /\ NodesLeft(4 - pos) < StepsLeft
                               /\ StepsLeft < NodesLeft(4 - pos) + NodeLength

\* The value of StepsLeft at each place.
LEMMA StepsLeftAt == TInv => LeftByPlace
<1>1. SUFFICES ASSUME TInv PROVE LeftByPlace
  OBVIOUS
<1>2. pc \in Places /\ pos \in 0..5 /\ Len(Pipeline) = 5
  BY <1>1, Nodes DEF TInv, TypeOK
<1>3. CASE pc \in {"over", "raised"}
  BY <1>3 DEF LeftByPlace, StepsLeft, Stopped, InLlmCall, InToolCall
<1>4. CASE pc = "start"
  <2>1. StepsLeft = NodesLeft(5 - pos) + 1
    BY <1>2, <1>4 DEF StepsLeft, InLlmCall, InToolCall
  <2>2. 5 - pos \in Nat
    BY <1>2
  <2>3. NodesLeft(5 - pos) \in Nat /\ NodesLeft(5 - pos) >= 2
    BY <2>2, Lengths
  <2>4. QED
    BY <1>4, <2>1, <2>3 DEF LeftByPlace, Stopped, InLlmCall, InToolCall
<1>5. CASE pc = "next"
  <2>1. StepsLeft = NodesLeft(5 - pos)
    BY <1>2, <1>5 DEF StepsLeft, InLlmCall, InToolCall
  <2>2. 5 - pos \in Nat
    BY <1>2
  <2>3. NodesLeft(5 - pos) \in Nat /\ NodesLeft(5 - pos) >= 2
    BY <2>2, Lengths
  <2>4. QED
    BY <1>5, <2>1, <2>3 DEF LeftByPlace, Stopped, InLlmCall, InToolCall
<1>6. CASE InLlmCall \/ InToolCall
  <2>1. pos \in 0..4
    BY <1>1, <1>6 DEF TInv, CallBelongsToNode
  <2>2. PICK n \in Nat : n = 4 - pos /\ n = 5 - (pos + 1)
    BY <2>1
  <2>3. /\ NodesLeft(n) \in Nat /\ NodesLeft(n) >= 2
        /\ NodeLength \in Nat /\ NodeLength >= 9
    BY Lengths
  <2>4. CASE InLlmCall
    <3>1. StepsLeft = NodesLeft(n) + CallLeft
      BY <1>2, <2>2, <2>4 DEF StepsLeft, InLlmCall, InToolCall
    <3>2. CallLeft \in 1..8
      BY <2>4 DEF InLlmCall, CallLeft
    <3>3. QED
      BY <2>2, <2>3, <2>4, <3>1, <3>2 DEF LeftByPlace, Stopped, InLlmCall, InToolCall
  <2>5. CASE InToolCall
    <3>1. StepsLeft = NodesLeft(n) + ToolLeft
      BY <1>2, <2>2, <2>5 DEF StepsLeft, InLlmCall, InToolCall
    <3>2. ToolLeft \in 1..(NodeLength - 9)
      BY <1>1, <2>5, ToolLeftBound
    <3>3. QED
      BY <2>2, <2>3, <2>5, <3>1, <3>2 DEF LeftByPlace, Stopped, InLlmCall, InToolCall
  <2>6. QED
    BY <1>6, <2>4, <2>5
<1>7. QED
  BY <1>2, <1>3, <1>4, <1>5, <1>6 DEF Places, InLlmCall, InToolCall

\* The same before and after a step.
LEMMA LeftBefore == TInv /\ TInv' => LeftByPlace /\ LeftByPlace'
<1>1. (TInv => LeftByPlace)'
  BY StepsLeftAt, PTL
<1>2. QED
  BY <1>1, StepsLeftAt

\* A run that raises, or is over, has no more than its end before it.
LEMMA FallsAtEnd ==
  ASSUME TInv, TInv',
         \/ pc' = "over" /\ pc # "over"
         \/ pc' = "raised" /\ ~Stopped
  PROVE  StepsLeft' < StepsLeft
<1>1. LeftByPlace /\ LeftByPlace' /\ pc \in Places
  BY LeftBefore DEF TInv, TypeOK
<1>2. CASE pc' = "over" /\ pc # "over"
  BY <1>1, <1>2 DEF LeftByPlace, Stopped
<1>3. CASE pc' = "raised" /\ ~Stopped
  BY <1>1, <1>3 DEF LeftByPlace
<1>4. QED
  BY <1>2, <1>3

\* A node that is done leaves the nodes behind it.
LEMMA FallsWhenDone ==
  ASSUME TInv, TInv', pc' = "next", pos' = pos + 1, pc = "next" \/ InLlmCall \/ InToolCall
  PROVE  StepsLeft' < StepsLeft
<1>1. LeftByPlace /\ LeftByPlace' /\ pos \in 0..5 /\ pos' \in 0..5
  BY LeftBefore, Nodes DEF TInv, TypeOK
<1>2. PICK n \in Nat : n = 5 - pos' /\ n = 4 - pos /\ 5 - pos = n + 1
  <2>1. 5 - pos' \in Nat /\ 5 - pos' = 4 - pos /\ 5 - pos = (5 - pos') + 1
    BY <1>1
  <2>2. QED
    BY <2>1
<1>3. StepsLeft' = NodesLeft(n)
  BY <1>1, <1>2 DEF LeftByPlace
<1>4. /\ NodesLeft(n) \in Nat /\ NodesLeft(n + 1) = NodesLeft(n) + NodeLength
      /\ NodeLength \in Nat /\ NodeLength >= 9
  BY Lengths
<1>5. CASE pc = "next"
  <2>1. StepsLeft = NodesLeft(n + 1)
    BY <1>1, <1>2, <1>5 DEF LeftByPlace
  <2>2. QED
    BY <1>3, <1>4, <2>1
<1>6. CASE InLlmCall \/ InToolCall
  BY <1>1, <1>2, <1>3, <1>6 DEF LeftByPlace
<1>7. QED
  BY <1>5, <1>6

\* The calls of a node are within its length.
LEMMA FallsAtStart ==
  ASSUME TInv, TInv', pc = "next", pos' = pos, InLlmCall' \/ InToolCall'
  PROVE  StepsLeft' < StepsLeft
<1>1. LeftByPlace /\ LeftByPlace' /\ pos \in 0..4
  <2>1. pos' \in 0..4
    BY DEF TInv, CallBelongsToNode
  <2>2. QED
    BY <2>1, LeftBefore
<1>2. PICK n \in Nat : n = 4 - pos /\ 5 - pos = n + 1
  <2>1. 4 - pos \in Nat /\ 5 - pos = (4 - pos) + 1
    BY <1>1
  <2>2. QED
    BY <2>1
<1>3. NodesLeft(n) \in Nat /\ NodesLeft(n + 1) = NodesLeft(n) + NodeLength /\ NodeLength \in Nat
  BY Lengths
<1>4. StepsLeft = NodesLeft(n + 1)
  BY <1>1, <1>2 DEF LeftByPlace
<1>5. StepsLeft' < NodesLeft(n) + NodeLength
  BY <1>1, <1>2 DEF LeftByPlace
<1>6. QED
  BY <1>3, <1>4, <1>5

\* Inside a node the calls that are left get fewer.
LEMMA FallsInside ==
  ASSUME TInv, TInv', pos' = pos,
         \/ InLlmCall /\ InLlmCall' /\ CallLeft' < CallLeft
         \/ InToolCall /\ InToolCall' /\ ToolLeft' < ToolLeft
  PROVE  StepsLeft' < StepsLeft
<1>1. LeftByPlace /\ LeftByPlace' /\ pos \in 0..4
  BY LeftBefore DEF TInv, CallBelongsToNode
<1>2. PICK n \in Nat : n = 4 - pos
  <2>1. 4 - pos \in Nat
    BY <1>1
  <2>2. QED
    BY <2>1
<1>3. NodesLeft(n) \in Nat
  BY Lengths
<1>4. CASE InLlmCall /\ InLlmCall' /\ CallLeft' < CallLeft
  <2>1. StepsLeft = NodesLeft(n) + CallLeft /\ StepsLeft' = NodesLeft(n) + CallLeft'
    BY <1>1, <1>2, <1>4 DEF LeftByPlace
  <2>2. CallLeft \in Nat /\ CallLeft' \in Nat
    BY <1>4 DEF InLlmCall, CallLeft
  <2>3. QED
    BY <1>3, <1>4, <2>1, <2>2
<1>5. CASE InToolCall /\ InToolCall' /\ ToolLeft' < ToolLeft
  <2>1. StepsLeft = NodesLeft(n) + ToolLeft /\ StepsLeft' = NodesLeft(n) + ToolLeft'
    BY <1>1, <1>2, <1>5 DEF LeftByPlace
  <2>2. NodeLength \in Nat /\ ToolLeft \in 1..(NodeLength - 9) /\ ToolLeft' \in 1..(NodeLength - 9)
    <3>1. (TInv /\ InToolCall => ToolLeft \in 1..(NodeLength - 9))'
      BY ToolLeftBound, PTL
    <3>2. QED
      BY <1>5, <3>1, ToolLeftBound, Lengths
  <2>3. QED
    BY <1>3, <1>5, <2>1, <2>2
<1>6. QED
  BY <1>4, <1>5

\* The steps of a tool call bring the end of its node nearer.
LEMMA ToolStepFalls ==
  ASSUME TInv, TInv', CallToolFails \/ CallTool \/ RecordToolCall
  PROVE  StepsLeft' < StepsLeft
<1>1. /\ steps \in 1..MaxPlan /\ toolRows \in Nat /\ toolRows < steps /\ MaxPlan \in Nat
      /\ attempt \in 1..(MaxRetries + 1) /\ InToolCall /\ ~Stopped /\ steps' = steps
  <2>1. InToolCall /\ ~Stopped /\ steps' = steps
    BY DEF InToolCall, Stopped, CallToolFails, CallTool, RecordToolCall
  <2>2. QED
    BY <2>1, BoundAssumption DEF TInv, TypeOK, CallBelongsToNode, StepsCounted
<1>2. StepLength \in Nat /\ StepLength = MaxRetries + 2 /\ MaxRetries \in Nat
  BY Lengths
<1>3. PICK k \in Nat : k = steps - (toolRows + 1)
  BY <1>1
<1>4. k * StepLength \in Nat
  BY <1>2
<1>5. CASE pc' = "raised"
  BY <1>1, <1>5, FallsAtEnd
<1>6. CASE CallToolFails /\ pc' # "raised"
  <2>1. /\ pc = "tool" /\ pc' = "tool" /\ attempt' = attempt + 1 /\ toolRows' = toolRows
        /\ pos' = pos
    BY <1>6 DEF CallToolFails
  <2>2. ToolLeft = k * StepLength + ((StepLength + 1) - attempt)
    BY <1>3, <2>1 DEF ToolLeft
  <2>3. ToolLeft' = k * StepLength + ((StepLength + 1) - (attempt + 1))
    BY <1>1, <1>3, <2>1 DEF ToolLeft
  <2>4. ToolLeft' < ToolLeft
    BY <1>1, <1>2, <1>4, <2>2, <2>3
  <2>5. QED
    BY <1>1, <2>1, <2>4, FallsInside DEF InToolCall
<1>7. CASE CallTool /\ pc' # "raised"
  <2>1. pc = "tool" /\ pc' = "toolrow" /\ toolRows' = toolRows /\ pos' = pos
    BY <1>7 DEF CallTool
  <2>2. ToolLeft = k * StepLength + ((StepLength + 1) - attempt)
    BY <1>3, <2>1 DEF ToolLeft
  <2>3. ToolLeft' = k * StepLength + 1
    BY <1>1, <1>3, <2>1 DEF ToolLeft
  <2>4. ToolLeft' < ToolLeft
    BY <1>1, <1>2, <1>4, <2>2, <2>3
  <2>5. QED
    BY <1>1, <2>1, <2>4, FallsInside DEF InToolCall
<1>8. CASE RecordToolCall /\ pc' # "raised"
  <2>1. pc = "toolrow" /\ toolRows' = toolRows + 1
    BY <1>8 DEF RecordToolCall
  <2>2. CASE toolRows + 1 = steps
    <3>1. pc' = "next" /\ pos' = pos + 1
      BY <1>8, <2>2 DEF RecordToolCall, NodeDone
    <3>2. QED
      BY <1>1, <3>1, FallsWhenDone
  <2>3. CASE toolRows + 1 # steps
    <3>1. pc' = "tool" /\ attempt' = 1 /\ pos' = pos
      BY <1>8, <2>3 DEF RecordToolCall
    <3>2. PICK j \in Nat : k = j + 1
      <4>1. k - 1 \in Nat /\ k = (k - 1) + 1
        BY <1>1, <1>3, <2>3
      <4>2. QED
        BY <4>1
    <3>3. j * StepLength \in Nat /\ k * StepLength = j * StepLength + StepLength
      BY <1>2, <3>2
    <3>4. ToolLeft = k * StepLength + 1
      BY <1>3, <2>1 DEF ToolLeft
    <3>5. steps' - (toolRows' + 1) = j
      BY <1>1, <1>3, <2>1, <3>2
    <3>6. ToolLeft' = j * StepLength + ((StepLength + 1) - 1)
      BY <3>1, <3>5 DEF ToolLeft
    <3>7. ToolLeft' < ToolLeft
      BY <1>2, <3>3, <3>4, <3>6
    <3>8. QED
      BY <1>1, <3>1, <3>7, FallsInside DEF InToolCall
  <2>4. QED
    BY <2>2, <2>3
<1>9. QED
  BY <1>5, <1>6, <1>7, <1>8

\* Every step brings the end of the run nearer.
LEMMA StepFalls ==
  ASSUME TInv, TInv', Next
  PROVE  StepsLeft' < StepsLeft
<1>1. CASE Begin
  <2>1. CASE pc' = "over"
    <3>1. pc # "over"
      BY <1>1 DEF Begin
    <3>2. QED
      BY <2>1, <3>1, FallsAtEnd
  <2>2. CASE pc' = "next"
    <3>1. pc = "start" /\ pos' = pos /\ LeftByPlace /\ LeftByPlace' /\ 5 - pos \in Nat
      BY <1>1, LeftBefore, Nodes DEF Begin, TInv, TypeOK
    <3>2. NodesLeft(5 - pos) \in Nat
      BY <3>1, Lengths
    <3>3. StepsLeft = NodesLeft(5 - pos) + 1 /\ StepsLeft' = NodesLeft(5 - pos)
      BY <2>2, <3>1 DEF LeftByPlace
    <3>4. QED
      BY <3>2, <3>3
  <2>3. QED
    BY <1>1, <2>1, <2>2 DEF Begin
<1>2. CASE Leave \/ GraphEnd \/ Fail
  <2>1. \/ pc' = "over" /\ pc # "over"
        \/ pc' = "raised" /\ ~Stopped
    BY <1>2 DEF Leave, GraphEnd, Fail, Stopped
  <2>2. QED
    BY <2>1, FallsAtEnd
<1>3. CASE StartCalls
  <2>1. pc = "next" /\ pos' = pos /\ pc' \in {"tool", "call"}
    BY <1>3 DEF StartCalls, Running
  <2>2. QED
    BY <2>1, FallsAtStart DEF InLlmCall, InToolCall
<1>4. CASE ListToolsFails \/ NothingToAnswer
  BY <1>4, FallsAtEnd DEF ListToolsFails, NothingToAnswer, Running, Stopped
<1>5. CASE PassOn \/ FallbackPlan \/ EmptyPlan
  BY <1>5, FallsWhenDone DEF PassOn, FallbackPlan, EmptyPlan, Running, NodeDone
<1>6. CASE Invoke \/ RecordLlmCall \/ RecordBudgetEvent
  <2>1. ~Stopped /\ InLlmCall /\ pos' = pos /\ llm' = llm
    BY <1>6 DEF Invoke, RecordLlmCall, RecordBudgetEvent, Stopped, InLlmCall
  <2>2. CASE pc' = "raised"
    BY <2>1, <2>2, FallsAtEnd
  <2>3. CASE pc' # "raised"
    <3>1. \/ pc = "call" /\ pc' = "row"
          \/ pc = "row" /\ pc' = "event"
          \/ pc = "event" /\ pc' = "reply"
      <4>1. CASE Invoke
        BY <2>3, <4>1 DEF Invoke
      <4>2. CASE RecordLlmCall
        BY <2>3, <4>2 DEF RecordLlmCall
      <4>3. CASE RecordBudgetEvent
        BY <2>3, <4>3 DEF RecordBudgetEvent
      <4>4. QED
        BY <1>6, <4>1, <4>2, <4>3
    <3>2. InLlmCall' /\ CallLeft' < CallLeft
      BY <2>1, <3>1 DEF InLlmCall, CallLeft
    <3>3. QED
      BY <2>1, <3>2, FallsInside
  <2>4. QED
    BY <2>2, <2>3
<1>7. CASE ScopeReply \/ PlannerReply \/ ClarifierReply \/ QuestionReply \/ AnswerReply
  <2>1. pc = "reply" /\ InLlmCall /\ ~Stopped
    BY <1>7 DEF ScopeReply, PlannerReply, ClarifierReply, QuestionReply, AnswerReply, Replied,
       InLlmCall, Stopped
  <2>2. \/ pc' = "raised"
        \/ pc' = "next" /\ pos' = pos + 1
        \/ /\ pc' = "call" /\ pos' = pos
           /\ llm = "clarifier" /\ llm' = "clarifier_question"
    BY <1>7 DEF ScopeReply, PlannerReply, ClarifierReply, QuestionReply, AnswerReply, Replied,
       NodeDone, Unusable
  <2>3. CASE pc' = "raised"
    BY <2>1, <2>3, FallsAtEnd
  <2>4. CASE pc' = "next" /\ pos' = pos + 1
    BY <2>1, <2>4, FallsWhenDone
  <2>5. CASE pc' = "call" /\ pos' = pos /\ llm = "clarifier" /\ llm' = "clarifier_question"
    <3>1. InLlmCall' /\ CallLeft' < CallLeft
      BY <2>1, <2>5 DEF InLlmCall, CallLeft
    <3>2. QED
      BY <2>1, <2>5, <3>1, FallsInside
  <2>6. QED
    BY <2>2, <2>3, <2>4, <2>5
<1>8. CASE CallToolFails \/ CallTool \/ RecordToolCall
  BY <1>8, ToolStepFalls
<1>9. QED
  BY <1>1, <1>2, <1>3, <1>4, <1>5, <1>6, <1>7, <1>8, Zenon DEF Next, NodeWork

\* However calls fail and are retried, every step of a run brings its end nearer by at
\* least one: the graph, the plan and the retries leave no way to go round in it.  What
\* remains of RunEnds is that the thread goes on.
THEOREM RunIsBounded ==
  Spec => [](StepsLeft \in Nat) /\ [][StepsLeft' < StepsLeft]_vars
<1>1. TInv => StepsLeft \in Nat
  BY StepsLeftAt DEF LeftByPlace
<1>2. TInv /\ TInv' /\ [Next]_vars => [StepsLeft' < StepsLeft]_vars
  BY StepFalls
<1>3. QED
  BY <1>1, <1>2, TypesAndPlaces, PTL DEF Spec

=============================================================================
