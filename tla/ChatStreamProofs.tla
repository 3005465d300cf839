--------------------------- MODULE ChatStreamProofs ---------------------------
(***************************************************************************)
(* Proofs about ChatStream, for every pipeline, step limit and delta       *)
(* bound: its type invariant, the agreement of the outcome the client is   *)
(* told with the message that was stored, the conservation of the outcome  *)
(* between the two threads, and that every step is a step of ChatTurn.     *)
(*                                                                         *)
(* The second half relates what the client was sent to what the threads    *)
(* still hold: the text of a reply and its end, the status of the run and  *)
(* the outcome on its way, the end of the stream and the terminal item, a  *)
(* stage and its announcement, the order of the events.  Two results come  *)
(* from that: the stream is one that WebChat can read, and only polling a  *)
(* living worker can go on for ever.                                       *)
(***************************************************************************)
EXTENDS ChatStream, ChatEventsProofs, SequenceTheorems, TLAPS

\* A node is running only while there is one, and the consumer that stores a
\* reply has its outcome: what TypeOK needs to be inductive.
NodeRunning == wpc = "node" => pos < Len(Pipeline)

OutcomeHeld == cpc = "persist" => held \in Outcomes

TInv == TypeOK /\ NodeRunning /\ OutcomeHeld

-----------------------------------------------------------------------------
(* The helpers stay within their types.                                    *)

\* Every event the service sends, and every item it queues, is one it declares.
LEMMA EventTypes ==
  /\ Started \in ClientEvents /\ Completed \in ClientEvents
  /\ Clarified \in ClientEvents /\ Failed \in ClientEvents
  /\ ErrorEvent \in ClientEvents /\ Delta \in ClientEvents
  /\ ProgressEvents \subseteq ClientEvents
  /\ ProgressEvents \subseteq Items
  /\ Delta \in ProgressEvents /\ ToolLogs \in ProgressEvents
  /\ Event("answer", "started") \in ProgressEvents
  /\ Done \in Items
  /\ \A o \in Outcomes : Terminal(o) \in Items
  BY DEF ClientEvents, ProgressEvents, RunEnds, Items, Terminals, StageEvents,
         TrackedStages

\* The terminal items and the end marker are no progress events.
LEMMA TerminalsApart ==
  /\ \A e \in ProgressEvents : e \notin Terminals
  /\ Done \notin Terminals
  /\ \A t \in Terminals : t.what \in Outcomes
  BY DEF ProgressEvents, StageEvents, AgentEvents, ToolLogs, Delta, Event,
         Terminals, Terminal, Done, Outcomes, TrackedStages

\* Events of a snapshot are progress events.
LEMMA RuntimeEventsType ==
  ASSUME NEW e \in AgentEvents \cup {NoEvent}, NEW t \in SUBSET TrackedStages
  PROVE  /\ RuntimeEvents(e, t) \in Seq(ProgressEvents)
         /\ Announced(e, t) \in SUBSET TrackedStages
<1>1. e.stage \in TrackedStages => e \in ProgressEvents
  BY DEF ProgressEvents, StageEvents, AgentEvents, NoEvent, Event, TrackedStages
<1>2. e.stage \in TrackedStages => Event(e.stage, "started") \in ProgressEvents
  BY DEF ProgressEvents, StageEvents
<1>3. RuntimeEvents(e, t) \in Seq(ProgressEvents)
  BY <1>1, <1>2 DEF RuntimeEvents
<1>4. Announced(e, t) \in SUBSET TrackedStages
  BY DEF Announced
<1>5. QED
  BY <1>3, <1>4

\* Every node maps states to states.
LEMMA NodeOutputType ==
  ASSUME NEW n \in Stages, NEW s \in AgentState, NEW r \in NodeOutput(n, s)
  PROVE  r \in AgentState
<1> DEFINE Evs  == AgentEvents \cup {NoEvent}
           Errs == Errors \cup {"none"}
           Plans == {"none", "empty", "steps"}
<1>a. /\ Event("scope_check", "rejected") \in Evs
      /\ Event("scope_check", "completed") \in Evs
      /\ Event("planner", "completed") \in Evs
      /\ Event("clarifier", "completed") \in Evs
      /\ Event("clarifier", "clarification_required") \in Evs
      /\ Event("tool_executor", "completed") \in Evs
      /\ Event("answer", "completed") \in Evs
  BY DEF AgentEvents
<1>b. /\ "out_of_scope" \in Errs /\ "planner_error" \in Errs
      /\ "clarification_required" \in Errs
  BY DEF Errors
<1>c. s \in [prompt : BOOLEAN, rag : BOOLEAN, plan : Plans, results : BOOLEAN,
             answer : BOOLEAN, event : Evs, error : Errs]
  BY DEF AgentState
<1>d. SUFFICES r \in [prompt : BOOLEAN, rag : BOOLEAN, plan : Plans,
                      results : BOOLEAN, answer : BOOLEAN, event : Evs,
                      error : Errs]
  BY DEF AgentState
<1>e. "empty" \in Plans /\ "steps" \in Plans
  OBVIOUS
<1>f. /\ s.rag \in BOOLEAN
      /\ \A x \in {s.rag, TRUE} : x \in BOOLEAN
  BY <1>c
<1> HIDE DEF Evs, Errs, Plans
<1>1. CASE n = "scope_check"
  <2>1. r \in ScopeCheck(s)
    BY <1>1 DEF NodeOutput
  <2>2. \/ r = s
        \/ r = [s EXCEPT !.answer = TRUE,
                         !.event = Event("scope_check", "rejected"),
                         !.error = "out_of_scope"]
        \/ \E x \in {s.rag, TRUE} :
             r = [s EXCEPT !.rag = x, !.event = Event("scope_check", "completed")]
    BY <2>1, Zenon DEF ScopeCheck
  <2>3. QED
    BY <2>2, <1>a, <1>b, <1>c, <1>f
<1>2. CASE n = "planner"
  <2>1. r \in Planner(s)
    BY <1>2 DEF NodeOutput
  <2>2. \/ r = s
        \/ \E x \in {s.rag, TRUE}, p \in {"empty", "steps"} :
             r = [s EXCEPT !.rag = x, !.plan = p,
                           !.event = Event("planner", "completed")]
        \/ r = [s EXCEPT !.error = "planner_error"]
        \/ r = [s EXCEPT !.plan = "steps", !.event = Event("planner", "completed")]
    <3>1. CASE s.error # "none"
      BY <2>1, <3>1 DEF Planner
    <3>2. CASE s.error = "none" /\ s.prompt
      BY <2>1, <3>2 DEF Planner
    <3>3. CASE s.error = "none" /\ ~s.prompt
      BY <2>1, <3>3 DEF Planner
    <3>4. QED
      BY <3>1, <3>2, <3>3, Zenon
  <2>3. QED
    BY <2>2, <1>a, <1>b, <1>c, <1>e, <1>f
<1>3. CASE n = "clarifier"
  <2>1. r \in Clarifier(s)
    BY <1>3 DEF NodeOutput
  <2>2. \/ r = s
        \/ r = [s EXCEPT !.event = Event("clarifier", "completed")]
        \/ r = [s EXCEPT !.event = Event("clarifier", "clarification_required"),
                         !.error = "clarification_required"]
    BY <2>1, Zenon DEF Clarifier
  <2>3. QED
    BY <2>2, <1>a, <1>b, <1>c
<1>4. CASE n = "tool_executor"
  BY <1>4, <1>a, <1>c DEF NodeOutput, ToolExecutor
<1>5. CASE n = "answer"
  BY <1>5, <1>a, <1>c DEF NodeOutput, Answer
<1>6. QED
  BY <1>1, <1>2, <1>3, <1>4, <1>5 DEF Stages

\* The input state is a state.
LEMMA InputType ==
  ASSUME NEW p \in BOOLEAN
  PROVE  InputState(p) \in AgentState
  BY DEF InputState, AgentState

\* A state decides one of the outcomes, or none.
LEMMA OutcomeType ==
  ASSUME NEW s \in AgentState
  PROVE  OutcomeOf(s) \in Outcomes \cup {"none"}
  BY DEF OutcomeOf, Outcomes

-----------------------------------------------------------------------------
(* Type correctness.                                                       *)

\* The initial states are well typed.
LEMMA InitType == Init => TInv
<1>1. SUFFICES ASSUME Init PROVE TInv
  OBVIOUS
<1>2. input \in AgentState /\ snap \in AgentState
  BY <1>1, InputType DEF Init
<1>3. Len(Pipeline) \in Nat
  BY PipelineAssumption
<1>4. pos \in 0..Len(Pipeline) /\ deltas \in 0..MaxDeltas
  BY <1>1, <1>3, LimitAssumption DEF Init
<1>5. NodeRunning /\ OutcomeHeld
  BY <1>1 DEF Init, NodeRunning, OutcomeHeld
<1>6. TypeOK
  <2>1. /\ out \in Seq(ClientEvents) /\ sent \in Seq(ClientEvents)
        /\ replies \in Seq(Outcomes) /\ queue \in Seq(Items)
    BY <1>1 DEF Init
  <2>2. QED
    BY <1>1, <1>2, <1>4, <2>1 DEF Init, TypeOK
<1>7. QED
  BY <1>5, <1>6 DEF TInv

\* A yield keeps the events the client received in their type.
LEMMA YieldType ==
  ASSUME NEW e \in ClientEvents, sent \in Seq(ClientEvents), Yield(e)
  PROVE  sent' \in Seq(ClientEvents) /\ atYield' \in BOOLEAN
  BY DEF Yield

\* Steps of the consumer keep the types.
LEMMA ConsumerType == TInv /\ Consumer => TInv'
<1> SUFFICES ASSUME TInv, Consumer PROVE TInv'
  OBVIOUS
<1> USE DEF TInv, TypeOK, NodeRunning, OutcomeHeld, workerVars
<1>1. CASE First
  BY <1>1, EventTypes, YieldType DEF First
<1>2. CASE Setup
  BY <1>2 DEF Setup
<1>3. CASE Get
  <2>1. Head(queue) \in Items /\ Tail(queue) \in Seq(Items)
    BY <1>3 DEF Get
  <2>2. CASE Head(queue) \in Terminals
    BY <1>3, <2>1, <2>2, TerminalsApart DEF Get
  <2>3. CASE Head(queue) \notin Terminals /\ Head(queue) = Done
    BY <1>3, <2>1, <2>3 DEF Get
  <2>4. CASE Head(queue) \notin Terminals /\ Head(queue) # Done
    <3>1. Head(queue) \in ClientEvents
      BY <2>1, <2>4, EventTypes DEF Items
    <3>2. Yield(Head(queue)) /\ tokenEmitted' \in BOOLEAN
      BY <1>3, <2>4 DEF Get
    <3>3. sent' \in Seq(ClientEvents) /\ atYield' \in BOOLEAN
      BY <3>1, <3>2, YieldType
    <3>4. QED
      BY <1>3, <2>1, <2>4, <3>2, <3>3 DEF Get
  <2>5. QED
    BY <2>2, <2>3, <2>4
<1>4. CASE Timeout
  BY <1>4 DEF Timeout
<1>5. CASE CheckAlive
  BY <1>5 DEF CheckAlive
<1>6. CASE Persist
  <2>1. cpc' \in {"emit", "raised"}
    BY <1>6 DEF Persist
  <2>2. replies' \in Seq(Outcomes) /\ out' \in Seq(ClientEvents)
    <3>1. held \in Outcomes
      BY <1>6 DEF Persist
    <3>2. ClosingEvents(held, tokenEmitted) \in Seq(ClientEvents)
      BY <3>1, EventTypes DEF ClosingEvents, Outcomes
    <3>3. CASE replies' = Append(replies, held)
               /\ out' = ClosingEvents(held, tokenEmitted)
      BY <3>1, <3>2, <3>3
    <3>4. QED
      BY <1>6, <3>3 DEF Persist
  <2>3. QED
    BY <1>6, <2>1, <2>2 DEF Persist
<1>7. CASE RouterCatch
  BY <1>7, EventTypes DEF RouterCatch
<1>8. CASE Emit
  <2>1. CASE out # <<>>
    <3>1. Head(out) \in ClientEvents /\ Tail(out) \in Seq(ClientEvents)
      BY <2>1
    <3>2. Yield(Head(out))
      BY <1>8, <2>1 DEF Emit
    <3>3. QED
      BY <1>8, <2>1, <3>1, <3>2, YieldType DEF Emit
  <2>2. CASE out = <<>>
    BY <1>8, <2>2 DEF Emit
  <2>3. QED
    BY <2>1, <2>2
<1>9. CASE Resume
  <2>1. atYield' \in BOOLEAN
    BY <1>9 DEF Resume
  <2>2. UNCHANGED <<client, cpc, held, out, tokenEmitted, sent, replies, queue, wpc, input,
                    snap, pos, deltas, tracker, runStatus>>
    BY <1>9 DEF Resume
  <2>3. QED
    BY <2>1, <2>2
<1>10. CASE Close
  BY <1>10 DEF Close
<1>11. QED
  BY <1>1, <1>2, <1>3, <1>4, <1>5, <1>6, <1>7, <1>8, <1>9, <1>10 DEF Consumer

\* The node that is running is a node of the graph.
LEMMA NodeType == TInv /\ wpc = "node" => Node \in Stages
<1> SUFFICES ASSUME TInv, wpc = "node" PROVE Node \in Stages
  OBVIOUS
<1>1. pos + 1 \in 1..Len(Pipeline)
  BY PipelineAssumption DEF TInv, TypeOK, NodeRunning
<1>2. QED
  BY <1>1, PipelineAssumption DEF Node

\* Steps of the worker keep the types.
LEMMA WorkerType == TInv /\ Worker => TInv'
<1> SUFFICES ASSUME TInv, Worker PROVE TInv'
  OBVIOUS
<1> USE DEF TInv, TypeOK, NodeRunning, OutcomeHeld, consumerVars
<1>1. CASE Begin
  BY <1>1 DEF Begin
<1>2. CASE Handle
  <2>1. PICK logs \in {<<>>, <<ToolLogs>>} :
          LET events  == logs \o RuntimeEvents(snap.event, tracker)
              outcome == OutcomeOf(snap)
          IN IF outcome = "none"
             THEN queue' = queue \o events /\ wpc' = "next"
             ELSE /\ queue' = Append(queue \o events, Terminal(outcome))
                  /\ wpc' = "exit"
    BY <1>2, Zenon DEF Handle
  <2> DEFINE events == logs \o RuntimeEvents(snap.event, tracker)
  <2>2. /\ RuntimeEvents(snap.event, tracker) \in Seq(ProgressEvents)
        /\ Announced(snap.event, tracker) \in SUBSET TrackedStages
    <3>1. snap.event \in AgentEvents \cup {NoEvent}
      BY DEF AgentState
    <3>2. QED
      BY <3>1, RuntimeEventsType
  <2>3. events \in Seq(Items)
    <3>1. logs \in Seq(ProgressEvents)
      <4>1. CASE logs = <<>>
        BY <4>1
      <4>2. CASE logs = <<ToolLogs>>
        BY <4>2, EventTypes
      <4>3. QED
        BY <4>1, <4>2
    <3>2. events \in Seq(ProgressEvents)
      BY <2>2, <3>1
    <3>3. QED
      BY <3>2, EventTypes
  <2>4. queue \o events \in Seq(Items)
    BY <2>3
  <2>5. queue' \in Seq(Items) /\ wpc' \in {"next", "exit"}
    <3>1. CASE OutcomeOf(snap) = "none"
      BY <2>1, <2>4, <3>1
    <3>2. CASE OutcomeOf(snap) # "none"
      <4>1. Terminal(OutcomeOf(snap)) \in Items
        BY <3>2, OutcomeType, EventTypes
      <4>2. /\ queue' = Append(queue \o events, Terminal(OutcomeOf(snap)))
            /\ wpc' = "exit"
        BY <2>1, <3>2
      <4> HIDE DEF events
      <4>3. QED
        BY <2>4, <4>1, <4>2
    <3>3. QED
      BY <3>1, <3>2
  <2>6. tracker' \in SUBSET TrackedStages
    BY <1>2, <2>2 DEF Handle
  <2>7. QED
    BY <1>2, <2>5, <2>6 DEF Handle
<1>3. CASE StartNode
  BY <1>3, LimitAssumption DEF StartNode
<1>4. CASE RecursionLimit
  <2>1. [input EXCEPT !.error = "recursion_limit"] \in AgentState
    BY DEF AgentState, Errors
  <2>2. QED
    BY <1>4, <2>1 DEF RecursionLimit
<1>5. CASE GraphEnd
  BY <1>5 DEF GraphEnd, Finish
<1>6. CASE Drained
  <2>1. Terminal(IF snap.answer THEN "answer" ELSE "error") \in Items
    BY EventTypes DEF Outcomes
  <2>2. QED
    BY <1>6, <2>1 DEF Drained
<1>7. CASE StreamDelta
  <2>1. LlmDeltaEvents(Node, tracker) \in Seq(Items)
    BY EventTypes DEF LlmDeltaEvents
  <2>2. queue' \in Seq(Items)
    BY <1>7, <2>1 DEF StreamDelta
  <2>3. tracker' \in SUBSET TrackedStages
    BY <1>7 DEF StreamDelta, TrackedStages
  <2>4. deltas' \in 0..MaxDeltas
    BY <1>7, LimitAssumption DEF StreamDelta
  <2>5. QED
    BY <1>7, <2>2, <2>3, <2>4 DEF StreamDelta
<1>8. CASE NodeDone
  <2>1. snap' \in AgentState
    <3>1. PICK s \in NodeOutput(Node, snap) : snap' = s
      BY <1>8 DEF NodeDone
    <3>2. QED
      BY <1>8, <3>1, NodeType, NodeOutputType DEF NodeDone
  <2>2. pos' \in 0..Len(Pipeline)
    BY <1>8, PipelineAssumption DEF NodeDone
  <2>3. QED
    BY <1>8, <2>1, <2>2 DEF NodeDone
<1>9. CASE NodeRaise
  BY <1>9 DEF NodeRaise, Finish
<1>10. CASE WorkerCatch
  <2>1. <<Terminal("error"), Done>> \in Seq(Items)
    BY EventTypes DEF Outcomes
  <2>2. QED
    BY <1>10, <2>1 DEF WorkerCatch
<1>11. CASE Exit
  BY <1>11 DEF Exit
<1>12. QED
  BY <1>1, <1>2, <1>3, <1>4, <1>5, <1>6, <1>7, <1>8, <1>9, <1>10, <1>11 DEF Worker

\* Every step keeps the types.
LEMMA StepType == TInv /\ [Next]_vars => TInv'
<1>1. TInv /\ Disconnect => TInv'
  BY DEF Disconnect, TInv, TypeOK, NodeRunning, OutcomeHeld, consumerVars, workerVars
<1>2. TInv /\ UNCHANGED vars => TInv'
  BY DEF vars, TInv, TypeOK, NodeRunning, OutcomeHeld, consumerVars, workerVars
<1>3. QED
  BY <1>1, <1>2, ConsumerType, WorkerType DEF Next

\* The types are kept throughout.
LEMMA TypeInvariant == Spec => []TInv
  BY InitType, StepType, PTL DEF Spec

\* The variables of a stream keep their types, whatever the graph and limits.
THEOREM TypeCorrect == Spec => []TypeOK
<1>1. TInv => TypeOK
  BY DEF TInv
<1>2. QED
  BY <1>1, TypeInvariant, PTL

-----------------------------------------------------------------------------
(* The outcome that is told agrees with the message that was stored.       *)

\* Until the reply is stored nothing is stored, told or waiting to be told;
\* afterwards the closing events that wait are those of the stored reply.
Undecided == cpc \in {"first", "setup", "poll", "check", "persist", "raised"}

Closing ==
  \/ out \in {<<Delta, Completed>>, <<Completed>>} /\ replies = <<"answer">>
  \/ out \in {<<Delta, Clarified>>, <<Clarified>>} /\ replies = <<"clarification">>
  \/ out \in {<<ErrorEvent, Failed>>, <<Failed>>} /\ replies \in {<<>>, <<"error">>}

EndInv ==
  /\ Undecided => ~Told /\ out = <<>> /\ replies = <<>>
  /\ cpc = "emit" => out = <<>> \/ (~Told /\ Closing)
  /\ NothingAfterTheEnd
  /\ ReplyMatchesEnd

\* An appended event is the only new one.
LEMMA AppendContains ==
  ASSUME NEW S, NEW s \in Seq(S), NEW e \in S, NEW x
  PROVE  (\E i \in 1..Len(Append(s, e)) : Append(s, e)[i] = x)
           <=> (\E i \in 1..Len(s) : s[i] = x) \/ x = e
<1>1. Len(Append(s, e)) = Len(s) + 1 /\ Len(s) \in Nat
  OBVIOUS
<1>2. \A i \in 1..Len(s) : Append(s, e)[i] = s[i]
  OBVIOUS
<1>3. Append(s, e)[Len(s) + 1] = e
  OBVIOUS
<1>4. QED
  BY <1>1, <1>2, <1>3

\* What a yield changes: at most one event is added, and only at the end.
LEMMA YieldSent ==
  ASSUME NEW e \in ClientEvents, sent \in Seq(ClientEvents), Yield(e)
  PROVE  /\ \A x : Sent(x)' => Sent(x) \/ x = e
         /\ Told' => Told \/ e \in RunEnds
         /\ ~Told => NothingAfterTheEnd'
<1>1. CASE sent' = sent
  BY <1>1 DEF Sent, Told, NothingAfterTheEnd
<1>2. CASE sent' = Append(sent, e)
  <2>1. \A x : Sent(x)' => Sent(x) \/ x = e
    BY <1>2, AppendContains DEF Sent
  <2>2. Len(sent') = Len(sent) + 1 /\ Len(sent) \in Nat
    BY <1>2
  <2>3. \A i \in 1..Len(sent) : sent'[i] = sent[i]
    BY <1>2
  <2>4. sent'[Len(sent) + 1] = e
    BY <1>2
  <2>5. Told' => Told \/ e \in RunEnds
    BY <2>2, <2>3, <2>4 DEF Told
  <2>6. ~Told => NothingAfterTheEnd'
    BY <2>2, <2>3, <2>4 DEF Told, NothingAfterTheEnd
  <2>7. QED
    BY <2>1, <2>5, <2>6
<1>3. QED
  BY <1>1, <1>2 DEF Yield

\* The ends of a run differ from each other and from everything else.
LEMMA EndsApart ==
  /\ Completed # Clarified /\ Completed # Failed /\ Clarified # Failed
  /\ Delta \notin RunEnds /\ ErrorEvent \notin RunEnds /\ Started \notin RunEnds
  /\ \A e \in ProgressEvents : e \notin RunEnds
  BY DEF RunEnds, Completed, Clarified, Failed, Delta, ErrorEvent, Started, Event,
         ProgressEvents, StageEvents, AgentEvents, ToolLogs, TrackedStages

\* Whoever was told an end was sent it.
LEMMA ToldSent == Told <=> (Sent(Completed) \/ Sent(Clarified) \/ Sent(Failed))
  BY DEF Told, Sent, RunEnds

\* Before an end is told and a reply stored there is nothing to agree on.
LEMMA Quiet == ~Told /\ replies = <<>> => NothingAfterTheEnd /\ ReplyMatchesEnd
  BY ToldSent DEF Told, NothingAfterTheEnd, ReplyMatchesEnd

\* The first closing event keeps the invariant.
LEMMA EmitEnd == TInv /\ EndInv /\ Emit /\ out # <<>> => EndInv'
<1> SUFFICES ASSUME TInv, EndInv, Emit, out # <<>> PROVE EndInv'
  OBVIOUS
<1>1. /\ cpc = "emit" /\ cpc' = "emit" /\ replies' = replies
      /\ Yield(Head(out)) /\ out' = Tail(out)
  BY DEF Emit
<1>2. ~Told /\ Closing
  BY <1>1 DEF EndInv
<1>3. sent \in Seq(ClientEvents)
  BY DEF TInv, TypeOK
<1>4. ASSUME NEW e \in {Delta, ErrorEvent}, NEW last \in RunEnds,
             out = <<e, last>>
      PROVE  EndInv'
  <2>1. Head(out) = e /\ out' = <<last>>
    BY <1>1, <1>4
  <2>2. e \in ClientEvents /\ e \notin RunEnds
    BY EventTypes, EndsApart
  <2>3. ~Told' /\ NothingAfterTheEnd'
    BY <1>1, <1>2, <1>3, <2>1, <2>2, YieldSent
  <2>4. ~Sent(Completed)' /\ ~Sent(Clarified)' /\ ~Sent(Failed)'
    BY <2>3 DEF Told, Sent, RunEnds
  <2>5. ReplyMatchesEnd'
    BY <1>1, <2>4 DEF ReplyMatchesEnd, EndInv
  <2>6. Closing'
    BY <1>1, <1>2, <1>4, <2>1 DEF Closing
  <2>7. QED
    BY <1>1, <2>3, <2>5, <2>6 DEF EndInv, Undecided
<1>5. ASSUME NEW last \in RunEnds, out = <<last>>
      PROVE  EndInv'
  <2>1. Head(out) = last /\ out' = <<>>
    BY <1>1, <1>5
  <2>2. last \in ClientEvents
    BY DEF ClientEvents
  <2>3. NothingAfterTheEnd'
    BY <1>1, <1>2, <1>3, <2>1, <2>2, YieldSent
  <2>4. \A x \in RunEnds : Sent(x)' => x = last
    <3>1. \A x \in RunEnds : ~Sent(x)
      BY <1>2 DEF Told, Sent
    <3>2. \A x : Sent(x)' => Sent(x) \/ x = last
      BY <1>1, <1>3, <2>1, <2>2, YieldSent
    <3>3. QED
      BY <3>1, <3>2
  <2>5. /\ last = Completed => replies = <<"answer">>
        /\ last = Clarified => replies = <<"clarification">>
        /\ last = Failed => replies \in {<<>>, <<"error">>}
    BY <1>2, <1>5, EndsApart DEF Closing
  <2>6. ReplyMatchesEnd'
    BY <1>1, <2>4, <2>5 DEF ReplyMatchesEnd, EndInv, RunEnds
  <2>7. QED
    BY <1>1, <2>1, <2>3, <2>6 DEF EndInv, Undecided
<1>6. QED
  BY <1>2, <1>4, <1>5 DEF Closing, RunEnds

\* Steps of the consumer keep the invariant.
LEMMA ConsumerEnd == TInv /\ EndInv /\ Consumer => EndInv'
<1> SUFFICES ASSUME TInv, EndInv, Consumer PROVE EndInv'
  OBVIOUS
<1>a. sent \in Seq(ClientEvents)
  BY DEF TInv, TypeOK
<1>b. ASSUME NEW e \in ClientEvents \ RunEnds, Yield(e), Undecided, Undecided',
             UNCHANGED <<out, replies>>
      PROVE  EndInv'
  <2>1. ~Told /\ out = <<>> /\ replies = <<>>
    BY <1>b DEF EndInv
  <2>2. ~Told' /\ NothingAfterTheEnd'
    BY <1>a, <1>b, <2>1, YieldSent
  <2>3. (~Told /\ replies = <<>> => ReplyMatchesEnd)'
    BY Quiet, PTL
  <2>4. QED
    BY <1>b, <2>1, <2>2, <2>3 DEF EndInv, Undecided
<1>c. ASSUME UNCHANGED <<sent, replies>>, Undecided, Undecided', UNCHANGED out
      PROVE  EndInv'
  BY <1>c DEF EndInv, Told, NothingAfterTheEnd, ReplyMatchesEnd, Sent, Undecided
<1>d. ASSUME UNCHANGED <<sent, replies>>, ~Undecided',
             cpc' = "emit" => out' = <<>> \/ (~Told /\ Closing')
      PROVE  EndInv'
  BY <1>d DEF EndInv, Told, NothingAfterTheEnd, ReplyMatchesEnd, Sent
<1>1. CASE First
  BY <1>1, <1>b, EventTypes, EndsApart DEF First, Undecided
<1>2. CASE Setup
  BY <1>2, <1>c DEF Setup, Undecided
<1>3. CASE Get
  <2>1. Head(queue) \in Items
    BY <1>3 DEF Get, TInv, TypeOK
  <2>2. CASE Head(queue) \in Terminals
    BY <1>3, <2>2, <1>c DEF Get, Undecided
  <2>3. CASE Head(queue) \notin Terminals /\ Head(queue) = Done
    BY <1>3, <2>3, <1>d DEF Get, Undecided
  <2>4. CASE Head(queue) \notin Terminals /\ Head(queue) # Done
    <3>1. Head(queue) \in ClientEvents \ RunEnds
      BY <2>1, <2>4, EventTypes, EndsApart DEF Items
    <3>2. Yield(Head(queue)) /\ cpc = "poll" /\ UNCHANGED <<cpc, out, replies>>
      BY <1>3, <2>4 DEF Get
    <3>3. QED
      BY <3>1, <3>2, <1>b DEF Undecided
  <2>5. QED
    BY <2>2, <2>3, <2>4
<1>4. CASE Timeout
  BY <1>4, <1>c DEF Timeout, Undecided
<1>5. CASE CheckAlive
  <2>1. CASE cpc' = "poll"
    BY <1>5, <2>1, <1>c DEF CheckAlive, Undecided
  <2>2. CASE cpc' = "ended"
    BY <1>5, <2>2, <1>d DEF CheckAlive, Undecided
  <2>3. QED
    BY <1>5, <2>1, <2>2 DEF CheckAlive
<1>6. CASE Persist
  <2>1. ~Told /\ replies = <<>> /\ out = <<>> /\ held \in Outcomes
    BY <1>6 DEF Persist, EndInv, Undecided, TInv, OutcomeHeld
  <2>2. CASE cpc' = "raised"
    BY <1>6, <2>2, <1>c DEF Persist, Undecided
  <2>3. CASE cpc' = "emit"
    <3>1. /\ replies' = <<held>> /\ out' = ClosingEvents(held, tokenEmitted)
          /\ UNCHANGED sent
      BY <1>6, <2>1, <2>3 DEF Persist
    <3>2. Closing'
      BY <2>1, <3>1 DEF Closing, ClosingEvents, Outcomes
    <3>3. ~Told' /\ ~Sent(Completed)' /\ ~Sent(Clarified)' /\ ~Sent(Failed)'
      BY <2>1, <3>1 DEF Told, Sent, RunEnds
    <3>4. NothingAfterTheEnd' /\ ReplyMatchesEnd'
      BY <3>1, <3>3 DEF Told, NothingAfterTheEnd, ReplyMatchesEnd
    <3>5. QED
      BY <2>3, <3>2, <3>3, <3>4 DEF EndInv, Undecided
  <2>4. QED
    BY <1>6, <2>2, <2>3 DEF Persist
<1>7. CASE RouterCatch
  <2>1. ~Told /\ replies = <<>>
    BY <1>7 DEF RouterCatch, EndInv, Undecided
  <2>2. Closing'
    BY <1>7, <2>1 DEF RouterCatch, Closing
  <2>3. QED
    BY <1>7, <2>1, <2>2, <1>d DEF RouterCatch, Undecided
<1>8. CASE Emit
  <2>1. CASE out # <<>>
    BY <1>8, <2>1, EmitEnd
  <2>2. CASE out = <<>>
    BY <1>8, <2>2, <1>d DEF Emit, Undecided
  <2>3. QED
    BY <2>1, <2>2
<1>9. CASE Resume
  BY <1>9 DEF Resume, EndInv, Told, NothingAfterTheEnd, ReplyMatchesEnd, Sent,
              Undecided, Closing
<1>10. CASE Close
  BY <1>10, <1>d DEF Close, Undecided
<1>11. QED
  BY <1>1, <1>2, <1>3, <1>4, <1>5, <1>6, <1>7, <1>8, <1>9, <1>10 DEF Consumer

\* The worker and the client touch nothing the invariant is about.
LEMMA OthersKeepEnd == EndInv /\ (Worker \/ Disconnect \/ UNCHANGED vars) => EndInv'
<1> SUFFICES ASSUME EndInv, Worker \/ Disconnect \/ UNCHANGED vars PROVE EndInv'
  OBVIOUS
<1>1. UNCHANGED consumerVars
  <2>1. CASE Worker
    BY <2>1 DEF Worker, Begin, Handle, StartNode, RecursionLimit, GraphEnd, Drained,
                StreamDelta, NodeDone, NodeRaise, WorkerCatch, Exit
  <2>2. CASE Disconnect
    BY <2>2 DEF Disconnect
  <2>3. CASE UNCHANGED vars
    BY <2>3 DEF vars
  <2>4. QED
    BY <2>1, <2>2, <2>3
<1>2. QED
  BY <1>1 DEF consumerVars, EndInv, Told, NothingAfterTheEnd, ReplyMatchesEnd, Sent,
              Undecided, Closing

\* At first nothing was told.
LEMMA InitEnd == Init => EndInv
<1>1. Init => ~Told /\ replies = <<>> /\ out = <<>> /\ Undecided /\ cpc # "emit"
  BY DEF Init, Told, Undecided
<1>2. QED
  BY <1>1, Quiet DEF EndInv

\* EndInv is kept throughout.
LEMMA EndInvariant == Spec => []EndInv
<1>1. TInv /\ EndInv /\ [Next]_vars => EndInv'
  BY ConsumerEnd, OthersKeepEnd DEF Next
<1>2. QED
  BY <1>1, InitEnd, TypeInvariant, PTL DEF Spec

\* No event follows the one that ends the run, for every graph and every limit.
THEOREM EndIsLast == Spec => []NothingAfterTheEnd
<1>1. EndInv => NothingAfterTheEnd
  BY DEF EndInv
<1>2. QED
  BY <1>1, EndInvariant, PTL

\* The outcome told is the one of the stored message.
THEOREM ReplyAgrees == Spec => []ReplyMatchesEnd
<1>1. EndInv => ReplyMatchesEnd
  BY DEF EndInv
<1>2. QED
  BY <1>1, EndInvariant, PTL

-----------------------------------------------------------------------------
(* Every step of the stream is a step of the abstract turn.                *)

\* The generator is suspended only where it yields, so it ends once.
YieldsWhereItMay == atYield => cpc \in {"setup", "poll", "emit"}

RefInv == TInv /\ EndInv /\ YieldsWhereItMay

TurnStep == [Turn!Next]_(Turn!vars)

\* The abstract variables.
Reply == IF replies = <<>> THEN "none" ELSE replies[1]

Over == cpc \in {"ended", "closed"}

\* Before an end was sent the turn has been told nothing; the end that is sent first
\* is what it is told.
LEMMA OutcomeOfSent ==
  /\ ~Told => OutcomeTold = "none"
  /\ UNCHANGED sent => OutcomeTold' = OutcomeTold /\ Told' = Told
  BY ToldSent DEF OutcomeTold, Sent, Told

\* Steps that send no end, store nothing and do not end the stream.
LEMMA QuietStep ==
  ASSUME UNCHANGED replies, Over' = Over, OutcomeTold' = OutcomeTold
  PROVE  TurnStep
BY DEF TurnStep, Turn!vars, Over

\* Ending the response is the step of the abstract turn that ends it.
LEMMA FinishStep ==
  ASSUME UNCHANGED <<replies, sent>>, ~Over, Over'
  PROVE  TurnStep
BY OutcomeOfSent DEF TurnStep, Turn!Next, Turn!Finish, Over

\* A progress event tells no outcome.
LEMMA ProgressStep ==
  ASSUME TInv, ~Told, NEW e \in ClientEvents \ RunEnds, Yield(e),
         UNCHANGED <<replies, cpc>> \/ (UNCHANGED replies /\ ~Over /\ ~Over')
  PROVE  TurnStep
<1>1. ~Told'
  BY YieldSent DEF TInv, TypeOK
<1>2. (~Told => OutcomeTold = "none")'
  BY OutcomeOfSent, PTL
<1>3. OutcomeTold' = OutcomeTold
  BY <1>1, <1>2, OutcomeOfSent
<1>4. Over' = Over
  BY DEF Over
<1>5. QED
  BY <1>3, <1>4, QuietStep

\* A closing event tells the outcome, or none.
LEMMA EmitStep ==
  ASSUME RefInv, Emit, out # <<>>
  PROVE  TurnStep
<1>1. /\ cpc = "emit" /\ cpc' = "emit" /\ replies' = replies
      /\ Yield(Head(out)) /\ ~Told /\ Closing /\ sent \in Seq(ClientEvents)
  BY DEF Emit, RefInv, EndInv, TInv, TypeOK
<1>2. CASE Head(out) \in {Delta, ErrorEvent}
  <2>1. Head(out) \in ClientEvents \ RunEnds
    BY <1>2, EventTypes, EndsApart
  <2>2. QED
    BY <1>1, <2>1, ProgressStep DEF RefInv
<1>3. CASE Head(out) \in RunEnds
  <2>1. \/ Head(out) = Completed /\ replies = <<"answer">>
        \/ Head(out) = Clarified /\ replies = <<"clarification">>
        \/ Head(out) = Failed /\ replies \in {<<>>, <<"error">>}
    BY <1>1, <1>3, EndsApart DEF Closing
  <2>2. CASE sent' = sent
    BY <1>1, <2>2, OutcomeOfSent, QuietStep DEF Over
  <2>3. CASE sent' = Append(sent, Head(out))
    <3>1. \A x : Sent(x)' <=> Sent(x) \/ x = Head(out)
      <4>1. Head(out) \in ClientEvents
        BY <1>3 DEF ClientEvents
      <4>2. QED
        BY <1>1, <2>3, <4>1, AppendContains DEF Sent
    <3>2. ~Sent(Completed) /\ ~Sent(Clarified) /\ ~Sent(Failed)
      BY <1>1, ToldSent
    <3>3. /\ Head(out) = Completed => OutcomeTold' = "answer"
          /\ Head(out) = Clarified => OutcomeTold' = "clarification"
          /\ Head(out) = Failed => OutcomeTold' = "error"
      BY <3>1, <3>2, EndsApart DEF OutcomeTold
    <3>4. OutcomeTold = "none"
      BY <1>1, OutcomeOfSent
    <3>5. PICK o \in {"answer", "clarification", "error"} :
            /\ OutcomeTold' = o
            /\ Reply = o \/ (o = "error" /\ Reply = "none")
      BY <2>1, <3>3 DEF Reply
    <3>6. Turn!Tell(o)
      BY <1>1, <3>4, <3>5 DEF Turn!Tell, Reply
    <3>7. QED
      BY <3>6 DEF TurnStep, Turn!Next
  <2>4. QED
    BY <1>1, <2>2, <2>3 DEF Yield
<1>4. QED
  BY <1>1, <1>2, <1>3 DEF Closing, RunEnds

\* Every step of the consumer is one of the turn.
LEMMA ConsumerStep ==
  ASSUME RefInv, Consumer
  PROVE  TurnStep
<1>1. TInv /\ EndInv
  BY DEF RefInv
<1>2. CASE First
  BY <1>1, <1>2, ProgressStep, EventTypes, EndsApart DEF First, EndInv, Undecided, Over
<1>3. CASE Setup \/ Timeout \/ RouterCatch \/ Resume
  BY <1>3, OutcomeOfSent, QuietStep DEF Setup, Timeout, RouterCatch, Resume, Over
<1>4. CASE Get
  <2>1. cpc = "poll" /\ ~Told /\ replies' = replies /\ Head(queue) \in Items
    BY <1>1, <1>4 DEF Get, EndInv, Undecided, TInv, TypeOK
  <2>2. CASE Head(queue) \in Terminals
    BY <1>4, <2>1, <2>2, OutcomeOfSent, QuietStep DEF Get, Over
  <2>3. CASE Head(queue) \notin Terminals /\ Head(queue) = Done
    BY <1>4, <2>1, <2>3, FinishStep DEF Get, Over
  <2>4. CASE Head(queue) \notin Terminals /\ Head(queue) # Done
    <3>1. Head(queue) \in ClientEvents \ RunEnds
      BY <2>1, <2>4, EventTypes, EndsApart DEF Items
    <3>2. Yield(Head(queue)) /\ UNCHANGED <<cpc, replies>>
      BY <1>4, <2>4 DEF Get
    <3>3. QED
      BY <1>1, <2>1, <3>1, <3>2, ProgressStep
  <2>5. QED
    BY <2>2, <2>3, <2>4
<1>5. CASE CheckAlive
  <2>1. CASE cpc' = "poll"
    BY <1>5, <2>1, OutcomeOfSent, QuietStep DEF CheckAlive, Over
  <2>2. CASE cpc' = "ended"
    BY <1>5, <2>2, FinishStep DEF CheckAlive, Over
  <2>3. QED
    BY <1>5, <2>1, <2>2 DEF CheckAlive
<1>6. CASE Persist
  <2>1. ~Told /\ replies = <<>> /\ held \in Outcomes /\ UNCHANGED sent
    BY <1>1, <1>6 DEF Persist, EndInv, Undecided, TInv, OutcomeHeld
  <2>2. OutcomeTold = "none" /\ OutcomeTold' = "none"
    BY <2>1, OutcomeOfSent
  <2>3. CASE replies' = replies /\ cpc' = "raised"
    BY <1>6, <2>2, <2>3, QuietStep DEF Persist, Over
  <2>4. CASE replies' = Append(replies, held) /\ cpc' = "emit"
    <3>1. Reply = "none" /\ Reply' = held
      BY <2>1, <2>4 DEF Reply
    <3>2. Turn!Store(held)
      BY <1>6, <2>2, <2>4, <3>1 DEF Turn!Store, Reply, Persist
    <3>3. QED
      BY <2>1, <3>2 DEF TurnStep, Turn!Next, Outcomes
  <2>5. QED
    BY <1>6, <2>3, <2>4 DEF Persist
<1>7. CASE Emit
  <2>1. CASE out # <<>>
    BY <1>7, <2>1, EmitStep
  <2>2. CASE out = <<>>
    BY <1>7, <2>2, FinishStep DEF Emit, Over
  <2>3. QED
    BY <2>1, <2>2
<1>8. CASE Close
  BY <1>8, FinishStep DEF Close, RefInv, YieldsWhereItMay, Over
<1>9. QED
  BY <1>2, <1>3, <1>4, <1>5, <1>6, <1>7, <1>8 DEF Consumer

\* Steps of the worker and of the client leave the turn as it is.
LEMMA OtherStep ==
  ASSUME Worker \/ Disconnect \/ UNCHANGED vars
  PROVE  UNCHANGED consumerVars /\ TurnStep
<1>1. UNCHANGED consumerVars
  BY DEF Worker, Begin, Handle, StartNode, RecursionLimit, GraphEnd, Drained,
     StreamDelta, NodeDone, NodeRaise, WorkerCatch, Exit, Disconnect, vars
<1>2. QED
  BY <1>1, OutcomeOfSent, QuietStep DEF consumerVars, Over

\* Every step leaves the generator suspended at a yield only.
LEMMA StepYields ==
  ASSUME YieldsWhereItMay, [Next]_vars
  PROVE  YieldsWhereItMay'
<1>1. CASE Consumer
  BY <1>1 DEF Consumer, First, Setup, Get, Timeout, CheckAlive, Persist, RouterCatch,
     Emit, Resume, Close, Yield, YieldsWhereItMay
<1>2. CASE Worker \/ Disconnect \/ UNCHANGED vars
  BY <1>2, OtherStep DEF consumerVars, YieldsWhereItMay
<1>3. QED
  BY <1>1, <1>2 DEF Next

\* Threads, queue, failures and all, a streamed request stores at most one reply,
\* then tells at most one outcome, the stored one, and nothing once it has ended: the
\* safety part of ImplementsTurn.
THEOREM RefinesTurn == Spec => Turn!Init /\ [][Turn!Next]_(Turn!vars)
<1>1. Init => Turn!Init /\ YieldsWhereItMay
  BY ToldSent DEF Init, Turn!Init, OutcomeTold, Sent, YieldsWhereItMay
<1>2. RefInv /\ [Next]_vars => TurnStep
  BY ConsumerStep, OtherStep DEF Next
<1>3. YieldsWhereItMay /\ [Next]_vars => YieldsWhereItMay'
  BY StepYields
<1>4. QED
  BY <1>1, <1>2, <1>3, TypeInvariant, EndInvariant, PTL DEF Spec, RefInv, TurnStep

-----------------------------------------------------------------------------
(* The outcome is neither dropped nor doubled between the threads.         *)

HasTerminal(q) == \E i \in 1..Len(q) : q[i] \in Terminals

OneTerminal(q) ==
  \A i, j \in 1..Len(q) : q[i] \in Terminals /\ q[j] \in Terminals => i = j

\* Before the worker has returned there is no terminal item; afterwards there is
\* one, on the queue until a consumer that still polls has taken it.
Handover ==
  /\ OneTerminal(queue)
  /\ wpc \notin {"exit", "dead"} => ~HasTerminal(queue) /\ held = "none"
  /\ wpc \in {"exit", "dead"} => (HasTerminal(queue) <=> held = "none")
  /\ cpc \in {"first", "setup", "poll", "check"} => held = "none"
  /\ cpc \in {"first", "setup"} => wpc = "none"

\* Progress events bring no terminal item.
LEMMA ProgressAppended ==
  ASSUME NEW q \in Seq(Items), NEW p \in Seq(ProgressEvents), ~HasTerminal(q)
  PROVE  q \o p \in Seq(Items) /\ ~HasTerminal(q \o p)
<1>1. p \in Seq(Items)
  BY EventTypes
<1>2. q \o p \in Seq(Items)
  BY <1>1
<1>3. \A i \in 1..Len(p) : p[i] \notin Terminals
  BY TerminalsApart
<1>4. \A i \in 1..Len(q \o p) : (q \o p)[i] \notin Terminals
  <2>1. ASSUME NEW i \in 1..Len(q \o p) PROVE (q \o p)[i] \notin Terminals
    <3>1. CASE i <= Len(q)
      BY <1>1, <3>1 DEF HasTerminal
    <3>2. CASE i > Len(q)
      <4>1. (q \o p)[i] = p[i - Len(q)] /\ i - Len(q) \in 1..Len(p)
        BY <1>1, <3>2
      <4>2. QED
        BY <4>1, <1>3
    <3>3. QED
      BY <3>1, <3>2
  <2>2. QED
    BY <2>1
<1>5. QED
  BY <1>2, <1>4 DEF HasTerminal

\* A terminal item put behind other items is the only one.
LEMMA TerminalAppended ==
  ASSUME NEW q \in Seq(Items), NEW t \in Terminals, ~HasTerminal(q)
  PROVE  HasTerminal(Append(q, t)) /\ OneTerminal(Append(q, t))
<1>1. t \in Items
  BY DEF Items
<1>2. /\ Len(Append(q, t)) = Len(q) + 1 /\ Len(q) \in Nat
      /\ Append(q, t)[Len(q) + 1] = t
      /\ \A i \in 1..Len(q) : Append(q, t)[i] = q[i]
  BY <1>1
<1>3. QED
  BY <1>2 DEF HasTerminal, OneTerminal

\* So is one that is followed by the end marker.
LEMMA TerminalDoneAppended ==
  ASSUME NEW q \in Seq(Items), NEW t \in Terminals, ~HasTerminal(q)
  PROVE  /\ HasTerminal(q \o <<t, Done>>)
         /\ OneTerminal(q \o <<t, Done>>)
<1> DEFINE r == q \o <<t, Done>>
<1>1. t \in Items /\ Done \in Items
  BY DEF Items
<1>2. /\ Len(r) = Len(q) + 2 /\ Len(q) \in Nat
      /\ r[Len(q) + 1] = t /\ r[Len(q) + 2] = Done
      /\ \A i \in 1..Len(q) : r[i] = q[i]
  BY <1>1
<1> HIDE DEF r
<1>3. HasTerminal(r)
  BY <1>2 DEF HasTerminal
<1>4. \A i \in 1..Len(r) : r[i] \in Terminals => i = Len(q) + 1
  <2>1. \A i \in 1..Len(r) : i \in 1..Len(q) \/ i = Len(q) + 1 \/ i = Len(q) + 2
    BY <1>2
  <2>2. \A i \in 1..Len(q) : r[i] \notin Terminals
    BY <1>2 DEF HasTerminal
  <2>3. QED
    BY <1>2, <2>1, <2>2, TerminalsApart
<1>5. OneTerminal(r)
  BY <1>4 DEF OneTerminal
<1>6. QED
  BY <1>3, <1>5 DEF r

\* Taking the first item off leaves the terminal item of the rest.
LEMMA ItemTaken ==
  ASSUME NEW q \in Seq(Items), q # <<>>, OneTerminal(q)
  PROVE  /\ OneTerminal(Tail(q))
         /\ Head(q) \in Terminals => ~HasTerminal(Tail(q))
         /\ Head(q) \notin Terminals => (HasTerminal(Tail(q)) <=> HasTerminal(q))
<1>1. /\ Len(q) \in Nat /\ Len(q) > 0 /\ Len(Tail(q)) = Len(q) - 1
      /\ Head(q) = q[1]
      /\ \A i \in 1..Len(Tail(q)) : Tail(q)[i] = q[i + 1]
  OBVIOUS
<1>2. OneTerminal(Tail(q))
  BY <1>1 DEF OneTerminal
<1>3. Head(q) \in Terminals => ~HasTerminal(Tail(q))
  BY <1>1 DEF OneTerminal, HasTerminal
<1>4. ASSUME Head(q) \notin Terminals
      PROVE  HasTerminal(Tail(q)) <=> HasTerminal(q)
  <2>1. HasTerminal(Tail(q)) => HasTerminal(q)
    BY <1>1 DEF HasTerminal
  <2>2. ASSUME HasTerminal(q) PROVE HasTerminal(Tail(q))
    <3>1. PICK i \in 1..Len(q) : q[i] \in Terminals
      BY <2>2 DEF HasTerminal
    <3>2. i - 1 \in 1..Len(Tail(q)) /\ Tail(q)[i - 1] = q[i]
      BY <1>1, <1>4, <3>1
    <3>3. QED
      BY <3>1, <3>2 DEF HasTerminal
  <2>3. QED
    BY <2>1, <2>2
<1>5. QED
  BY <1>2, <1>3, <1>4

\* At first there is no outcome.
LEMMA InitHandover == Init => Handover
  BY DEF Init, Handover, HasTerminal, OneTerminal

\* The consumer takes the terminal item when it holds none.
LEMMA ConsumerHandover == TInv /\ Handover /\ Consumer => Handover'
<1> SUFFICES ASSUME TInv, Handover, Consumer PROVE Handover'
  OBVIOUS
<1> USE DEF Handover, workerVars
<1>1. CASE Setup
  BY <1>1 DEF Setup, HasTerminal, OneTerminal
<1>2. CASE Get
  <2>1. /\ queue \in Seq(Items) /\ queue # <<>> /\ queue' = Tail(queue)
        /\ cpc = "poll" /\ held = "none" /\ wpc' = wpc
    BY <1>2 DEF Get, TInv, TypeOK
  <2>2. CASE Head(queue) \in Terminals
    <3>1. cpc' = "persist" /\ held' = Head(queue).what
      BY <1>2, <2>2 DEF Get
    <3>2. held' # "none"
      BY <2>2, <3>1, TerminalsApart DEF Outcomes
    <3>3. HasTerminal(queue)
      BY <2>1, <2>2 DEF HasTerminal
    <3>4. QED
      BY <2>1, <2>2, <3>1, <3>2, <3>3, ItemTaken
  <2>3. CASE Head(queue) \notin Terminals
    <3>1. held' = held /\ cpc' \in {"poll", "ended"}
      BY <1>2, <2>1, <2>3 DEF Get
    <3>2. QED
      BY <2>1, <2>3, <3>1, ItemTaken
  <2>4. QED
    BY <2>2, <2>3
<1>3. CASE First \/ Timeout \/ CheckAlive \/ Persist \/ RouterCatch \/ Emit \/ Resume
           \/ Close
  <2>1. UNCHANGED <<queue, held, wpc>>
    BY <1>3 DEF First, Timeout, CheckAlive, Persist, RouterCatch, Emit, Resume, Close
  <2>2. cpc' \in {"first", "setup", "poll", "check"} => held = "none"
    BY <1>3 DEF First, Timeout, CheckAlive, Persist, RouterCatch, Emit, Resume, Close
  <2>3. cpc' \in {"first", "setup"} => wpc = "none"
    BY <1>3 DEF First, Timeout, CheckAlive, Persist, RouterCatch, Emit, Resume, Close
  <2>4. QED
    BY <2>1, <2>2, <2>3
<1>4. QED
  BY <1>1, <1>2, <1>3 DEF Consumer

\* The worker puts the terminal item on the queue in the step it stops with.
LEMMA WorkerHandover == TInv /\ Handover /\ Worker => Handover'
<1> SUFFICES ASSUME TInv, Handover, Worker PROVE Handover'
  OBVIOUS
<1> USE DEF Handover, consumerVars
<1>a. /\ queue \in Seq(Items)
      /\ \A o \in Outcomes : Terminal(o) \in Terminals
  BY DEF TInv, TypeOK, Terminals
<1>b. cpc' = cpc /\ held' = held
  BY DEF Worker, Begin, Handle, StartNode, RecursionLimit, GraphEnd, Drained,
         StreamDelta, NodeDone, NodeRaise, WorkerCatch, Exit
<1>c. wpc \notin {"none", "dead"}
  BY DEF Worker, Begin, Handle, StartNode, RecursionLimit, GraphEnd, Drained,
         StreamDelta, NodeDone, NodeRaise, WorkerCatch, Exit
<1>d. ASSUME queue' = queue, wpc \in {"exit", "dead"} <=> wpc' \in {"exit", "dead"}
      PROVE  Handover'
  BY <1>b, <1>c, <1>d
<1>1. CASE Begin \/ StartNode \/ RecursionLimit \/ GraphEnd \/ NodeDone \/ NodeRaise
           \/ Exit
  BY <1>1, <1>d DEF Begin, StartNode, RecursionLimit, GraphEnd, NodeDone, NodeRaise, Exit
<1>2. CASE Handle
  <2>1. PICK logs \in {<<>>, <<ToolLogs>>} :
          LET events  == logs \o RuntimeEvents(snap.event, tracker)
              outcome == OutcomeOf(snap)
          IN IF outcome = "none"
             THEN queue' = queue \o events /\ wpc' = "next"
             ELSE /\ queue' = Append(queue \o events, Terminal(outcome))
                  /\ wpc' = "exit"
    BY <1>2, Zenon DEF Handle
  <2> DEFINE events == logs \o RuntimeEvents(snap.event, tracker)
  <2>2. events \in Seq(ProgressEvents)
    <3>1. snap.event \in AgentEvents \cup {NoEvent} /\ tracker \in SUBSET TrackedStages
      BY DEF AgentState, TInv, TypeOK
    <3>2. RuntimeEvents(snap.event, tracker) \in Seq(ProgressEvents)
      BY <3>1, RuntimeEventsType
    <3>3. logs \in Seq(ProgressEvents)
      <4>1. CASE logs = <<>>
        BY <4>1
      <4>2. CASE logs = <<ToolLogs>>
        BY <4>2, EventTypes
      <4>3. QED
        BY <4>1, <4>2
    <3>4. QED
      BY <3>2, <3>3
  <2>3. ~HasTerminal(queue) /\ held = "none" /\ wpc = "handle"
    BY <1>2 DEF Handle
  <2>4. queue \o events \in Seq(Items) /\ ~HasTerminal(queue \o events)
    BY <1>a, <2>2, <2>3, ProgressAppended
  <2>5. CASE OutcomeOf(snap) = "none"
    <3>1. queue' = queue \o events /\ wpc' = "next"
      BY <2>1, <2>5
    <3>2. OneTerminal(queue')
      BY <2>4, <3>1 DEF HasTerminal, OneTerminal
    <3> HIDE DEF events
    <3>3. QED
      BY <1>b, <1>c, <2>3, <2>4, <3>1, <3>2
  <2>6. CASE OutcomeOf(snap) # "none"
    <3>1. queue' = Append(queue \o events, Terminal(OutcomeOf(snap))) /\ wpc' = "exit"
      BY <2>1, <2>6
    <3>2. Terminal(OutcomeOf(snap)) \in Terminals
      BY <1>a, <2>6, OutcomeType DEF TInv, TypeOK
    <3> HIDE DEF events
    <3>3. HasTerminal(queue') /\ OneTerminal(queue')
      BY <2>4, <3>1, <3>2, TerminalAppended
    <3>4. QED
      BY <1>b, <1>c, <2>3, <3>1, <3>3
  <2>7. QED
    BY <2>5, <2>6
<1>3. CASE Drained
  <2>1. PICK o \in Outcomes : queue' = Append(queue, Terminal(o))
    BY <1>3 DEF Drained, Outcomes
  <2>2. wpc = "drained" /\ wpc' = "exit" /\ ~HasTerminal(queue) /\ held = "none"
    BY <1>3 DEF Drained
  <2>3. HasTerminal(queue') /\ OneTerminal(queue')
    BY <1>a, <2>1, <2>2, TerminalAppended
  <2>4. QED
    BY <1>b, <1>c, <2>2, <2>3
<1>4. CASE StreamDelta
  <2>1. LlmDeltaEvents(Node, tracker) \in Seq(ProgressEvents)
    BY EventTypes DEF LlmDeltaEvents
  <2>2. /\ wpc = "node" /\ wpc' = wpc /\ ~HasTerminal(queue) /\ held = "none"
        /\ queue' = queue \o LlmDeltaEvents(Node, tracker)
    BY <1>4 DEF StreamDelta
  <2>3. ~HasTerminal(queue')
    BY <1>a, <2>1, <2>2, ProgressAppended
  <2>4. OneTerminal(queue')
    BY <2>3 DEF HasTerminal, OneTerminal
  <2>5. QED
    BY <1>b, <1>c, <2>2, <2>3, <2>4
<1>5. CASE WorkerCatch
  <2>1. /\ wpc = "raised" /\ wpc' = "exit" /\ ~HasTerminal(queue) /\ held = "none"
        /\ queue' = queue \o <<Terminal("error"), Done>>
    BY <1>5 DEF WorkerCatch
  <2>2. Terminal("error") \in Terminals
    BY <1>a DEF Outcomes
  <2>3. HasTerminal(queue') /\ OneTerminal(queue')
    BY <1>a, <2>1, <2>2, TerminalDoneAppended
  <2>4. QED
    BY <1>b, <1>c, <2>1, <2>3
<1>6. QED
  BY <1>1, <1>2, <1>3, <1>4, <1>5 DEF Worker

\* The outcome of the worker reaches the consumer once, or waits on the queue.
THEOREM OutcomeNotLost == Spec => []OutcomeConserved
<1>1. TInv /\ Handover /\ [Next]_vars => Handover'
  <2>1. Handover /\ (Disconnect \/ UNCHANGED vars) => Handover'
    BY DEF Disconnect, vars, consumerVars, workerVars, Handover
  <2>2. QED
    BY <2>1, ConsumerHandover, WorkerHandover DEF Next
<1>2. Handover => OutcomeConserved
  BY DEF Handover, HasTerminal, OutcomeConserved, TerminalQueued
<1>3. QED
  BY <1>1, <1>2, InitHandover, TypeInvariant, PTL DEF Spec

-----------------------------------------------------------------------------
(* What the client was sent, beside what the threads hold.                 *)

\* A yield adds its event for a client that is there, and nothing for one that left.
LEMMA YieldAdds ==
  ASSUME NEW e \in ClientEvents, sent \in Seq(ClientEvents), Yield(e), NEW x
  PROVE  /\ client = "connected" => (Sent(x)' <=> Sent(x) \/ x = e)
         /\ client # "connected" => (Sent(x)' <=> Sent(x))
<1>1. CASE client = "connected"
  <2>1. sent' = Append(sent, e)
    BY <1>1 DEF Yield
  <2>2. QED
    BY <1>1, <2>1, AppendContains DEF Sent
<1>2. CASE client # "connected"
  BY <1>2 DEF Yield, Sent
<1>3. QED
  BY <1>1, <1>2

\* The worker leaves the consumer and its client alone.
LEMMA WorkerApart == Worker \/ UNCHANGED vars => UNCHANGED <<client, consumerVars>>
  BY DEF Worker, Begin, Handle, StartNode, RecursionLimit, GraphEnd, Drained,
     StreamDelta, NodeDone, NodeRaise, WorkerCatch, Exit, vars

\* The consumer and the client leave the worker alone once it runs.
LEMMA ConsumerApart ==
  Consumer \/ Disconnect \/ UNCHANGED vars =>
    /\ UNCHANGED <<snap, pos, tracker, runStatus>>
    /\ wpc' = wpc \/ (wpc' = "start" /\ cpc = "setup")
  BY DEF Consumer, First, Setup, Get, Timeout, CheckAlive, Persist, RouterCatch, Emit,
     Resume, Close, Disconnect, workerVars, vars

-----------------------------------------------------------------------------
(* The text of a reply reaches the client once.                            *)

\* token_emitted tells whether a client that stayed has been sent text; the closing
\* events are chosen by it, so text is next only where none was sent, and an end in
\* success is next only where some was.
TextInv ==
  /\ Undecided => (Sent(Delta) => tokenEmitted)
  /\ client = "connected" /\ tokenEmitted => Sent(Delta)
  /\ cpc = "emit" /\ out # <<>> /\ Head(out) = Delta => ~Sent(Delta)
  /\ cpc = "emit" /\ client = "connected" /\ out # <<>>
       /\ Head(out) \in {Completed, Clarified} => Sent(Delta)
  /\ TextBeforeSuccess

\* Text and error events are none of the ends, and differ.
LEMMA DeltaApart ==
  /\ Delta \notin {Completed, Clarified, Failed, ErrorEvent, Started}
  /\ ErrorEvent \notin {Completed, Clarified, Failed}
  BY DEF Completed, Clarified, Failed, Delta, ErrorEvent, Started, Event

\* Which of two closing events comes first.
LEMMA ClosingHeads ==
  ASSUME Closing
  PROVE  /\ out # <<>>
         /\ Head(out) \in {Delta, ErrorEvent} \cup RunEnds
         /\ Head(out) \in RunEnds => Tail(out) = <<>>
         /\ Head(out) \in {Delta, ErrorEvent} =>
              Tail(out) # <<>> /\ Head(Tail(out)) \in RunEnds
         /\ Head(out) = ErrorEvent => Head(Tail(out)) = Failed
<1>1. CASE out \in {<<Completed>>, <<Clarified>>, <<Failed>>}
  <2>1. PICK last \in RunEnds : out = <<last>>
    BY <1>1 DEF RunEnds
  <2>2. Head(out) = last /\ Tail(out) = <<>> /\ out # <<>>
    BY <2>1
  <2>3. QED
    BY <2>1, <2>2, EndsApart
<1>2. CASE out \in {<<Delta, Completed>>, <<Delta, Clarified>>, <<ErrorEvent, Failed>>}
  <2>1. PICK e \in {Delta, ErrorEvent}, last \in RunEnds :
          out = <<e, last>> /\ (e = ErrorEvent => last = Failed)
    BY <1>2, DeltaApart DEF RunEnds
  <2>2. Head(out) = e /\ Tail(out) = <<last>> /\ Head(Tail(out)) = last
    BY <2>1
  <2>3. QED
    BY <2>1, <2>2, EndsApart
<1>3. QED
  BY <1>1, <1>2 DEF Closing

\* At first no text was sent.
LEMMA InitText == Init => TextInv
  BY DEF Init, TextInv, Sent, TextBeforeSuccess

\* Sending closing events keeps it.
LEMMA EmitText == TInv /\ EndInv /\ TextInv /\ Emit => TextInv'
<1> SUFFICES ASSUME TInv, EndInv, TextInv, Emit PROVE TextInv'
  OBVIOUS
<1>1. CASE out = <<>>
  BY <1>1 DEF Emit, TextInv, Undecided, Sent, TextBeforeSuccess
<1>2. CASE out # <<>>
  <2>1. /\ cpc = "emit" /\ cpc' = "emit" /\ client' = client
        /\ Yield(Head(out)) /\ out' = Tail(out) /\ tokenEmitted' = tokenEmitted
    BY <1>2 DEF Emit
  <2>2. Closing /\ sent \in Seq(ClientEvents)
    BY <1>2, <2>1 DEF EndInv, TInv, TypeOK
  <2>3. Head(out) \in ClientEvents
    BY <2>2, ClosingHeads, EventTypes DEF RunEnds
  <2>4. \A x : /\ client = "connected" => (Sent(x)' <=> Sent(x) \/ x = Head(out))
               /\ client # "connected" => (Sent(x)' <=> Sent(x))
    BY <2>1, <2>2, <2>3, YieldAdds
  <2>5. out' # <<>> => Head(out') \in RunEnds /\ Head(out) \in {Delta, ErrorEvent}
    BY <2>1, <2>2, ClosingHeads
  <2>6. Head(out) = ErrorEvent => Head(out') = Failed
    BY <2>1, <2>2, ClosingHeads
  <2>7. client = "connected" /\ tokenEmitted => Sent(Delta)'
    BY <2>4 DEF TextInv
  <2>8. /\ out' # <<>> => Head(out') # Delta
        /\ client = "connected" /\ out' # <<>>
             /\ Head(out') \in {Completed, Clarified} => Sent(Delta)'
    BY <2>4, <2>5, <2>6, EndsApart DEF RunEnds
  <2>9. TextBeforeSuccess'
    BY <2>1, <2>4, <1>2 DEF TextInv, TextBeforeSuccess
  <2>10. QED
    BY <2>1, <2>7, <2>8, <2>9 DEF TextInv, Undecided
<1>3. QED
  BY <1>1, <1>2

\* Steps of the consumer keep it.
LEMMA ConsumerText == TInv /\ EndInv /\ TextInv /\ Consumer => TextInv'
<1> SUFFICES ASSUME TInv, EndInv, TextInv, Consumer PROVE TextInv'
  OBVIOUS
<1>a. sent \in Seq(ClientEvents)
  BY DEF TInv, TypeOK
<1>b. ASSUME UNCHANGED <<client, sent, tokenEmitted>>, cpc' # "emit",
             Undecided' => Undecided
      PROVE  TextInv'
  BY <1>b DEF TextInv, Sent, TextBeforeSuccess
<1>c. ASSUME NEW e \in ClientEvents \ RunEnds, Yield(e), Undecided, cpc' # "emit",
             client' = client, tokenEmitted' = (tokenEmitted \/ e = Delta)
      PROVE  TextInv'
  <2>1. \A x : /\ client = "connected" => (Sent(x)' <=> Sent(x) \/ x = e)
               /\ client # "connected" => (Sent(x)' <=> Sent(x))
    BY <1>a, <1>c, YieldAdds
  <2>2. /\ Sent(Delta)' => tokenEmitted'
        /\ client' = "connected" /\ tokenEmitted' => Sent(Delta)'
    BY <1>c, <2>1 DEF TextInv
  <2>3. TextBeforeSuccess'
    BY <1>c, <2>1 DEF TextInv, TextBeforeSuccess, RunEnds
  <2>4. QED
    BY <1>c, <2>2, <2>3 DEF TextInv
<1>1. CASE First
  <2>1. Yield(Started) /\ Undecided /\ cpc' # "emit" /\ client' = client
        /\ tokenEmitted' = (tokenEmitted \/ Started = Delta)
    BY <1>1, DeltaApart DEF First, Undecided, TInv, TypeOK
  <2>2. QED
    BY <2>1, <1>c, EventTypes, EndsApart
<1>2. CASE Setup \/ Timeout \/ CheckAlive \/ Close
  BY <1>2, <1>b DEF Setup, Timeout, CheckAlive, Close, Undecided
<1>3. CASE Get
  <2>1. Head(queue) \in Items /\ Undecided /\ client' = client
    BY <1>3 DEF Get, TInv, TypeOK, Undecided
  <2>2. CASE Head(queue) \in Terminals \/ Head(queue) = Done
    BY <1>3, <2>1, <2>2, <1>b DEF Get
  <2>3. CASE Head(queue) \notin Terminals /\ Head(queue) # Done
    <3>1. Head(queue) \in ClientEvents \ RunEnds
      BY <2>1, <2>3, EventTypes, EndsApart DEF Items
    <3>2. /\ Yield(Head(queue)) /\ cpc' # "emit"
          /\ tokenEmitted' = (tokenEmitted \/ Head(queue) = Delta)
      BY <1>3, <2>3 DEF Get
    <3>3. QED
      BY <2>1, <3>1, <3>2, <1>c
  <2>4. QED
    BY <2>2, <2>3
<1>4. CASE Persist
  <2>1. /\ UNCHANGED <<client, sent, tokenEmitted>> /\ Undecided /\ held \in Outcomes
        /\ cpc' \in {"emit", "raised"}
    BY <1>4 DEF Persist, Undecided, TInv, OutcomeHeld
  <2>2. CASE cpc' = "raised"
    BY <2>1, <2>2, <1>b
  <2>3. CASE cpc' = "emit"
    <3>1. out' = ClosingEvents(held, tokenEmitted)
      BY <1>4, <2>3 DEF Persist
    <3>2. /\ Head(out') = Delta => ~tokenEmitted
          /\ Head(out') \in {Completed, Clarified} => tokenEmitted
      BY <2>1, <3>1, DeltaApart DEF ClosingEvents, Outcomes
    <3>3. QED
      BY <2>1, <2>3, <3>2 DEF TextInv, Sent, TextBeforeSuccess, Undecided
  <2>4. QED
    BY <2>1, <2>2, <2>3
<1>5. CASE RouterCatch
  <2>1. /\ UNCHANGED <<client, sent, tokenEmitted>> /\ cpc' = "emit"
        /\ out' = <<ErrorEvent, Failed>>
    BY <1>5 DEF RouterCatch
  <2>2. Head(out') = ErrorEvent
    BY <2>1
  <2>3. QED
    BY <2>1, <2>2, DeltaApart DEF TextInv, Sent, TextBeforeSuccess, Undecided
<1>6. CASE Emit
  BY <1>6, EmitText
<1>7. CASE Resume
  BY <1>7 DEF Resume, TextInv, Sent, TextBeforeSuccess, Undecided
<1>8. QED
  BY <1>1, <1>2, <1>3, <1>4, <1>5, <1>6, <1>7 DEF Consumer

\* Every step keeps what is said of the text.
LEMMA StepText == TInv /\ EndInv /\ TextInv /\ [Next]_vars => TextInv'
<1>1. TextInv /\ (Worker \/ UNCHANGED vars) => TextInv'
  BY WorkerApart DEF consumerVars, TextInv, Sent, TextBeforeSuccess, Undecided
<1>2. TextInv /\ Disconnect => TextInv'
  BY DEF Disconnect, consumerVars, TextInv, Sent, TextBeforeSuccess, Undecided
<1>3. QED
  BY <1>1, <1>2, ConsumerText DEF Next

\* TextInv is kept throughout.
LEMMA TextInvariant == Spec => []TextInv
  BY InitText, StepText, TypeInvariant, EndInvariant, PTL DEF Spec

\* A run is told as a success only after its text, whether the text was streamed,
\* sent with the closing events or lost its reader on the way.
THEOREM TextFirst == Spec => []TextBeforeSuccess
<1>1. TextInv => TextBeforeSuccess
  BY DEF TextInv
<1>2. QED
  BY <1>1, TextInvariant, PTL

\* The closing events carry text only where none was sent before.
THEOREM TextOnce == Spec => TextNotRepeated
<1>1. ASSUME TInv, EndInv, TextInv, [Next]_vars
      PROVE  [(cpc = "emit" /\ sent' = Append(sent, Delta)) => ~Sent(Delta)]_vars
  <2>1. SUFFICES ASSUME cpc = "emit", sent' = Append(sent, Delta)
                 PROVE  ~Sent(Delta)
    OBVIOUS
  <2>2. sent \in Seq(ClientEvents)
    BY <1>1 DEF TInv, TypeOK
  <2>3. Len(sent') = Len(sent) + 1 /\ Len(sent) \in Nat /\ sent'[Len(sent) + 1] = Delta
    BY <2>1, <2>2, EventTypes
  <2>4. sent' # sent
    BY <2>3
  <2>5. Emit /\ out # <<>>
    BY <1>1, <2>1, <2>4, WorkerApart
       DEF Next, Consumer, First, Setup, Get, Timeout, CheckAlive, Persist, RouterCatch,
           Emit, Resume, Close, Disconnect, consumerVars
  <2>6. sent' = Append(sent, Head(out)) /\ Head(out) \in ClientEvents
    BY <2>4, <2>5, <1>1 DEF Emit, Yield, TInv, TypeOK
  <2>7. Head(out) = Delta
    BY <2>1, <2>2, <2>3, <2>6
  <2>8. QED
    BY <1>1, <2>1, <2>5, <2>7 DEF TextInv
<1>2. QED
  BY <1>1, TypeInvariant, EndInvariant, TextInvariant, PTL DEF Spec, TextNotRepeated

-----------------------------------------------------------------------------
(* A failed run is never on its way to a success.                          *)

\* The handover of the outcome, as an invariant.
LEMMA HandoverInvariant == Spec => []Handover
<1>1. TInv /\ Handover /\ [Next]_vars => Handover'
  <2>1. Handover /\ (Disconnect \/ UNCHANGED vars) => Handover'
    BY DEF Disconnect, vars, consumerVars, workerVars, Handover
  <2>2. QED
    BY <2>1, ConsumerHandover, WorkerHandover DEF Next
<1>2. QED
  BY <1>1, InitHandover, TypeInvariant, PTL DEF Spec

\* What is stored is the outcome the consumer holds.
StoredHeld == replies = <<>> \/ (held # "none" /\ replies = <<held>>)

OnlyErrors(q) == \A i \in 1..Len(q) : q[i] \in Terminals => q[i] = Terminal("error")

\* A failed run has an error state to handle or an exception to report, and the
\* outcome the worker hands over is an error wherever it is.
StatusInv ==
  /\ StoredHeld
  /\ runStatus = "failed" =>
       /\ wpc \in {"handle", "raised", "exit", "dead"}
       /\ wpc = "handle" => OutcomeOf(snap) = "error"
       /\ OnlyErrors(queue)
       /\ held \in {"none", "error"}

\* Taking an item leaves a queue of errors one, and adds no other outcome.
LEMMA ErrorsTaken ==
  ASSUME NEW q \in Seq(Items), q # <<>>, OnlyErrors(q)
  PROVE  /\ OnlyErrors(Tail(q))
         /\ Head(q) \in Terminals => Head(q).what = "error"
<1>1. /\ Len(q) \in Nat /\ Len(q) > 0 /\ Len(Tail(q)) = Len(q) - 1
      /\ Head(q) = q[1]
      /\ \A i \in 1..Len(Tail(q)) : Tail(q)[i] = q[i + 1]
  OBVIOUS
<1>2. Terminal("error").what = "error"
  BY DEF Terminal, Event
<1>3. QED
  BY <1>1, <1>2 DEF OnlyErrors

\* A queue whose only terminal item is the one appended is one of errors if that is.
LEMMA ErrorAppended ==
  ASSUME NEW q \in Seq(Items), ~HasTerminal(q)
  PROVE  OnlyErrors(Append(q, Terminal("error")))
<1>1. Terminal("error") \in Items
  BY EventTypes DEF Outcomes
<1>2. /\ Len(Append(q, Terminal("error"))) = Len(q) + 1 /\ Len(q) \in Nat
      /\ Append(q, Terminal("error"))[Len(q) + 1] = Terminal("error")
      /\ \A i \in 1..Len(q) : Append(q, Terminal("error"))[i] = q[i]
  BY <1>1
<1>3. QED
  BY <1>2 DEF HasTerminal, OnlyErrors

\* What is put on the queue in one step may be grouped either way.
LEMMA QueuedTogether ==
  ASSUME NEW s \in Seq(Items), NEW t \in Seq(Items), NEW u \in Seq(Items)
  PROVE  (s \o t) \o u = s \o (t \o u)
  BY ConcatAssociative

\* What Handle puts on the queue: events, then the outcome, if there is one.
LEMMA HandleQueue ==
  ASSUME TInv, Handover, Handle
  PROVE  \E events \in Seq(ProgressEvents) :
           /\ queue \o events \in Seq(Items) /\ ~HasTerminal(queue \o events)
           /\ OutcomeOf(snap) = "none" => queue' = queue \o events /\ wpc' = "next"
           /\ OutcomeOf(snap) # "none" =>
                /\ queue' = Append(queue \o events, Terminal(OutcomeOf(snap)))
                /\ wpc' = "exit"
<1>1. PICK logs \in {<<>>, <<ToolLogs>>} :
        LET events  == logs \o RuntimeEvents(snap.event, tracker)
            outcome == OutcomeOf(snap)
        IN IF outcome = "none"
           THEN queue' = queue \o events /\ wpc' = "next"
           ELSE /\ queue' = Append(queue \o events, Terminal(outcome))
                /\ wpc' = "exit"
  BY Zenon DEF Handle
<1> DEFINE events == logs \o RuntimeEvents(snap.event, tracker)
<1>2. events \in Seq(ProgressEvents)
  <2>1. snap.event \in AgentEvents \cup {NoEvent} /\ tracker \in SUBSET TrackedStages
    BY DEF AgentState, TInv, TypeOK
  <2>2. RuntimeEvents(snap.event, tracker) \in Seq(ProgressEvents)
    BY <2>1, RuntimeEventsType
  <2>3. logs \in Seq(ProgressEvents)
    <3>1. CASE logs = <<>>
      BY <3>1
    <3>2. CASE logs = <<ToolLogs>>
      BY <3>2, EventTypes
    <3>3. QED
      BY <3>1, <3>2
  <2>4. QED
    BY <2>2, <2>3
<1>3. queue \in Seq(Items) /\ ~HasTerminal(queue)
  BY DEF Handle, Handover, TInv, TypeOK
<1>4. queue \o events \in Seq(Items) /\ ~HasTerminal(queue \o events)
  BY <1>2, <1>3, ProgressAppended
<1>5. /\ OutcomeOf(snap) = "none" => queue' = queue \o events /\ wpc' = "next"
      /\ OutcomeOf(snap) # "none" =>
           /\ queue' = Append(queue \o events, Terminal(OutcomeOf(snap)))
           /\ wpc' = "exit"
  BY <1>1
<1> HIDE DEF events
<1>6. QED
  BY <1>2, <1>4, <1>5

\* At first there is no row.
LEMMA InitStatus == Init => StatusInv
  BY DEF Init, StatusInv, StoredHeld

\* The consumer stores what it took off the queue.
LEMMA ConsumerStatus == TInv /\ EndInv /\ Handover /\ StatusInv /\ Consumer => StatusInv'
<1> SUFFICES ASSUME TInv, EndInv, Handover, StatusInv, Consumer PROVE StatusInv'
  OBVIOUS
<1>a. ASSUME UNCHANGED <<held, replies, queue, wpc, snap, runStatus>>
      PROVE  StatusInv'
  BY <1>a DEF StatusInv, StoredHeld, OnlyErrors
<1>1. CASE First \/ Timeout \/ CheckAlive \/ RouterCatch \/ Emit \/ Resume \/ Close
  BY <1>1, <1>a DEF First, Timeout, CheckAlive, RouterCatch, Emit, Resume, Close, workerVars
<1>2. CASE Setup
  <2>1. runStatus # "failed"
    BY <1>2 DEF Setup, Handover, StatusInv
  <2>2. QED
    BY <1>2, <2>1 DEF Setup, StatusInv, StoredHeld
<1>3. CASE Get
  <2>1. /\ UNCHANGED <<replies, wpc, snap, runStatus>> /\ queue' = Tail(queue)
        /\ queue \in Seq(Items) /\ queue # <<>> /\ replies = <<>>
        /\ held' = IF Head(queue) \in Terminals THEN Head(queue).what ELSE held
    BY <1>3 DEF Get, workerVars, TInv, TypeOK, EndInv, Undecided
  <2>2. runStatus = "failed" => OnlyErrors(queue') /\ held' \in {"none", "error"}
    BY <2>1, ErrorsTaken DEF StatusInv
  <2>3. QED
    BY <2>1, <2>2 DEF StatusInv, StoredHeld
<1>4. CASE Persist
  <2>1. /\ UNCHANGED <<held, queue, wpc, snap, runStatus>>
        /\ replies = <<>> /\ held \in Outcomes
        /\ replies' = replies \/ replies' = Append(replies, held)
    BY <1>4 DEF Persist, workerVars, EndInv, Undecided, TInv, OutcomeHeld
  <2>2. StoredHeld'
    BY <2>1 DEF StoredHeld, Outcomes
  <2>3. QED
    BY <2>1, <2>2 DEF StatusInv, OnlyErrors
<1>5. QED
  BY <1>1, <1>2, <1>3, <1>4 DEF Consumer

\* The worker hands over an error once the row says failed.
LEMMA WorkerStatus == TInv /\ Handover /\ StatusInv /\ Worker => StatusInv'
<1> SUFFICES ASSUME TInv, Handover, StatusInv, Worker PROVE StatusInv'
  OBVIOUS
<1>a. UNCHANGED <<held, replies>> /\ StoredHeld' /\ queue \in Seq(Items)
  BY WorkerApart DEF consumerVars, StatusInv, StoredHeld, TInv, TypeOK
<1>b. wpc \notin {"exit", "dead"} => ~HasTerminal(queue) /\ held = "none"
  BY DEF Handover
<1>c. ~HasTerminal(queue) => OnlyErrors(queue)
  BY DEF HasTerminal, OnlyErrors
<1>1. CASE Begin
  BY <1>1, <1>a, <1>b, <1>c DEF Begin, StatusInv, OnlyErrors
<1>2. CASE Handle
  <2>1. wpc = "handle" /\ held = "none" /\ UNCHANGED <<snap, runStatus>>
    BY <1>2, <1>b DEF Handle
  <2>2. PICK events \in Seq(ProgressEvents) :
           /\ queue \o events \in Seq(Items) /\ ~HasTerminal(queue \o events)
           /\ OutcomeOf(snap) # "none" =>
                /\ queue' = Append(queue \o events, Terminal(OutcomeOf(snap)))
                /\ wpc' = "exit"
    BY <1>2, HandleQueue
  <2>3. ASSUME runStatus = "failed"
        PROVE  wpc' = "exit" /\ OnlyErrors(queue')
    <3>1. OutcomeOf(snap) = "error"
      BY <2>1, <2>3 DEF StatusInv
    <3>2. queue' = Append(queue \o events, Terminal("error")) /\ wpc' = "exit"
      BY <2>2, <3>1
    <3>3. QED
      BY <2>2, <3>2, ErrorAppended
  <2>4. QED
    BY <1>a, <2>1, <2>3 DEF StatusInv
<1>3. CASE StartNode \/ StreamDelta \/ NodeDone \/ Drained
  <2>1. runStatus' = runStatus /\ wpc \in {"next", "node", "drained"}
    BY <1>3 DEF StartNode, StreamDelta, NodeDone, Drained
  <2>2. QED
    BY <1>a, <2>1 DEF StatusInv
<1>4. CASE RecursionLimit
  <2>1. OutcomeOf([input EXCEPT !.error = "recursion_limit"]) = "error"
    BY DEF OutcomeOf, TInv, TypeOK, AgentState
  <2>2. wpc = "next" /\ queue' = queue /\ wpc' \in {"handle", "raised"}
        /\ (wpc' = "handle" => OutcomeOf(snap') = "error")
    BY <1>4, <2>1 DEF RecursionLimit
  <2>3. QED
    BY <1>a, <1>b, <1>c, <2>2 DEF StatusInv, OnlyErrors
<1>5. CASE GraphEnd \/ NodeRaise
  <2>1. /\ wpc \in {"next", "node"} /\ queue' = queue
        /\ runStatus' = "failed" => wpc' = "raised" \/ runStatus = "failed"
    BY <1>5 DEF GraphEnd, NodeRaise, Finish
  <2>2. QED
    BY <1>a, <1>b, <1>c, <2>1 DEF StatusInv, OnlyErrors
<1>6. CASE WorkerCatch
  <2>1. /\ wpc = "raised" /\ wpc' = "exit" /\ UNCHANGED runStatus /\ held = "none"
        /\ queue' = queue \o <<Terminal("error"), Done>> /\ ~HasTerminal(queue)
    BY <1>6, <1>b DEF WorkerCatch
  <2>2. OnlyErrors(queue')
    <3> DEFINE t == Terminal("error")
               r == queue \o <<t, Done>>
    <3>1. t \in Items /\ Done \in Items
      BY EventTypes DEF Outcomes
    <3>2. /\ Len(r) = Len(queue) + 2 /\ Len(queue) \in Nat
          /\ r[Len(queue) + 1] = t /\ r[Len(queue) + 2] = Done
          /\ \A i \in 1..Len(queue) : r[i] = queue[i]
      BY <1>a, <3>1
    <3> HIDE DEF r
    <3>3. \A i \in 1..Len(r) : i \in 1..Len(queue) \/ i = Len(queue) + 1 \/ i = Len(queue) + 2
      BY <3>2
    <3>4. OnlyErrors(r)
      BY <2>1, <3>2, <3>3, TerminalsApart DEF OnlyErrors, HasTerminal
    <3>5. QED
      BY <2>1, <3>4 DEF r
  <2>3. QED
    BY <1>a, <2>1, <2>2 DEF StatusInv
<1>7. CASE Exit
  BY <1>7, <1>a DEF Exit, StatusInv, OnlyErrors
<1>8. QED
  BY <1>1, <1>2, <1>3, <1>4, <1>5, <1>6, <1>7 DEF Worker

\* StatusInv is kept throughout.
LEMMA StatusInvariant == Spec => []StatusInv
<1>1. TInv /\ EndInv /\ Handover /\ StatusInv /\ [Next]_vars => StatusInv'
  <2>1. StatusInv /\ (Disconnect \/ UNCHANGED vars) => StatusInv'
    BY DEF Disconnect, vars, consumerVars, workerVars, StatusInv, StoredHeld, OnlyErrors
  <2>2. QED
    BY <2>1, ConsumerStatus, WorkerStatus DEF Next
<1>2. QED
  BY <1>1, InitStatus, TypeInvariant, EndInvariant, HandoverInvariant, PTL DEF Spec

\* A run whose row says failed is stored and told as an error or not at all.
THEOREM FailureNotSuccess == Spec => []StatusMatchesOutcome
<1>1. ASSUME EndInv, StatusInv PROVE StatusMatchesOutcome
  <2>1. SUFFICES ASSUME runStatus = "failed"
                 PROVE  /\ ~Sent(Completed) /\ ~Sent(Clarified)
                        /\ replies \in {<<>>, <<"error">>}
    BY DEF StatusMatchesOutcome
  <2>2. replies \in {<<>>, <<"error">>}
    BY <1>1, <2>1 DEF StatusInv, StoredHeld
  <2>3. <<>> # <<"answer">> /\ <<"error">> # <<"answer">>
        /\ <<>> # <<"clarification">> /\ <<"error">> # <<"clarification">>
    OBVIOUS
  <2>4. QED
    BY <1>1, <2>2, <2>3 DEF EndInv, ReplyMatchesEnd
<1>2. QED
  BY <1>1, EndInvariant, StatusInvariant, PTL

-----------------------------------------------------------------------------
(* A stream that ends under its client has told the outcome or left it.    *)

\* The end marker stands behind a terminal item for as long as that is not taken.
DoneBehind(q) ==
  \A i \in 1..Len(q) : q[i] = Done => \E j \in 1..i : q[j] \in Terminals

\* A consumer that meets the end marker, or has sent its last event, has told an end.
LeftInv ==
  /\ held = "none" => DoneBehind(queue)
  /\ cpc = "emit" /\ client = "connected" /\ out = <<>> => Told
  /\ cpc = "ended" /\ client = "connected" => Told \/ HasTerminal(queue)

\* At first nothing has ended.
LEMMA InitLeft == Init => LeftInv
  BY DEF Init, LeftInv, DoneBehind

\* A yield to a client that is there leaves an end that is told, told.
LEMMA YieldTells ==
  ASSUME NEW e \in ClientEvents, sent \in Seq(ClientEvents), Yield(e),
         client = "connected", Told \/ e \in RunEnds
  PROVE  Told'
<1>1. /\ sent' = Append(sent, e) /\ Len(sent') = Len(sent) + 1 /\ Len(sent) \in Nat
      /\ sent'[Len(sent) + 1] = e
      /\ \A i \in 1..Len(sent) : sent'[i] = sent[i]
  BY DEF Yield
<1>2. QED
  BY <1>1 DEF Told

\* The steps of the consumer and the client keep LeftInv.
LEMMA ConsumerLeft ==
  TInv /\ EndInv /\ YieldsWhereItMay /\ Handover /\ LeftInv /\ Consumer => LeftInv'
<1> SUFFICES ASSUME TInv, EndInv, YieldsWhereItMay, Handover, LeftInv, Consumer
             PROVE  LeftInv'
  OBVIOUS
<1>a. ASSUME UNCHANGED <<held, queue>>, cpc' \notin {"emit", "ended"}
      PROVE  LeftInv'
  BY <1>a DEF LeftInv, DoneBehind
<1>1. CASE First \/ Setup \/ Timeout
  BY <1>1, <1>a DEF First, Setup, Timeout
<1>2. CASE Get
  <2>1. /\ queue' = Tail(queue) /\ queue \in Seq(Items) /\ queue # <<>> /\ cpc = "poll"
        /\ held = "none" /\ cpc' # "emit"
    BY <1>2 DEF Get, TInv, TypeOK, Handover
  <2>2. /\ Len(queue) \in Nat /\ Len(queue) > 0 /\ Len(Tail(queue)) = Len(queue) - 1
        /\ Head(queue) = queue[1]
        /\ \A i \in 1..Len(Tail(queue)) : Tail(queue)[i] = queue[i + 1]
    BY <2>1
  <2>3. CASE Head(queue) \in Terminals
    <3>1. cpc' = "persist" /\ held' = Head(queue).what
      BY <1>2, <2>3 DEF Get
    <3>2. held' # "none"
      BY <2>3, <3>1, TerminalsApart DEF Outcomes
    <3>3. QED
      BY <3>1, <3>2 DEF LeftInv
  <2>4. CASE Head(queue) \notin Terminals
    <3>1. Head(queue) # Done
      <4>1. \A j \in 1..1 : queue[j] \notin Terminals
        BY <2>2, <2>4
      <4>2. QED
        BY <2>1, <2>2, <4>1 DEF LeftInv, DoneBehind
    <3>2. cpc' = "poll" /\ held' = held
      BY <1>2, <2>1, <2>4, <3>1 DEF Get
    <3>3. DoneBehind(Tail(queue))
      <4>1. ASSUME NEW i \in 1..Len(Tail(queue)), Tail(queue)[i] = Done
            PROVE  \E j \in 1..i : Tail(queue)[j] \in Terminals
        <5>1. PICK j \in 1..(i + 1) : queue[j] \in Terminals
          BY <2>1, <2>2, <4>1 DEF LeftInv, DoneBehind
        <5>2. j # 1
          BY <2>2, <2>4, <5>1
        <5>3. j - 1 \in 1..i /\ j - 1 \in 1..Len(Tail(queue))
          BY <2>2, <5>1, <5>2
        <5>4. Tail(queue)[j - 1] = queue[j]
          BY <2>2, <5>3, <5>1
        <5>5. QED
          BY <5>1, <5>3, <5>4
      <4>2. QED
        BY <4>1 DEF DoneBehind
    <3>4. QED
      BY <2>1, <3>2, <3>3 DEF LeftInv
  <2>5. QED
    BY <2>3, <2>4
<1>3. CASE CheckAlive
  <2>1. UNCHANGED <<held, queue, client>> /\ held = "none"
        /\ cpc' = (IF wpc = "dead" THEN "ended" ELSE "poll")
    BY <1>3 DEF CheckAlive, Handover
  <2>2. CASE wpc = "dead"
    BY <2>1, <2>2 DEF LeftInv, Handover, HasTerminal, DoneBehind
  <2>3. CASE wpc # "dead"
    BY <2>1, <2>3, <1>a
  <2>4. QED
    BY <2>2, <2>3
<1>4. CASE Persist
  <2>1. CASE cpc' = "raised"
    BY <1>4, <2>1, <1>a DEF Persist
  <2>2. CASE cpc' = "emit"
    <3>1. out' = ClosingEvents(held, tokenEmitted) /\ held \in Outcomes
      BY <1>4, <2>2 DEF Persist, TInv, OutcomeHeld
    <3>2. out' # <<>>
      BY <3>1 DEF ClosingEvents, Outcomes
    <3>3. QED
      BY <1>4, <2>2, <3>2 DEF Persist, LeftInv, DoneBehind
  <2>3. QED
    BY <1>4, <2>1, <2>2 DEF Persist
<1>5. CASE RouterCatch
  <2>1. out' # <<>>
    BY <1>5 DEF RouterCatch
  <2>2. QED
    BY <1>5, <2>1 DEF RouterCatch, LeftInv, DoneBehind
<1>6. CASE Emit
  <2>1. CASE out = <<>>
    BY <1>6, <2>1 DEF Emit, LeftInv, DoneBehind, Told
  <2>2. CASE out # <<>>
    <3>1. /\ cpc = "emit" /\ cpc' = "emit" /\ UNCHANGED <<client, held, queue>>
          /\ Yield(Head(out)) /\ out' = Tail(out)
          /\ Closing /\ sent \in Seq(ClientEvents)
      BY <1>6, <2>2 DEF Emit, EndInv, TInv, TypeOK
    <3>2. Head(out) \in ClientEvents
      BY <3>1, ClosingHeads, EventTypes DEF RunEnds
    <3>3. out' = <<>> => Head(out) \in RunEnds
      BY <3>1, ClosingHeads
    <3>4. out' = <<>> /\ client = "connected" => Told'
      BY <3>1, <3>2, <3>3, YieldTells
    <3>5. QED
      BY <3>1, <3>4 DEF LeftInv, DoneBehind
  <2>3. QED
    BY <2>1, <2>2
<1>7. CASE Resume
  BY <1>7 DEF Resume, LeftInv, DoneBehind, Told, HasTerminal
<1>8. CASE Close
  BY <1>8, <1>a DEF Close
<1>9. QED
  BY <1>1, <1>2, <1>3, <1>4, <1>5, <1>6, <1>7, <1>8 DEF Consumer

\* The worker queues the marker only behind its error, and then nothing more.
LEMMA WorkerLeft == TInv /\ Handover /\ LeftInv /\ Worker => LeftInv'
<1> SUFFICES ASSUME TInv, Handover, LeftInv, Worker PROVE LeftInv'
  OBVIOUS
<1>a. UNCHANGED <<client, cpc, held, out, sent>> /\ queue \in Seq(Items)
  BY WorkerApart DEF consumerVars, TInv, TypeOK
<1>b. (Told' <=> Told)
  BY <1>a DEF Told
<1>1. CASE Exit
  BY <1>1, <1>a, <1>b DEF Exit, LeftInv, DoneBehind, HasTerminal
<1>2. CASE ~Exit
  <2>1. wpc \notin {"exit", "dead"}
    BY <1>2 DEF Worker, Begin, Handle, StartNode, RecursionLimit, GraphEnd, Drained,
       StreamDelta, NodeDone, NodeRaise, WorkerCatch
  <2>2. ~HasTerminal(queue) /\ held = "none"
    BY <2>1 DEF Handover
  <2>3. \A i \in 1..Len(queue) : queue[i] # Done
    BY <2>2 DEF LeftInv, DoneBehind, HasTerminal
  <2>4. cpc = "ended" /\ client = "connected" => Told
    BY <2>2 DEF LeftInv
  <2>5. DoneBehind(queue')
    <3>a. ASSUME NEW p \in Seq(Items), \A i \in 1..Len(p) : p[i] # Done
          PROVE  DoneBehind(queue \o p)
      <4>1. \A i \in 1..Len(queue \o p) : (queue \o p)[i] # Done
        <5>1. ASSUME NEW i \in 1..Len(queue \o p) PROVE (queue \o p)[i] # Done
          <6>1. CASE i <= Len(queue)
            BY <1>a, <2>3, <3>a, <6>1
          <6>2. CASE i > Len(queue)
            <7>1. (queue \o p)[i] = p[i - Len(queue)] /\ i - Len(queue) \in 1..Len(p)
              BY <1>a, <3>a, <6>2
            <7>2. QED
              BY <7>1, <3>a
          <6>3. QED
            BY <6>1, <6>2, <1>a
        <5>2. QED
          BY <5>1
      <4>2. QED
        BY <4>1 DEF DoneBehind
    <3>b. \A e \in ProgressEvents \cup Terminals : e # Done
      BY TerminalsApart DEF ProgressEvents, StageEvents, AgentEvents, ToolLogs, Delta,
         Event, Done, TrackedStages
    <3>1. CASE queue' = queue
      BY <3>1, <2>3 DEF DoneBehind
    <3>2. CASE Handle
      <4>1. PICK events \in Seq(ProgressEvents) :
           /\ OutcomeOf(snap) = "none" => queue' = queue \o events
           /\ OutcomeOf(snap) # "none" =>
                queue' = Append(queue \o events, Terminal(OutcomeOf(snap)))
        BY <3>2, HandleQueue
      <4>2. events \in Seq(Items) /\ \A i \in 1..Len(events) : events[i] # Done
        BY <3>b, EventTypes
      <4>3. CASE OutcomeOf(snap) = "none"
        BY <4>1, <4>2, <4>3, <3>a
      <4>4. CASE OutcomeOf(snap) # "none"
        <5> DEFINE t == Terminal(OutcomeOf(snap))
                   p == Append(events, t)
        <5>1. OutcomeOf(snap) \in Outcomes
          BY <4>4, OutcomeType DEF TInv, TypeOK
        <5>2. t \in Items /\ t # Done
          BY <5>1, EventTypes, <3>b DEF Terminals
        <5> HIDE DEF t
        <5>3. p \in Seq(Items) /\ \A i \in 1..Len(p) : p[i] # Done
          BY <4>2, <5>2
        <5>4. Append(queue \o events, t) = queue \o p
          BY <1>a, <4>2, <5>2
        <5> HIDE DEF p
        <5>5. QED
          BY <4>1, <4>4, <5>3, <5>4, <3>a DEF t
      <4>5. QED
        BY <4>3, <4>4
    <3>3. CASE Drained
      <4>1. PICK o \in Outcomes : queue' = Append(queue, Terminal(o))
        BY <3>3 DEF Drained, Outcomes
      <4>2. Terminal(o) \in Items /\ Terminal(o) # Done
        BY EventTypes, <3>b DEF Terminals
      <4>3. <<Terminal(o)>> \in Seq(Items) /\ Append(queue, Terminal(o)) = queue \o <<Terminal(o)>>
            /\ \A i \in 1..Len(<<Terminal(o)>>) : <<Terminal(o)>>[i] # Done
        BY <1>a, <4>2
      <4>4. QED
        BY <4>1, <4>3, <3>a
    <3>4. CASE StreamDelta
      <4>1. /\ LlmDeltaEvents(Node, tracker) \in Seq(ProgressEvents)
            /\ queue' = queue \o LlmDeltaEvents(Node, tracker)
        BY <3>4, EventTypes DEF LlmDeltaEvents, StreamDelta
      <4>2. /\ LlmDeltaEvents(Node, tracker) \in Seq(Items)
            /\ \A i \in 1..Len(LlmDeltaEvents(Node, tracker)) :
                 LlmDeltaEvents(Node, tracker)[i] # Done
        BY <4>1, <3>b, EventTypes
      <4>3. QED
        BY <4>1, <4>2, <3>a
    <3>5. CASE WorkerCatch
      <4> DEFINE t == Terminal("error")
                 r == queue \o <<t, Done>>
      <4>1. t \in Items /\ Done \in Items /\ t \in Terminals /\ t # Done
        BY EventTypes, <3>b DEF Outcomes, Terminals
      <4>2. /\ Len(r) = Len(queue) + 2 /\ Len(queue) \in Nat
            /\ r[Len(queue) + 1] = t /\ r[Len(queue) + 2] = Done
            /\ \A i \in 1..Len(queue) : r[i] = queue[i]
        BY <1>a, <4>1
      <4> HIDE DEF r
      <4>3. \A i \in 1..Len(r) : r[i] = Done => i = Len(queue) + 2
        BY <2>3, <4>1, <4>2
      <4>4. DoneBehind(r)
        BY <4>1, <4>2, <4>3 DEF DoneBehind
      <4>5. QED
        BY <3>5, <4>4 DEF r, WorkerCatch
    <3>6. QED
      BY <1>2, <3>1, <3>2, <3>3, <3>4, <3>5 DEF Worker, Begin, StartNode, RecursionLimit,
         GraphEnd, NodeDone, NodeRaise
  <2>6. QED
    BY <1>a, <1>b, <2>4, <2>5 DEF LeftInv
<1>3. QED
  BY <1>1, <1>2

\* A client that stays until its stream ends has been told the outcome, or the
\* outcome is still on the queue: the race with the worker is the only way to lose it.
THEOREM EndedTold == Spec => []EndedToldOrQueued
<1>1. LeftInv => EndedToldOrQueued
  BY DEF LeftInv, EndedToldOrQueued, HasTerminal, TerminalQueued
<1>2. LeftInv /\ (Disconnect \/ UNCHANGED vars) => LeftInv'
  BY DEF Disconnect, vars, consumerVars, LeftInv, DoneBehind, HasTerminal, Told
<1>3. /\ Init => YieldsWhereItMay
      /\ YieldsWhereItMay /\ [Next]_vars => YieldsWhereItMay'
  BY StepYields DEF Init, YieldsWhereItMay
<1>4. TInv /\ EndInv /\ YieldsWhereItMay /\ Handover /\ LeftInv /\ [Next]_vars => LeftInv'
  BY <1>2, ConsumerLeft, WorkerLeft DEF Next
<1>5. QED
  BY <1>1, <1>3, <1>4, InitLeft, TypeInvariant, EndInvariant, HandoverInvariant, PTL DEF Spec

-----------------------------------------------------------------------------
(* A stage the client hears of was announced to it once, before anything   *)
(* else was told of it: what was sent, what is queued and the stages the   *)
(* tracker holds.                                                          *)


Start(s) == Event(s, "started")

Occurs(q, e) == \E i \in 1..Len(q) : q[i] = e

Once(q, e) == \A i, j \in 1..Len(q) : q[i] = e /\ q[j] = e => i = j

\* A stage is announced where it is reported, or before.
Preceded(q, i) == \E j \in 1..i : q[j] = Start(q[i].stage)

\* The tracker holds the stages announced: each is announced once, on the queue or to
\* the client, and for a client that stays nowhere else, so that what is reported of a
\* stage comes behind its announcement.
Announcements(there, told, q, announced) ==
  /\ \A s \in TrackedStages :
       /\ Once(q, Start(s)) /\ Once(told, Start(s))
       /\ ~(Occurs(q, Start(s)) /\ Occurs(told, Start(s)))
       /\ Occurs(q, Start(s)) \/ Occurs(told, Start(s)) => s \in announced
       /\ there /\ s \in announced => Occurs(q, Start(s)) \/ Occurs(told, Start(s))
  /\ there => \A i \in 1..Len(q) : q[i] \in StageEvents =>
                Preceded(q, i) \/ Occurs(told, Start(q[i].stage))
  /\ \A i \in 1..Len(told) : told[i] \in StageEvents => Preceded(told, i)

AnnounceInv == Announcements(client = "connected", sent, queue, tracker)

StartEvents == {Start(s) : s \in TrackedStages}

\* What appending one event changes.
LEMMA Appended ==
  ASSUME NEW S, NEW q \in Seq(S), NEW e \in S
  PROVE  /\ Len(Append(q, e)) = Len(q) + 1 /\ Len(q) \in Nat
         /\ Append(q, e)[Len(q) + 1] = e
         /\ \A i \in 1..Len(q) : Append(q, e)[i] = q[i]
         /\ \A x : Occurs(Append(q, e), x) <=> Occurs(q, x) \/ x = e
         /\ \A x : x # e /\ Once(q, x) => Once(Append(q, e), x)
         /\ ~Occurs(q, e) => Once(Append(q, e), e)
         /\ \A i \in 1..Len(q) : Preceded(q, i) => Preceded(Append(q, e), i)
<1> DEFINE r == Append(q, e)
<1>1. /\ Len(r) = Len(q) + 1 /\ Len(q) \in Nat
      /\ r[Len(q) + 1] = e
      /\ \A i \in 1..Len(q) : r[i] = q[i]
  OBVIOUS
<1> HIDE DEF r
<1>2. \A x : Occurs(r, x) <=> Occurs(q, x) \/ x = e
  BY <1>1 DEF Occurs
<1>3. \A x : x # e /\ Once(q, x) => Once(r, x)
  BY <1>1 DEF Once
<1>4. ~Occurs(q, e) => Once(r, e)
  BY <1>1 DEF Once, Occurs
<1>5. \A i \in 1..Len(q) : Preceded(q, i) => Preceded(r, i)
  BY <1>1 DEF Preceded
<1>6. QED
  BY <1>1, <1>2, <1>3, <1>4, <1>5 DEF r

\* Stage events are about a tracked stage.
LEMMA StageEventStage ==
  /\ \A e \in StageEvents : e.stage \in TrackedStages
  /\ \A s \in TrackedStages : Start(s) \in StageEvents /\ Start(s).stage = s
  /\ \A s, t \in TrackedStages : Start(s) = Start(t) => s = t
  BY DEF StageEvents, Start, Event

\* An event that announces nothing, of a stage that is announced, is put on the queue.
LEMMA ReportQueued ==
  ASSUME NEW there \in BOOLEAN, NEW told \in Seq(ClientEvents), NEW q \in Seq(Items),
         NEW announced, Announcements(there, told, q, announced),
         NEW e \in Items, e \notin StartEvents,
         e \in StageEvents => e.stage \in announced
  PROVE  Announcements(there, told, Append(q, e), announced)
<1> DEFINE r == Append(q, e)
<1>1. /\ Len(r) = Len(q) + 1 /\ Len(q) \in Nat
      /\ r[Len(q) + 1] = e
      /\ \A i \in 1..Len(q) : r[i] = q[i]
      /\ \A x : Occurs(r, x) <=> Occurs(q, x) \/ x = e
      /\ \A x : x # e /\ Once(q, x) => Once(r, x)
      /\ \A i \in 1..Len(q) : Preceded(q, i) => Preceded(r, i)
  BY Appended
<1> HIDE DEF r
<1>2. \A s \in TrackedStages : Start(s) # e
  BY DEF StartEvents
<1>3. \A s \in TrackedStages :
        /\ Once(r, Start(s)) /\ Once(told, Start(s))
        /\ ~(Occurs(r, Start(s)) /\ Occurs(told, Start(s)))
        /\ Occurs(r, Start(s)) \/ Occurs(told, Start(s)) => s \in announced
        /\ there /\ s \in announced => Occurs(r, Start(s)) \/ Occurs(told, Start(s))
  BY <1>1, <1>2 DEF Announcements
<1>4. ASSUME there, NEW i \in 1..Len(r), r[i] \in StageEvents
      PROVE  Preceded(r, i) \/ Occurs(told, Start(r[i].stage))
  <2>1. CASE i \in 1..Len(q)
    BY <1>1, <1>4, <2>1 DEF Announcements
  <2>2. CASE i = Len(q) + 1
    <3>1. e.stage \in TrackedStages /\ e.stage \in announced /\ r[i] = e
      BY <1>1, <1>4, <2>2, StageEventStage
    <3>2. Occurs(q, Start(e.stage)) \/ Occurs(told, Start(e.stage))
      BY <1>4, <3>1 DEF Announcements
    <3>3. ASSUME Occurs(q, Start(e.stage)) PROVE Preceded(r, i)
      BY <1>1, <2>2, <3>1, <3>3 DEF Occurs, Preceded
    <3>4. QED
      BY <3>1, <3>2, <3>3
  <2>3. QED
    BY <1>1, <2>1, <2>2
<1>5. Announcements(there, told, r, announced)
  BY <1>3, <1>4 DEF Announcements
<1>6. QED
  BY <1>5 DEF r

\* A stage that is not announced yet is announced on the queue.
LEMMA StartQueued ==
  ASSUME NEW there \in BOOLEAN, NEW told \in Seq(ClientEvents), NEW q \in Seq(Items),
         NEW announced, Announcements(there, told, q, announced),
         NEW stage \in TrackedStages, stage \notin announced
  PROVE  Announcements(there, told, Append(q, Start(stage)), announced \cup {stage})
<1> DEFINE e == Start(stage)
           r == Append(q, e)
<1>0. e \in Items /\ e \in StageEvents /\ e.stage = stage
  BY StageEventStage, EventTypes DEF ProgressEvents
<1>1. /\ Len(r) = Len(q) + 1 /\ Len(q) \in Nat
      /\ r[Len(q) + 1] = e
      /\ \A i \in 1..Len(q) : r[i] = q[i]
      /\ \A x : Occurs(r, x) <=> Occurs(q, x) \/ x = e
      /\ \A x : x # e /\ Once(q, x) => Once(r, x)
      /\ ~Occurs(q, e) => Once(r, e)
      /\ \A i \in 1..Len(q) : Preceded(q, i) => Preceded(r, i)
  BY <1>0, Appended
<1>2. ~Occurs(q, e) /\ ~Occurs(told, e)
  BY DEF Announcements
<1>3. \A s \in TrackedStages : s # stage => Start(s) # e
  BY StageEventStage
<1> HIDE DEF r
<1>4. \A s \in TrackedStages :
        /\ Once(r, Start(s)) /\ Once(told, Start(s))
        /\ ~(Occurs(r, Start(s)) /\ Occurs(told, Start(s)))
        /\ Occurs(r, Start(s)) \/ Occurs(told, Start(s)) => s \in announced \cup {stage}
        /\ there /\ s \in announced \cup {stage} =>
             Occurs(r, Start(s)) \/ Occurs(told, Start(s))
  <2>1. ASSUME NEW s \in TrackedStages
        PROVE  /\ Once(r, Start(s)) /\ Once(told, Start(s))
               /\ ~(Occurs(r, Start(s)) /\ Occurs(told, Start(s)))
               /\ Occurs(r, Start(s)) \/ Occurs(told, Start(s)) => s \in announced \cup {stage}
               /\ there /\ s \in announced \cup {stage} =>
                    Occurs(r, Start(s)) \/ Occurs(told, Start(s))
    <3>1. CASE s = stage
      BY <1>1, <1>2, <3>1 DEF Announcements
    <3>2. CASE s # stage
      BY <1>1, <1>3, <3>2 DEF Announcements
    <3>3. QED
      BY <3>1, <3>2
  <2>2. QED
    BY <2>1
<1>5. ASSUME there, NEW i \in 1..Len(r), r[i] \in StageEvents
      PROVE  Preceded(r, i) \/ Occurs(told, Start(r[i].stage))
  <2>1. CASE i \in 1..Len(q)
    BY <1>1, <1>5, <2>1 DEF Announcements
  <2>2. CASE i = Len(q) + 1
    BY <1>0, <1>1, <2>2 DEF Preceded
  <2>3. QED
    BY <1>1, <2>1, <2>2
<1>6. Announcements(there, told, r, announced \cup {stage})
  BY <1>4, <1>5 DEF Announcements
<1>7. QED
  BY <1>6 DEF r

\* The first item goes to a client that is there, and is dropped for one that is not.
LEMMA ItemTold ==
  ASSUME NEW told \in Seq(ClientEvents), NEW q \in Seq(Items), q # <<>>,
         Head(q) \in ClientEvents,
         NEW announced, Announcements(TRUE, told, q, announced)
  PROVE  Announcements(TRUE, Append(told, Head(q)), Tail(q), announced)
<1> DEFINE e == Head(q)
           r == Append(told, e)
           t == Tail(q)
<1>1. /\ Len(q) \in Nat /\ Len(q) > 0 /\ Len(t) = Len(q) - 1
      /\ e = q[1]
      /\ \A i \in 1..Len(t) : t[i] = q[i + 1]
  OBVIOUS
<1>2. /\ Len(r) = Len(told) + 1 /\ Len(told) \in Nat
      /\ r[Len(told) + 1] = e
      /\ \A i \in 1..Len(told) : r[i] = told[i]
      /\ \A x : Occurs(r, x) <=> Occurs(told, x) \/ x = e
      /\ \A x : x # e /\ Once(told, x) => Once(r, x)
      /\ ~Occurs(told, e) => Once(r, e)
      /\ \A i \in 1..Len(told) : Preceded(told, i) => Preceded(r, i)
  BY Appended
<1> HIDE DEF e, r, t
<1>3. \A x : /\ Occurs(q, x) <=> Occurs(t, x) \/ x = e
             /\ Once(q, x) => Once(t, x)
             /\ Once(q, x) /\ x = e => ~Occurs(t, x)
  <2>1. ASSUME NEW x, Occurs(q, x), x # e PROVE Occurs(t, x)
    <3>1. PICK i \in 1..Len(q) : q[i] = x
      BY <2>1 DEF Occurs
    <3>2. i - 1 \in 1..Len(t) /\ t[i - 1] = q[i]
      BY <1>1, <2>1, <3>1
    <3>3. QED
      BY <3>1, <3>2 DEF Occurs
  <2>2. \A x : Occurs(t, x) \/ x = e => Occurs(q, x)
    BY <1>1 DEF Occurs
  <2>3. \A x : Once(q, x) => Once(t, x)
    BY <1>1 DEF Once
  <2>4. \A x : Once(q, x) /\ x = e => ~Occurs(t, x)
    BY <1>1 DEF Once, Occurs
  <2>5. QED
    BY <2>1, <2>2, <2>3, <2>4
<1>4. \A s \in TrackedStages :
        /\ Once(t, Start(s)) /\ Once(r, Start(s))
        /\ ~(Occurs(t, Start(s)) /\ Occurs(r, Start(s)))
        /\ Occurs(t, Start(s)) \/ Occurs(r, Start(s)) => s \in announced
        /\ s \in announced => Occurs(t, Start(s)) \/ Occurs(r, Start(s))
  BY <1>2, <1>3 DEF Announcements
<1>5. ASSUME NEW i \in 1..Len(t), t[i] \in StageEvents
      PROVE  Preceded(t, i) \/ Occurs(r, Start(t[i].stage))
  <2>1. i + 1 \in 1..Len(q) /\ q[i + 1] = t[i]
    BY <1>1
  <2>2. Preceded(q, i + 1) \/ Occurs(told, Start(t[i].stage))
    BY <1>5, <2>1 DEF Announcements
  <2>3. ASSUME Preceded(q, i + 1) PROVE Preceded(t, i) \/ e = Start(t[i].stage)
    <3>1. PICK j \in 1..(i + 1) : q[j] = Start(t[i].stage)
      BY <2>1, <2>3 DEF Preceded
    <3>2. CASE j = 1
      BY <1>1, <3>1, <3>2
    <3>3. CASE j # 1
      <4>1. j - 1 \in 1..i /\ t[j - 1] = q[j]
        BY <1>1, <3>1, <3>3
      <4>2. QED
        BY <3>1, <4>1 DEF Preceded
    <3>4. QED
      BY <3>2, <3>3
  <2>4. QED
    BY <1>2, <2>2, <2>3
<1>6. ASSUME NEW i \in 1..Len(r), r[i] \in StageEvents
      PROVE  Preceded(r, i)
  <2>1. CASE i \in 1..Len(told)
    BY <1>2, <1>6, <2>1 DEF Announcements
  <2>2. CASE i = Len(told) + 1
    <3>1. r[i] = e /\ e \in StageEvents
      BY <1>2, <1>6, <2>2
    <3>2. Preceded(q, 1) \/ Occurs(told, Start(e.stage))
      BY <1>1, <3>1 DEF Announcements
    <3>3. ASSUME Preceded(q, 1) PROVE e = Start(e.stage)
      BY <1>1, <3>3 DEF Preceded
    <3>4. ASSUME Occurs(told, Start(e.stage)) PROVE Preceded(r, i)
      BY <1>2, <2>2, <3>1, <3>4 DEF Occurs, Preceded
    <3>5. ASSUME e = Start(e.stage) PROVE Preceded(r, i)
      BY <1>2, <2>2, <3>1, <3>5 DEF Preceded
    <3>6. QED
      BY <3>2, <3>3, <3>4, <3>5
  <2>3. QED
    BY <1>2, <2>1, <2>2
<1>7. Announcements(TRUE, r, t, announced)
  BY <1>4, <1>5, <1>6 DEF Announcements
<1>8. QED
  BY <1>7 DEF e, r, t

\* An item that is no stage event goes, or whatever it is if the client is gone.
LEMMA ItemDropped ==
  ASSUME NEW there \in BOOLEAN, NEW told \in Seq(ClientEvents), NEW q \in Seq(Items),
         q # <<>>, NEW announced, Announcements(there, told, q, announced),
         there => Head(q) \notin StageEvents
  PROVE  Announcements(there, told, Tail(q), announced)
<1> DEFINE e == Head(q)
           t == Tail(q)
<1>1. /\ Len(q) \in Nat /\ Len(q) > 0 /\ Len(t) = Len(q) - 1
      /\ e = q[1]
      /\ \A i \in 1..Len(t) : t[i] = q[i + 1]
  OBVIOUS
<1>a. there => e \notin StageEvents
  OBVIOUS
<1> HIDE DEF e, t
<1>2. \A x : Occurs(t, x) => Occurs(q, x)
  BY <1>1 DEF Occurs
<1>3. \A x : Once(q, x) => Once(t, x)
  BY <1>1 DEF Once
<1>4. ASSUME there, NEW x \in StageEvents, Occurs(q, x) PROVE Occurs(t, x)
  <2>1. PICK i \in 1..Len(q) : q[i] = x
    BY <1>4 DEF Occurs
  <2>2. i - 1 \in 1..Len(t) /\ t[i - 1] = q[i]
    BY <1>1, <1>a, <1>4, <2>1
  <2>3. QED
    BY <2>1, <2>2 DEF Occurs
<1>5. \A s \in TrackedStages :
        /\ Once(t, Start(s)) /\ Once(told, Start(s))
        /\ ~(Occurs(t, Start(s)) /\ Occurs(told, Start(s)))
        /\ Occurs(t, Start(s)) \/ Occurs(told, Start(s)) => s \in announced
        /\ there /\ s \in announced => Occurs(t, Start(s)) \/ Occurs(told, Start(s))
  BY <1>2, <1>3, <1>4, StageEventStage DEF Announcements
<1>6. ASSUME there, NEW i \in 1..Len(t), t[i] \in StageEvents
      PROVE  Preceded(t, i) \/ Occurs(told, Start(t[i].stage))
  <2>1. i + 1 \in 1..Len(q) /\ q[i + 1] = t[i]
    BY <1>1
  <2>2. Preceded(q, i + 1) \/ Occurs(told, Start(t[i].stage))
    BY <1>6, <2>1 DEF Announcements
  <2>3. ASSUME Preceded(q, i + 1) PROVE Preceded(t, i)
    <3>1. PICK j \in 1..(i + 1) : q[j] = Start(t[i].stage)
      BY <2>1, <2>3 DEF Preceded
    <3>2. Start(t[i].stage) \in StageEvents
      BY <1>6, StageEventStage
    <3>3. j # 1
      BY <1>1, <1>a, <1>6, <3>1, <3>2
    <3>4. j - 1 \in 1..i /\ t[j - 1] = q[j]
      BY <1>1, <3>1, <3>3
    <3>5. QED
      BY <3>1, <3>4 DEF Preceded
  <2>4. QED
    BY <2>2, <2>3
<1>7. Announcements(there, told, t, announced)
  BY <1>5, <1>6 DEF Announcements
<1>8. QED
  BY <1>7 DEF t

\* An event about no stage is sent from elsewhere than the queue.
LEMMA OtherTold ==
  ASSUME NEW there \in BOOLEAN, NEW told \in Seq(ClientEvents), NEW q \in Seq(Items),
         NEW announced, Announcements(there, told, q, announced),
         NEW e \in ClientEvents, e \notin StageEvents
  PROVE  Announcements(there, Append(told, e), q, announced)
<1> DEFINE r == Append(told, e)
<1>1. /\ Len(r) = Len(told) + 1 /\ Len(told) \in Nat
      /\ r[Len(told) + 1] = e
      /\ \A i \in 1..Len(told) : r[i] = told[i]
      /\ \A x : Occurs(r, x) <=> Occurs(told, x) \/ x = e
      /\ \A x : x # e /\ Once(told, x) => Once(r, x)
      /\ \A i \in 1..Len(told) : Preceded(told, i) => Preceded(r, i)
  BY Appended
<1> HIDE DEF r
<1>2. \A s \in TrackedStages : Start(s) # e
  BY StageEventStage
<1>3. \A i \in 1..Len(r) : r[i] \in StageEvents => i \in 1..Len(told)
  BY <1>1
<1>4. Announcements(there, r, q, announced)
  BY <1>1, <1>2, <1>3, StageEventStage DEF Announcements
<1>5. QED
  BY <1>4 DEF r

\* At first nothing is announced.
LEMMA InitAnnounce == Init => AnnounceInv
  BY DEF Init, AnnounceInv, Announcements, Once, Occurs

\* The items that are no stage events.
LEMMA NoStageEvents ==
  /\ \A e \in Terminals \cup RunEnds \cup {Done, Delta, ToolLogs, Started, ErrorEvent} :
       e \notin StageEvents
  /\ \A s \in TrackedStages : \A w : w # "started" => Event(s, w) \notin StartEvents
  BY DEF Terminals, Terminal, Done, Delta, ToolLogs, Started, ErrorEvent, RunEnds,
     Completed, Clarified, Failed, StageEvents, StartEvents, Start, Event, AgentEvents,
     TrackedStages

\* An event the consumer sends on its own is about no stage.
LEMMA YieldOther ==
  ASSUME TInv, AnnounceInv, NEW e \in ClientEvents, e \notin StageEvents, Yield(e),
         UNCHANGED <<client, queue, tracker>>
  PROVE  AnnounceInv'
<1>1. sent \in Seq(ClientEvents) /\ queue \in Seq(Items)
  BY DEF TInv, TypeOK
<1>2. CASE sent' = sent
  BY <1>2 DEF AnnounceInv
<1>3. CASE sent' = Append(sent, e)
  <2>1. Announcements(client = "connected", Append(sent, e), queue, tracker)
    BY <1>1, OtherTold DEF AnnounceInv
  <2>2. QED
    BY <1>3, <2>1 DEF AnnounceInv
<1>4. QED
  BY <1>2, <1>3 DEF Yield

\* The steps of the consumer keep the announcements.
LEMMA ConsumerAnnounce == TInv /\ EndInv /\ AnnounceInv /\ Consumer => AnnounceInv'
<1> SUFFICES ASSUME TInv, EndInv, AnnounceInv, Consumer PROVE AnnounceInv'
  OBVIOUS
<1>1. CASE First
  BY <1>1, YieldOther, NoStageEvents, EventTypes DEF First, workerVars
<1>2. CASE Setup \/ Timeout \/ CheckAlive \/ Persist \/ RouterCatch \/ Resume \/ Close
  BY <1>2 DEF Setup, Timeout, CheckAlive, Persist, RouterCatch, Resume, Close, workerVars,
              AnnounceInv
<1>3. CASE Get
  <2>1. /\ queue' = Tail(queue) /\ queue \in Seq(Items) /\ queue # <<>>
        /\ sent \in Seq(ClientEvents) /\ Head(queue) \in Items
        /\ UNCHANGED <<client, tracker>>
    BY <1>3 DEF Get, workerVars, TInv, TypeOK
  <2>2. CASE Head(queue) \in Terminals \/ Head(queue) = Done
    <3>1. Head(queue) \notin StageEvents /\ sent' = sent
      BY <1>3, <2>2, NoStageEvents DEF Get
    <3>2. Announcements(client = "connected", sent, Tail(queue), tracker)
      BY <2>1, <3>1, ItemDropped DEF AnnounceInv
    <3>3. QED
      BY <2>1, <3>1, <3>2 DEF AnnounceInv
  <2>3. CASE Head(queue) \notin Terminals /\ Head(queue) # Done
    <3>1. Head(queue) \in ClientEvents /\ Yield(Head(queue))
      BY <1>3, <2>1, <2>3, EventTypes DEF Get, Items
    <3>2. CASE client = "connected"
      <4>1. Announcements(TRUE, Append(sent, Head(queue)), Tail(queue), tracker)
        BY <2>1, <3>1, <3>2, ItemTold DEF AnnounceInv
      <4>2. QED
        BY <2>1, <3>1, <3>2, <4>1 DEF AnnounceInv, Yield
    <3>3. CASE client # "connected"
      <4>1. Announcements(FALSE, sent, Tail(queue), tracker)
        BY <2>1, <3>3, ItemDropped DEF AnnounceInv
      <4>2. QED
        BY <2>1, <3>1, <3>3, <4>1 DEF AnnounceInv, Yield
    <3>4. QED
      BY <3>2, <3>3
  <2>4. QED
    BY <2>2, <2>3
<1>4. CASE Emit
  <2>1. CASE out = <<>>
    BY <1>4, <2>1 DEF Emit, workerVars, AnnounceInv
  <2>2. CASE out # <<>>
    <3>1. Yield(Head(out)) /\ Closing /\ UNCHANGED <<client, queue, tracker>>
      BY <1>4, <2>2 DEF Emit, workerVars, EndInv
    <3>2. Head(out) \in ClientEvents /\ Head(out) \notin StageEvents
      BY <3>1, ClosingHeads, NoStageEvents, EventTypes DEF RunEnds
    <3>3. QED
      BY <3>1, <3>2, YieldOther
  <2>3. QED
    BY <2>1, <2>2
<1>5. QED
  BY <1>1, <1>2, <1>3, <1>4 DEF Consumer

\* The events of a snapshot: what is reported first is announced first.
LEMMA SnapshotQueued ==
  ASSUME NEW there \in BOOLEAN, NEW told \in Seq(ClientEvents), NEW q \in Seq(Items),
         NEW announced \in SUBSET TrackedStages, Announcements(there, told, q, announced),
         NEW e \in AgentEvents \cup {NoEvent}
  PROVE  /\ q \o RuntimeEvents(e, announced) \in Seq(Items)
         /\ Announcements(there, told, q \o RuntimeEvents(e, announced),
                          Announced(e, announced))
<1>1. CASE e.stage \notin TrackedStages
  <2>1. RuntimeEvents(e, announced) = <<>> /\ Announced(e, announced) = announced
    BY <1>1 DEF RuntimeEvents, Announced
  <2>2. q \o <<>> = q
    OBVIOUS
  <2>3. QED
    BY <2>1, <2>2
<1>2. CASE e.stage \in TrackedStages
  <2>1. e \in Items /\ e \notin StartEvents /\ Start(e.stage) \in Items
    <3>1. e \in AgentEvents /\ e \in StageEvents
      BY <1>2 DEF StageEvents, NoEvent, Event, TrackedStages
    <3>2. e \in Items /\ Start(e.stage) \in Items
      BY <1>2, <3>1, EventTypes, StageEventStage DEF ProgressEvents
    <3>3. e.what # "started"
      BY <3>1 DEF AgentEvents, Event
    <3>4. \A s \in TrackedStages : Start(s).what = "started"
      BY DEF Start, Event
    <3>5. QED
      BY <3>2, <3>3, <3>4 DEF StartEvents
  <2>2. CASE e.stage \in announced
    <3>1. RuntimeEvents(e, announced) = <<e>> /\ Announced(e, announced) = announced
      BY <1>2, <2>2 DEF RuntimeEvents, Announced
    <3>2. q \o <<e>> = Append(q, e)
      BY <2>1
    <3>3. Append(q, e) \in Seq(Items)
      BY <2>1
    <3>4. Announcements(there, told, Append(q, e), announced)
      BY <2>1, <2>2, ReportQueued
    <3>5. QED
      BY <3>1, <3>2, <3>3, <3>4
  <2>3. CASE e.stage \notin announced
    <3> DEFINE a == Start(e.stage)
               r == Append(q, a)
    <3>1. /\ RuntimeEvents(e, announced) = <<a, e>>
          /\ Announced(e, announced) = announced \cup {e.stage}
      BY <1>2, <2>3 DEF RuntimeEvents, Announced, Start
    <3>2. q \o <<a, e>> = Append(r, e)
      BY <2>1
    <3>3. r \in Seq(Items) /\ Append(r, e) \in Seq(Items)
      BY <2>1
    <3>4. Announcements(there, told, r, announced \cup {e.stage})
      BY <1>2, <2>3, StartQueued
    <3> HIDE DEF r
    <3>5. Announcements(there, told, Append(r, e), announced \cup {e.stage})
      BY <2>1, <3>3, <3>4, ReportQueued
    <3>6. QED
      BY <3>1, <3>2, <3>3, <3>5
  <2>4. QED
    BY <2>2, <2>3
<1>3. QED
  BY <1>1, <1>2

\* So do the steps of the worker.
LEMMA WorkerAnnounce == TInv /\ AnnounceInv /\ Worker => AnnounceInv'
<1> SUFFICES ASSUME TInv, AnnounceInv, Worker PROVE AnnounceInv'
  OBVIOUS
<1>a. /\ UNCHANGED <<client, sent>> /\ queue \in Seq(Items) /\ sent \in Seq(ClientEvents)
      /\ tracker \in SUBSET TrackedStages /\ (client = "connected") \in BOOLEAN
  BY WorkerApart DEF consumerVars, TInv, TypeOK
<1>b. ASSUME NEW q \in Seq(Items), NEW t, NEW e \in Terminals \cup {Done, Delta, ToolLogs},
             Announcements(client = "connected", sent, q, t)
      PROVE  /\ Append(q, e) \in Seq(Items)
             /\ Announcements(client = "connected", sent, Append(q, e), t)
  <2>1. e \in Items /\ e \notin StageEvents /\ e \notin StartEvents
    BY EventTypes, NoStageEvents, StageEventStage DEF Items, StartEvents
  <2>2. Append(q, e) \in Seq(Items)
    BY <2>1
  <2>3. Announcements(client = "connected", sent, Append(q, e), t)
    BY <1>a, <1>b, <2>1, ReportQueued, Zenon
  <2>4. QED
    BY <2>2, <2>3
<1>1. CASE Begin \/ StartNode \/ RecursionLimit \/ GraphEnd \/ NodeDone \/ NodeRaise
           \/ Exit
  BY <1>1, <1>a DEF Begin, StartNode, RecursionLimit, GraphEnd, NodeDone, NodeRaise, Exit,
                    AnnounceInv
<1>2. CASE Handle
  <2>1. PICK logs \in {<<>>, <<ToolLogs>>} :
          LET events  == logs \o RuntimeEvents(snap.event, tracker)
              outcome == OutcomeOf(snap)
          IN IF outcome = "none"
             THEN queue' = queue \o events /\ wpc' = "next"
             ELSE /\ queue' = Append(queue \o events, Terminal(outcome))
                  /\ wpc' = "exit"
    BY <1>2, Zenon DEF Handle
  <2>2. tracker' = Announced(snap.event, tracker)
    BY <1>2 DEF Handle
  <2> DEFINE runtime == RuntimeEvents(snap.event, tracker)
             q1 == queue \o logs
             q2 == q1 \o runtime
  <2>3. snap.event \in AgentEvents \cup {NoEvent}
    BY DEF AgentState, TInv, TypeOK
  <2>4. q1 \in Seq(Items) /\ Announcements(client = "connected", sent, q1, tracker)
    <3>1. CASE logs = <<>>
      BY <1>a, <3>1 DEF AnnounceInv
    <3>2. CASE logs = <<ToolLogs>>
      <4>1. q1 = Append(queue, ToolLogs)
        BY <1>a, <3>2, EventTypes
      <4>2. QED
        BY <1>a, <1>b, <4>1 DEF AnnounceInv
    <3>3. QED
      BY <3>1, <3>2
  <2> HIDE DEF q1
  <2>5. q2 \in Seq(Items) /\ Announcements(client = "connected", sent, q2, tracker')
    BY <1>a, <2>2, <2>3, <2>4, SnapshotQueued
  <2>6. queue \o (logs \o runtime) = q2
    <3>1. runtime \in Seq(ProgressEvents)
      BY <1>a, <2>3, RuntimeEventsType
    <3>2. runtime \in Seq(Items)
      BY <3>1, EventTypes
    <3>3. logs \in Seq(Items)
      <4>1. <<>> \in Seq(Items) /\ <<ToolLogs>> \in Seq(Items)
        BY EventTypes
      <4>2. QED
        BY <4>1
    <3> HIDE DEF runtime
    <3>a. queue \in Seq(Items)
      BY <1>a
    <3>4. (queue \o logs) \o runtime = queue \o (logs \o runtime)
      BY <3>a, <3>2, <3>3, QueuedTogether, Zenon
    <3>5. QED
      BY <3>4 DEF q1
  <2>7. CASE OutcomeOf(snap) = "none"
    BY <1>a, <2>1, <2>5, <2>6, <2>7 DEF AnnounceInv
  <2>8. CASE OutcomeOf(snap) # "none"
    <3>1. Terminal(OutcomeOf(snap)) \in Terminals
      BY <2>8, OutcomeType DEF TInv, TypeOK, Terminals
    <3>2. queue' = Append(q2, Terminal(OutcomeOf(snap)))
      BY <2>1, <2>6, <2>8
    <3> HIDE DEF q2
    <3>3. QED
      BY <1>a, <1>b, <2>5, <3>1, <3>2 DEF AnnounceInv
  <2>9. QED
    BY <2>7, <2>8
<1>3. CASE Drained
  <2>1. PICK o \in Outcomes : queue' = Append(queue, Terminal(o))
    BY <1>3 DEF Drained, Outcomes
  <2>2. Terminal(o) \in Terminals /\ tracker' = tracker
    BY <1>3 DEF Drained, Terminals
  <2>3. QED
    BY <1>a, <1>b, <2>1, <2>2 DEF AnnounceInv
<1>4. CASE StreamDelta
  <2>1. CASE Node = "answer" /\ "answer" \notin tracker
    <3> DEFINE q1 == Append(queue, Start("answer"))
    <3>1. /\ queue' = queue \o <<Start("answer"), Delta>>
          /\ tracker' = tracker \cup {"answer"}
      BY <1>4, <2>1 DEF StreamDelta, LlmDeltaEvents, Start
    <3>2. Start("answer") \in Items /\ "answer" \in TrackedStages /\ Delta \in Items
      BY EventTypes DEF Start, TrackedStages
    <3>3. q1 \in Seq(Items) /\ Append(q1, Delta) = queue'
      BY <1>a, <3>1, <3>2
    <3>4. Announcements(client = "connected", sent, q1, tracker')
      BY <1>a, <2>1, <3>1, <3>2, StartQueued DEF AnnounceInv
    <3> HIDE DEF q1
    <3>5. QED
      BY <1>a, <1>b, <3>3, <3>4 DEF AnnounceInv
  <2>2. CASE ~(Node = "answer" /\ "answer" \notin tracker)
    <3>1. queue' = queue \o <<Delta>> /\ tracker' = tracker
      BY <1>4, <2>2 DEF StreamDelta, LlmDeltaEvents
    <3>2. queue' = Append(queue, Delta)
      BY <1>a, <3>1, EventTypes
    <3>3. QED
      BY <1>a, <1>b, <3>1, <3>2 DEF AnnounceInv
  <2>3. QED
    BY <2>1, <2>2
<1>5. CASE WorkerCatch
  <2> DEFINE q1 == Append(queue, Terminal("error"))
  <2>1. queue' = queue \o <<Terminal("error"), Done>> /\ tracker' = tracker
    BY <1>5 DEF WorkerCatch
  <2>2. Terminal("error") \in Terminals /\ Terminal("error") \in Items /\ Done \in Items
    BY EventTypes DEF Outcomes, Terminals
  <2>3. queue' = Append(q1, Done)
    BY <1>a, <2>1, <2>2
  <2>4. q1 \in Seq(Items) /\ Announcements(client = "connected", sent, q1, tracker)
    BY <1>a, <1>b, <2>2 DEF AnnounceInv
  <2> HIDE DEF q1
  <2>5. QED
    BY <1>a, <1>b, <2>1, <2>3, <2>4 DEF AnnounceInv
<1>6. QED
  BY <1>1, <1>2, <1>3, <1>4, <1>5 DEF Worker

\* A client that goes away asks nothing more of the queue.
LEMMA DisconnectAnnounce == AnnounceInv /\ Disconnect => AnnounceInv'
  BY DEF Disconnect, consumerVars, workerVars, AnnounceInv, Announcements

\* However deltas and snapshots interleave and whenever the client leaves, a stage it
\* hears of was announced to it exactly once before.
THEOREM StagesOnce == Spec => []StagesAnnounced
<1>1. ASSUME TInv, AnnounceInv PROVE StagesAnnounced
  <2>1. SUFFICES ASSUME NEW i \in 1..Len(sent), sent[i] \in StageEvents
                 PROVE  Cardinality({j \in 1..i : sent[j] = Event(sent[i].stage, "started")})
                          = 1
    BY DEF StagesAnnounced
  <2> DEFINE e == Start(sent[i].stage)
  <2>2. PICK k \in 1..i : sent[k] = e
    BY <1>1, <2>1 DEF AnnounceInv, Announcements, Preceded
  <2>3. Len(sent) \in Nat /\ Once(sent, e)
    BY <1>1, <2>1, StageEventStage DEF TInv, TypeOK, AnnounceInv, Announcements
  <2> HIDE DEF e
  <2>4. {j \in 1..i : sent[j] = e} = {k}
    BY <2>2, <2>3 DEF Once
  <2>5. QED
    BY <2>4, FS_Singleton DEF e, Start
<1>2. TInv /\ EndInv /\ AnnounceInv /\ [Next]_vars => AnnounceInv'
  <2>1. AnnounceInv /\ UNCHANGED vars => AnnounceInv'
    BY DEF vars, consumerVars, workerVars, AnnounceInv
  <2>2. QED
    BY <2>1, ConsumerAnnounce, WorkerAnnounce, DisconnectAnnounce DEF Next
<1>3. QED
  BY <1>1, <1>2, InitAnnounce, TypeInvariant, EndInvariant, PTL DEF Spec


-----------------------------------------------------------------------------
(* What the client is sent is in order: what waits on the queue leads on   *)
(* from where the client is to where the worker is.                        *)

\* Where a stream is: a phase, with the answer's announcement told from the first of its
\* text, and nothing left to say once the outcome is queued.
Modes == {"open", "begun", "asking", "answering", "answered", "decided"}

PhaseOf(m) == IF m = "begun" THEN "answering" ELSE m

Spoken == {"asking", "answering", "answered"}

Steps ==
  {<<"open", ToolLogs, "open">>, <<"open", Delta, "asking">>,
   <<"asking", Delta, "asking">>, <<"open", AnswerStarted, "begun">>,
   <<"begun", Delta, "answering">>, <<"answering", Delta, "answering">>,
   <<"answering", AnswerCompleted, "answered">>,
   <<"answered", Terminal("answer"), "decided">>,
   <<"asking", Terminal("clarification"), "decided">>,
   <<"open", Terminal("clarification"), "decided">>,
   <<"decided", Done, "decided">>}
  \cup ({"open"} \X EarlyStages \X {"open"})
  \cup ({"asking"} \X ClarifierEvents \X {"asking"})
  \cup ((Modes \ {"decided"}) \X {Terminal("error")} \X {"decided"})

\* The items of q lead from one mode to another.
Path(m, q, z) ==
  \E f \in [0..Len(q) -> Modes] :
    /\ f[0] = m /\ f[Len(q)] = z
    /\ \A i \in 1..Len(q) : <<f[i - 1], q[i], f[i]>> \in Steps

\* An empty queue leads nowhere.
LEMMA PathOfNothing ==
  ASSUME NEW m \in Modes
  PROVE  Path(m, <<>>, m)
<1> DEFINE f == [i \in 0..0 |-> m]
<1>1. Len(<<>>) = 0 /\ f \in [0..0 -> Modes] /\ f[0] = m
  OBVIOUS
<1> HIDE DEF f
<1>2. QED
  BY <1>1 DEF Path

\* An item appended leads on.
LEMMA PathOn ==
  ASSUME NEW S, NEW q \in Seq(S), NEW e \in S, NEW m, NEW z, NEW y \in Modes,
         Path(m, q, z), <<z, e, y>> \in Steps
  PROVE  Path(m, Append(q, e), y)
<1>1. PICK f \in [0..Len(q) -> Modes] :
        /\ f[0] = m /\ f[Len(q)] = z
        /\ \A i \in 1..Len(q) : <<f[i - 1], q[i], f[i]>> \in Steps
  BY DEF Path
<1> DEFINE r == Append(q, e)
           g == [i \in 0..(Len(q) + 1) |-> IF i <= Len(q) THEN f[i] ELSE y]
<1>2. /\ Len(r) = Len(q) + 1 /\ Len(q) \in Nat /\ r[Len(q) + 1] = e
      /\ \A i \in 1..Len(q) : r[i] = q[i]
  OBVIOUS
<1> HIDE DEF r
<1>3. g \in [0..(Len(q) + 1) -> Modes]
  BY <1>2
<1>4. /\ \A i \in 0..Len(q) : g[i] = f[i]
      /\ g[Len(q) + 1] = y
  BY <1>2
<1> HIDE DEF g
<1>5. ASSUME NEW i \in 1..(Len(q) + 1)
      PROVE  <<g[i - 1], r[i], g[i]>> \in Steps
  <2>1. CASE i \in 1..Len(q)
    <3>1. g[i] = f[i] /\ g[i - 1] = f[i - 1] /\ r[i] = q[i]
      BY <1>2, <1>4, <2>1
    <3>2. QED
      BY <1>1, <2>1, <3>1
  <2>2. CASE i = Len(q) + 1
    <3>1. i - 1 = Len(q) /\ Len(q) \in 0..Len(q)
      BY <1>2, <2>2
    <3>2. g[i - 1] = z /\ g[i] = y /\ r[i] = e
      BY <1>1, <1>2, <1>4, <2>2, <3>1
    <3>3. QED
      BY <3>2
  <2>3. QED
    BY <1>2, <2>1, <2>2
<1>6. 0 \in 0..Len(q)
  BY <1>2
<1>7. QED
  BY <1>1, <1>2, <1>3, <1>4, <1>5, <1>6 DEF Path, r

\* An item taken is the first step.
LEMMA PathOff ==
  ASSUME NEW S, NEW q \in Seq(S), q # <<>>, NEW m, NEW z, Path(m, q, z)
  PROVE  \E n \in Modes : <<m, Head(q), n>> \in Steps /\ Path(n, Tail(q), z)
<1>1. PICK f \in [0..Len(q) -> Modes] :
        /\ f[0] = m /\ f[Len(q)] = z
        /\ \A i \in 1..Len(q) : <<f[i - 1], q[i], f[i]>> \in Steps
  BY DEF Path
<1> DEFINE r == Tail(q)
           g == [i \in 0..(Len(q) - 1) |-> f[i + 1]]
<1>2. /\ Len(q) \in Nat /\ Len(q) >= 1 /\ Len(r) = Len(q) - 1 /\ Head(q) = q[1]
      /\ \A i \in 1..(Len(q) - 1) : r[i] = q[i + 1]
  OBVIOUS
<1> HIDE DEF r
<1>3. 1 \in 1..Len(q) /\ 1 \in 0..Len(q) /\ 1 - 1 = 0
  BY <1>2
<1>4. f[1] \in Modes /\ <<m, Head(q), f[1]>> \in Steps
  BY <1>1, <1>2, <1>3
<1>5. g \in [0..(Len(q) - 1) -> Modes]
  BY <1>2
<1>6. /\ g[0] = f[1] /\ g[Len(q) - 1] = f[Len(q)]
      /\ \A i \in 1..(Len(q) - 1) : g[i] = f[i + 1] /\ g[i - 1] = f[i]
  BY <1>2
<1> HIDE DEF g
<1>7. ASSUME NEW i \in 1..(Len(q) - 1)
      PROVE  <<g[i - 1], r[i], g[i]>> \in Steps
  <2>1. i + 1 \in 1..Len(q) /\ (i + 1) - 1 = i
    BY <1>2
  <2>2. QED
    BY <1>1, <1>2, <1>6, <2>1
<1>8. Path(f[1], r, z)
  BY <1>1, <1>2, <1>5, <1>6, <1>7 DEF Path
<1>9. QED
  BY <1>4, <1>8 DEF r

\* The events of the stages are progress events.
LEMMA StagesProgress ==
  /\ AnswerStarted \in ProgressEvents /\ AnswerCompleted \in ProgressEvents
  /\ EarlyStages \subseteq ProgressEvents /\ ClarifierEvents \subseteq ProgressEvents
  BY DEF EarlyStages, ClarifierEvents, ProgressEvents, AnswerStarted, AnswerCompleted,
         StageEvents, AgentEvents, TrackedStages, Event

\* What a mode owes the client is what the order allows.
LEMMA StepInOrder ==
  ASSUME NEW m, NEW n, NEW e \in ProgressEvents, <<m, e, n>> \in Steps
  PROVE  /\ <<PhaseOf(m), e, PhaseOf(n)>> \in Transitions
         /\ n \in Modes \ {"decided"} /\ m # "decided"
         /\ n \in Spoken <=> m \in Spoken \/ e = Delta
<1>1. e \notin Terminals /\ e # Done
  BY TerminalsApart DEF Done, Event, ProgressEvents, StageEvents, AgentEvents, ToolLogs,
                       Delta, TrackedStages
<1>2. \/ <<m, e, n>> \in {<<"open", ToolLogs, "open">>, <<"open", Delta, "asking">>,
                          <<"asking", Delta, "asking">>, <<"open", AnswerStarted, "begun">>,
                          <<"begun", Delta, "answering">>,
                          <<"answering", Delta, "answering">>,
                          <<"answering", AnswerCompleted, "answered">>}
      \/ m = "open" /\ e \in EarlyStages /\ n = "open"
      \/ m = "asking" /\ e \in ClarifierEvents /\ n = "asking"
  BY <1>1 DEF Steps, Terminals, Outcomes
<1>3. Transit(PhaseOf(m), e, PhaseOf(n))
  BY <1>2 DEF Transit, PhaseOf
<1>4. m # "decided" /\ n \in Modes \ {"decided"}
  BY <1>2 DEF Modes
<1>5. n \in Spoken <=> m \in Spoken \/ e = Delta
  BY <1>2, EventsApart, StagesApart DEF Spoken
<1>6. QED
  BY <1>3, <1>4, <1>5, TransitionForms

\* The closing events the phases of an undecided stream can be left with.
Closes(phase, events) ==
  \/ events = <<>> /\ phase = "over"
  \/ events = <<Completed>> /\ phase = "answered"
  \/ events = <<Clarified>> /\ phase = "asking"
  \/ events = <<Delta, Clarified>> /\ phase = "open"
  \/ events = <<ErrorEvent, Failed>> /\ phase \in {"open", "asking", "answering", "answered"}
  \/ events = <<Failed>> /\ phase = "failing"

\* The closing events of an outcome fit the mode it was decided in.
LEMMA OutcomeCloses ==
  ASSUME NEW m, NEW o \in Outcomes, <<m, Terminal(o), "decided">> \in Steps,
         NEW spoken \in BOOLEAN, spoken <=> m \in Spoken
  PROVE  Closes(PhaseOf(m), ClosingEvents(o, spoken))
<1>1. Terminal(o) \notin ProgressEvents /\ Terminal(o) # Done
  BY TerminalsApart DEF Terminals
<1>2. /\ Terminal(o) \notin {ToolLogs, Delta, AnswerStarted, AnswerCompleted}
      /\ Terminal(o) \notin EarlyStages \cup ClarifierEvents
  BY <1>1, EventTypes, StagesProgress
<1>3. \A p : Terminal(o) = Terminal(p) => o = p
  BY DEF Terminal, Event
<1>4. \/ m = "answered" /\ o = "answer"
      \/ m \in {"asking", "open"} /\ o = "clarification"
      \/ m \in Modes \ {"decided"} /\ o = "error"
  BY <1>1, <1>2, <1>3 DEF Steps
<1>5. CASE m = "answered" /\ o = "answer"
  BY <1>5 DEF Closes, PhaseOf, Spoken, ClosingEvents
<1>6. CASE m \in {"asking", "open"} /\ o = "clarification"
  BY <1>6 DEF Closes, PhaseOf, Spoken, ClosingEvents
<1>7. CASE m \in Modes \ {"decided"} /\ o = "error"
  BY <1>7 DEF Closes, PhaseOf, ClosingEvents, Modes
<1>8. QED
  BY <1>4, <1>5, <1>6, <1>7

\* A closing event is in order, and leaves the others that are.
LEMMA ClosesOn ==
  ASSUME NEW p, NEW events, Closes(p, events), events # <<>>
  PROVE  /\ Advance(p, Head(events)) # "out_of_order"
         /\ Closes(Advance(p, Head(events)), Tail(events))
<1>1. \A q : <<p, Head(events), q>> \in Transitions =>
        Advance(p, Head(events)) = q /\ q # "out_of_order"
  BY AdvanceIs, Zenon
<1>2. CASE events = <<Completed>> /\ p = "answered"
  <2>1. Head(events) = Completed /\ Tail(events) = <<>>
    BY <1>2
  <2>2. <<p, Completed, "over">> \in Transitions
    BY <1>2 DEF Transitions
  <2>3. QED
    BY <1>1, <2>1, <2>2 DEF Closes
<1>3. CASE events = <<Clarified>> /\ p = "asking"
  <2>1. Head(events) = Clarified /\ Tail(events) = <<>>
    BY <1>3
  <2>2. <<p, Clarified, "over">> \in Transitions
    BY <1>3 DEF Transitions
  <2>3. QED
    BY <1>1, <2>1, <2>2 DEF Closes
<1>4. CASE events = <<Delta, Clarified>> /\ p = "open"
  <2>1. Head(events) = Delta /\ Tail(events) = <<Clarified>>
    BY <1>4
  <2>2. <<p, Delta, "asking">> \in Transitions
    BY <1>4 DEF Transitions
  <2>3. QED
    BY <1>1, <2>1, <2>2 DEF Closes
<1>5. CASE /\ events = <<ErrorEvent, Failed>>
           /\ p \in {"open", "asking", "answering", "answered"}
  <2>1. Head(events) = ErrorEvent /\ Tail(events) = <<Failed>>
    BY <1>5
  <2>2. <<p, ErrorEvent, "failing">> \in Transitions
    BY <1>5 DEF Transitions
  <2>3. QED
    BY <1>1, <2>1, <2>2 DEF Closes
<1>6. CASE events = <<Failed>> /\ p = "failing"
  <2>1. Head(events) = Failed /\ Tail(events) = <<>>
    BY <1>6
  <2>2. <<p, Failed, "over">> \in Transitions
    BY <1>6 DEF Transitions
  <2>3. QED
    BY <1>1, <2>1, <2>2 DEF Closes
<1>7. QED
  BY <1>2, <1>3, <1>4, <1>5, <1>6 DEF Closes

\* What a snapshot that waits to be handled is, in a mode: text was streamed of the
\* question or of the answer it reports, or no text at all.
Reported(z) ==
  \/ /\ z = "open" /\ snap.event.stage # "answer"
     /\ snap.error = "none" => ~snap.answer
  \/ /\ z = "asking" /\ snap.event = Event("clarifier", "clarification_required")
     /\ snap.error = "clarification_required"
  \/ z = "answering" /\ snap.event = AnswerCompleted /\ snap.error = "none" /\ snap.answer

\* Where the worker is in a mode: the tracker holds the answer from its first text on,
\* and between nodes nothing was streamed.
AtWork(z) ==
  /\ wpc \notin {"none", "exit", "dead"} =>
       /\ z \in {"open", "asking", "answering"}
       /\ "answer" \in tracker <=> z = "answering"
  /\ wpc = "start" => z = "open" /\ snap = input
  /\ wpc \in {"next", "drained", "node"} =>
       snap.error = "none" /\ ~snap.answer /\ snap.event.stage # "answer"
  /\ wpc \in {"next", "drained"} => z = "open"
  /\ wpc = "node" =>
       /\ z = IF deltas = 0 THEN "open" ELSE IF Node = "answer" THEN "answering" ELSE "asking"
       /\ deltas # 0 => Node \in {"answer", "clarifier"}
  /\ wpc = "handle" => Reported(z)

\* The events of a snapshot lead on, and those of an answer to its end.
LEMMA SnapshotPath ==
  ASSUME NEW m, NEW z \in Modes, NEW q \in Seq(Items), Path(m, q, z),
         NEW e \in AgentEvents \cup {NoEvent}, NEW t \in SUBSET TrackedStages,
         \/ z = "open" /\ e.stage # "answer"
         \/ z = "asking" /\ e = Event("clarifier", "clarification_required")
         \/ z = "answering" /\ e = AnswerCompleted /\ "answer" \in t
  PROVE  /\ q \o RuntimeEvents(e, t) \in Seq(Items)
         /\ Path(m, q \o RuntimeEvents(e, t), IF z = "answering" THEN "answered" ELSE z)
<1>1. CASE e.stage \notin TrackedStages
  <2>1. RuntimeEvents(e, t) = <<>>
    BY <1>1 DEF RuntimeEvents
  <2>2. q \o <<>> = q
    OBVIOUS
  <2>3. z # "answering"
    BY <1>1 DEF AnswerCompleted, Event, TrackedStages
  <2>4. QED
    BY <2>1, <2>2, <2>3
<1>2. CASE e.stage \in TrackedStages /\ z = "answering"
  <2>1. RuntimeEvents(e, t) = <<AnswerCompleted>> /\ AnswerCompleted \in Items
    <3>1. e = AnswerCompleted /\ "answer" \in t /\ AnswerCompleted.stage = "answer"
      BY <1>2 DEF AnswerCompleted, Event
    <3>2. QED
      BY <1>2, <3>1, StagesProgress, EventTypes DEF RuntimeEvents
  <2>2. <<z, AnswerCompleted, "answered">> \in Steps /\ "answered" \in Modes
    BY <1>2 DEF Steps, Modes
  <2>3. Path(m, Append(q, AnswerCompleted), "answered")
    BY <2>1, <2>2, PathOn
  <2>4. q \o <<AnswerCompleted>> = Append(q, AnswerCompleted)
    BY <2>1
  <2>5. Append(q, AnswerCompleted) \in Seq(Items)
    BY <2>1
  <2>6. QED
    BY <1>2, <2>1, <2>3, <2>4, <2>5
<1>3. CASE e.stage \in TrackedStages /\ z # "answering"
  <2> DEFINE a == Event(e.stage, "started")
             S == {x \in Items : <<z, x, z>> \in Steps}
  <2>1. e \in StageEvents /\ a \in StageEvents /\ a.stage = e.stage
    BY <1>3 DEF StageEvents, Event, NoEvent, TrackedStages
  <2>2. e \in Items /\ a \in Items
    BY <2>1, EventTypes DEF ProgressEvents
  <2>3. <<z, e, z>> \in Steps /\ <<z, a, z>> \in Steps
    <3>1. CASE z = "open"
      <4>1. e \in EarlyStages /\ a \in EarlyStages
        BY <2>1, <3>1 DEF EarlyStages
      <4>2. QED
        BY <3>1, <4>1 DEF Steps
    <3>2. CASE z = "asking"
      <4>1. e.stage = "clarifier"
        BY <3>2 DEF Event
      <4>2. e \in ClarifierEvents /\ a \in ClarifierEvents
        BY <2>1, <4>1 DEF ClarifierEvents
      <4>3. QED
        BY <3>2, <4>2 DEF Steps
    <3>3. QED
      BY <1>3, <3>1, <3>2
  <2> HIDE DEF a
  <2>4. Path(m, Append(q, e), z)
    BY <2>2, <2>3, PathOn
  <2>5. Path(m, Append(q, a), z)
    BY <2>2, <2>3, PathOn
  <2>6. Append(q, a) \in Seq(Items) /\ Append(q, e) \in Seq(Items)
    BY <2>2
  <2>7. Path(m, Append(Append(q, a), e), z)
    BY <2>2, <2>3, <2>5, <2>6, PathOn
  <2>8. q \o <<e>> = Append(q, e) /\ q \o <<a, e>> = Append(Append(q, a), e)
    BY <2>2
  <2>9. Append(Append(q, a), e) \in Seq(Items)
    BY <2>2, <2>6
  <2>10. RuntimeEvents(e, t) \in {<<e>>, <<a, e>>}
    BY <1>3 DEF RuntimeEvents, a
  <2>11. QED
    BY <1>3, <2>4, <2>6, <2>7, <2>8, <2>9, <2>10
<1>4. QED
  BY <1>1, <1>2, <1>3

\* A turn of the worker's loop leads on.
LEMMA HandlePath ==
  ASSUME TInv, Handle, NEW m, NEW z \in Modes, Path(m, queue, z), AtWork(z)
  PROVE  \E y \in Modes : Path(m, queue', y) /\ AtWork(y)'
<1>a. /\ queue \in Seq(Items) /\ tracker \in SUBSET TrackedStages
      /\ snap.event \in AgentEvents \cup {NoEvent} /\ wpc = "handle"
      /\ z \in {"open", "asking", "answering"} /\ Reported(z)
      /\ "answer" \in tracker <=> z = "answering"
      /\ tracker' = Announced(snap.event, tracker) /\ UNCHANGED <<snap, input>>
  BY DEF TInv, TypeOK, AgentState, Handle, AtWork
<1>1. PICK logs \in IF snap.event = Event("tool_executor", "completed")
                    THEN {<<>>, <<ToolLogs>>} ELSE {<<>>} :
        LET events  == logs \o RuntimeEvents(snap.event, tracker)
            outcome == OutcomeOf(snap)
        IN IF outcome = "none"
           THEN queue' = queue \o events /\ wpc' = "next"
           ELSE /\ queue' = Append(queue \o events, Terminal(outcome))
                /\ wpc' = "exit"
  BY Zenon DEF Handle
<1>2. logs \in Seq(Items) /\ queue \o logs \in Seq(Items) /\ Path(m, queue \o logs, z)
  <2>1. CASE logs = <<>>
    BY <1>a, <2>1
  <2>2. CASE logs = <<ToolLogs>> /\ snap.event = Event("tool_executor", "completed")
    <3>1. z = "open"
      BY <1>a, <2>2 DEF Reported, AnswerCompleted, Event
    <3>2. <<z, ToolLogs, z>> \in Steps /\ ToolLogs \in Items
      BY <3>1, EventTypes DEF Steps
    <3>3. Path(m, Append(queue, ToolLogs), z)
      BY <1>a, <3>2, PathOn
    <3>4. /\ queue \o <<ToolLogs>> = Append(queue, ToolLogs)
          /\ Append(queue, ToolLogs) \in Seq(Items) /\ <<ToolLogs>> \in Seq(Items)
      BY <1>a, <3>2
    <3>5. QED
      BY <2>2, <3>3, <3>4
  <2>3. QED
    BY <1>1, <2>1, <2>2, Zenon
<1>3. PICK runtime : runtime = RuntimeEvents(snap.event, tracker)
  OBVIOUS
<1>4. PICK q \in Seq(Items) : q = (queue \o logs) \o runtime
  BY <1>2, <1>3, <1>a, SnapshotPath DEF Reported
<1>5. Path(m, q, IF z = "answering" THEN "answered" ELSE z)
  BY <1>2, <1>3, <1>4, <1>a, SnapshotPath DEF Reported
<1>6. queue \o (logs \o runtime) = q
  <2>1. runtime \in Seq(ProgressEvents)
    BY <1>a, <1>3, RuntimeEventsType
  <2>2. runtime \in Seq(Items) /\ queue \in Seq(Items)
    BY <1>a, <2>1, EventTypes
  <2>3. logs \in Seq(Items)
    BY <1>2
  <2>4. (queue \o logs) \o runtime = queue \o (logs \o runtime)
    BY <2>2, <2>3, QueuedTogether, ZenonT(30)
  <2>5. QED
    BY <1>4, <2>4
<1>7. CASE OutcomeOf(snap) = "none"
  <2>1. queue' = q /\ wpc' = "next"
    BY <1>1, <1>3, <1>6, <1>7
  <2>2. snap.error = "none" /\ ~snap.answer
    BY <1>7 DEF OutcomeOf
  <2>3. z = "open" /\ snap.event.stage # "answer"
    BY <1>a, <2>2 DEF Reported
  <2>4. Path(m, queue', z)
    BY <1>5, <2>1, <2>3
  <2>5. "answer" \notin tracker'
    BY <1>a, <2>3 DEF Announced
  <2>6. AtWork(z)'
    BY <1>a, <2>1, <2>2, <2>3, <2>5 DEF AtWork
  <2>7. QED
    BY <2>4, <2>6
<1>8. CASE OutcomeOf(snap) # "none"
  <2>1. queue' = Append(q, Terminal(OutcomeOf(snap))) /\ wpc' = "exit"
    BY <1>1, <1>3, <1>6, <1>8
  <2>2. <<IF z = "answering" THEN "answered" ELSE z, Terminal(OutcomeOf(snap)), "decided">>
          \in Steps
    <3>1. CASE z = "open"
      <4>1. OutcomeOf(snap) \in {"clarification", "error"}
        BY <1>a, <1>8, <3>1 DEF OutcomeOf, Reported
      <4>2. QED
        BY <3>1, <4>1 DEF Steps, Modes
    <3>2. CASE z = "asking"
      <4>1. OutcomeOf(snap) = "clarification"
        BY <1>a, <3>2 DEF OutcomeOf, Reported
      <4>2. QED
        BY <3>2, <4>1 DEF Steps
    <3>3. CASE z = "answering"
      <4>1. OutcomeOf(snap) = "answer"
        BY <1>a, <3>3 DEF OutcomeOf, Reported
      <4>2. QED
        BY <3>3, <4>1 DEF Steps
    <3>4. QED
      BY <1>a, <3>1, <3>2, <3>3
  <2>3. Terminal(OutcomeOf(snap)) \in Items /\ "decided" \in Modes
    BY <1>8, EventTypes DEF OutcomeOf, Outcomes, Modes
  <2>4. Path(m, queue', "decided")
    BY <1>5, <2>1, <2>2, <2>3, PathOn
  <2>5. AtWork("decided")'
    BY <2>1 DEF AtWork
  <2>6. QED
    BY <2>3, <2>4, <2>5
<1>9. QED
  BY <1>7, <1>8

\* Text of a node leads on; of the answer's, the first announces it.
LEMMA DeltaPath ==
  ASSUME TInv, StreamDelta, NEW m, NEW z \in Modes, Path(m, queue, z), AtWork(z)
  PROVE  \E y \in Modes : Path(m, queue', y) /\ AtWork(y)'
<1>a. /\ queue \in Seq(Items) /\ deltas \in Nat /\ deltas' = deltas + 1
      /\ wpc = "node" /\ Node \in {"clarifier", "answer"}
      /\ z = IF deltas = 0 THEN "open" ELSE IF Node = "answer" THEN "answering" ELSE "asking"
      /\ "answer" \in tracker <=> z = "answering"
      /\ snap.error = "none" /\ ~snap.answer /\ snap.event.stage # "answer"
      /\ UNCHANGED <<snap, input, wpc, pos>> /\ Node' = Node
      /\ queue' = queue \o LlmDeltaEvents(Node, tracker)
      /\ tracker' = IF Node = "answer" THEN tracker \cup {"answer"} ELSE tracker
  BY DEF TInv, TypeOK, StreamDelta, AtWork, StreamsText, Node
<1>b. Delta \in Items /\ AnswerStarted \in Items
  BY EventTypes, StagesProgress
<1>1. CASE Node = "clarifier"
  <2>1. queue' = Append(queue, Delta)
    <3>1. LlmDeltaEvents(Node, tracker) = <<Delta>>
      BY <1>1 DEF LlmDeltaEvents
    <3>2. QED
      BY <1>a, <1>b, <3>1
  <2>2. <<z, Delta, "asking">> \in Steps /\ "asking" \in Modes
    BY <1>a, <1>1 DEF Steps, Modes
  <2>3. Path(m, queue', "asking")
    BY <1>a, <1>b, <2>1, <2>2, PathOn
  <2>4. AtWork("asking")'
    BY <1>a, <1>1 DEF AtWork
  <2>5. QED
    BY <2>2, <2>3, <2>4
<1>2. CASE Node = "answer" /\ deltas = 0
  <2>1. queue' = Append(Append(queue, AnswerStarted), Delta)
    <3>1. LlmDeltaEvents(Node, tracker) = <<AnswerStarted, Delta>>
      BY <1>a, <1>2 DEF LlmDeltaEvents, AnswerStarted
    <3>2. QED
      BY <1>a, <1>b, <3>1
  <2>2. /\ <<z, AnswerStarted, "begun">> \in Steps /\ <<"begun", Delta, "answering">> \in Steps
        /\ "begun" \in Modes /\ "answering" \in Modes
    BY <1>a, <1>2 DEF Steps, Modes
  <2>3. Append(queue, AnswerStarted) \in Seq(Items)
    BY <1>a, <1>b
  <2>4. Path(m, Append(queue, AnswerStarted), "begun")
    BY <1>a, <1>b, <2>2, PathOn
  <2>5. Path(m, queue', "answering")
    BY <1>b, <2>1, <2>2, <2>3, <2>4, PathOn
  <2>6. AtWork("answering")'
    BY <1>a, <1>2 DEF AtWork
  <2>7. QED
    BY <2>2, <2>5, <2>6
<1>3. CASE Node = "answer" /\ deltas # 0
  <2>1. queue' = Append(queue, Delta)
    <3>1. LlmDeltaEvents(Node, tracker) = <<Delta>>
      BY <1>a, <1>3 DEF LlmDeltaEvents
    <3>2. QED
      BY <1>a, <1>b, <3>1
  <2>2. <<z, Delta, "answering">> \in Steps /\ "answering" \in Modes
    BY <1>a, <1>3 DEF Steps, Modes
  <2>3. Path(m, queue', "answering")
    BY <1>a, <1>b, <2>1, <2>2, PathOn
  <2>4. AtWork("answering")'
    BY <1>a, <1>3 DEF AtWork
  <2>5. QED
    BY <2>2, <2>3, <2>4
<1>4. QED
  BY <1>a, <1>1, <1>2, <1>3

\* A node reports what it streamed text of, and nothing it did not.
LEMMA NodeReports ==
  ASSUME TInv, NodeDone, NEW z, AtWork(z)
  PROVE  Reported(z)'
<1>a. /\ wpc = "node" /\ Node \in Stages /\ snap \in AgentState
      /\ z = IF deltas = 0 THEN "open" ELSE IF Node = "answer" THEN "answering" ELSE "asking"
      /\ deltas # 0 => Node \in {"answer", "clarifier"} /\ deltas > 0
      /\ snap.error = "none" /\ ~snap.answer /\ snap.event.stage # "answer"
      /\ deltas \in Nat
  BY NodeType DEF TInv, TypeOK, NodeDone, AtWork
<1>1. PICK s \in NodeOutput(Node, snap) :
        /\ (Node = "answer" /\ s.answer) => deltas > 0
        /\ (Node = "clarifier" /\ deltas > 0) => s.error = "clarification_required"
        /\ snap' = s
  BY DEF NodeDone
<1>2. SUFFICES \/ /\ z = "open" /\ s.event.stage # "answer"
                  /\ s.error = "none" => ~s.answer
               \/ /\ z = "asking" /\ s.event = Event("clarifier", "clarification_required")
                  /\ s.error = "clarification_required"
               \/ z = "answering" /\ s.event = AnswerCompleted /\ s.error = "none" /\ s.answer
  BY <1>1 DEF Reported
<1> DEFINE Still(r) == r.error = snap.error /\ r.answer = snap.answer
<1>b. snap \in [prompt : BOOLEAN, rag : BOOLEAN, plan : {"none", "empty", "steps"},
               results : BOOLEAN, answer : BOOLEAN, event : AgentEvents \cup {NoEvent},
               error : Errors \cup {"none"}]
  BY <1>a DEF AgentState
<1>3. CASE Node = "scope_check"
  <2>1. \/ s = snap
        \/ s = [snap EXCEPT !.answer = TRUE, !.event = Event("scope_check", "rejected"),
                            !.error = "out_of_scope"]
        \/ \E r \in {snap.rag, TRUE} :
             s = [snap EXCEPT !.rag = r, !.event = Event("scope_check", "completed")]
    BY <1>a, <1>1, <1>3, Zenon DEF NodeOutput, ScopeCheck
  <2>2. \/ s = snap
        \/ s.event = Event("scope_check", "rejected") /\ s.error = "out_of_scope"
        \/ s.event = Event("scope_check", "completed") /\ Still(s)
    BY <1>b, <2>1
  <2>3. z = "open"
    BY <1>a, <1>3
  <2>4. QED
    BY <1>a, <2>2, <2>3 DEF Event
<1>4. CASE Node = "planner"
  <2>1. \/ \E r \in {snap.rag, TRUE}, p \in {"empty", "steps"} :
             s = [snap EXCEPT !.rag = r, !.plan = p, !.event = Event("planner", "completed")]
        \/ s = [snap EXCEPT !.error = "planner_error"]
        \/ s = [snap EXCEPT !.plan = "steps", !.event = Event("planner", "completed")]
    <3>1. s \in Planner(snap)
      BY <1>1, <1>4 DEF NodeOutput
    <3>2. CASE snap.prompt
      BY <1>a, <3>1, <3>2 DEF Planner
    <3>3. CASE ~snap.prompt
      BY <1>a, <3>1, <3>3 DEF Planner
    <3>4. QED
      BY <3>2, <3>3, Zenon
  <2>2. \/ s.event = Event("planner", "completed") /\ Still(s)
        \/ s.event = snap.event /\ s.error = "planner_error"
    BY <1>b, <2>1
  <2>3. z = "open"
    BY <1>a, <1>4
  <2>4. QED
    BY <1>a, <2>2, <2>3 DEF Event
<1>5. CASE Node = "clarifier"
  <2>1. \/ s = snap
        \/ s = [snap EXCEPT !.event = Event("clarifier", "completed")]
        \/ s = [snap EXCEPT !.event = Event("clarifier", "clarification_required"),
                            !.error = "clarification_required"]
    BY <1>1, <1>5, Zenon DEF NodeOutput, Clarifier
  <2>2. \/ s = snap
        \/ s.event = Event("clarifier", "completed") /\ Still(s)
        \/ /\ s.event = Event("clarifier", "clarification_required")
           /\ s.error = "clarification_required"
    BY <1>b, <2>1
  <2>3. CASE deltas = 0
    BY <1>a, <2>2, <2>3 DEF Event
  <2>4. CASE deltas # 0
    BY <1>a, <1>1, <1>5, <2>2, <2>4
  <2>5. QED
    BY <2>3, <2>4
<1>6. CASE Node = "tool_executor"
  <2>1. s = [snap EXCEPT !.results = (snap.plan = "steps"),
                         !.event = Event("tool_executor", "completed")]
    BY <1>a, <1>1, <1>6 DEF NodeOutput, ToolExecutor
  <2>2. s.event = Event("tool_executor", "completed") /\ Still(s)
    BY <1>b, <2>1
  <2>3. z = "open"
    BY <1>a, <1>6
  <2>4. QED
    BY <1>a, <2>2, <2>3 DEF Event
<1>7. CASE Node = "answer"
  <2>1. s = [snap EXCEPT !.answer = TRUE, !.event = AnswerCompleted]
    BY <1>a, <1>1, <1>7 DEF NodeOutput, Answer, AnswerCompleted
  <2>2. s.event = AnswerCompleted /\ s.answer /\ s.error = snap.error
    BY <1>b, <2>1
  <2>3. QED
    BY <1>a, <1>1, <1>7, <2>2
<1>8. QED
  BY <1>a, <1>3, <1>4, <1>5, <1>6, <1>7 DEF Stages

\* The states a run is started with.
Inputs == {InputState(p) : p \in BOOLEAN}

\* Whatever the worker does next leads on.
LEMMA WorkerPath ==
  ASSUME TInv, Worker, input \in Inputs,
         NEW m, NEW z \in Modes, Path(m, queue, z), AtWork(z)
  PROVE  \E y \in Modes : Path(m, queue', y) /\ AtWork(y)'
<1>a. queue \in Seq(Items) /\ \A o \in Outcomes : Terminal(o) \in Items
  BY EventTypes DEF TInv, TypeOK
<1>b. input.error = "none" /\ ~input.answer /\ input.event.stage # "answer"
  BY DEF Inputs, InputState, NoEvent, Event
<1>c. SUFFICES ASSUME wpc' \notin {"exit", "dead"}, ~Handle, ~StreamDelta
               PROVE  queue' = queue /\ AtWork(z)'
  <2>1. CASE Handle
    BY <2>1, HandlePath
  <2>2. CASE StreamDelta
    BY <2>2, DeltaPath
  <2>3. CASE ~Handle /\ ~StreamDelta /\ wpc' \notin {"exit", "dead"}
    BY <1>c, <2>3
  <2>4. CASE Exit
    BY <2>4 DEF Exit, AtWork
  <2>5. CASE Drained \/ WorkerCatch
    <3>1. /\ <<z, Terminal("error"), "decided">> \in Steps /\ "decided" \in Modes
          /\ <<"decided", Done, "decided">> \in Steps /\ Done \in Items
          /\ Terminal("error") \in Items
      BY <1>a, <2>5, EventTypes DEF AtWork, Drained, WorkerCatch, Steps, Modes, Outcomes
    <3>2. Path(m, Append(queue, Terminal("error")), "decided")
      BY <1>a, <3>1, PathOn
    <3>3. Append(queue, Terminal("error")) \in Seq(Items)
      BY <1>a, <3>1
    <3>4. Path(m, Append(Append(queue, Terminal("error")), Done), "decided")
      BY <3>1, <3>2, <3>3, PathOn
    <3>5. queue \o <<Terminal("error"), Done>> = Append(Append(queue, Terminal("error")), Done)
      BY <1>a, <3>1
    <3>6. /\ wpc' = "exit"
          /\ queue' \in {Append(queue, Terminal("error")),
                         Append(Append(queue, Terminal("error")), Done)}
      BY <2>5, <3>5 DEF Drained, WorkerCatch, AtWork
    <3>7. AtWork("decided")'
      BY <3>6 DEF AtWork
    <3>8. QED
      BY <3>1, <3>2, <3>4, <3>6, <3>7
  <2>6. QED
    BY <2>1, <2>2, <2>3, <2>4, <2>5 DEF Worker, Begin, StartNode, RecursionLimit, GraphEnd,
                                         NodeDone, NodeRaise
<1>1. CASE Begin
  BY <1>b, <1>1 DEF Begin, AtWork, Reported
<1>2. CASE StartNode
  BY <1>2 DEF StartNode, AtWork
<1>3. CASE RecursionLimit
  <2>1. /\ UNCHANGED <<queue, input, pos, tracker>> /\ wpc' \in {"handle", "raised"}
        /\ z = "open" /\ "answer" \notin tracker
    BY <1>3 DEF RecursionLimit, AtWork
  <2>2. wpc' = "handle" => Reported(z)'
    <3>1. SUFFICES ASSUME snap' = [input EXCEPT !.error = "recursion_limit"]
                   PROVE  Reported(z)'
      BY <1>3, Zenon DEF RecursionLimit
    <3>2. input \in AgentState
      BY DEF TInv, TypeOK
    <3>3. snap'.event = input.event /\ snap'.error = "recursion_limit"
      BY <3>1, <3>2 DEF AgentState
    <3>4. QED
      BY <1>b, <2>1, <3>3 DEF Reported
  <2>3. QED
    BY <2>1, <2>2 DEF AtWork
<1>4. CASE GraphEnd
  BY <1>4 DEF GraphEnd, AtWork
<1>5. CASE NodeDone
  <2>1. Reported(z)'
    BY <1>5, NodeReports
  <2>2. QED
    BY <1>5, <2>1 DEF NodeDone, AtWork
<1>6. CASE NodeRaise
  BY <1>6 DEF NodeRaise, AtWork
<1>7. QED
  BY <1>c, <1>1, <1>2, <1>3, <1>4, <1>5, <1>6 DEF Worker, Drained, WorkerCatch, Exit

\* Where the client is.
Followed(m) == PhaseAfter(sent) = PhaseOf(m) /\ (tokenEmitted <=> m \in Spoken)

\* What a client that stays was sent is in order, and so is what it has still to be sent:
\* what waits on the queue leads to where the worker is, an outcome that was taken off
\* it can be told from here, and the closing events go on from what was told.
OrderInv ==
  /\ input \in Inputs
  /\ wpc = "none" => snap = input /\ tracker = {}
  /\ SentInOrder
  /\ client = "connected" =>
       /\ cpc = "first" => sent = <<>>
       /\ cpc \in {"first", "setup"} => queue = <<>> /\ wpc = "none" /\ ~tokenEmitted
       /\ cpc = "setup" => PhaseAfter(sent) = "open"
       /\ cpc \in {"poll", "check"} =>
            \E m \in Modes \ {"decided"}, z \in Modes :
              Followed(m) /\ Path(m, queue, z) /\ AtWork(z)
       /\ cpc = "persist" =>
            \E m \in Modes \ {"decided"} :
              Followed(m) /\ <<m, Terminal(held), "decided">> \in Steps
       /\ cpc = "raised" => PhaseAfter(sent) \in {"open", "asking", "answering", "answered"}
       /\ cpc = "emit" => Closes(PhaseAfter(sent), out)

\* At first client and worker are at the same place.
LEMMA InitOrder == Init => OrderInv
  BY PhaseOfNothing DEF Init, OrderInv, SentInOrder, Inputs

\* A terminal item leads to the mode in which all is said.
LEMMA TerminalDecides ==
  ASSUME NEW m, NEW n, NEW o, <<m, Terminal(o), n>> \in Steps, Terminal(o) \in Terminals
  PROVE  n = "decided"
<1>1. Terminal(o) \notin ProgressEvents
  BY TerminalsApart
<1>2. /\ Terminal(o) \notin {ToolLogs, Delta, AnswerStarted, AnswerCompleted}
      /\ Terminal(o) \notin EarlyStages \cup ClarifierEvents
  BY <1>1, EventTypes, StagesProgress
<1>3. QED
  BY <1>2 DEF Steps

\* A yield moves a client that stays to the next phase.
LEMMA YieldAdvances ==
  ASSUME NEW e \in ClientEvents, sent \in Seq(ClientEvents), Yield(e)
  PROVE  /\ client = "connected" => PhaseAfter(sent)' = Advance(PhaseAfter(sent), e)
         /\ client # "connected" => sent' = sent
<1>1. CASE client = "connected"
  <2>1. sent' = Append(sent, e)
    BY <1>1 DEF Yield
  <2>2. QED
    BY <1>1, <2>1, PhaseOfOneMore
<1>2. CASE client # "connected"
  BY <1>2 DEF Yield
<1>3. QED
  BY <1>1, <1>2

\* The worker begins where the client is.
LEMMA SetupOrder == TInv /\ OrderInv /\ Setup => OrderInv'
<1> SUFFICES ASSUME TInv, OrderInv, Setup PROVE OrderInv'
  OBVIOUS
<1>a. /\ UNCHANGED <<client, sent, queue, snap, input, tracker, tokenEmitted>>
      /\ cpc = "setup"
  BY DEF Setup
<1>1. CASE cpc' = "raised" /\ wpc' = wpc
  BY <1>a, <1>1 DEF OrderInv, SentInOrder
<1>2. CASE cpc' = "poll" /\ wpc' = "start"
  <2>1. SUFFICES ASSUME client = "connected"
                 PROVE  \E m \in Modes \ {"decided"}, z \in Modes :
                          Followed(m)' /\ Path(m, queue', z) /\ AtWork(z)'
    BY <1>a, <1>2 DEF OrderInv, SentInOrder
  <2>2. "open" \in Modes /\ "open" \in Modes \ {"decided"} /\ queue' = <<>>
    BY <1>a, <2>1 DEF Modes, OrderInv
  <2>3. Path("open", queue', "open")
    BY <2>2, PathOfNothing
  <2>4. Followed("open")'
    BY <1>a, <2>1 DEF Followed, OrderInv, PhaseOf, Spoken
  <2>5. AtWork("open")'
    BY <1>a, <1>2, <2>1 DEF AtWork, OrderInv
  <2>6. QED
    BY <2>2, <2>3, <2>4, <2>5
<1>3. QED
  BY <1>1, <1>2 DEF Setup

\* What is taken off the queue brings the client on.
LEMMA GetOrder == TInv /\ OrderInv /\ Get => OrderInv'
<1> SUFFICES ASSUME TInv, OrderInv, Get PROVE OrderInv'
  OBVIOUS
<1>a. /\ UNCHANGED <<client, snap, input, tracker, wpc, pos, deltas>> /\ cpc = "poll"
      /\ queue \in Seq(Items) /\ queue # <<>> /\ queue' = Tail(queue)
      /\ sent \in Seq(ClientEvents) /\ Head(queue) \in Items
      /\ tokenEmitted \in BOOLEAN
  BY DEF Get, workerVars, TInv, TypeOK
<1>1. CASE client # "connected"
  <2>1. sent' = sent
    BY <1>1 DEF Get, Yield
  <2>2. QED
    BY <1>a, <1>1, <2>1 DEF OrderInv, SentInOrder
<1>2. CASE client = "connected"
  <2>1. PICK m \in Modes \ {"decided"}, z \in Modes :
          Followed(m) /\ Path(m, queue, z) /\ AtWork(z)
    BY <1>a, <1>2 DEF OrderInv
  <2>2. PICK n \in Modes : <<m, Head(queue), n>> \in Steps /\ Path(n, Tail(queue), z)
    BY <1>a, <2>1, PathOff
  <2>3. CASE Head(queue) \in Terminals
    <3>1. /\ cpc' = "persist" /\ held' = Head(queue).what
          /\ UNCHANGED <<sent, tokenEmitted>>
      BY <2>3 DEF Get
    <3>2. Head(queue) = Terminal(held')
      <4>1. PICK o \in Outcomes : Head(queue) = Terminal(o)
        BY <2>3 DEF Terminals
      <4>2. Head(queue).what = o
        BY <4>1 DEF Terminal, Event
      <4>3. QED
        BY <3>1, <4>1, <4>2
    <3>3. <<m, Terminal(held'), "decided">> \in Steps
      BY <2>2, <2>3, <3>2, TerminalDecides
    <3>4. Followed(m)'
      BY <2>1, <3>1 DEF Followed
    <3>5. QED
      BY <1>a, <1>2, <3>1, <3>3, <3>4 DEF OrderInv, SentInOrder
  <2>4. CASE Head(queue) \notin Terminals /\ Head(queue) = Done
    BY <1>a, <1>2, <2>4 DEF OrderInv, SentInOrder, Get
  <2>5. CASE Head(queue) \notin Terminals /\ Head(queue) # Done
    <3>1. Head(queue) \in ProgressEvents /\ Head(queue) \in ClientEvents
      BY <1>a, <2>5, EventTypes DEF Items
    <3>2. /\ Yield(Head(queue)) /\ cpc' = cpc
          /\ tokenEmitted' = (tokenEmitted \/ Head(queue) = Delta)
      BY <2>5 DEF Get
    <3>3. /\ <<PhaseOf(m), Head(queue), PhaseOf(n)>> \in Transitions
          /\ n \in Modes \ {"decided"}
          /\ n \in Spoken <=> m \in Spoken \/ Head(queue) = Delta
      BY <2>2, <3>1, StepInOrder
    <3>4. PhaseAfter(sent)' = PhaseOf(n) /\ PhaseOf(n) # "out_of_order"
      <4>1. PhaseAfter(sent)' = Advance(PhaseOf(m), Head(queue))
        BY <1>a, <1>2, <2>1, <3>1, <3>2, YieldAdvances DEF Followed
      <4>2. QED
        BY <3>3, <4>1, AdvanceIs
    <3>5. Followed(n)'
      BY <2>1, <3>2, <3>3, <3>4 DEF Followed
    <3>6. AtWork(z)'
      BY <1>a, <2>1 DEF AtWork, Reported, Node
    <3>7. Path(n, queue', z)
      BY <1>a, <2>2
    <3>8. QED
      BY <1>a, <1>2, <2>1, <3>2, <3>3, <3>4, <3>5, <3>6, <3>7 DEF OrderInv, SentInOrder
  <2>6. QED
    BY <2>3, <2>4, <2>5
<1>3. QED
  BY <1>1, <1>2

\* Every step of the consumer keeps the order.
LEMMA ConsumerOrder == TInv /\ OrderInv /\ Consumer => OrderInv'
<1> SUFFICES ASSUME TInv, OrderInv, Consumer PROVE OrderInv'
  OBVIOUS
<1>a. sent \in Seq(ClientEvents) /\ tokenEmitted \in BOOLEAN /\ out \in Seq(ClientEvents)
  BY DEF TInv, TypeOK
<1>1. CASE First
  <2>1. /\ UNCHANGED <<client, queue, tokenEmitted, wpc, snap, input, tracker>>
        /\ cpc = "first" /\ cpc' = "setup" /\ Yield(Started)
    BY <1>1 DEF First, workerVars
  <2>2. CASE client # "connected"
    <3>1. sent' = sent
      BY <2>1, <2>2 DEF Yield
    <3>2. QED
      BY <2>1, <2>2, <3>1 DEF OrderInv, SentInOrder
  <2>3. CASE client = "connected"
    <3>1. PhaseAfter(sent)' = Advance(PhaseAfter(sent), Started)
      BY <1>a, <2>1, <2>3, YieldAdvances, EventTypes
    <3>2. PhaseAfter(sent) = "none"
      BY <2>1, <2>3, PhaseOfNothing DEF OrderInv
    <3>3. <<"none", Started, "open">> \in Transitions
      BY DEF Transitions
    <3>4. PhaseAfter(sent)' = "open"
      BY <3>1, <3>2, <3>3, AdvanceIs
    <3>5. QED
      BY <2>1, <2>3, <3>4 DEF OrderInv, SentInOrder
  <2>4. QED
    BY <2>2, <2>3
<1>2. CASE Timeout \/ CheckAlive \/ Resume \/ Close
  <2>1. /\ UNCHANGED <<client, held, out, tokenEmitted, sent, queue, workerVars>>
        /\ cpc' = cpc \/ cpc' \in {"ended", "closed"} \/ {cpc, cpc'} = {"poll", "check"}
    BY <1>2 DEF Timeout, CheckAlive, Resume, Close
  <2>2. \A m : (Followed(m) => Followed(m)') /\ (AtWork(m) => AtWork(m)')
    BY <2>1 DEF Followed, AtWork, Reported, Node, workerVars
  <2>3. cpc' \in {"poll", "check"} => cpc \in {"poll", "check"}
    BY <2>1
  <2>4. cpc' \notin {"poll", "check"} => cpc' = cpc \/ cpc' \in {"ended", "closed"}
    BY <2>1
  <2>5. CASE cpc' \in {"poll", "check"}
    BY <2>1, <2>2, <2>3, <2>5 DEF OrderInv, SentInOrder, workerVars
  <2>6. CASE cpc' \in {"ended", "closed"}
    BY <2>1, <2>6 DEF OrderInv, SentInOrder, workerVars
  <2>7. CASE cpc' = cpc /\ cpc' \notin {"poll", "check", "ended", "closed"}
    BY <2>1, <2>2, <2>7 DEF OrderInv, SentInOrder, workerVars
  <2>8. QED
    BY <2>4, <2>5, <2>6, <2>7
<1>3. CASE Persist
  <2>1. /\ UNCHANGED <<client, sent, wpc, snap, input, tracker>> /\ cpc = "persist"
        /\ held \in Outcomes
        /\ \/ cpc' = "emit" /\ out' = ClosingEvents(held, tokenEmitted)
           \/ cpc' = "raised"
    BY <1>3 DEF Persist, workerVars, TInv, OutcomeHeld
  <2>2. SUFFICES ASSUME client = "connected"
                 PROVE  /\ Closes(PhaseAfter(sent), ClosingEvents(held, tokenEmitted))
                        /\ PhaseAfter(sent) \in {"open", "asking", "answering", "answered"}
    BY <2>1 DEF OrderInv, SentInOrder
  <2>3. PICK m \in Modes \ {"decided"} :
          Followed(m) /\ <<m, Terminal(held), "decided">> \in Steps
    BY <2>1, <2>2 DEF OrderInv
  <2>4. Closes(PhaseOf(m), ClosingEvents(held, tokenEmitted))
    BY <1>a, <2>1, <2>3, OutcomeCloses DEF Followed
  <2>5. QED
    BY <2>3, <2>4 DEF Followed, PhaseOf, Modes
<1>4. CASE RouterCatch
  BY <1>4 DEF RouterCatch, workerVars, OrderInv, SentInOrder, Closes
<1>5. CASE Emit
  <2>1. /\ UNCHANGED <<client, wpc, snap, input, tracker>> /\ cpc = "emit"
        /\ \/ out = <<>> /\ cpc' = "ended" /\ sent' = sent
           \/ out # <<>> /\ cpc' = cpc /\ Yield(Head(out)) /\ out' = Tail(out)
    BY <1>5 DEF Emit, workerVars
  <2>2. CASE cpc' = "ended" /\ sent' = sent
    BY <2>1, <2>2 DEF OrderInv, SentInOrder
  <2>3. CASE out # <<>> /\ cpc' = cpc /\ Yield(Head(out)) /\ out' = Tail(out)
    <3>1. Head(out) \in ClientEvents
      BY <1>a, <2>3
    <3>2. CASE client # "connected"
      <4>1. sent' = sent
        BY <2>3, <3>2 DEF Yield
      <4>2. QED
        BY <2>1, <3>2, <4>1 DEF OrderInv, SentInOrder
    <3>3. CASE client = "connected"
      <4>1. Closes(PhaseAfter(sent), out)
        BY <2>1, <3>3 DEF OrderInv
      <4>2. PhaseAfter(sent)' = Advance(PhaseAfter(sent), Head(out))
        BY <1>a, <2>3, <3>1, <3>3, YieldAdvances
      <4>3. PhaseAfter(sent)' # "out_of_order" /\ Closes(PhaseAfter(sent)', Tail(out))
        BY <2>3, <4>1, <4>2, ClosesOn
      <4>4. QED
        BY <2>1, <2>3, <4>3 DEF OrderInv, SentInOrder
    <3>4. QED
      BY <3>2, <3>3
  <2>4. QED
    BY <2>1, <2>2, <2>3
<1>6. QED
  BY <1>1, <1>2, <1>3, <1>4, <1>5, SetupOrder, GetOrder DEF Consumer

\* So does every step of the worker.
LEMMA WorkerOrder == TInv /\ OrderInv /\ Worker => OrderInv'
<1> SUFFICES ASSUME TInv, OrderInv, Worker PROVE OrderInv'
  OBVIOUS
<1>1. UNCHANGED <<client, consumerVars>>
  BY WorkerApart
<1>2. wpc # "none" /\ wpc' # "none" /\ input' = input
  BY DEF Worker, Begin, Handle, StartNode, RecursionLimit, GraphEnd, Drained, StreamDelta,
         NodeDone, NodeRaise, WorkerCatch, Exit
<1>3. CASE client = "connected" /\ cpc \in {"poll", "check"}
  <2>1. PICK m \in Modes \ {"decided"}, z \in Modes :
          Followed(m) /\ Path(m, queue, z) /\ AtWork(z)
    BY <1>3 DEF OrderInv
  <2>2. PICK y \in Modes : Path(m, queue', y) /\ AtWork(y)'
    BY <2>1, WorkerPath DEF OrderInv
  <2>3. Followed(m)'
    BY <1>1, <2>1 DEF Followed, consumerVars
  <2>4. QED
    BY <1>1, <1>2, <1>3, <2>2, <2>3 DEF OrderInv, SentInOrder, consumerVars
<1>4. CASE ~(client = "connected" /\ cpc \in {"poll", "check"})
  <2>1. \A m : Followed(m) => Followed(m)'
    BY <1>1 DEF Followed, consumerVars
  <2>2. QED
    BY <1>1, <1>2, <1>4, <2>1 DEF OrderInv, SentInOrder, consumerVars
<1>5. QED
  BY <1>3, <1>4

\* A client that leaves is followed no more.
LEMMA DisconnectOrder == OrderInv /\ Disconnect => OrderInv'
  BY DEF Disconnect, consumerVars, workerVars, OrderInv, SentInOrder

\* Order is kept by the steps of each of the three.
LEMMA OrderInvariant == Spec => []OrderInv
<1>1. TInv /\ OrderInv /\ [Next]_vars => OrderInv'
  <2>1. ASSUME OrderInv, UNCHANGED vars PROVE OrderInv'
    <3>1. UNCHANGED <<client, consumerVars, queue, workerVars>>
      BY <2>1 DEF vars
    <3>2. \A m : (Followed(m) => Followed(m)') /\ (AtWork(m) => AtWork(m)')
      BY <3>1 DEF Followed, AtWork, Reported, Node, consumerVars, workerVars
    <3>3. QED
      BY <2>1, <3>1, <3>2 DEF OrderInv, SentInOrder, consumerVars, workerVars
  <2>2. QED
    BY <2>1, ConsumerOrder, WorkerOrder, DisconnectOrder DEF Next
<1>2. QED
  BY <1>1, InitOrder, TypeInvariant, PTL DEF Spec

\* Whatever was streamed and whatever failed, however the threads and the client are
\* scheduled, the client receives the events of a run in the order it relies on.
THEOREM OrderKept == Spec => []SentInOrder
<1>1. OrderInv => SentInOrder
  BY DEF OrderInv
<1>2. QED
  BY <1>1, OrderInvariant, PTL

-----------------------------------------------------------------------------
(* What WebChat takes for granted of the stream it reads.                  *)

\* Deliver's guard, and the phase it moves to.
SendsNext ==
  \E event \in ClientEvents :
    /\ sent' = Append(sent, event)
    /\ event \in MayFollow(PhaseAfter(sent))
    /\ PhaseAfter(sent)' = Advance(PhaseAfter(sent), event)

\* Close's guard: a stream that comes to its end has begun and is not amid a failure.
EndsBetween ==
  cpc = "ended" /\ client = "connected" => PhaseAfter(sent) \notin {"none", "failing"}

\* An event, and no other step, adds to what was sent.
LEMMA StepSends ==
  ASSUME TInv, [Next]_vars
  PROVE  sent' = sent \/ \E event \in ClientEvents : sent' = Append(sent, event)
<1>1. CASE Worker \/ Disconnect \/ UNCHANGED vars
  BY <1>1, WorkerApart DEF Disconnect, consumerVars
<1>2. CASE First
  BY <1>2, EventTypes DEF First, Yield
<1>3. CASE Get
  <2>1. queue \in Seq(Items) /\ queue # <<>>
    BY <1>3 DEF Get, TInv, TypeOK
  <2>2. Head(queue) \in Items
    BY <2>1
  <2>3. Head(queue) \in Terminals \cup {Done} \/ Head(queue) \in ClientEvents
    BY <2>2, EventTypes DEF Items
  <2>4. QED
    BY <1>3, <2>3 DEF Get, Yield
<1>4. CASE Emit
  <2>1. out # <<>> => Head(out) \in ClientEvents
    BY DEF TInv, TypeOK
  <2>2. QED
    BY <1>4, <2>1 DEF Emit, Yield
<1>5. CASE Setup \/ Timeout \/ CheckAlive \/ Persist \/ RouterCatch \/ Resume \/ Close
  BY <1>5 DEF Setup, Timeout, CheckAlive, Persist, RouterCatch, Resume, Close
<1>6. QED
  BY <1>1, <1>2, <1>3, <1>4, <1>5 DEF Next, Consumer

\* A response comes to its end from a poll or behind its closing events.
LEMMA StepEndsBetween ==
  ASSUME TInv, OrderInv, EndsBetween, [Next]_vars
  PROVE  EndsBetween'
<1>1. SUFFICES ASSUME cpc' = "ended", client' = "connected"
               PROVE  PhaseAfter(sent') \notin {"none", "failing"}
  BY DEF EndsBetween
<1>2. client = "connected"
  <2>1. client' = client
    BY <1>1, WorkerApart DEF Next, Consumer, Disconnect, First, Setup, Get, Timeout, CheckAlive,
       Persist, RouterCatch, Emit, Resume, Close
  <2>2. QED
    BY <1>1, <2>1
<1>3. CASE cpc = "ended"
  <2>1. sent' = sent
    BY <1>1, <1>3, WorkerApart DEF Next, Consumer, Disconnect, First, Setup, Get, Timeout,
       CheckAlive, Persist, RouterCatch, Emit, Resume, Close, consumerVars
  <2>2. QED
    BY <1>2, <1>3, <2>1 DEF EndsBetween
<1>4. CASE cpc # "ended"
  <2>1. sent' = sent /\ (cpc \in {"poll", "check"} \/ (cpc = "emit" /\ out = <<>>))
    BY <1>1, <1>4, WorkerApart DEF Next, Consumer, Disconnect, First, Setup, Get, Timeout,
       CheckAlive, Persist, RouterCatch, Emit, Resume, Close, consumerVars
  <2>2. CASE cpc \in {"poll", "check"}
    BY <1>2, <2>1, <2>2 DEF OrderInv, Followed, PhaseOf, Modes
  <2>3. CASE cpc = "emit" /\ out = <<>>
    BY <1>2, <2>1, <2>3 DEF OrderInv, Closes
  <2>4. QED
    BY <2>1, <2>2, <2>3
<1>5. QED
  BY <1>3, <1>4

\* Each event the service sends to a client is one that WebChat's Deliver accepts where
\* the client is, and a response that ends does so where WebChat's Close does: what the
\* model of the client assumes of the stream is what the model of the stream does.
THEOREM StreamAsAssumed ==
  Spec => [][sent' # sent => SendsNext]_vars /\ []EndsBetween
<1>1. TInv /\ [Next]_vars /\ SentInOrder' => [sent' # sent => SendsNext]_vars
  <2>1. SUFFICES ASSUME TInv, [Next]_vars, SentInOrder', sent' # sent PROVE SendsNext
    OBVIOUS
  <2>2. PICK event \in ClientEvents : sent' = Append(sent, event)
    BY <2>1, StepSends
  <2>3. PhaseAfter(sent)' = Advance(PhaseAfter(sent), event)
    BY <2>1, <2>2, PhaseOfOneMore DEF TInv, TypeOK
  <2>4. event \in MayFollow(PhaseAfter(sent))
    BY <2>1, <2>3 DEF SentInOrder, Advance
  <2>5. QED
    BY <2>2, <2>3, <2>4 DEF SendsNext
<1>2. Init => EndsBetween
  BY DEF Init, EndsBetween
<1>3. TInv /\ OrderInv /\ EndsBetween /\ [Next]_vars => EndsBetween'
  BY StepEndsBetween
<1>4. QED
  BY <1>1, <1>2, <1>3, OrderKept, OrderInvariant, TypeInvariant, PTL DEF Spec

-----------------------------------------------------------------------------
(* How long a stream takes.                                                *)

Decided == OutcomeOf(snap) # "none"

\* What n nodes take of the worker: each is started, streams its deltas, is done
\* and has its snapshot handled.
Ahead(n) == n * (MaxDeltas + 3)

\* The steps the worker and its creation may still take.
WorkLeft ==
  CASE wpc = "none"   -> Ahead(Len(Pipeline) - pos) + 6
    [] wpc = "start"  -> Ahead(Len(Pipeline) - pos) + 5
    [] wpc = "handle" -> IF Decided THEN 2 ELSE Ahead(Len(Pipeline) - pos) + 4
    [] wpc = "next"   -> Ahead(Len(Pipeline) - pos) + 3
    [] wpc = "node"   -> Ahead(Len(Pipeline) - (pos + 1)) + 5 + (MaxDeltas - deltas)
    [] wpc \in {"raised", "drained"} -> 2
    [] wpc = "exit"   -> 1
    [] wpc = "dead"   -> 0

\* The steps the generator may still take, and the client before it, if nothing
\* more is put on the queue and no poll finds the worker alive.
ReplyLeft ==
  CASE cpc = "first"   -> 12
    [] cpc = "setup"   -> 10
    [] cpc = "poll"    -> 2 * Len(queue) + 9
    [] cpc = "check"   -> 8
    [] cpc = "persist" -> 7
    [] cpc = "raised"  -> 6
    [] cpc = "emit"    -> 2 * Len(out) + 1
    [] cpc \in {"ended", "closed"} -> 0

AnswerLeft == IF atYield THEN 1 ELSE 0

ClientLeft == IF client = "connected" THEN 1 ELSE 0

TellLeft == ReplyLeft + AnswerLeft + ClientLeft

\* A node more takes its start, its deltas, its end and its snapshot.
LEMMA NodesAhead ==
  ASSUME NEW n \in Nat
  PROVE  /\ Ahead(n) \in Nat
         /\ Ahead(n + 1) = Ahead(n) + MaxDeltas + 3
<1>1. MaxDeltas \in Nat
  BY LimitAssumption
<1>2. n * (MaxDeltas + 3) \in Nat /\ (n + 1) * (MaxDeltas + 3) = n * (MaxDeltas + 3) + (MaxDeltas + 3)
  BY <1>1
<1>3. QED
  BY <1>1, <1>2 DEF Ahead

\* WorkLeft, place by place; r is the number of nodes that are not done.
WorkAt(r) ==
  /\ r \in Nat
  /\ Ahead(r) \in Nat
  /\ wpc = "none" => WorkLeft = Ahead(r) + 6
  /\ wpc = "start" => WorkLeft = Ahead(r) + 5
  /\ wpc = "handle" => WorkLeft = IF Decided THEN 2 ELSE Ahead(r) + 4
  /\ wpc = "next" => WorkLeft = Ahead(r) + 3
  /\ wpc = "node" => /\ r # 0
                     /\ WorkLeft = Ahead(r) + 2 - deltas
                     /\ deltas \in 0..MaxDeltas
                     /\ Ahead(r) >= MaxDeltas + 3
  /\ wpc \in {"raised", "drained"} => WorkLeft = 2
  /\ wpc = "exit" => WorkLeft = 1
  /\ wpc = "dead" => WorkLeft = 0
  /\ WorkLeft \in Nat

\* The value of WorkLeft at each place.
LEMMA WorkByPlace == TInv => WorkAt(Len(Pipeline) - pos)
<1> SUFFICES ASSUME TInv PROVE WorkAt(Len(Pipeline) - pos)
  OBVIOUS
<1>1. /\ Len(Pipeline) \in Nat /\ pos \in 0..Len(Pipeline) /\ deltas \in 0..MaxDeltas
      /\ MaxDeltas \in Nat
      /\ wpc \in {"none", "start", "handle", "next", "node", "drained", "raised", "exit", "dead"}
  BY PipelineAssumption, LimitAssumption DEF TInv, TypeOK
<1>2. PICK r \in Nat : r = Len(Pipeline) - pos
  <2>1. Len(Pipeline) - pos \in Nat
    BY <1>1
  <2>2. QED
    BY <2>1
<1>3. Ahead(r) \in Nat
  BY NodesAhead
<1>4. CASE wpc = "node"
  <2>1. PICK n \in Nat : n = Len(Pipeline) - (pos + 1) /\ r = n + 1
    <3>1. Len(Pipeline) - (pos + 1) \in Nat /\ r = (Len(Pipeline) - (pos + 1)) + 1
      BY <1>1, <1>2, <1>4 DEF TInv, NodeRunning
    <3>2. QED
      BY <3>1
  <2>2. Ahead(n) \in Nat /\ Ahead(r) = Ahead(n) + MaxDeltas + 3
    BY <2>1, NodesAhead
  <2>3. WorkLeft = Ahead(n) + 5 + (MaxDeltas - deltas)
    BY <1>4, <2>1 DEF WorkLeft
  <2>4. QED
    BY <1>1, <1>2, <1>4, <2>1, <2>2, <2>3 DEF WorkAt
<1>5. CASE wpc # "node"
  BY <1>1, <1>2, <1>3, <1>5 DEF WorkAt, WorkLeft
<1>6. QED
  BY <1>4, <1>5

\* Every step of the worker brings its end nearer.
LEMMA WorkerAdvances ==
  ASSUME TInv, TInv', Worker
  PROVE  WorkLeft' < WorkLeft
<1>1. WorkAt(Len(Pipeline) - pos) /\ (WorkAt(Len(Pipeline) - pos))'
  <2>1. (TInv => WorkAt(Len(Pipeline) - pos))'
    BY WorkByPlace, PTL
  <2>2. QED
    BY <2>1, WorkByPlace
<1>2. /\ Len(Pipeline) \in Nat /\ pos \in 0..Len(Pipeline) /\ pos' \in 0..Len(Pipeline)
      /\ MaxDeltas \in Nat /\ deltas \in 0..MaxDeltas
  BY PipelineAssumption, LimitAssumption DEF TInv, TypeOK
<1>3. PICK r \in Nat : r = Len(Pipeline) - pos
  <2>1. Len(Pipeline) - pos \in Nat
    BY <1>2
  <2>2. QED
    BY <2>1
<1>4. Ahead(r) \in Nat
  BY NodesAhead
<1>5. CASE NodeDone
  <2>1. wpc = "node" /\ wpc' = "handle" /\ pos' = pos + 1
    BY <1>5 DEF NodeDone
  <2>2. PICK n \in Nat : n = Len(Pipeline) - pos' /\ r = n + 1
    <3>1. Len(Pipeline) - pos' \in Nat /\ r = (Len(Pipeline) - pos') + 1
      BY <1>2, <1>3, <2>1
    <3>2. QED
      BY <3>1
  <2>3. Ahead(n) \in Nat /\ Ahead(r) = Ahead(n) + MaxDeltas + 3
    BY <2>2, NodesAhead
  <2>4. WorkLeft = Ahead(r) + 2 - deltas
    BY <1>1, <1>3, <2>1 DEF WorkAt
  <2>5. WorkLeft' \in {2, Ahead(n) + 4}
    <3>1. wpc' = "handle" => WorkLeft' = IF Decided' THEN 2 ELSE Ahead(Len(Pipeline) - pos') + 4
      BY <1>1 DEF WorkAt
    <3>2. QED
      BY <2>1, <2>2, <3>1
  <2>6. PICK a \in Nat : a = Ahead(n)
    BY <2>3
  <2>7. WorkLeft = a + MaxDeltas + 3 + 2 - deltas /\ WorkLeft' \in {2, a + 4}
    BY <2>3, <2>4, <2>5, <2>6
  <2>8. \A x \in {2, a + 4} : x < a + MaxDeltas + 3 + 2 - deltas
    BY <1>2
  <2>9. QED
    BY <2>7, <2>8
<1>6. CASE ~NodeDone
  <2>1. pos' = pos
    BY <1>6 DEF Worker, Begin, Handle, StartNode, RecursionLimit, GraphEnd, Drained, StreamDelta,
                NodeRaise, WorkerCatch, Exit
  <2>2. /\ wpc = "start" => WorkLeft = Ahead(r) + 5
        /\ wpc = "handle" => WorkLeft = IF Decided THEN 2 ELSE Ahead(r) + 4
        /\ wpc = "next" => WorkLeft = Ahead(r) + 3
        /\ wpc = "node" => WorkLeft = Ahead(r) + 2 - deltas /\ Ahead(r) >= MaxDeltas + 3
        /\ wpc \in {"raised", "drained"} => WorkLeft = 2
        /\ wpc = "exit" => WorkLeft = 1
    BY <1>1, <1>3 DEF WorkAt
  <2>3. /\ wpc' = "handle" => WorkLeft' = IF Decided' THEN 2 ELSE Ahead(r) + 4
        /\ wpc' = "next" => WorkLeft' = Ahead(r) + 3
        /\ wpc' = "node" => WorkLeft' = Ahead(r) + 2 - deltas'
        /\ wpc' \in {"raised", "drained"} => WorkLeft' = 2
        /\ wpc' = "exit" => WorkLeft' = 1
        /\ wpc' = "dead" => WorkLeft' = 0
    BY <1>1, <1>3, <2>1 DEF WorkAt
  <2>4. CASE Begin
    BY <1>4, <2>2, <2>3, <2>4 DEF Begin
  <2>5. CASE Handle
    <3>1. wpc = "handle" /\ wpc' = IF Decided THEN "exit" ELSE "next"
      BY <2>5 DEF Handle, Decided
    <3>2. QED
      BY <1>4, <2>2, <2>3, <3>1
  <2>6. CASE StartNode
    <3>1. wpc = "next" /\ wpc' = "node" /\ deltas' = 0
      BY <2>6 DEF StartNode
    <3>2. QED
      BY <1>4, <2>2, <2>3, <3>1
  <2>7. CASE RecursionLimit
    <3>1. wpc = "next" /\ (wpc' = "raised" \/ (wpc' = "handle" /\ Decided'))
      <4>1. ASSUME snap' = [input EXCEPT !.error = "recursion_limit"] PROVE Decided'
        <5>1. snap'.error = "recursion_limit"
          BY <4>1 DEF TInv, TypeOK, AgentState
        <5>2. QED
          BY <5>1 DEF Decided, OutcomeOf
      <4>2. QED
        BY <2>7, <4>1 DEF RecursionLimit
    <3>2. QED
      BY <1>4, <2>2, <2>3, <3>1
  <2>8. CASE GraphEnd \/ Drained \/ WorkerCatch \/ Exit
    BY <1>4, <2>2, <2>3, <2>8 DEF GraphEnd, Drained, WorkerCatch, Exit
  <2>9. CASE StreamDelta
    <3>1. wpc = "node" /\ wpc' = "node" /\ deltas' = deltas + 1
      BY <2>9 DEF StreamDelta
    <3>2. QED
      BY <1>2, <1>4, <2>2, <2>3, <3>1
  <2>10. CASE NodeRaise
    BY <1>2, <1>4, <2>2, <2>3, <2>10 DEF NodeRaise
  <2>11. QED
    BY <1>6, <2>4, <2>5, <2>6, <2>7, <2>8, <2>9, <2>10 DEF Worker
<1>7. QED
  BY <1>5, <1>6

\* What is left of the reply is a number.
LEMMA TellLeftNat ==
  TInv => /\ ReplyLeft \in Nat /\ TellLeft \in Nat
          /\ AnswerLeft \in {0, 1} /\ ClientLeft \in {0, 1}
<1> SUFFICES ASSUME TInv
             PROVE  /\ ReplyLeft \in Nat /\ TellLeft \in Nat
                    /\ AnswerLeft \in {0, 1} /\ ClientLeft \in {0, 1}
  OBVIOUS
<1>1. Len(out) \in Nat /\ Len(queue) \in Nat
  BY DEF TInv, TypeOK
<1>2. ReplyLeft \in Nat
  BY <1>1 DEF ReplyLeft, TInv, TypeOK
<1>3. AnswerLeft \in {0, 1} /\ ClientLeft \in {0, 1}
  BY DEF AnswerLeft, ClientLeft
<1>4. QED
  BY <1>2, <1>3 DEF TellLeft

\* What is left of the reply falls without an event, or by two with one, which the
\* client has to answer.
LEMMA ReplyFalls ==
  ASSUME TInv, TInv', client' = client,
         \/ AnswerLeft' = AnswerLeft /\ ReplyLeft' < ReplyLeft
         \/ AnswerLeft = 0 /\ ReplyLeft' + 2 <= ReplyLeft
  PROVE  TellLeft' < TellLeft
<1>1. (/\ ReplyLeft \in Nat /\ TellLeft \in Nat
       /\ AnswerLeft \in {0, 1} /\ ClientLeft \in {0, 1})'
  <2>1. (TInv => /\ ReplyLeft \in Nat /\ TellLeft \in Nat
                 /\ AnswerLeft \in {0, 1} /\ ClientLeft \in {0, 1})'
    BY TellLeftNat, PTL
  <2>2. QED
    BY <2>1
<1>2. ClientLeft' = ClientLeft
  BY DEF ClientLeft
<1>3. QED
  BY <1>1, <1>2, TellLeftNat DEF TellLeft

\* Every step of the generator and of the client before it, except the poll that
\* finds the worker alive.
LEMMA ConsumerTells ==
  ASSUME TInv, TInv', YieldsWhereItMay, Handover, Consumer, ~(CheckAlive /\ wpc # "dead"),
         cpc' # "poll" \/ cpc # "setup"
  PROVE  TellLeft' < TellLeft
<1>1. Len(out) \in Nat /\ Len(queue) \in Nat /\ Len(out') \in Nat /\ Len(queue') \in Nat
  BY DEF TInv, TypeOK
<1>2. CASE Resume \/ Close
  <2>1. /\ atYield /\ ~atYield' /\ client' = client
        /\ cpc' = "closed" \/ (cpc' = cpc /\ out' = out /\ queue' = queue)
    BY <1>2 DEF Resume, Close
  <2>2. AnswerLeft = 1 /\ AnswerLeft' = 0 /\ ClientLeft' = ClientLeft
    BY <2>1 DEF AnswerLeft, ClientLeft
  <2>3. ReplyLeft' = 0 \/ ReplyLeft' = ReplyLeft
    BY <2>1 DEF ReplyLeft
  <2>4. QED
    BY <2>2, <2>3, TellLeftNat DEF TellLeft
<1>3. CASE ~(Resume \/ Close)
  <2>1. client' = client
    BY <1>3 DEF Consumer, First, Setup, Get, Timeout, CheckAlive, Persist, RouterCatch, Emit
  <2>2. AnswerLeft = 0
    BY <1>3 DEF Consumer, First, Setup, Get, Timeout, CheckAlive, Persist, RouterCatch, Emit,
                YieldsWhereItMay, AnswerLeft
  <2>3. CASE First
    <3>1. ReplyLeft = 12 /\ ReplyLeft' = 10
      BY <2>3 DEF First, ReplyLeft
    <3>2. QED
      BY <2>1, <2>2, <3>1, ReplyFalls
  <2>4. CASE Get
    <3>1. /\ queue \in Seq(Items) /\ queue # <<>> /\ queue' = Tail(queue)
          /\ cpc = "poll" /\ ~atYield
      BY <2>4 DEF Get, TInv, TypeOK
    <3>2. Len(queue) = Len(queue') + 1
      BY <3>1
    <3>3. ReplyLeft = 2 * Len(queue) + 9
      BY <3>1 DEF ReplyLeft
    <3>4. CASE cpc' \in {"persist", "ended"}
      <4>1. AnswerLeft' = AnswerLeft
        BY <2>4, <3>4 DEF Get, AnswerLeft
      <4>2. ReplyLeft' \in {0, 7}
        BY <3>4 DEF ReplyLeft
      <4>3. QED
        BY <1>1, <2>1, <3>3, <4>1, <4>2, ReplyFalls
    <3>5. CASE cpc' = "poll"
      <4>1. ReplyLeft' = 2 * Len(queue') + 9
        BY <3>5 DEF ReplyLeft
      <4>2. QED
        BY <1>1, <2>1, <2>2, <3>2, <3>3, <4>1, ReplyFalls
    <3>6. QED
      BY <2>4, <3>1, <3>4, <3>5 DEF Get
  <2>5. CASE Emit
    <3>1. /\ out \in Seq(ClientEvents) /\ cpc = "emit" /\ ~atYield
          /\ ReplyLeft = 2 * Len(out) + 1
      BY <2>5 DEF Emit, ReplyLeft, TInv, TypeOK
    <3>2. CASE out # <<>>
      <4>1. Len(out) = Len(out') + 1 /\ cpc' = "emit"
        BY <2>5, <3>1, <3>2 DEF Emit
      <4>2. ReplyLeft' = 2 * Len(out') + 1
        BY <4>1 DEF ReplyLeft
      <4>3. QED
        BY <1>1, <2>1, <2>2, <3>1, <4>1, <4>2, ReplyFalls
    <3>3. CASE out = <<>>
      <4>1. ReplyLeft' = 0 /\ AnswerLeft' = AnswerLeft
        BY <2>5, <3>3 DEF Emit, ReplyLeft, AnswerLeft
      <4>2. QED
        BY <1>1, <2>1, <3>1, <4>1, ReplyFalls
    <3>4. QED
      BY <3>2, <3>3
  <2>6. CASE Persist
    <3>1. ReplyLeft = 7 /\ AnswerLeft' = AnswerLeft
      BY <2>6 DEF Persist, ReplyLeft, AnswerLeft
    <3>2. CASE cpc' = "raised"
      <4>1. ReplyLeft' = 6
        BY <3>2 DEF ReplyLeft
      <4>2. QED
        BY <2>1, <3>1, <4>1, ReplyFalls
    <3>3. CASE cpc' = "emit" /\ out' = ClosingEvents(held, tokenEmitted)
      <4>1. held \in Outcomes
        BY <2>6 DEF Persist, TInv, OutcomeHeld
      <4>2. Len(out') <= 2
        BY <3>3, <4>1 DEF ClosingEvents, Outcomes
      <4>3. ReplyLeft' = 2 * Len(out') + 1
        BY <3>3 DEF ReplyLeft
      <4>4. QED
        BY <1>1, <2>1, <3>1, <4>2, <4>3, ReplyFalls
    <3>4. QED
      BY <2>6, <3>2, <3>3 DEF Persist
  <2>7. CASE RouterCatch
    <3>1. ReplyLeft = 6 /\ AnswerLeft' = AnswerLeft /\ ReplyLeft' = 5
      BY <2>7 DEF RouterCatch, ReplyLeft, AnswerLeft
    <3>2. QED
      BY <2>1, <3>1, ReplyFalls
  <2>8. CASE Timeout
    <3>1. ReplyLeft = 9 /\ AnswerLeft' = AnswerLeft /\ ReplyLeft' = 8
      BY <2>8 DEF Timeout, ReplyLeft, AnswerLeft
    <3>2. QED
      BY <2>1, <3>1, ReplyFalls
  <2>9. CASE CheckAlive
    <3>1. ReplyLeft = 8 /\ AnswerLeft' = AnswerLeft /\ ReplyLeft' = 0
      BY <2>9 DEF CheckAlive, ReplyLeft, AnswerLeft
    <3>2. QED
      BY <2>1, <3>1, ReplyFalls
  <2>10. CASE Setup
    <3>1. ReplyLeft = 10 /\ AnswerLeft' = AnswerLeft /\ ReplyLeft' = 6
      BY <2>10 DEF Setup, ReplyLeft, AnswerLeft
    <3>2. QED
      BY <2>1, <3>1, ReplyFalls
  <2>11. QED
    BY <1>3, <2>3, <2>4, <2>5, <2>6, <2>7, <2>8, <2>9, <2>10 DEF Consumer
<1>4. QED
  BY <1>2, <1>3

\* Creating the worker takes the first of its steps.
LEMMA SetupAdvances ==
  ASSUME TInv, TInv', Handover, Setup, cpc' = "poll"
  PROVE  WorkLeft' < WorkLeft
<1>1. WorkAt(Len(Pipeline) - pos) /\ (WorkAt(Len(Pipeline) - pos))'
  <2>1. (TInv => WorkAt(Len(Pipeline) - pos))'
    BY WorkByPlace, PTL
  <2>2. QED
    BY <2>1, WorkByPlace
<1>2. wpc = "none" /\ wpc' = "start" /\ pos' = pos
  BY DEF Setup, Handover
<1>3. QED
  BY <1>1, <1>2 DEF WorkAt

\* The generator is suspended only where it yields.
LEMMA YieldsInvariant == Spec => []YieldsWhereItMay
<1>1. Init => YieldsWhereItMay
  BY DEF Init, YieldsWhereItMay
<1>2. YieldsWhereItMay /\ [Next]_vars => YieldsWhereItMay'
  BY StepYields
<1>3. QED
  BY <1>1, <1>2, PTL DEF Spec

\* A step of the stream brings the worker nearer its end, or else the reply, or else
\* it is the poll of a living worker.
Advances ==
  \/ WorkLeft' < WorkLeft
  \/ WorkLeft' = WorkLeft /\ TellLeft' < TellLeft
  \/ WorkLeft' = WorkLeft /\ CheckAlive /\ wpc # "dead"

\* Every step of the stream is one of these.
LEMMA StepAdvances ==
  ASSUME TInv, TInv', YieldsWhereItMay, Handover, Next
  PROVE  Advances
<1>1. CASE Worker
  BY <1>1, WorkerAdvances DEF Advances
<1>2. CASE Setup /\ cpc' = "poll"
  BY <1>2, SetupAdvances DEF Advances
<1>3. CASE Consumer /\ ~(Setup /\ cpc' = "poll")
  <2>1. WorkLeft' = WorkLeft
    BY <1>3 DEF Consumer, First, Setup, Get, Timeout, CheckAlive, Persist, RouterCatch, Emit,
                Resume, Close, workerVars, WorkLeft, Decided
  <2>2. CASE ~(CheckAlive /\ wpc # "dead")
    <3>1. cpc' # "poll" \/ cpc # "setup"
      BY <1>3 DEF Consumer, First, Setup, Get, Timeout, CheckAlive, Persist, RouterCatch, Emit,
                  Resume, Close
    <3>2. QED
      BY <1>3, <2>1, <2>2, <3>1, ConsumerTells DEF Advances
  <2>3. QED
    BY <2>1, <2>2 DEF Advances
<1>4. CASE Disconnect
  <2>1. UNCHANGED <<consumerVars, queue, workerVars>> /\ ClientLeft = 1 /\ ClientLeft' = 0
    BY <1>4 DEF Disconnect, ClientLeft
  <2>2. WorkLeft' = WorkLeft /\ ReplyLeft' = ReplyLeft /\ AnswerLeft' = AnswerLeft
    BY <2>1 DEF consumerVars, workerVars, WorkLeft, Decided, ReplyLeft, AnswerLeft
  <2>3. QED
    BY <2>1, <2>2, TellLeftNat DEF TellLeft, Advances
<1>5. QED
  BY <1>1, <1>2, <1>3, <1>4 DEF Next

\* Whatever fails and whoever leaves, a stream cannot go on for ever except by polling
\* a worker that does not get on: every other step brings the end of the worker nearer,
\* or that of the reply while the worker stays where it is.  What remains of StreamEnds
\* is that both threads go on.
THEOREM OnlyPollingRepeats ==
  Spec => [](WorkLeft \in Nat /\ TellLeft \in Nat) /\ [][Advances]_vars
<1>1. TInv => WorkLeft \in Nat /\ TellLeft \in Nat
  BY WorkByPlace, TellLeftNat DEF WorkAt
<1>2. TInv /\ TInv' /\ YieldsWhereItMay /\ Handover /\ [Next]_vars => [Advances]_vars
  BY StepAdvances
<1>3. QED
  BY <1>1, <1>2, TypeInvariant, HandoverInvariant, YieldsInvariant, PTL DEF Spec

=============================================================================
