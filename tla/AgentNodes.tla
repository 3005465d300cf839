------------------------------ MODULE AgentNodes ------------------------------
(***************************************************************************)
(* What the nodes of the agent graph do to the agent state, and what the   *)
(* chat service turns a state into.  The data of a state is reduced to     *)
(* what later nodes and the stream decisions look at: whether there is a   *)
(* prompt, a retrieved context, a plan (and whether it has steps), tool    *)
(* results, an answer, which event the last node left and which error.     *)
(*                                                                         *)
(* A node is a relation: NodeOutput(n, s) is the set of states node n may  *)
(* return on s, MayRaise(n, s) whether it may raise instead (a provider, a *)
(* tool call or a recorder write may always fail when it is made).         *)
(***************************************************************************)
EXTENDS Naturals, Sequences

Stages == {"scope_check", "planner", "clarifier", "tool_executor", "answer"}

\* An AgentEvent, a stream event and a queue item all have the same two-field
\* shape: what they are about and what they say about it.
Event(stage, what) == [stage |-> stage, what |-> what]

NoEvent == Event("none", "none")

AgentEvents ==
  {Event("scope_check", "completed"), Event("scope_check", "rejected"),
   Event("planner", "completed"),
   Event("clarifier", "completed"), Event("clarifier", "clarification_required"),
   Event("tool_executor", "completed"), Event("answer", "completed")}

Errors == {"out_of_scope", "planner_error", "clarification_required",
           "recursion_limit"}

AgentState == [prompt  : BOOLEAN,
               rag     : BOOLEAN,
               plan    : {"none", "empty", "steps"},
               results : BOOLEAN,
               answer  : BOOLEAN,
               event   : AgentEvents \cup {NoEvent},
               error   : Errors \cup {"none"}]

\* The state a run is started with; the client may send an empty message.
InputState(prompt) ==
  [prompt |-> prompt, rag |-> FALSE, plan |-> "none", results |-> FALSE,
   answer |-> FALSE, event |-> NoEvent, error |-> "none"]

-----------------------------------------------------------------------------
(* The nodes.  Each passes a state with an error through unchanged.        *)

\* Retrieval is optional and its failures are swallowed: rag may stay unset.
\* A rejection merges into the state before retrieval.
ScopeCheck(s) ==
  IF s.error # "none" \/ ~s.prompt
  THEN {s}
  ELSE {[s EXCEPT !.answer = TRUE,
                  !.event = Event("scope_check", "rejected"),
                  !.error = "out_of_scope"]}
       \cup {[s EXCEPT !.rag = r,
                       !.event = Event("scope_check", "completed")] :
               r \in {s.rag, TRUE}}

\* Without a prompt the planner falls back to the first tool, if there is one.
Planner(s) ==
  IF s.error # "none"
  THEN {s}
  ELSE IF s.prompt
  THEN {[s EXCEPT !.rag = r, !.plan = p,
                  !.event = Event("planner", "completed")] :
          r \in {s.rag, TRUE}, p \in {"empty", "steps"}}
  ELSE {[s EXCEPT !.error = "planner_error"],
        [s EXCEPT !.plan = "steps", !.event = Event("planner", "completed")]}

\* An empty plan leaves the state, and the planner's event in it, as it is.
Clarifier(s) ==
  IF s.error # "none" \/ s.plan # "steps"
  THEN {s}
  ELSE {[s EXCEPT !.event = Event("clarifier", "completed")],
        [s EXCEPT !.event = Event("clarifier", "clarification_required"),
                  !.error = "clarification_required"]}

\* One result per step: an empty plan gives an empty (falsy) result list.
ToolExecutor(s) ==
  IF s.error # "none"
  THEN {s}
  ELSE IF s.plan = "none"
  THEN {}
  ELSE {[s EXCEPT !.results = (s.plan = "steps"),
                  !.event = Event("tool_executor", "completed")]}

CanAnswer(s) == s.prompt /\ (s.results \/ s.rag)

Answer(s) ==
  IF s.error # "none"
  THEN {s}
  ELSE IF CanAnswer(s)
  THEN {[s EXCEPT !.answer = TRUE, !.event = Event("answer", "completed")]}
  ELSE {}

NodeOutput(n, s) ==
  CASE n = "scope_check"   -> ScopeCheck(s)
    [] n = "planner"       -> Planner(s)
    [] n = "clarifier"     -> Clarifier(s)
    [] n = "tool_executor" -> ToolExecutor(s)
    [] n = "answer"        -> Answer(s)

\* The first node lists the tools (an MCP call); the others raise only from
\* the LLM, tool and recorder calls they make or from a missing input.
MayRaise(n, s, first) ==
  \/ first
  \/ /\ s.error = "none"
     /\ \/ n \in {"scope_check", "planner"} /\ s.prompt
        \/ n = "clarifier" /\ s.plan = "steps"
        \/ n = "tool_executor" /\ s.plan # "empty"
        \/ n = "answer"

\* Only the answer and the clarification question are streamed to the user.
StreamsText(n, s) ==
  /\ s.error = "none"
  /\ \/ n = "clarifier" /\ s.plan = "steps"
     \/ n = "answer" /\ CanAnswer(s)

-----------------------------------------------------------------------------
(* stream_decisions: from states to stream events.                         *)

Delta == Event("assistant", "delta")

\* The stages with a ".started" event; the tracker is the set already announced.
TrackedStages == {"scope_check", "planner", "clarifier", "answer"}

StageEvents == {Event(s, "started") : s \in TrackedStages}
               \cup {e \in AgentEvents : e.stage \in TrackedStages}

\* Mutant of LlmDeltaEvents: the first delta of the answer is not announced.
DeltaUnannounced(n, tracker) == <<Delta>>

LlmDeltaEvents(n, tracker) ==
  IF n = "answer" /\ "answer" \notin tracker
  THEN <<Event("answer", "started"), Delta>>
  ELSE <<Delta>>

\* Mutant of RuntimeEvents: stages are announced without looking who did before.
EventsAnnouncedAgain(e, tracker) ==
  IF e.stage \notin TrackedStages
  THEN <<>>
  ELSE <<Event(e.stage, "started"), e>>

RuntimeEvents(e, tracker) ==
  IF e.stage \notin TrackedStages
  THEN <<>>
  ELSE IF e.stage \in tracker
  THEN <<e>>
  ELSE <<Event(e.stage, "started"), e>>

\* Mutant of Announced: every stage is tracked, also those without events.
AllAnnounced(e, tracker) == tracker \cup {e.stage}

Announced(e, tracker) ==
  IF e.stage \in TrackedStages THEN tracker \cup {e.stage} ELSE tracker

\* The outcome a state decides, if any: an error first, an answer second.
OutcomeOf(s) ==
  IF s.error = "clarification_required" THEN "clarification"
  ELSE IF s.error # "none" THEN "error"
  ELSE IF s.answer THEN "answer"
  ELSE "none"

Outcomes == {"answer", "clarification", "error"}

=============================================================================
