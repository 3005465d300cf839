------------------------------ MODULE ChatEvents ------------------------------
(***************************************************************************)
(* The events of a chat stream and the order in which a client meets them. *)
(* ChatStream sends them and is checked against the order; WebChat takes   *)
(* the order as all it knows of the server.                                *)
(***************************************************************************)
EXTENDS AgentNodes

Started   == Event("agent_run", "started")
Completed == Event("agent_run", "completed")
Clarified == Event("agent_run", "clarification_required")
Failed    == Event("agent_run", "failed")
ErrorEvent == Event("error", "error")
ToolLogs  == Event("tool", "logs")

RunEnds == {Completed, Clarified, Failed}

ProgressEvents == StageEvents \cup {ToolLogs, Delta}
ClientEvents == ProgressEvents \cup RunEnds \cup {Started, ErrorEvent}

AnswerStarted   == Event("answer", "started")
AnswerCompleted == Event("answer", "completed")
EarlyStages == {e \in StageEvents : e.stage # "answer"}
ClarifierEvents == {e \in StageEvents : e.stage = "clarifier"}

\* What a stream is at: text before the answer is a question, and an error is
\* told in two events.
Transitions ==
  {<<"none", Started, "open">>,
   <<"open", ToolLogs, "open">>,
   <<"open", Delta, "asking">>,
   <<"asking", Delta, "asking">>,
   <<"asking", Clarified, "over">>,
   <<"open", AnswerStarted, "answering">>,
   <<"answering", Delta, "answering">>,
   <<"answering", AnswerCompleted, "answered">>,
   <<"answered", Completed, "over">>,
   <<"failing", Failed, "over">>}
  \cup ({"open"} \X EarlyStages \X {"open"})
  \cup ({"asking"} \X ClarifierEvents \X {"asking"})
  \cup ({"open", "asking", "answering", "answered"} \X {ErrorEvent} \X {"failing"})

Phases == {t[1] : t \in Transitions} \cup {t[3] : t \in Transitions}

MayFollow(phase) == {t[2] : t \in {u \in Transitions : u[1] = phase}}

Advance(phase, event) ==
  IF event \in MayFollow(phase)
  THEN (CHOOSE t \in Transitions : t[1] = phase /\ t[2] = event)[3]
  ELSE "out_of_order"

PhaseAfter(events) ==
  LET phase[n \in 0..Len(events)] ==
        IF n = 0 THEN "none" ELSE Advance(phase[n - 1], events[n])
  IN phase[Len(events)]

=============================================================================
