---------------------------- MODULE MCChatStream ----------------------------
(* Constants for model checking ChatStream: the graph RuntimeFactory builds, *)
(* and one without the optional nodes, as AgentGraph.build allows.           *)
EXTENDS ChatStream

FullPipeline ==
  <<"scope_check", "planner", "clarifier", "tool_executor", "answer">>

ToolPipeline == <<"planner", "clarifier", "tool_executor">>

=============================================================================
