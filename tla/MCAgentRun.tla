------------------------------ MODULE MCAgentRun ------------------------------
(* Constants for model checking AgentRun: costs that are unknown, that fit  *)
(* a budget of three together, only one by one, or not at all.              *)
EXTENDS AgentRun

MCCosts == {0, 1, 2, 5}

=============================================================================
