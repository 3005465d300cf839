---------------------------- MODULE MCChatSession ----------------------------
(* Constants for model checking ChatSession: requests are interchangeable.   *)
EXTENDS ChatSession, TLC

Symmetry == Permutations(Requests)

=============================================================================
