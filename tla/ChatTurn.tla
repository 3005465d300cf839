------------------------------- MODULE ChatTurn -------------------------------
(***************************************************************************)
(* What a streamed chat request promises, whatever threads and queues it   *)
(* is made of: at most one assistant message is stored, at most one        *)
(* outcome is told to the client, and the outcome that is told agrees with *)
(* the message that was stored before it.  It does not promise that either *)
(* happens: a client that leaves is told nothing.                          *)
(***************************************************************************)

VARIABLES
  reply,  \* the assistant message of the turn: its outcome, or "none"
  told,   \* the outcome the client was told, or "none"
  over    \* the response has ended

vars == <<reply, told, over>>

Init ==
  /\ reply = "none"
  /\ told = "none"
  /\ over = FALSE

Store(outcome) ==
  /\ ~over
  /\ reply = "none" /\ told = "none"
  /\ reply' = outcome
  /\ UNCHANGED <<told, over>>

\* A failure may be told without a stored message: storing it may have failed.
Tell(outcome) ==
  /\ ~over
  /\ told = "none"
  /\ \/ reply = outcome
     \/ outcome = "error" /\ reply = "none"
  /\ told' = outcome
  /\ UNCHANGED <<reply, over>>

Finish ==
  /\ ~over
  /\ over' = TRUE
  /\ UNCHANGED <<reply, told>>

Next ==
  \/ \E outcome \in {"answer", "clarification", "error"} :
       Store(outcome) \/ Tell(outcome)
  \/ Finish

Spec == Init /\ [][Next]_vars /\ WF_vars(Finish)

=============================================================================
