----------------------------- MODULE ChatSession -----------------------------
(***************************************************************************)
(* The requests of one chat session and the prompt history each of them    *)
(* gives to the agent.                                                     *)
(*                                                                         *)
(* A request reads the history from the stored messages, stores the user's *)
(* prompt, runs the agent and stores its reply.  Messages are read back in *)
(* the order of their created_at, which is taken before the row is         *)
(* written: log has one entry per stamp taken, in that order, and stored   *)
(* says whether the row is there.  Requests overlap when a client posts    *)
(* twice, or leaves a stream whose reply is still to be stored.            *)
(*                                                                         *)
(* Of a text it matters only whether it is blank, and of a reply whether   *)
(* it asks for clarification: what happens inside a run is in ChatStream   *)
(* and AgentRun.                                                           *)
(***************************************************************************)
EXTENDS Naturals, Sequences, FiniteSets

CONSTANTS
  Requests,   \* the requests posted to the session
  MaxOpen,    \* how many of them a client has open at a time
  MayLeave,   \* whether a client may leave before the reply is stored
  MayBeBlank  \* whether prompts, and replies other than questions, may be blank

ASSUME ClientAssumption ==
  MaxOpen \in Nat \ {0} /\ MayLeave \in BOOLEAN /\ MayBeBlank \in BOOLEAN

VARIABLES
  session,  \* "open" or "deleted"
  log,      \* the messages of the session by created_at
  pc,       \* where each request is
  left,     \* requests whose client has gone
  history   \* the prompt history each request has read

vars == <<session, log, pc, left, history>>

Kinds == {"prompt", "clarification", "reply"}

Message(r, kind, blank) ==
  [req |-> r, kind |-> kind, blank |-> blank, stored |-> FALSE]

Places == {"idle", "prompt", "storing_prompt", "running", "storing_reply", "over"}

\* The rows a query finds, by their place in the log.
Stored == {i \in DOMAIN log : log[i].stored}

\* Mutant of Turn: the prompt stays pending when a reply has been met.
TurnKeepsPending(acc, m) ==
  IF m.blank THEN acc
  ELSE IF m.kind = "prompt" THEN [acc EXCEPT !.pending = <<m.req>>]
  ELSE IF acc.pending = <<>> THEN acc
  ELSE IF m.kind = "clarification"
  THEN [acc EXCEPT !.chain = @ \o acc.pending]
  ELSE [chain |-> <<>>, pending |-> <<>>]

\* Mutant of Turn: an answer does not close the chain.
TurnKeepsChain(acc, m) ==
  IF m.blank THEN acc
  ELSE IF m.kind = "prompt" THEN [acc EXCEPT !.pending = <<m.req>>]
  ELSE IF acc.pending = <<>> THEN acc
  ELSE IF m.kind = "clarification"
  THEN [chain |-> acc.chain \o acc.pending, pending |-> <<>>]
  ELSE [acc EXCEPT !.pending = <<>>]

\* One message of the loop: blank ones are skipped, a reply counts for the
\* last prompt before it, if there is one.
Turn(acc, m) ==
  IF m.blank THEN acc
  ELSE IF m.kind = "prompt" THEN [acc EXCEPT !.pending = <<m.req>>]
  ELSE IF acc.pending = <<>> THEN acc
  ELSE IF m.kind = "clarification"
  THEN [chain |-> acc.chain \o acc.pending, pending |-> <<>>]
  ELSE [chain |-> <<>>, pending |-> <<>>]

\* _load_prompt_history; prompts are named by their requests.
PromptHistory ==
  LET read[n \in 0..Len(log)] ==
        IF n = 0 THEN [chain |-> <<>>, pending |-> <<>>]
        ELSE IF n \in Stored THEN Turn(read[n - 1], log[n])
        ELSE read[n - 1]
  IN read[Len(log)].chain

Open == {r \in Requests : pc[r] \notin {"idle", "over"}} \ left

Blanks == IF MayBeBlank THEN BOOLEAN ELSE {FALSE}

Init ==
  /\ session = "open"
  /\ log = <<>>
  /\ pc = [r \in Requests |-> "idle"]
  /\ left = {}
  /\ history = [r \in Requests |-> <<>>]

-----------------------------------------------------------------------------

Go(r, place) == pc' = [pc EXCEPT ![r] = place]

\* The session is looked up and the history read; without a session: 404.
Post(r) ==
  /\ pc[r] = "idle"
  /\ Cardinality(Open) < MaxOpen
  /\ IF session = "open"
     THEN /\ history' = [history EXCEPT ![r] = PromptHistory]
          /\ Go(r, "prompt")
     ELSE /\ Go(r, "over")
          /\ UNCHANGED history
  /\ UNCHANGED <<session, log, left>>

\* datetime.now() for the user's message ...
StampPrompt(r) ==
  /\ pc[r] = "prompt"
  /\ \E b \in Blanks : log' = Append(log, Message(r, "prompt", b))
  /\ Go(r, "storing_prompt")
  /\ UNCHANGED <<session, left, history>>

Store(r, kinds) ==
  log' = [i \in DOMAIN log |->
            IF log[i].req = r /\ log[i].kind \in kinds
            THEN [log[i] EXCEPT !.stored = TRUE] ELSE log[i]]

\* ... and its row, which needs the session; the write may fail.
StorePrompt(r) ==
  /\ pc[r] = "storing_prompt"
  /\ \/ /\ session = "open"
        /\ Store(r, {"prompt"})
        /\ Go(r, "running")
     \/ /\ Go(r, "over")
        /\ UNCHANGED log
  /\ UNCHANGED <<session, left, history>>

\* The agent has run and asks or answers ...
StampReply(r) ==
  /\ pc[r] = "running"
  /\ \E m \in {Message(r, "clarification", FALSE)}
              \cup {Message(r, "reply", b) : b \in Blanks} :
       log' = Append(log, m)
  /\ Go(r, "storing_reply")
  /\ UNCHANGED <<session, left, history>>

\* ... or there is no reply: an unstreamed run raises, a stream is left or
\* loses its outcome.
NoReply(r) ==
  /\ pc[r] = "running"
  /\ Go(r, "over")
  /\ UNCHANGED <<session, log, left, history>>

StoreReply(r) ==
  /\ pc[r] = "storing_reply"
  /\ \/ Store(r, {"clarification", "reply"})
     \/ UNCHANGED log
  /\ Go(r, "over")
  /\ UNCHANGED <<session, left, history>>

\* The client goes away; the request goes on until it notices.
Leave(r) ==
  /\ MayLeave
  /\ r \in Open
  /\ left' = left \cup {r}
  /\ UNCHANGED <<session, log, pc, history>>

\* Only a session without messages can be deleted: they refer to it.
Delete ==
  /\ session = "open"
  /\ Stored = {}
  /\ session' = "deleted"
  /\ UNCHANGED <<log, pc, left, history>>

Request(r) == \/ Post(r) \/ StampPrompt(r) \/ StorePrompt(r) \/ StampReply(r)
              \/ NoReply(r) \/ StoreReply(r) \/ Leave(r)

Next == (\E r \in Requests : Request(r)) \/ Delete

Spec == Init /\ [][Next]_vars

-----------------------------------------------------------------------------

\* The clarifications asked since the last reply that was none.
Asked ==
  {i \in Stored : /\ log[i].kind = "clarification"
                 /\ \A j \in Stored : j > i => log[j].kind # "reply"}

\* _load_prompt_history: one request at a time, the history is the open chain: each
\* prompt in it got a question itself, none is missing, they come in order, and a turn
\* without a reply breaks nothing.
HistoryIsOpenChain ==
  /\ Len(PromptHistory) = Cardinality(Asked)
  /\ \A i \in Asked :
       PromptHistory[Cardinality({j \in Asked : j <= i})] = log[i].req

\* Where in the session the prompt of a request stands.
Position(r) == CHOOSE i \in DOMAIN log : log[i].req = r /\ log[i].kind = "prompt"

\* _load_prompt_history: whatever overlaps, no prompt is given to the agent twice, and
\* the prompts come in the order of their stamps, before the request's own.
HistoryInOrder ==
  \A r \in Requests :
    /\ \A i, j \in DOMAIN history[r] :
         i < j => Position(history[r][i]) < Position(history[r][j])
    /\ \A i \in DOMAIN history[r], j \in DOMAIN log :
         log[j].req = r => Position(history[r][i]) < j

=============================================================================
