------------------------------- MODULE WebChat -------------------------------
(***************************************************************************)
(* The web client's side of a chat: onSubmit of App.tsx, streamChat of     *)
(* sse.ts with its retries, and the transcript they build.                 *)
(*                                                                         *)
(* The form is disabled while a message is being answered, so one message  *)
(* is open at a time; the user may select another session meanwhile.  A    *)
(* state update of React takes effect in order but is computed at the next *)
(* render, or at once when no other is waiting.  For the transcript this   *)
(* makes no difference, since it is only updated as a function of itself;  *)
(* pendingRunLogsRef is written by such a function and read by handlers,   *)
(* so a handler may see it before the write.                               *)
(*                                                                         *)
(* The server is the order of events ChatEvents gives, which ChatStream    *)
(* keeps (SentInOrder), cut anywhere.  A text is partial, final, or wrong; *)
(* the logs of a run are one entry.  A run is named by the message and the *)
(* attempt that started it.                                                *)
(***************************************************************************)
EXTENDS ChatEvents, SequencesExt, FiniteSetsExt

CONSTANTS
  Sessions,   \* the sessions of the user
  MaxRetries, \* how often a post is repeated, options.maxRetries
  MaxTurns    \* bound of the model: messages submitted

ASSUME WebAssumption ==
  Sessions # {} /\ MaxRetries \in Nat /\ MaxTurns \in Nat \ {0}

VARIABLES
  view,       \* activeSessionId
  home,       \* the session the open message was posted to
  turn,       \* messages submitted so far; the open one, if any, is the last
  pc,         \* what streamChat waits for; "idle" when nothing is loading
  attempt,    \* retries made for the open message
  accepted,   \* the server has stored the message of this attempt
  prompts,    \* how often it has stored the open message
  phase,      \* how far the client has followed this attempt's events
  terminal,   \* terminalReceived
  told,       \* history: the end of the run the client heard of
  mute,       \* history: it heard of a failure in a blank text
  stream,     \* streamMessages
  pending,    \* pendingRunLogs: the runs whose logs wait for their answer
  pendingRef, \* pendingRunLogsRef.current
  unrendered, \* state updates wait for a render
  activeRun,  \* activeRunId
  live,       \* whether a live event is shown
  error,      \* whether an error is shown
  logged,     \* history: logs were "heard", and "rendered" before the end
  switched    \* history: the messages a session was selected during

post   == <<home, turn, pc, attempt, accepted, prompts, phase, terminal, told,
            mute>>
screen == <<stream, pending, pendingRef, unrendered, activeRun, live, error>>
vars   == <<view, post, screen, logged, switched>>

NoRun == [turn |-> 0, attempt |-> 0]
Runs == {NoRun} \cup [turn : 1..MaxTurns, attempt : 0..MaxRetries]
Run == [turn |-> turn, attempt |-> attempt]

Kinds == {"user", "question", "answer", "log"}
Texts == {"partial", "final", "doubled"}

\* A message of the transcript: runs are those whose text it shows.
Items == [turn : 1..MaxTurns, kind : Kinds, text : Texts, runs : SUBSET Runs,
          session : Sessions]

Item(kind, text, runs) ==
  [turn |-> turn, kind |-> kind, text |-> text, runs |-> runs, session |-> home]

Init ==
  /\ view \in Sessions
  /\ home = view
  /\ turn = 0
  /\ pc = "idle"
  /\ attempt = 0
  /\ accepted = FALSE
  /\ prompts = 0
  /\ phase = "none"
  /\ terminal = FALSE
  /\ told = NoEvent
  /\ mute = FALSE
  /\ stream = <<>>
  /\ pending = {}
  /\ pendingRef = {}
  /\ unrendered = FALSE
  /\ activeRun = NoRun
  /\ live = FALSE
  /\ error = FALSE
  /\ logged = "no"
  /\ switched = {}

-----------------------------------------------------------------------------
(* The transcript.                                                         *)

\* temp-assistant-<stream>-<source>: the bubble of this message, 0 if none.
Bubble(s, kind) == SelectInSeq(s, LAMBDA m : m.turn = turn /\ m.kind = kind)

Shows(s, run) == \E i \in 1..Len(s) : s[i].kind = "log" /\ run \in s[i].runs

\* insertLogsAfterAssistantMessage
WithLogs(s, runs) ==
  IF Bubble(s, "answer") = 0 \/ runs = {} \/ \E r \in runs : Shows(s, r) THEN s
  ELSE InsertAt(s, Bubble(s, "answer") + 1, Item("log", "final", runs))

\* A delta is appended to the bubble of its source.
WithDelta(s, kind) ==
  LET i == Bubble(s, kind) IN
  IF i = 0 THEN Append(s, Item(kind, "partial", {Run}))
  ELSE [s EXCEPT ![i].text = IF @ = "partial" THEN @ ELSE "doubled",
                 ![i].runs = @ \cup {Run}]

\* Mutant of WithAnswer: the final text is appended to what was streamed.
WithAnswerAppended(s) ==
  LET i == Bubble(s, "answer") IN
  IF i = 0 THEN Append(s, Item("answer", "final", {Run}))
  ELSE [s EXCEPT ![i].text = "doubled", ![i].runs = @ \cup {Run}]

\* The final text replaces what was streamed.
WithAnswer(s) ==
  LET i == Bubble(s, "answer") IN
  IF i = 0 THEN Append(s, Item("answer", "final", {Run}))
  ELSE [s EXCEPT ![i].text = "final", ![i].runs = {Run}]

-----------------------------------------------------------------------------
(* The user and the browser.                                               *)

Submit ==
  /\ pc = "idle"
  /\ turn < MaxTurns
  /\ turn' = turn + 1
  /\ home' = view
  /\ pc' = "posting"
  /\ attempt' = 0
  /\ accepted' = FALSE
  /\ prompts' = 0
  /\ phase' = "none"
  /\ terminal' = FALSE
  /\ told' = NoEvent
  /\ mute' = FALSE
  /\ stream' = Append(stream, [turn |-> turn + 1, kind |-> "user",
                               text |-> "final", runs |-> {}, session |-> view])
  /\ live' = FALSE
  /\ error' = FALSE
  /\ unrendered' = TRUE
  /\ logged' = "no"
  /\ UNCHANGED <<view, pending, pendingRef, activeRun, switched>>

\* Mutant of Select: the transcript of the session before stays.
SelectKeepingStream(s) ==
  /\ s # view
  /\ view' = s
  /\ pending' = {} /\ pendingRef' = {}
  /\ activeRun' = NoRun /\ live' = FALSE
  /\ unrendered' = FALSE
  /\ switched' = IF pc = "idle" THEN switched ELSE switched \cup {turn}
  /\ UNCHANGED <<post, stream, error, logged>>

\* The effect of a new activeSessionId clears what belongs to the one before;
\* a stream that is open goes on.
Select(s) ==
  /\ s # view
  /\ view' = s
  /\ stream' = <<>>
  /\ pending' = {} /\ pendingRef' = {}
  /\ activeRun' = NoRun /\ live' = FALSE
  /\ unrendered' = FALSE
  /\ switched' = IF pc = "idle" THEN switched ELSE switched \cup {turn}
  /\ UNCHANGED <<post, error, logged>>

\* React computes the waiting updates, among them those that write the ref.
Render ==
  /\ unrendered
  /\ unrendered' = FALSE
  /\ pendingRef' = pending
  /\ logged' = IF logged = "heard" /\ told = NoEvent THEN "rendered" ELSE logged
  /\ UNCHANGED <<view, post, stream, pending, activeRun, live, error, switched>>

-----------------------------------------------------------------------------
(* One attempt: streamChatAttempt.                                         *)

\* The server stores the message and starts a run, whether or not its
\* response arrives.
Accept ==
  /\ pc = "posting"
  /\ ~accepted
  /\ accepted' = TRUE
  /\ prompts' = prompts + 1
  /\ UNCHANGED <<view, home, turn, pc, attempt, phase, terminal, told, mute,
                 screen, logged, switched>>

Respond ==
  /\ pc = "posting"
  /\ accepted
  /\ pc' = "reading"
  /\ UNCHANGED <<view, home, turn, attempt, accepted, prompts, phase, terminal,
                 told, mute, screen, logged, switched>>

\* The updates of a handler are computed at the next render; one that meets
\* no other may be computed at once.
Update(runs) ==
  /\ pending' = runs
  /\ unrendered' = TRUE
  /\ pendingRef' \in (IF unrendered THEN {pendingRef} ELSE {pendingRef, runs})

NoUpdate == UNCHANGED pending /\ UNCHANGED pendingRef /\ unrendered' = TRUE

\* The logs waiting for this run are shown if there is a bubble for them, and
\* forgotten.
ShowLogs(s) ==
  IF Run \in pendingRef
  THEN stream' = WithLogs(s, {Run}) /\ Update(pending \ {Run})
  ELSE stream' = s /\ NoUpdate

\* The handler onSubmit gives to streamChat, by the event's type.
OnDelta ==
  /\ stream' = WithDelta(stream, IF phase' = "asking" THEN "question" ELSE "answer")
  /\ NoUpdate
  /\ UNCHANGED <<activeRun, live, error, terminal, told, mute, logged>>

OnLogs ==
  /\ stream' = WithLogs(stream, {Run})
  /\ Update(pending \cup {Run})
  /\ logged' = "heard"
  /\ UNCHANGED <<activeRun, live, error, terminal, told, mute>>

OnStage(event) ==
  /\ activeRun' = IF event = Started THEN Run ELSE activeRun
  /\ IF event.what \in {"started", "completed"}
     THEN live' = TRUE /\ NoUpdate
     ELSE UNCHANGED <<live, pending, pendingRef, unrendered>>
  /\ UNCHANGED <<stream, error, terminal, told, mute, logged>>

\* A blank final message is passed over.
OnAnswer ==
  /\ live' = TRUE
  /\ \/ ShowLogs(WithAnswer(stream))
     \/ UNCHANGED stream /\ NoUpdate
  /\ UNCHANGED <<activeRun, error, terminal, told, mute, logged>>

\* Mutant of OnCompleted: logs are shown with the answer only.
OnCompletedWithoutLogs(event) ==
  /\ UNCHANGED stream /\ NoUpdate
  /\ live' = FALSE
  /\ activeRun' = NoRun
  /\ terminal' = TRUE
  /\ told' = event
  /\ UNCHANGED <<error, mute, logged>>

OnCompleted(event) ==
  /\ ShowLogs(stream)
  /\ live' = FALSE
  /\ activeRun' = NoRun
  /\ terminal' = TRUE
  /\ told' = event
  /\ UNCHANGED <<error, mute, logged>>

\* A blank text is passed over.
OnFailure(event) ==
  /\ \E blank \in BOOLEAN :
       error' = (error \/ ~blank) /\ mute' = (mute \/ blank)
  /\ live' = FALSE
  /\ activeRun' = NoRun
  /\ terminal' = TRUE
  /\ told' = IF event = Failed THEN event ELSE told
  /\ NoUpdate
  /\ UNCHANGED <<stream, logged>>

OnEvent(event) ==
  IF event = Delta THEN OnDelta
  ELSE IF event = ToolLogs THEN OnLogs
  ELSE IF event = AnswerCompleted THEN OnAnswer
  ELSE IF event \in {Completed, Clarified} THEN OnCompleted(event)
  ELSE IF event \in {Failed, ErrorEvent} THEN OnFailure(event)
  ELSE OnStage(event)

Deliver(event) ==
  /\ pc = "reading"
  /\ event \in MayFollow(phase)
  /\ phase' = Advance(phase, event)
  /\ OnEvent(event)
  /\ UNCHANGED <<view, home, turn, pc, attempt, accepted, prompts, switched>>

-----------------------------------------------------------------------------
(* The end of an attempt: streamChat and the rest of onSubmit.             *)

Settle(failed) ==
  /\ pc' = "idle"
  /\ unrendered' = TRUE
  /\ IF failed
     THEN error' = TRUE /\ live' = FALSE /\ activeRun' = NoRun
     ELSE UNCHANGED <<error, live, activeRun>>
  /\ UNCHANGED attempt

\* Mutant of Retriable: an attempt is repeated whatever was heard of it.
RetriableAnyway(again) == again /\ attempt < MaxRetries

\* canRetryByError, canRetryByProgress and canRetryByAttempt
Retriable(again) == again /\ phase = "none" /\ attempt < MaxRetries

\* Mutant of Fail: the attempts are not counted.
FailUncounted(again) ==
  /\ IF Retriable(again)
     THEN /\ pc' = "delay"
          /\ live' = TRUE
          /\ unrendered' = TRUE
          /\ UNCHANGED <<attempt, error, activeRun>>
     ELSE Settle(TRUE)
  /\ UNCHANGED <<view, home, turn, accepted, prompts, phase, terminal, told,
                 mute, stream, pending, pendingRef, logged, switched>>

\* The attempt is repeated after a delay, or its error is shown.
Fail(again) ==
  /\ IF Retriable(again)
     THEN /\ pc' = "delay"
          /\ attempt' = attempt + 1
          /\ live' = TRUE
          /\ unrendered' = TRUE
          /\ UNCHANGED <<error, activeRun>>
     ELSE Settle(TRUE)
  /\ UNCHANGED <<view, home, turn, accepted, prompts, phase, terminal, told,
                 mute, stream, pending, pendingRef, logged, switched>>

\* The post fails in the network, is answered with 5xx, 408 or 429, or with
\* another status; the server refuses only what it has not accepted.
FailPost ==
  /\ pc = "posting"
  /\ \/ Fail(TRUE)
     \/ ~accepted /\ Fail(FALSE)

\* The connection breaks.
Break == pc = "reading" /\ Fail(TRUE)

DelayOver ==
  /\ pc = "delay"
  /\ pc' = "posting"
  /\ accepted' = FALSE
  /\ phase' = "none"
  /\ terminal' = FALSE
  /\ UNCHANGED <<view, home, turn, attempt, prompts, told, mute, screen,
                 logged, switched>>

\* Mutant of Close: a stream that just ends is taken for a success.
CloseContent ==
  /\ pc = "reading"
  /\ phase \notin {"none", "failing"}
  /\ Settle(FALSE)
  /\ UNCHANGED <<view, home, turn, accepted, prompts, phase, terminal, told,
                 mute, stream, pending, pendingRef, logged, switched>>

\* The response ends, possibly without having told how the run ended.
Close ==
  /\ pc = "reading"
  /\ phase \notin {"none", "failing"}
  /\ Settle(~terminal)
  /\ UNCHANGED <<view, home, turn, accepted, prompts, phase, terminal, told,
                 mute, stream, pending, pendingRef, logged, switched>>

-----------------------------------------------------------------------------

Next ==
  \/ Submit \/ Render \/ Accept \/ Respond \/ FailPost \/ Break \/ DelayOver \/ Close
  \/ \E s \in Sessions : Select(s)
  \/ \E e \in ClientEvents : Deliver(e)

Spec == Init /\ [][Next]_vars

\* A fetch is answered or fails, the delay passes, and a response does not
\* stay in one phase forever (ChatStream's StreamEnds).
Moves == Close \/ Break \/ \E e \in ClientEvents : Deliver(e) /\ phase' # phase

Fairness ==
  /\ WF_vars(Accept \/ Respond \/ FailPost)
  /\ WF_vars(DelayOver)
  /\ WF_vars(Moves)

FairSpec == Spec /\ Fairness

-----------------------------------------------------------------------------

Shown == {stream[i] : i \in 1..Len(stream)}

\* Whatever is shown for one message stems from one run: an attempt is repeated
\* only as long as nothing was heard of it, although the server may have
\* accepted several.
OneRunPerMessage ==
  \A t \in 1..turn :
    Cardinality(UNION {m.runs : m \in {n \in Shown : n.turn = t}}) <= 1

\* A message that is over ended well or shows an error, also when the stream
\* broke off or ended without saying how the run did; only a failure the server
\* told in a blank text leaves the screen without a word.
NoSilentLoss ==
  (pc = "idle" /\ turn > 0) =>
    (error \/ told \in {Completed, Clarified} \/ mute)

\* Where the answer of a run is shown its logs are, too, unless all events from
\* the logs to the end came before one render, or the user went elsewhere.
LogsShownUnlessBatched ==
  (/\ told = Completed /\ logged = "rendered" /\ turn \notin switched
   /\ Bubble(stream, "answer") # 0)
  => Shows(stream, Run)

\* An answer that was completed reads as the final text, not as the final text
\* after its own deltas.
AnswerNotDoubled == \A m \in Shown : m.text # "doubled"

\* Text of another session than the one shown belongs to a message that was
\* open when the user went elsewhere.
ForeignTextWasOpen ==
  \A m \in Shown : m.session # view => m.turn \in switched

\* Every message is over at some time: retries end.
MessageSettles == (pc # "idle") ~> (pc = "idle")

=============================================================================
