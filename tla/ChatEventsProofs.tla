--------------------------- MODULE ChatEventsProofs ---------------------------
(***************************************************************************)
(* Facts about the order of the events of a chat, for the proofs about the *)
(* server that keeps it (ChatStream) and the client that relies on it      *)
(* (WebChat).                                                              *)
(***************************************************************************)
EXTENDS ChatEvents, Integers, FiniteSetTheorems, TLAPS

-----------------------------------------------------------------------------
(* Induction.                                                              *)

\* A set of naturals that is not empty has a least element.  (The intervals up to its
\* members are finite sets, which strict inclusion orders well.)
LEMMA LeastNatural ==
  ASSUME NEW S \in SUBSET Nat, S # {}
  PROVE  \E m \in S : \A y \in S : m <= y
<1> DEFINE T == {0..n : n \in S}
<1>1. IsWellFoundedOn(StrictSubsetOrdering(Nat), FiniteSubsetsOf(Nat))
  BY FS_StrictSubsetOrderingWellFounded
<1>2. T \subseteq FiniteSubsetsOf(Nat) /\ T # {}
  <2>1. \A n \in Nat : 0..n \in FiniteSubsetsOf(Nat)
    <3>1. ASSUME NEW n \in Nat PROVE 0..n \in FiniteSubsetsOf(Nat)
      <4>1. IsFiniteSet(0..n) /\ 0..n \in SUBSET Nat
        BY FS_Interval
      <4>2. QED
        BY <4>1 DEF FiniteSubsetsOf
    <3>2. QED
      BY <3>1
  <2>2. QED
    BY <2>1
<1>3. PICK x \in T : \A y \in T : <<y, x>> \notin StrictSubsetOrdering(Nat)
  BY <1>1, <1>2, WFMin
<1>4. PICK m \in S : x = 0..m
  OBVIOUS
<1>5. \A y \in S : m <= y
  <2>1. SUFFICES ASSUME NEW y \in S, y < m PROVE FALSE
    OBVIOUS
  <2>2. 0..y \subseteq 0..m /\ 0..y # 0..m
    <3>1. m \in 0..m /\ m \notin 0..y
      BY <2>1
    <3>2. 0..y \subseteq 0..m
      BY <2>1
    <3>3. QED
      BY <3>1, <3>2
  <2>3. 0..y \in T
    OBVIOUS
  <2>4. <<0..y, 0..m>> \in StrictSubsetOrdering(Nat)
    BY <2>2 DEF StrictSubsetOrdering
  <2>5. QED
    BY <1>3, <1>4, <2>3, <2>4
<1>6. QED
  BY <1>5

-----------------------------------------------------------------------------
(* One step of the order.                                                  *)

Unanswered == {"none", "open", "asking", "answering"}

\* A phase is left by an event the order allows.
LEMMA AdvanceTo ==
  ASSUME NEW p, NEW e \in MayFollow(p)
  PROVE  <<p, e, Advance(p, e)>> \in Transitions
<1>1. PICK u \in Transitions : u[1] = p /\ u[2] = e
  BY DEF MayFollow
<1> DEFINE t == CHOOSE v \in Transitions : v[1] = p /\ v[2] = e
<1>2. t \in Transitions /\ t[1] = p /\ t[2] = e
  BY <1>1
<1>3. Advance(p, e) = t[3]
  BY DEF Advance
<1> HIDE DEF t
<1>4. t = <<t[1], t[2], t[3]>>
  BY <1>2 DEF Transitions
<1>5. QED
  BY <1>2, <1>3, <1>4

\* The transitions, written out.
Transit(p, e, q) ==
  \/ <<p, e, q>> \in {<<"none", Started, "open">>, <<"open", ToolLogs, "open">>,
                      <<"open", Delta, "asking">>, <<"asking", Delta, "asking">>,
                      <<"asking", Clarified, "over">>,
                      <<"open", AnswerStarted, "answering">>,
                      <<"answering", Delta, "answering">>,
                      <<"answering", AnswerCompleted, "answered">>,
                      <<"answered", Completed, "over">>, <<"failing", Failed, "over">>}
  \/ p = "open" /\ e \in EarlyStages /\ q = "open"
  \/ p = "asking" /\ e \in ClarifierEvents /\ q = "asking"
  \/ p \in {"open", "asking", "answering", "answered"} /\ e = ErrorEvent /\ q = "failing"

\* The written-out form is the set.
LEMMA TransitionForms ==
  ASSUME NEW p, NEW e, NEW q
  PROVE  <<p, e, q>> \in Transitions <=> Transit(p, e, q)
  BY DEF Transitions, Transit

\* The events the order tells apart are different.
LEMMA EventsApart ==
  /\ Started \notin RunEnds /\ ToolLogs \notin RunEnds /\ Delta \notin RunEnds
  /\ AnswerStarted \notin RunEnds /\ AnswerCompleted \notin RunEnds
  /\ ErrorEvent \notin RunEnds
  /\ Delta \notin {Started, ToolLogs, AnswerStarted, AnswerCompleted, ErrorEvent}
  /\ AnswerCompleted \notin {Started, ToolLogs, AnswerStarted, ErrorEvent}
  /\ AnswerStarted \notin {Started, ToolLogs, ErrorEvent}
  /\ ErrorEvent \notin {Started, ToolLogs} /\ Started # ToolLogs
  BY DEF Started, ToolLogs, Delta, AnswerStarted, AnswerCompleted, ErrorEvent, RunEnds,
         Completed, Clarified, Failed, Event

\* The events of the early stages are none of them.
LEMMA StagesApart ==
  ASSUME NEW x \in EarlyStages \cup ClarifierEvents
  PROVE  x \notin RunEnds \cup {Delta, AnswerStarted, AnswerCompleted, ErrorEvent, Started,
                                ToolLogs}
  BY DEF EarlyStages, ClarifierEvents, StageEvents, AgentEvents, TrackedStages, RunEnds,
         Completed, Clarified, Failed, Delta, AnswerCompleted, AnswerStarted, ErrorEvent,
         Started, ToolLogs, Event

\* Text comes before the final answer, an end comes once, and no attempt returns to
\* having heard nothing.
LEMMA Transits ==
  ASSUME NEW p, NEW e, NEW q, <<p, e, q>> \in Transitions
  PROVE  /\ q # "none" /\ p # "over"
         /\ e = Delta => p \in {"open", "asking", "answering"}
         /\ q \in Unanswered => p \in Unanswered /\ e # AnswerCompleted
         /\ e \in RunEnds => q = "over"
<1>1. Transit(p, e, q)
  BY TransitionForms
<1>2. QED
  BY <1>1, EventsApart, StagesApart DEF Transit, Unanswered, RunEnds

\* An event leads to one phase, and never to a phase that is not one.
LEMMA AdvanceIs ==
  ASSUME NEW p, NEW e, NEW q, <<p, e, q>> \in Transitions
  PROVE  Advance(p, e) = q /\ q # "out_of_order"
<1>1. e \in MayFollow(p)
  BY DEF MayFollow
<1>2. <<p, e, Advance(p, e)>> \in Transitions
  BY <1>1, AdvanceTo
<1>3. Transit(p, e, q) /\ Transit(p, e, Advance(p, e))
  BY <1>2, TransitionForms
<1>4. q # "out_of_order"
  BY <1>3 DEF Transit
<1>5. Advance(p, e) = q
  BY <1>3, EventsApart, StagesApart DEF Transit, RunEnds
<1>6. QED
  BY <1>4, <1>5

-----------------------------------------------------------------------------
(* The phase after a sequence of events: the recursion has one solution.   *)

\* The phases after the first n events of s.
Traces(s, n, f) ==
  f = [k \in 0..n |-> IF k = 0 THEN "none" ELSE Advance(f[k - 1], s[k])]

\* The recursion has a solution.
LEMMA TraceExists ==
  ASSUME NEW s, NEW len \in Nat
  PROVE  \E f : Traces(s, len, f)
<1> DEFINE Bad == {n \in Nat : ~\E f : Traces(s, n, f)}
<1>1. SUFFICES ASSUME Bad # {} PROVE FALSE
  OBVIOUS
<1>2. PICK m \in Bad : \A y \in Bad : m <= y
  BY <1>1, LeastNatural
<1>3. CASE m = 0
  <2>1. Traces(s, 0, [k \in 0..0 |-> "none"])
    BY DEF Traces
  <2>2. QED
    BY <1>3, <2>1
<1>4. CASE m # 0
  <2>1. m \in Nat /\ m - 1 \in Nat /\ m - 1 \notin Bad
    BY <1>2, <1>4
  <2>2. PICK f : Traces(s, m - 1, f)
    BY <2>1
  <2> DEFINE g == [k \in 0..m |-> IF k < m THEN f[k] ELSE Advance(f[m - 1], s[m])]
  <2>3. ASSUME NEW k \in 0..m
        PROVE  g[k] = IF k = 0 THEN "none" ELSE Advance(g[k - 1], s[k])
    <3>1. CASE k = 0
      <4>1. g[k] = f[k] /\ k \in 0..(m - 1)
        BY <1>4, <2>1, <3>1
      <4>2. QED
        BY <2>2, <3>1, <4>1 DEF Traces
    <3>2. CASE k # 0 /\ k < m
      <4>1. /\ g[k] = f[k] /\ g[k - 1] = f[k - 1] /\ k \in 0..(m - 1)
        BY <2>1, <3>2
      <4>2. QED
        BY <2>2, <3>2, <4>1 DEF Traces
    <3>3. CASE k = m
      <4>1. g[k] = Advance(f[m - 1], s[m]) /\ g[m - 1] = f[m - 1]
        BY <2>1, <3>3
      <4>2. QED
        BY <1>4, <3>3, <4>1
    <3>4. QED
      BY <3>1, <3>2, <3>3
  <2>4. Traces(s, m, g)
    <3> DEFINE h == [k \in 0..m |-> IF k = 0 THEN "none" ELSE Advance(g[k - 1], s[k])]
    <3>1. DOMAIN g = 0..m /\ DOMAIN h = 0..m /\ g = [k \in 0..m |-> g[k]]
      OBVIOUS
    <3>2. \A k \in 0..m : g[k] = h[k]
      BY <2>3
    <3> HIDE DEF g
    <3>3. g = h
      BY <3>1, <3>2
    <3>4. QED
      BY <3>3 DEF Traces
  <2>5. QED
    BY <2>1, <2>4
<1>5. QED
  BY <1>3, <1>4

\* A sequence has the phases of its beginning.
LEMMA TracesAgree ==
  ASSUME NEW s, NEW t, NEW n \in Nat, NEW f, NEW g,
         \A k \in 1..n : s[k] = t[k], Traces(s, n, f), Traces(t, n + 1, g)
  PROVE  f[n] = g[n]
<1> DEFINE Bad == {k \in 0..n : f[k] # g[k]}
<1>1. SUFFICES ASSUME Bad # {} PROVE FALSE
  OBVIOUS
<1>a. Bad \in SUBSET Nat
  OBVIOUS
<1>2. PICK b \in Bad : \A y \in Bad : b <= y
  BY <1>1, <1>a, LeastNatural
<1>3. b \in 0..n /\ b \in 0..(n + 1) /\ b \in Nat
  OBVIOUS
<1>4. /\ f[b] = IF b = 0 THEN "none" ELSE Advance(f[b - 1], s[b])
      /\ g[b] = IF b = 0 THEN "none" ELSE Advance(g[b - 1], t[b])
  BY <1>3 DEF Traces
<1>5. CASE b = 0
  BY <1>4, <1>5
<1>6. CASE b # 0
  <2>1. b - 1 \in 0..n /\ b - 1 \notin Bad /\ b \in 1..n
    BY <1>2, <1>3, <1>6
  <2>2. QED
    BY <1>4, <1>6, <2>1
<1>7. QED
  BY <1>5, <1>6

\* The phase after a sequence is the last of its trace.
LEMMA PhaseAfterTrace ==
  ASSUME NEW s, Len(s) \in Nat
  PROVE  \E f : Traces(s, Len(s), f) /\ PhaseAfter(s) = f[Len(s)]
<1> DEFINE f == CHOOSE g : Traces(s, Len(s), g)
<1>1. Traces(s, Len(s), f)
  BY TraceExists
<1>2. PhaseAfter(s) = f[Len(s)]
  BY DEF PhaseAfter, Traces
<1>3. QED
  BY <1>1, <1>2

\* What a client follows: it begins at "none", and each event advances it.
LEMMA PhaseOfNothing == PhaseAfter(<<>>) = "none"
<1>1. PICK f : Traces(<<>>, Len(<<>>), f) /\ PhaseAfter(<<>>) = f[Len(<<>>)]
  BY PhaseAfterTrace
<1>2. Len(<<>>) = 0 /\ 0 \in 0..0
  OBVIOUS
<1>3. QED
  BY <1>1, <1>2 DEF Traces

\* An event more is one step more.
LEMMA PhaseOfOneMore ==
  ASSUME NEW S, NEW s \in Seq(S), NEW e \in S
  PROVE  PhaseAfter(Append(s, e)) = Advance(PhaseAfter(s), e)
<1> DEFINE t == Append(s, e)
<1>1. /\ Len(s) \in Nat /\ Len(t) = Len(s) + 1 /\ t[Len(s) + 1] = e
      /\ \A k \in 1..Len(s) : s[k] = t[k]
  OBVIOUS
<1> HIDE DEF t
<1>2. PICK f : Traces(s, Len(s), f) /\ PhaseAfter(s) = f[Len(s)]
  BY <1>1, PhaseAfterTrace
<1>3. PICK g : Traces(t, Len(s) + 1, g) /\ PhaseAfter(t) = g[Len(s) + 1]
  BY <1>1, PhaseAfterTrace
<1>4. f[Len(s)] = g[Len(s)]
  BY <1>1, <1>2, <1>3, TracesAgree
<1>5. g[Len(s) + 1] = Advance(g[Len(s)], t[Len(s) + 1])
  <2>1. Len(s) + 1 \in 0..(Len(s) + 1) /\ Len(s) + 1 # 0 /\ (Len(s) + 1) - 1 = Len(s)
    BY <1>1
  <2>2. QED
    BY <1>3, <2>1 DEF Traces
<1>6. QED
  BY <1>1, <1>2, <1>3, <1>4, <1>5 DEF t

=============================================================================
