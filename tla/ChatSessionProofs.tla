--------------------------- MODULE ChatSessionProofs ---------------------------
(***************************************************************************)
(* Proofs about ChatSession, for any set of requests: what the prompt      *)
(* history holds when requests come one at a time, and in which order it   *)
(* comes however they overlap.                                             *)
(*                                                                         *)
(* Both rest on what the loop of _load_prompt_history has read after each  *)
(* message: a recursive function, of which Readings says all that is used. *)
(***************************************************************************)
EXTENDS ChatSession, ChatEventsProofs

Messages == [req : Requests, kind : Kinds, blank : BOOLEAN, stored : BOOLEAN]

-----------------------------------------------------------------------------
(* Reading the log.                                                        *)

\* Sets of naturals with 0 and all successors.
LEMMA AllNaturals ==
  ASSUME NEW S \in SUBSET Nat, 0 \in S, \A n \in S : n + 1 \in S
  PROVE  S = Nat
<1> DEFINE Bad == Nat \ S
<1>1. SUFFICES ASSUME Bad # {} PROVE FALSE
  OBVIOUS
<1>2. Bad \in SUBSET Nat
  OBVIOUS
<1>3. PICK m \in Bad : \A y \in Bad : m <= y
  <2> HIDE DEF Bad
  <2>1. QED
    BY <1>1, <1>2, LeastNatural
<1>4. m \in Nat /\ m # 0 /\ m - 1 \in Nat /\ ~(m <= m - 1)
  OBVIOUS
<1>5. m - 1 \in S
  BY <1>3, <1>4
<1>6. m \in S
  BY <1>4, <1>5
<1>7. QED
  BY <1>6

Begun == [chain |-> <<>>, pending |-> <<>>]

NextRead(acc, n) == IF n \in Stored THEN Turn(acc, log[n]) ELSE acc

\* f has what is read of the first messages, up to n of them.
Reads(f, n) ==
  f = [k \in 0..n |-> IF k = 0 THEN Begun ELSE NextRead(f[k - 1], k)]

\* The recursion of the loop has a solution.
LEMMA ReadsExist ==
  ASSUME NEW len \in Nat
  PROVE  \E f : Reads(f, len)
<1> DEFINE S == {n \in Nat : \E f : Reads(f, n)}
<1>1. 0 \in S
  <2>1. Reads([k \in 0..0 |-> Begun], 0)
    BY DEF Reads
  <2>2. QED
    BY <2>1
<1>2. ASSUME NEW n \in S PROVE n + 1 \in S
  <2>1. PICK f : Reads(f, n)
    OBVIOUS
  <2> DEFINE g == [k \in 0..(n + 1) |-> IF k <= n THEN f[k] ELSE NextRead(f[n], n + 1)]
             h == [k \in 0..(n + 1) |-> IF k = 0 THEN Begun ELSE NextRead(g[k - 1], k)]
  <2>2. ASSUME NEW k \in 0..(n + 1) PROVE g[k] = h[k]
    <3>1. CASE k = 0
      <4>1. g[k] = f[k] /\ k \in 0..n
        BY <3>1
      <4>2. QED
        BY <2>1, <3>1, <4>1 DEF Reads
    <3>2. CASE k # 0 /\ k <= n
      <4>1. g[k] = f[k] /\ g[k - 1] = f[k - 1] /\ k \in 0..n
        BY <3>2
      <4>2. QED
        BY <2>1, <3>2, <4>1 DEF Reads
    <3>3. CASE k = n + 1
      <4>1. g[k] = NextRead(f[n], k) /\ g[k - 1] = f[n] /\ k # 0
        BY <3>3
      <4>2. QED
        BY <4>1
    <3>4. QED
      BY <3>1, <3>2, <3>3
  <2>3. g = h
    <3>1. DOMAIN g = 0..(n + 1) /\ DOMAIN h = 0..(n + 1) /\ g = [k \in 0..(n + 1) |-> g[k]]
          /\ h = [k \in 0..(n + 1) |-> h[k]]
      OBVIOUS
    <3> HIDE DEF g, h
    <3>2. QED
      BY <2>2, <3>1
  <2>4. Reads(g, n + 1)
    <3> HIDE DEF g
    <3>1. QED
      BY <2>3 DEF Reads
  <2>5. QED
    BY <2>4
<1>3. S = Nat
  <2>1. S \in SUBSET Nat
    OBVIOUS
  <2> HIDE DEF S
  <2>2. QED
    BY <1>1, <1>2, <2>1, AllNaturals
<1>4. QED
  BY <1>3

\* What the loop has read after each message, up to the history it returns.
LEMMA Readings ==
  ASSUME Len(log) \in Nat
  PROVE  \E f : /\ f[0] = Begun
                /\ \A n \in 1..Len(log) : f[n] = NextRead(f[n - 1], n)
                /\ PromptHistory = f[Len(log)].chain
<1> DEFINE f == CHOOSE g : Reads(g, Len(log))
<1>1. Reads(f, Len(log))
  BY ReadsExist
<1>2. PromptHistory = f[Len(log)].chain
  BY Zenon DEF PromptHistory, Reads, Begun, NextRead
<1> HIDE DEF f
<1>3. f[0] = Begun
  BY <1>1 DEF Reads
<1>4. \A n \in 1..Len(log) : f[n] = NextRead(f[n - 1], n)
  BY <1>1 DEF Reads
<1>5. QED
  BY <1>2, <1>3, <1>4

-----------------------------------------------------------------------------
(* Requests that overlap: the history is in order.                         *)

Prompt(i, q) == log[i].kind = "prompt" /\ log[i].req = q

\* A request stores one prompt.
OnePrompt ==
  \A i, j \in 1..Len(log) :
    log[i].kind = "prompt" /\ log[j].kind = "prompt" /\ log[i].req = log[j].req => i = j

\* The prompts named by c stand in the log, one behind the other and not behind n.
Ordered(c, n) ==
  /\ \A k \in 1..Len(c) : \E p \in 1..n : Prompt(p, c[k]) /\ Position(c[k]) = p
  /\ \A k, l \in 1..Len(c) : k < l => Position(c[k]) < Position(c[l])

\* The position of a message that is stored once.
LEMMA PositionIs ==
  ASSUME log \in Seq(Messages), OnePrompt, NEW p \in 1..Len(log), NEW q, Prompt(p, q)
  PROVE  Position(q) = p
<1>1. DOMAIN log = 1..Len(log)
  OBVIOUS
<1>2. \A i \in 1..Len(log) : Prompt(i, q) => i = p
  BY DEF OnePrompt, Prompt
<1>3. QED
  BY <1>1, <1>2 DEF Position, Prompt

\* What is read of a part of the log: a chain, at most one prompt behind it, in order.
ReadInOrder(acc, n) ==
  /\ acc = [chain |-> acc.chain, pending |-> acc.pending]
  /\ acc.chain \in Seq(Requests)
  /\ acc.pending = <<>> => Ordered(acc.chain, n)
  /\ acc.pending # <<>> =>
       \E q \in Requests : acc.pending = <<q>> /\ Ordered(Append(acc.chain, q), n)

\* A position behind all others keeps the order.
LEMMA OrderedOn ==
  ASSUME NEW c \in Seq(Requests), NEW n \in Nat, NEW m \in Nat, n <= m, Ordered(c, n)
  PROVE  Ordered(c, m)
BY DEF Ordered

\* A front of what is in order is in order.
LEMMA OrderedFront ==
  ASSUME NEW c \in Seq(Requests), NEW q \in Requests, NEW n \in Nat, Ordered(Append(c, q), n)
  PROVE  Ordered(c, n)
<1>1. Len(Append(c, q)) = Len(c) + 1 /\ \A k \in 1..Len(c) : Append(c, q)[k] = c[k]
  OBVIOUS
<1>2. QED
  BY <1>1 DEF Ordered

\* A prompt that comes later goes behind the others.
LEMMA OrderedMore ==
  ASSUME NEW c \in Seq(Requests), NEW n \in Nat, Ordered(c, n),
         NEW q \in Requests, Prompt(n + 1, q), Position(q) = n + 1
  PROVE  Ordered(Append(c, q), n + 1)
<1> DEFINE d == Append(c, q)
<1>1. /\ Len(d) = Len(c) + 1 /\ d[Len(c) + 1] = q /\ Len(c) \in Nat
      /\ \A k \in 1..Len(c) : d[k] = c[k]
  OBVIOUS
<1> HIDE DEF d
<1>2. \A k \in 1..Len(c) : \E p \in 1..n : Prompt(p, d[k]) /\ Position(d[k]) = p
  BY <1>1 DEF Ordered
<1>3. \A k \in 1..Len(d) : \E p \in 1..(n + 1) : Prompt(p, d[k]) /\ Position(d[k]) = p
  <2>1. ASSUME NEW k \in 1..Len(d), k # Len(c) + 1
        PROVE  \E p \in 1..(n + 1) : Prompt(p, d[k]) /\ Position(d[k]) = p
    <3>1. k \in 1..Len(c)
      BY <1>1, <2>1
    <3>2. QED
      BY <1>2, <3>1
  <2>2. \E p \in 1..(n + 1) : Prompt(p, d[Len(c) + 1]) /\ Position(d[Len(c) + 1]) = p
    BY <1>1
  <2>3. QED
    BY <2>1, <2>2
<1>4. \A k, l \in 1..Len(d) : k < l => Position(d[k]) < Position(d[l])
  <2>1. SUFFICES ASSUME NEW k \in 1..Len(d), NEW l \in 1..Len(d), k < l
                 PROVE  Position(d[k]) < Position(d[l])
    OBVIOUS
  <2>2. k \in 1..Len(c) /\ (l = Len(c) + 1 \/ l \in 1..Len(c))
    BY <1>1, <2>1
  <2>3. CASE l \in 1..Len(c)
    BY <1>1, <2>1, <2>2, <2>3 DEF Ordered
  <2>4. CASE l = Len(c) + 1
    <3>1. PICK p \in 1..n : Position(d[k]) = p
      BY <1>2, <2>2
    <3>2. QED
      BY <1>1, <2>4, <3>1
  <2>5. QED
    BY <2>2, <2>3, <2>4
<1>5. QED
  BY <1>3, <1>4 DEF Ordered, d

\* One message more keeps what is read in order.
LEMMA TurnInOrder ==
  ASSUME log \in Seq(Messages), OnePrompt, NEW n \in Nat, n + 1 \in 1..Len(log),
         NEW acc, ReadInOrder(acc, n)
  PROVE  ReadInOrder(NextRead(acc, n + 1), n + 1)
<1> DEFINE m == log[n + 1]
           next == NextRead(acc, n + 1)
<1>1. m.req \in Requests
  <2>1. log[n + 1] \in Messages
    OBVIOUS
  <2>2. QED
    BY <2>1 DEF Messages
<1>2. ReadInOrder(acc, n + 1)
  <2>1. acc.pending = <<>> => Ordered(acc.chain, n + 1)
    BY OrderedOn DEF ReadInOrder
  <2>2. ASSUME NEW q \in Requests, Ordered(Append(acc.chain, q), n)
        PROVE  Ordered(Append(acc.chain, q), n + 1)
    <3>1. Append(acc.chain, q) \in Seq(Requests)
      BY DEF ReadInOrder
    <3>2. PICK c \in Seq(Requests) : c = Append(acc.chain, q)
      BY <3>1, Zenon
    <3>3. Ordered(c, n) /\ n + 1 \in Nat /\ n <= n + 1
      BY <2>2, <3>2
    <3>4. Ordered(c, n + 1)
      BY <3>3, OrderedOn
    <3>5. QED
      BY <3>2, <3>4
  <2>3. QED
    BY <2>1, <2>2 DEF ReadInOrder
<1>3. Ordered(acc.chain, n)
  BY OrderedFront DEF ReadInOrder
<1>4. acc = [chain |-> acc.chain, pending |-> acc.pending] /\ acc.chain \in Seq(Requests)
  BY DEF ReadInOrder
<1>5. CASE next = acc
  BY <1>2, <1>5
<1>6. CASE m.kind = "prompt" /\ next = [acc EXCEPT !.pending = <<m.req>>]
  <2>1. Prompt(n + 1, m.req)
    BY <1>6 DEF Prompt
  <2>2. Position(m.req) = n + 1
    BY <2>1, PositionIs
  <2>3. Ordered(Append(acc.chain, m.req), n + 1)
    BY <1>1, <1>3, <1>4, <2>1, <2>2, OrderedMore
  <2>4. PICK q \in Requests : q = m.req
    BY <1>1
  <2>5. next = [chain |-> acc.chain, pending |-> <<q>>]
    BY <1>4, <1>6, <2>4
  <2> HIDE DEF next
  <2>6. next.chain = acc.chain /\ next.pending = <<q>> /\ <<q>> # <<>>
        /\ next = [chain |-> next.chain, pending |-> next.pending]
    BY <2>5
  <2>7. QED
    BY <1>4, <2>3, <2>4, <2>6 DEF ReadInOrder, next
<1>7. CASE acc.pending # <<>> /\ next = [chain |-> acc.chain \o acc.pending, pending |-> <<>>]
  <2>1. PICK q \in Requests : acc.pending = <<q>> /\ Ordered(Append(acc.chain, q), n + 1)
    BY <1>2, <1>7 DEF ReadInOrder
  <2>2. acc.chain \o <<q>> = Append(acc.chain, q) /\ Append(acc.chain, q) \in Seq(Requests)
    BY <1>4
  <2> HIDE DEF next
  <2>3. next.chain = Append(acc.chain, q) /\ next.pending = <<>>
        /\ next = [chain |-> next.chain, pending |-> next.pending]
    BY <1>7, <2>1, <2>2
  <2>4. QED
    BY <2>1, <2>2, <2>3 DEF ReadInOrder, next
<1>8. CASE next = [chain |-> <<>>, pending |-> <<>>]
  <2> HIDE DEF next
  <2>1. next.chain = <<>> /\ next.pending = <<>>
        /\ next = [chain |-> next.chain, pending |-> next.pending]
    BY <1>8
  <2>2. Ordered(<<>>, n + 1) /\ <<>> \in Seq(Requests)
    BY DEF Ordered
  <2>3. QED
    BY <2>1, <2>2 DEF ReadInOrder, next
<1>9. QED
  BY <1>5, <1>6, <1>7, <1>8, Zenon DEF NextRead, Turn

\* The history of a log that has each prompt once is in order.
LEMMA HistoryOrdered ==
  ASSUME log \in Seq(Messages), OnePrompt
  PROVE  PromptHistory \in Seq(Requests) /\ Ordered(PromptHistory, Len(log))
<1>1. PICK f : /\ f[0] = Begun
               /\ \A n \in 1..Len(log) : f[n] = NextRead(f[n - 1], n)
               /\ PromptHistory = f[Len(log)].chain
  BY Readings
<1> DEFINE S == {n \in Nat : n <= Len(log) => ReadInOrder(f[n], n)}
<1>2. 0 \in S
  <2>1. Ordered(<<>>, 0) /\ <<>> \in Seq(Requests)
    BY DEF Ordered
  <2>2. f[0].chain = <<>> /\ f[0].pending = <<>>
        /\ f[0] = [chain |-> f[0].chain, pending |-> f[0].pending]
    BY <1>1 DEF Begun
  <2>3. ReadInOrder(f[0], 0)
    BY <2>1, <2>2 DEF ReadInOrder
  <2>4. QED
    BY <2>3
<1>3. ASSUME NEW n \in S PROVE n + 1 \in S
  <2>1. SUFFICES ASSUME n + 1 <= Len(log) PROVE ReadInOrder(f[n + 1], n + 1)
    OBVIOUS
  <2>2. n \in Nat /\ n + 1 \in 1..Len(log) /\ ReadInOrder(f[n], n)
    BY <2>1
  <2>3. f[n + 1] = NextRead(f[n], n + 1)
    BY <1>1, <2>2
  <2>4. QED
    BY <2>2, <2>3, TurnInOrder
<1>4. S = Nat
  <2>1. S \in SUBSET Nat
    OBVIOUS
  <2> HIDE DEF S
  <2>2. QED
    BY <1>2, <1>3, <2>1, AllNaturals
<1>5. ReadInOrder(f[Len(log)], Len(log))
  BY <1>4
<1>6. PICK c \in Seq(Requests) : c = PromptHistory /\ Ordered(c, Len(log))
  <2>1. f[Len(log)].chain \in Seq(Requests) /\ Ordered(f[Len(log)].chain, Len(log))
    BY <1>5, OrderedFront DEF ReadInOrder
  <2>2. QED
    BY <1>1, <2>1
<1>7. QED
  BY <1>6

\* A stamp adds its message behind the others and leaves them.
LEMMA StampAdds ==
  ASSUME log \in Seq(Messages), NEW m \in Messages, log' = Append(log, m)
  PROVE  /\ log' \in Seq(Messages) /\ Len(log) \in Nat /\ Len(log') = Len(log) + 1
         /\ log'[Len(log) + 1] = m
         /\ \A i \in 1..Len(log) : log'[i] = log[i]
  OBVIOUS

\* A row written changes nothing about the messages but that some are there.
LEMMA StoreKeeps ==
  ASSUME log \in Seq(Messages), NEW r, NEW kinds, Store(r, kinds)
  PROVE  /\ log' \in Seq(Messages) /\ Len(log) \in Nat /\ Len(log') = Len(log)
         /\ \A i \in 1..Len(log) :
              /\ log'[i].req = log[i].req /\ log'[i].kind = log[i].kind
              /\ log'[i].blank = log[i].blank
              /\ log[i].req = r /\ log[i].kind \in kinds => log'[i].stored
              /\ ~(log[i].req = r /\ log[i].kind \in kinds) => log'[i] = log[i]
<1>1. DOMAIN log = 1..Len(log) /\ Len(log) \in Nat
  OBVIOUS
<1>2. ASSUME NEW i \in 1..Len(log)
      PROVE  log'[i] = IF log[i].req = r /\ log[i].kind \in kinds
                       THEN [log[i] EXCEPT !.stored = TRUE] ELSE log[i]
  BY <1>1 DEF Store
<1>3. ASSUME NEW i \in 1..Len(log)
      PROVE  /\ log'[i] \in Messages
             /\ log'[i].req = log[i].req /\ log'[i].kind = log[i].kind
             /\ log'[i].blank = log[i].blank
             /\ log[i].req = r /\ log[i].kind \in kinds => log'[i].stored
             /\ ~(log[i].req = r /\ log[i].kind \in kinds) => log'[i] = log[i]
  <2>1. log[i] \in Messages
    OBVIOUS
  <2>2. QED
    BY <1>2, <2>1 DEF Messages
<1>4. log' = [i \in 1..Len(log) |-> log'[i]]
  BY <1>1 DEF Store
<1>5. log' \in Seq(Messages) /\ Len(log') = Len(log)
  BY <1>1, <1>3, <1>4
<1>6. QED
  BY <1>1, <1>3, <1>5

\* The messages of the log stay where they are.
LogKept ==
  /\ Len(log) \in Nat /\ Len(log') \in Nat /\ Len(log) <= Len(log')
  /\ \A i \in 1..Len(log) : log'[i].req = log[i].req /\ log'[i].kind = log[i].kind

SessionTypes ==
  /\ log \in Seq(Messages)
  /\ pc \in [Requests -> Places]
  /\ history \in [Requests -> Seq(Requests)]

\* What a request has not got to is not in the log.
NotYet ==
  \A r \in Requests : pc[r] \in {"idle", "prompt"} =>
    \A i \in 1..Len(log) : log[i].req # r

\* Whatever a request has read is in the log.
HistoryKnown ==
  \A r \in Requests : \A k \in 1..Len(history[r]) :
    \E p \in 1..Len(log) : Prompt(p, history[r][k])

OrderInv == SessionTypes /\ NotYet /\ OnePrompt /\ HistoryKnown /\ HistoryInOrder

\* The place of a prompt is found by its request's name.
Placed ==
  \A p \in 1..Len(log), q \in Requests : Prompt(p, q) => Position(q) = p

\* Every prompt of a history has its place in the log.
LEMMA PromptsPlaced == log \in Seq(Messages) /\ OnePrompt => Placed
  BY PositionIs DEF Placed

\* A prompt keeps its position while the log grows.
LEMMA PositionKept ==
  ASSUME log \in Seq(Messages), OnePrompt, log' \in Seq(Messages), OnePrompt', LogKept,
         NEW p \in 1..Len(log), NEW q \in Requests, Prompt(p, q)
  PROVE  Position(q) = p /\ Position(q)' = p /\ Prompt(p, q)' /\ p \in 1..Len(log')
<1>1. Position(q) = p
  BY PromptsPlaced DEF Placed
<1>2. Prompt(p, q)' /\ p \in 1..Len(log')
  BY DEF LogKept, Prompt
<1>3. (log \in Seq(Messages) /\ OnePrompt => Placed)'
  BY PromptsPlaced, PTL
<1>4. Position(q)' = p
  BY <1>2, <1>3 DEF Placed
<1>5. QED
  BY <1>1, <1>2, <1>4

\* What has been read stays in order while the log grows.
LEMMA OrderKept ==
  ASSUME OrderInv, log' \in Seq(Messages), OnePrompt', LogKept, UNCHANGED history
  PROVE  HistoryKnown' /\ HistoryInOrder'
<1>1. /\ log \in Seq(Messages) /\ history \in [Requests -> Seq(Requests)]
      /\ OnePrompt /\ HistoryKnown /\ HistoryInOrder /\ Len(log) \in Nat
  BY DEF OrderInv, SessionTypes, LogKept
<1>2. ASSUME NEW r \in Requests, NEW k \in 1..Len(history[r])
      PROVE  \E p \in 1..Len(log) : /\ Position(history[r][k]) = p
                                    /\ Position(history[r][k])' = p
                                    /\ p \in 1..Len(log') /\ Prompt(p, history[r][k])'
  <2>1. PICK p \in 1..Len(log) : Prompt(p, history[r][k])
    BY <1>1 DEF HistoryKnown
  <2>2. history[r] \in Seq(Requests)
    BY <1>1
  <2>3. PICK q \in Requests : q = history[r][k]
    BY <2>2
  <2>4. Position(q) = p /\ Position(q)' = p /\ Prompt(p, q)' /\ p \in 1..Len(log')
    BY <1>1, <2>1, <2>3, PositionKept
  <2>5. history' = history
    OBVIOUS
  <2>6. QED
    BY <2>3, <2>4, <2>5 DEF Position, Prompt
<1>3. HistoryKnown'
  <2>1. ASSUME NEW r \in Requests, NEW k \in 1..Len(history'[r])
        PROVE  \E p \in 1..Len(log') : Prompt(p, history[r][k])'
    BY <1>2, <2>1
  <2>2. QED
    BY <2>1 DEF HistoryKnown
<1>4. HistoryInOrder'
  <2>1. SUFFICES
          ASSUME NEW r \in Requests
          PROVE  /\ \A i, j \in DOMAIN history[r] :
                      i < j => Position(history[r][i])' < Position(history[r][j])'
                 /\ \A i \in DOMAIN history[r], j \in DOMAIN log' :
                      log'[j].req = r => Position(history[r][i])' < j
    BY DEF HistoryInOrder
  <2>2. history[r] \in Seq(Requests) /\ DOMAIN history[r] = 1..Len(history[r])
        /\ DOMAIN log = 1..Len(log) /\ DOMAIN log' = 1..Len(log')
    BY <1>1
  <2>3. ASSUME NEW i \in DOMAIN history[r], NEW j \in DOMAIN history[r], i < j
        PROVE  Position(history[r][i])' < Position(history[r][j])'
    <3>1. Position(history[r][i]) < Position(history[r][j])
      BY <1>1, <2>3 DEF HistoryInOrder
    <3>2. QED
      BY <1>2, <2>2, <2>3, <3>1
  <2>4. ASSUME NEW i \in DOMAIN history[r], NEW j \in DOMAIN log', log'[j].req = r
        PROVE  Position(history[r][i])' < j
    <3>1. PICK p \in 1..Len(log) : /\ Position(history[r][i]) = p
                                   /\ Position(history[r][i])' = p
      BY <1>2, <2>2
    <3>2. CASE j \in 1..Len(log)
      <4>1. log[j].req = r
        BY <2>4, <3>2 DEF LogKept
      <4>2. Position(history[r][i]) < j
        BY <1>1, <2>2, <3>2, <4>1 DEF HistoryInOrder
      <4>3. QED
        BY <3>1, <4>2
    <3>3. CASE j \notin 1..Len(log)
      BY <1>1, <2>2, <3>1, <3>3 DEF LogKept
    <3>4. QED
      BY <3>2, <3>3
  <2>5. QED
    BY <2>3, <2>4
<1>5. QED
  BY <1>3, <1>4

\* A message stamped by a request that had none of its kind keeps prompts apart.
LEMMA StampApart ==
  ASSUME log \in Seq(Messages), OnePrompt, NEW m \in Messages, log' = Append(log, m),
         m.kind = "prompt" => \A i \in 1..Len(log) : log[i].req # m.req
  PROVE  log' \in Seq(Messages) /\ LogKept /\ OnePrompt'
<1>1. /\ log' \in Seq(Messages) /\ Len(log) \in Nat /\ Len(log') = Len(log) + 1
      /\ log'[Len(log) + 1] = m
      /\ \A i \in 1..Len(log) : log'[i] = log[i]
  BY StampAdds
<1>2. \A i \in 1..Len(log') : i \in 1..Len(log) \/ i = Len(log) + 1
  BY <1>1
<1>3. OnePrompt'
  BY <1>1, <1>2 DEF OnePrompt
<1>4. QED
  BY <1>1, <1>3 DEF LogKept

\* So does a row written.
LEMMA StoreApart ==
  ASSUME log \in Seq(Messages), OnePrompt, NEW r, NEW kinds, Store(r, kinds)
  PROVE  log' \in Seq(Messages) /\ LogKept /\ OnePrompt' /\ Len(log') = Len(log)
<1>1. /\ log' \in Seq(Messages) /\ Len(log) \in Nat /\ Len(log') = Len(log)
      /\ \A i \in 1..Len(log) : log'[i].req = log[i].req /\ log'[i].kind = log[i].kind
  BY StoreKeeps
<1>2. OnePrompt'
  BY <1>1 DEF OnePrompt
<1>3. QED
  BY <1>1, <1>2 DEF LogKept

\* The empty log is in order.
LEMMA OrderBegins == Init => OrderInv
<1>1. SUFFICES ASSUME Init PROVE OrderInv
  OBVIOUS
<1>2. log = <<>> /\ Len(log) = 0 /\ log \in Seq(Messages)
  BY <1>1 DEF Init
<1>3. /\ pc \in [Requests -> Places]
      /\ history \in [Requests -> Seq(Requests)]
      /\ \A r \in Requests : history[r] = <<>> /\ Len(history[r]) = 0
  BY <1>1 DEF Init, Places
<1>4. NotYet /\ OnePrompt /\ HistoryKnown /\ HistoryInOrder
  BY <1>2, <1>3 DEF NotYet, OnePrompt, HistoryKnown, HistoryInOrder
<1>5. QED
  BY <1>2, <1>3, <1>4 DEF OrderInv, SessionTypes

\* A request posts: what it reads is in order, and it has stored nothing yet.
LEMMA PostKeepsOrder == OrderInv /\ (\E r \in Requests : Post(r)) => OrderInv'
<1>1. SUFFICES ASSUME OrderInv, NEW r \in Requests, Post(r) PROVE OrderInv'
  OBVIOUS
<1>2. /\ log \in Seq(Messages) /\ OnePrompt /\ log' = log /\ Len(log) \in Nat
      /\ pc[r] = "idle" /\ history \in [Requests -> Seq(Requests)]
      /\ pc \in [Requests -> Places]
  BY <1>1 DEF OrderInv, SessionTypes, Post
<1>3. PICK c \in Seq(Requests) : c = PromptHistory /\ Ordered(c, Len(log))
  BY <1>2, HistoryOrdered
<1>4. /\ history' \in [Requests -> Seq(Requests)]
      /\ \A s \in Requests : history'[s] = history[s] \/ (s = r /\ history'[s] = c)
  BY <1>1, <1>2, <1>3 DEF Post
<1>5. pc' \in [Requests -> Places]
      /\ \A s \in Requests : pc'[s] \in {"idle", "prompt"} => pc[s] \in {"idle", "prompt"}
  BY <1>1, <1>2 DEF Post, Go, Places
<1>6. \A q : Position(q)' = Position(q)
  BY <1>2 DEF Position
<1>7. NotYet' /\ OnePrompt'
  BY <1>1, <1>2, <1>5 DEF OrderInv, NotYet, OnePrompt
<1>8. HistoryKnown'
  <2>1. ASSUME NEW s \in Requests, NEW k \in 1..Len(history'[s])
        PROVE  \E p \in 1..Len(log) : Prompt(p, history'[s][k])
    <3>1. CASE history'[s] = history[s]
      BY <1>1, <3>1 DEF OrderInv, HistoryKnown
    <3>2. CASE history'[s] = c
      BY <1>3, <3>2 DEF Ordered
    <3>3. QED
      BY <1>4, <3>1, <3>2
  <2>2. QED
    BY <1>2, <2>1 DEF HistoryKnown, Prompt
<1>9. HistoryInOrder'
  <2>1. ASSUME NEW s \in Requests
        PROVE  /\ \A i, j \in DOMAIN history'[s] :
                    i < j => Position(history'[s][i]) < Position(history'[s][j])
               /\ \A i \in DOMAIN history'[s], j \in DOMAIN log :
                    log[j].req = s => Position(history'[s][i]) < j
    <3>1. CASE history'[s] = history[s]
      BY <1>1, <3>1 DEF OrderInv, HistoryInOrder
    <3>2. CASE s = r /\ history'[s] = c
      <4>1. DOMAIN c = 1..Len(c) /\ DOMAIN log = 1..Len(log)
        BY <1>2
      <4>2. \A j \in 1..Len(log) : log[j].req # s
        BY <1>1, <1>2, <3>2 DEF OrderInv, NotYet
      <4>3. QED
        BY <1>3, <3>2, <4>1, <4>2 DEF Ordered
    <3>3. QED
      BY <1>4, <3>1, <3>2
  <2>2. QED
    BY <1>2, <1>6, <2>1 DEF HistoryInOrder
<1>10. QED
  BY <1>2, <1>4, <1>5, <1>7, <1>8, <1>9 DEF OrderInv, SessionTypes

\* A request stamps its prompt or its reply.
LEMMA StampKeepsOrder ==
  OrderInv /\ (\E r \in Requests : StampPrompt(r) \/ StampReply(r)) => OrderInv'
<1>1. SUFFICES ASSUME OrderInv, NEW r \in Requests, StampPrompt(r) \/ StampReply(r)
               PROVE  OrderInv'
  OBVIOUS
<1>2. /\ log \in Seq(Messages) /\ OnePrompt /\ NotYet /\ Len(log) \in Nat
      /\ pc \in [Requests -> Places] /\ history \in [Requests -> Seq(Requests)]
      /\ history' = history
  <2>1. history' = history
    BY <1>1 DEF StampPrompt, StampReply
  <2>2. QED
    BY <1>1, <2>1 DEF OrderInv, SessionTypes
<1>3. PICK m \in Messages : /\ log' = Append(log, m) /\ m.req = r
                            /\ m.kind = "prompt" => pc[r] = "prompt"
  <2>1. \A b \in Blanks : /\ Message(r, "prompt", b) \in Messages
                          /\ Message(r, "prompt", b).req = r
                          /\ Message(r, "reply", b) \in Messages
                          /\ Message(r, "reply", b).req = r
                          /\ Message(r, "reply", b).kind = "reply"
    BY <1>1 DEF Message, Messages, Kinds, Blanks
  <2>2. /\ Message(r, "clarification", FALSE) \in Messages
        /\ Message(r, "clarification", FALSE).req = r
        /\ Message(r, "clarification", FALSE).kind = "clarification"
    BY <1>1 DEF Message, Messages, Kinds
  <2>3. CASE StampPrompt(r)
    BY <2>1, <2>3 DEF StampPrompt
  <2>4. CASE StampReply(r)
    <3>1. CASE log' = Append(log, Message(r, "clarification", FALSE))
      BY <2>2, <3>1
    <3>2. CASE \E b \in Blanks : log' = Append(log, Message(r, "reply", b))
      BY <2>1, <3>2
    <3>3. QED
      BY <2>4, <3>1, <3>2 DEF StampReply
  <2>5. QED
    BY <1>1, <2>3, <2>4
<1>4. pc' \in [Requests -> Places] /\ pc'[r] \notin {"idle", "prompt"}
      /\ \A s \in Requests : s # r => pc'[s] = pc[s]
  BY <1>1, <1>2 DEF StampPrompt, StampReply, Go, Places
<1>5. log' \in Seq(Messages) /\ LogKept /\ OnePrompt'
  BY <1>2, <1>3, StampApart DEF NotYet
<1>6. HistoryKnown' /\ HistoryInOrder'
  BY <1>1, <1>2, <1>5, OrderKept
<1>7. NotYet'
  <2>1. ASSUME NEW s \in Requests, pc'[s] \in {"idle", "prompt"}, NEW i \in 1..Len(log')
        PROVE  log'[i].req # s
    <3>1. s # r /\ pc[s] \in {"idle", "prompt"}
      BY <1>4, <2>1
    <3>2. /\ Len(log') = Len(log) + 1 /\ log'[Len(log) + 1] = m
          /\ \A k \in 1..Len(log) : log'[k] = log[k]
      BY <1>2, <1>3, StampAdds
    <3>3. i \in 1..Len(log) \/ i = Len(log) + 1
      BY <1>2, <3>2
    <3>4. QED
      BY <1>2, <1>3, <3>1, <3>2, <3>3 DEF NotYet
  <2>2. QED
    BY <2>1 DEF NotYet
<1>8. QED
  BY <1>2, <1>4, <1>5, <1>6, <1>7 DEF OrderInv, SessionTypes

\* A request goes on without a message of its own: a row is written or not.
LEMMA RestKeepsOrder ==
  ASSUME OrderInv, UNCHANGED history, pc' \in [Requests -> Places],
         \A s \in Requests : pc'[s] \in {"idle", "prompt"} => pc[s] \in {"idle", "prompt"},
         log' = log \/ \E r \in Requests : \E kinds \in SUBSET Kinds : Store(r, kinds)
  PROVE  OrderInv'
<1>1. /\ log \in Seq(Messages) /\ OnePrompt /\ NotYet /\ Len(log) \in Nat
      /\ history \in [Requests -> Seq(Requests)]
  BY DEF OrderInv, SessionTypes
<1>2. log' \in Seq(Messages) /\ LogKept /\ OnePrompt' /\ Len(log') = Len(log)
  <2>1. CASE log' = log
    BY <1>1, <2>1 DEF LogKept, OnePrompt
  <2>2. CASE log' # log
    <3>1. PICK r \in Requests, kinds \in SUBSET Kinds : Store(r, kinds)
      BY <2>2
    <3>2. QED
      BY <1>1, <3>1, StoreApart
  <2>3. QED
    BY <2>1, <2>2
<1>3. HistoryKnown' /\ HistoryInOrder'
  BY <1>1, <1>2, OrderKept
<1>4. NotYet'
  BY <1>1, <1>2 DEF NotYet, LogKept
<1>5. QED
  BY <1>1, <1>2, <1>3, <1>4 DEF OrderInv, SessionTypes

\* Every step keeps the order.
LEMMA OrderStep == OrderInv /\ [Next]_vars => OrderInv'
<1>1. SUFFICES ASSUME OrderInv, [Next]_vars PROVE OrderInv'
  OBVIOUS
<1>2. pc \in [Requests -> Places]
  BY <1>1 DEF OrderInv, SessionTypes
<1>3. CASE \E r \in Requests : Post(r)
  BY <1>1, <1>3, PostKeepsOrder
<1>4. CASE \E r \in Requests : StampPrompt(r) \/ StampReply(r)
  BY <1>1, <1>4, StampKeepsOrder
<1>5. ASSUME NEW r \in Requests, StorePrompt(r) \/ NoReply(r) \/ StoreReply(r)
      PROVE  OrderInv'
  <2>1. UNCHANGED history /\ pc' \in [Requests -> Places]
        /\ \A s \in Requests : pc'[s] \in {"idle", "prompt"} => pc[s] \in {"idle", "prompt"}
    BY <1>2, <1>5 DEF StorePrompt, NoReply, StoreReply, Go, Places
  <2>2. {"prompt"} \in SUBSET Kinds /\ {"clarification", "reply"} \in SUBSET Kinds
    BY DEF Kinds
  <2>3. log' = log \/ \E kinds \in SUBSET Kinds : Store(r, kinds)
    BY <1>5, <2>2 DEF StorePrompt, NoReply, StoreReply
  <2>4. QED
    BY <1>1, <2>1, <2>3, RestKeepsOrder
<1>6. ASSUME (\E r \in Requests : Leave(r)) \/ Delete \/ UNCHANGED vars
      PROVE  OrderInv'
  <2>1. log' = log /\ pc' = pc /\ UNCHANGED history
    BY <1>6 DEF Leave, Delete, vars
  <2>2. QED
    BY <1>1, <1>2, <2>1, RestKeepsOrder
<1>7. QED
  BY <1>1, <1>3, <1>4, <1>5, <1>6 DEF Next, Request

\* Whatever overlaps, leaves or fails, the prompts a request gives to the agent come in
\* the order of their stamps, none of them twice and all before its own
\* (_load_prompt_history, for any number of requests).
THEOREM HistoriesInOrder == Spec => []HistoryInOrder
<1>1. OrderInv => HistoryInOrder
  BY DEF OrderInv
<1>2. QED
  BY OrderBegins, OrderStep, <1>1, PTL DEF Spec

-----------------------------------------------------------------------------
(* Requests one at a time: the history is the open chain.                  *)

\* c names the requests of the messages at the places in A, in their order.
Names(c, A) ==
  /\ Len(c) = Cardinality(A)
  /\ \A i \in A : c[Cardinality({j \in A : j <= i})] = log[i].req

\* A message behind the others is named behind the others.
LEMMA NamesMore ==
  ASSUME NEW n \in Nat, NEW A \in SUBSET (1..n), NEW c \in Seq(Requests), Names(c, A),
         NEW q \in Requests, q = log[n + 1].req
  PROVE  Names(Append(c, q), A \cup {n + 1})
<1> DEFINE B == A \cup {n + 1}
           Upto(i) == {j \in A : j <= i}
           UptoMore(i) == {j \in B : j <= i}
<1>1. /\ IsFiniteSet(A) /\ Cardinality(A) \in Nat /\ n + 1 \notin A
      /\ Cardinality(B) = Cardinality(A) + 1
  <2>1. IsFiniteSet(1..n)
    BY FS_Interval
  <2>2. IsFiniteSet(A)
    BY <2>1, FS_Subset
  <2>3. n + 1 \notin A
    OBVIOUS
  <2>4. QED
    BY <2>2, <2>3, FS_AddElement, FS_CardinalityType
<1>2. /\ Len(c) = Cardinality(A) /\ Len(Append(c, q)) = Len(c) + 1
      /\ Append(c, q)[Len(c) + 1] = q
      /\ \A k \in 1..Len(c) : Append(c, q)[k] = c[k]
  BY DEF Names
<1>3. ASSUME NEW i \in A PROVE Append(c, q)[Cardinality(UptoMore(i))] = log[i].req
  <2>1. UptoMore(i) = Upto(i)
    OBVIOUS
  <2>2. Upto(i) \in SUBSET A /\ i \in Upto(i)
    OBVIOUS
  <2>3. /\ Cardinality(Upto(i)) \in Nat /\ Cardinality(Upto(i)) <= Cardinality(A)
        /\ Cardinality(Upto(i)) # 0
    <3> HIDE DEF Upto
    <3>1. IsFiniteSet(Upto(i)) /\ Cardinality(Upto(i)) <= Cardinality(A)
      BY <1>1, <2>2, FS_Subset
    <3>2. Cardinality(Upto(i)) \in Nat
      BY <3>1, FS_CardinalityType
    <3>3. Cardinality(Upto(i)) # 0
      BY <2>2, <3>1, FS_EmptySet
    <3>4. QED
      BY <3>1, <3>2, <3>3
  <2>4. c[Cardinality(Upto(i))] = log[i].req
    BY DEF Names
  <2> HIDE DEF Upto, UptoMore
  <2>5. QED
    BY <1>1, <1>2, <2>1, <2>3, <2>4
<1>4. Append(c, q)[Cardinality(UptoMore(n + 1))] = log[n + 1].req
  <2>1. UptoMore(n + 1) = B
    <3>1. \A j \in B : j <= n + 1
      OBVIOUS
    <3> HIDE DEF B
    <3>2. QED
      BY <3>1
  <2> HIDE DEF B, UptoMore
  <2>2. QED
    BY <1>1, <1>2, <2>1
<1>5. Len(Append(c, q)) = Cardinality(B)
  <2> HIDE DEF B
  <2>1. QED
    BY <1>1, <1>2
<1>6. ASSUME NEW i \in B PROVE Append(c, q)[Cardinality({j \in B : j <= i})] = log[i].req
  BY <1>3, <1>4
<1>7. QED
  BY <1>5, <1>6 DEF Names

\* An empty chain names no question.
LEMMA NamesNone == Names(<<>>, {})
  BY FS_EmptySet DEF Names

\* No text is blank, and a reply stands right behind its prompt, whose row is there.
Spoken == \A i \in 1..Len(log) : ~log[i].blank

RepliesBehind ==
  \A i \in 1..Len(log) : log[i].kind # "prompt" =>
    /\ i # 1 /\ i - 1 \in Stored
    /\ log[i - 1].kind = "prompt" /\ log[i - 1].req = log[i].req

\* The clarifications asked in the first n messages, since the last reply there.
AskedIn(n) ==
  {i \in Stored : /\ i <= n
                 /\ log[i].kind = "clarification"
                 /\ \A j \in Stored : j <= n /\ j > i => log[j].kind # "reply"}

\* What is read of the first n messages: their open chain, and a prompt met last.
ReadOpen(acc, n) ==
  /\ acc = [chain |-> acc.chain, pending |-> acc.pending]
  /\ acc.chain \in Seq(Requests)
  /\ Names(acc.chain, AskedIn(n))
  /\ n \in Stored /\ log[n].kind = "prompt" => acc.pending = <<log[n].req>>

\* No question is asked in an empty log.
LEMMA AskedInNone == ASSUME log \in Seq(Messages) PROVE AskedIn(0) = {}
  BY DEF AskedIn, Stored

\* The questions of the whole log.
LEMMA AskedInAll == ASSUME log \in Seq(Messages) PROVE AskedIn(Len(log)) = Asked
<1>1. \A i \in Stored : i \in Nat /\ i <= Len(log)
  BY DEF Stored
<1>2. QED
  BY <1>1 DEF AskedIn, Asked

\* What is asked in the front of a log is asked in it.
LEMMA AskedInBound ==
  ASSUME log \in Seq(Messages), NEW n \in Nat PROVE AskedIn(n) \in SUBSET (1..n)
<1>1. \A i \in Stored : i \in Nat /\ 1 <= i
  BY DEF Stored
<1>2. QED
  BY <1>1 DEF AskedIn

\* What one message more, at place n + 1, adds to the questions asked.
LEMMA AskedInMore ==
  ASSUME log \in Seq(Messages), NEW n \in Nat, n + 1 \in 1..Len(log)
  PROVE  /\ n + 1 \notin Stored \/ log[n + 1].kind = "prompt" => AskedIn(n + 1) = AskedIn(n)
         /\ n + 1 \in Stored /\ log[n + 1].kind = "clarification" =>
              AskedIn(n + 1) = AskedIn(n) \cup {n + 1}
         /\ n + 1 \in Stored /\ log[n + 1].kind = "reply" => AskedIn(n + 1) = {}
<1>1. \A i \in Stored : i \in Nat /\ (i <= n + 1 <=> i <= n \/ i = n + 1)
  BY DEF Stored
<1>2. \A i \in Stored : n + 1 > i <=> i <= n
  BY <1>1
<1>3. ASSUME n + 1 \notin Stored \/ log[n + 1].kind = "prompt"
      PROVE  AskedIn(n + 1) = AskedIn(n)
  BY <1>1, <1>3 DEF AskedIn
<1>4. ASSUME n + 1 \in Stored, log[n + 1].kind = "clarification"
      PROVE  AskedIn(n + 1) = AskedIn(n) \cup {n + 1}
  BY <1>1, <1>4 DEF AskedIn
<1>5. ASSUME n + 1 \in Stored, log[n + 1].kind = "reply" PROVE AskedIn(n + 1) = {}
  BY <1>1, <1>2, <1>5 DEF AskedIn
<1>6. QED
  BY <1>3, <1>4, <1>5

\* One message more keeps what is read the open chain.
LEMMA TurnOpen ==
  ASSUME log \in Seq(Messages), Spoken, RepliesBehind, NEW n \in Nat, n + 1 \in 1..Len(log),
         NEW acc, ReadOpen(acc, n)
  PROVE  ReadOpen(NextRead(acc, n + 1), n + 1)
<1> DEFINE next == NextRead(acc, n + 1)
<1>1. /\ acc = [chain |-> acc.chain, pending |-> acc.pending]
      /\ acc.chain \in Seq(Requests) /\ Names(acc.chain, AskedIn(n))
      /\ n \in Stored /\ log[n].kind = "prompt" => acc.pending = <<log[n].req>>
  BY DEF ReadOpen
<1>2. log[n + 1].req \in Requests /\ log[n + 1].kind \in Kinds /\ ~log[n + 1].blank
  <2>1. log[n + 1] \in Messages
    OBVIOUS
  <2>2. QED
    BY <2>1 DEF Messages, Spoken
<1>3. CASE n + 1 \notin Stored
  <2>1. next = acc /\ AskedIn(n + 1) = AskedIn(n)
    BY <1>3, AskedInMore DEF NextRead
  <2>2. QED
    BY <1>1, <1>3, <2>1 DEF ReadOpen
<1>4. CASE n + 1 \in Stored /\ log[n + 1].kind = "prompt"
  <2>1. AskedIn(n + 1) = AskedIn(n)
    BY <1>4, AskedInMore
  <2>2. next = [acc EXCEPT !.pending = <<log[n + 1].req>>]
    BY <1>2, <1>4 DEF NextRead, Turn
  <2> HIDE DEF next
  <2>3. /\ next = [chain |-> next.chain, pending |-> next.pending]
        /\ next.chain = acc.chain /\ next.pending = <<log[n + 1].req>>
    BY <1>1, <2>2
  <2>4. ReadOpen(next, n + 1)
    BY <1>1, <2>1, <2>3 DEF ReadOpen
  <2>5. QED
    BY <2>4 DEF next
<1>5. CASE n + 1 \in Stored /\ log[n + 1].kind # "prompt"
  <2>1. n \in Stored /\ log[n].kind = "prompt" /\ log[n].req = log[n + 1].req
    <3>1. n + 1 - 1 = n
      OBVIOUS
    <3>2. QED
      BY <1>5, <3>1 DEF RepliesBehind
  <2>2. PICK q \in Requests : q = log[n + 1].req
    BY <1>2
  <2>3. acc.pending = <<q>> /\ <<q>> # <<>>
    BY <1>1, <2>1, <2>2
  <2>4. CASE log[n + 1].kind = "clarification"
    <3>1. AskedIn(n + 1) = AskedIn(n) \cup {n + 1}
      BY <1>5, <2>4, AskedInMore
    <3>2. next = [chain |-> acc.chain \o acc.pending, pending |-> <<>>]
      BY <1>2, <1>5, <2>3, <2>4 DEF NextRead, Turn
    <3>3. acc.chain \o <<q>> = Append(acc.chain, q) /\ Append(acc.chain, q) \in Seq(Requests)
      BY <1>1, <2>2
    <3>4. Names(Append(acc.chain, q), AskedIn(n + 1))
      BY <1>1, <2>2, <3>1, AskedInBound, NamesMore
    <3> HIDE DEF next
    <3>5. /\ next = [chain |-> next.chain, pending |-> next.pending]
          /\ next.chain = Append(acc.chain, q)
      BY <2>3, <3>2, <3>3
    <3>6. ReadOpen(next, n + 1)
      BY <1>5, <3>3, <3>4, <3>5 DEF ReadOpen
    <3>7. QED
      BY <3>6 DEF next
  <2>5. CASE log[n + 1].kind = "reply"
    <3>1. AskedIn(n + 1) = {}
      BY <1>5, <2>5, AskedInMore
    <3>2. next = [chain |-> <<>>, pending |-> <<>>]
      BY <1>2, <1>5, <2>3, <2>5 DEF NextRead, Turn
    <3> HIDE DEF next
    <3>3. /\ next = [chain |-> next.chain, pending |-> next.pending]
          /\ next.chain = <<>> /\ <<>> \in Seq(Requests)
      BY <3>2
    <3>4. ReadOpen(next, n + 1)
      BY <1>5, <3>1, <3>3, NamesNone DEF ReadOpen
    <3>5. QED
      BY <3>4 DEF next
  <2>6. QED
    BY <1>2, <1>5, <2>4, <2>5 DEF Kinds
<1>6. QED
  BY <1>3, <1>4, <1>5

\* What is read of a log of whole turns is its open chain.
LEMMA HistoryOpen ==
  ASSUME log \in Seq(Messages), Spoken, RepliesBehind
  PROVE  HistoryIsOpenChain
<1>1. PICK f : /\ f[0] = Begun
               /\ \A n \in 1..Len(log) : f[n] = NextRead(f[n - 1], n)
               /\ PromptHistory = f[Len(log)].chain
  BY Readings
<1> DEFINE S == {n \in Nat : n <= Len(log) => ReadOpen(f[n], n)}
<1>2. 0 \in S
  <2>1. /\ f[0].chain = <<>> /\ <<>> \in Seq(Requests)
        /\ f[0] = [chain |-> f[0].chain, pending |-> f[0].pending]
    BY <1>1 DEF Begun
  <2>2. 0 \notin Stored
    BY DEF Stored
  <2>3. ReadOpen(f[0], 0)
    BY <2>1, <2>2, AskedInNone, NamesNone DEF ReadOpen
  <2>4. QED
    BY <2>3
<1>3. ASSUME NEW n \in S PROVE n + 1 \in S
  <2>1. SUFFICES ASSUME n + 1 <= Len(log) PROVE ReadOpen(f[n + 1], n + 1)
    OBVIOUS
  <2>2. n \in Nat /\ n + 1 \in 1..Len(log) /\ ReadOpen(f[n], n)
    BY <2>1
  <2>3. f[n + 1] = NextRead(f[n], n + 1)
    BY <1>1, <2>2
  <2>4. QED
    BY <2>2, <2>3, TurnOpen
<1>4. S = Nat
  <2>1. S \in SUBSET Nat
    OBVIOUS
  <2> HIDE DEF S
  <2>2. QED
    BY <1>2, <1>3, <2>1, AllNaturals
<1>5. ReadOpen(f[Len(log)], Len(log))
  BY <1>4
<1>6. Names(PromptHistory, Asked)
  <2>1. Names(f[Len(log)].chain, AskedIn(Len(log)))
    BY <1>5 DEF ReadOpen
  <2>2. QED
    BY <1>1, <2>1, AskedInAll
<1>7. QED
  BY <1>6 DEF Names, HistoryIsOpenChain

\* One request has the session.
InTurn ==
  \A r, s \in Requests :
    pc[r] \notin {"idle", "over"} /\ pc[s] \notin {"idle", "over"} => r = s

\* A request that stores its prompt, or runs, has it last in the log.
PromptLast ==
  \A r \in Requests : pc[r] \in {"storing_prompt", "running"} =>
    /\ Len(log) # 0 /\ Prompt(Len(log), r)
    /\ pc[r] = "running" => log[Len(log)].stored

TurnsInv ==
  /\ log \in Seq(Messages) /\ pc \in [Requests -> Places] /\ left = {}
  /\ InTurn /\ Spoken /\ RepliesBehind /\ PromptLast

\* Nobody posts while a request is open.
LEMMA PostAlone ==
  ASSUME MaxOpen = 1, TurnsInv, NEW r \in Requests, Post(r), NEW s \in Requests
  PROVE  pc[s] \in {"idle", "over"}
<1>1. SUFFICES ASSUME pc[s] \notin {"idle", "over"} PROVE FALSE
  OBVIOUS
<1>2. Open = {s}
  BY <1>1 DEF Open, TurnsInv, InTurn
<1>3. Cardinality(Open) = 1
  BY <1>2, FS_Singleton
<1>4. Cardinality(Open) < 1
  BY DEF Post
<1>5. QED
  BY <1>3, <1>4

\* The empty log is one of whole turns.
LEMMA TurnsBegin == Init => TurnsInv
<1>1. SUFFICES ASSUME Init PROVE TurnsInv
  OBVIOUS
<1>2. log = <<>> /\ Len(log) = 0 /\ log \in Seq(Messages) /\ left = {}
  BY <1>1 DEF Init
<1>3. pc \in [Requests -> Places] /\ \A r \in Requests : pc[r] = "idle"
  BY <1>1 DEF Init, Places
<1>4. QED
  BY <1>2, <1>3 DEF TurnsInv, InTurn, Spoken, RepliesBehind, PromptLast

\* What a step does to the places of the requests.
LEMMA PlacesStep ==
  ASSUME MaxOpen = 1, MayLeave = FALSE, TurnsInv, [Next]_vars
  PROVE  pc' \in [Requests -> Places] /\ left' = {} /\ InTurn'
<1>1. /\ pc \in [Requests -> Places] /\ left = {} /\ InTurn
  BY DEF TurnsInv
<1>2. CASE Delete \/ UNCHANGED vars
  BY <1>1, <1>2 DEF Delete, vars, InTurn
<1>3. ASSUME NEW r \in Requests, Post(r)
      PROVE  pc' \in [Requests -> Places] /\ left' = {} /\ InTurn'
  <2>1. \A s \in Requests : pc[s] \in {"idle", "over"}
    BY <1>3, PostAlone
  <2>2. /\ pc' \in [Requests -> Places] /\ left' = {}
        /\ \A s \in Requests : s # r => pc'[s] = pc[s]
    BY <1>1, <1>3 DEF Post, Go, Places
  <2>3. QED
    BY <2>1, <2>2 DEF InTurn
<1>4. ASSUME NEW r \in Requests,
             StampPrompt(r) \/ StorePrompt(r) \/ StampReply(r) \/ NoReply(r) \/ StoreReply(r)
      PROVE  pc' \in [Requests -> Places] /\ left' = {} /\ InTurn'
  <2>1. pc[r] \notin {"idle", "over"} /\ left' = {}
    BY <1>1, <1>4 DEF StampPrompt, StorePrompt, StampReply, NoReply, StoreReply
  <2>2. \E place \in Places : Go(r, place)
    BY <1>4 DEF StampPrompt, StorePrompt, StampReply, NoReply, StoreReply, Places
  <2>3. pc' \in [Requests -> Places] /\ \A s \in Requests : s # r => pc'[s] = pc[s]
    BY <1>1, <2>2 DEF Go
  <2>4. QED
    BY <1>1, <2>1, <2>3 DEF InTurn
<1>5. ASSUME NEW r \in Requests, Leave(r) PROVE FALSE
  BY <1>5 DEF Leave
<1>6. QED
  BY <1>2, <1>3, <1>4, <1>5 DEF Next, Request

\* What the log has to keep for the turns to follow each other.
LogShape == log \in Seq(Messages) /\ Spoken /\ RepliesBehind /\ PromptLast

\* Nothing is written: only a place is left.
LEMMA ShapeLeft ==
  ASSUME LogShape, log' = log,
         \A s \in Requests : pc'[s] \in {"storing_prompt", "running"} => pc'[s] = pc[s]
  PROVE  LogShape'
BY DEF LogShape, Spoken, RepliesBehind, PromptLast, Stored, Prompt

\* A row is written: the prompt of a request that runs from now on, or its reply.
LEMMA ShapeStored ==
  ASSUME LogShape, NEW r \in Requests, NEW kinds, Store(r, kinds),
         \A s \in Requests : pc'[s] \in {"storing_prompt", "running"} =>
           \/ pc'[s] = pc[s]
           \/ s = r /\ pc[s] = "storing_prompt" /\ "prompt" \in kinds
  PROVE  LogShape'
<1>1. /\ log' \in Seq(Messages) /\ Len(log) \in Nat /\ Len(log') = Len(log)
      /\ \A i \in 1..Len(log) :
           /\ log'[i].req = log[i].req /\ log'[i].kind = log[i].kind
           /\ log'[i].blank = log[i].blank
           /\ log[i].req = r /\ log[i].kind \in kinds => log'[i].stored
           /\ log[i].stored => log'[i].stored
  <2>1. log \in Seq(Messages)
    BY DEF LogShape
  <2>2. QED
    BY <2>1, StoreKeeps
<1>2. Spoken'
  BY <1>1 DEF LogShape, Spoken
<1>3. \A i \in Stored : i \in Stored'
  BY <1>1 DEF Stored, LogShape
<1>4. RepliesBehind'
  <2>1. ASSUME NEW i \in 1..Len(log), log'[i].kind # "prompt"
        PROVE  /\ i # 1 /\ i - 1 \in Stored'
               /\ log'[i - 1].kind = "prompt" /\ log'[i - 1].req = log'[i].req
    <3>1. /\ i # 1 /\ i - 1 \in Stored
          /\ log[i - 1].kind = "prompt" /\ log[i - 1].req = log[i].req
      BY <1>1, <2>1 DEF LogShape, RepliesBehind
    <3>2. i - 1 \in 1..Len(log)
      BY <1>1, <3>1
    <3>3. QED
      BY <1>1, <1>3, <3>1, <3>2
  <2>2. QED
    BY <1>1, <2>1 DEF RepliesBehind
<1>5. PromptLast'
  <2>1. ASSUME NEW s \in Requests, pc'[s] \in {"storing_prompt", "running"}
        PROVE  /\ Len(log) # 0 /\ log'[Len(log)].kind = "prompt" /\ log'[Len(log)].req = s
               /\ pc'[s] = "running" => log'[Len(log)].stored
    <3>1. pc[s] \in {"storing_prompt", "running"}
      BY <2>1
    <3>2. /\ Len(log) # 0 /\ log[Len(log)].kind = "prompt" /\ log[Len(log)].req = s
          /\ pc[s] = "running" => log[Len(log)].stored
      BY <3>1 DEF LogShape, PromptLast, Prompt
    <3>3. Len(log) \in 1..Len(log)
      BY <1>1, <3>2
    <3>4. QED
      BY <1>1, <2>1, <3>2, <3>3
  <2>2. QED
    BY <1>1, <2>1 DEF PromptLast, Prompt
<1>6. QED
  BY <1>1, <1>2, <1>4, <1>5 DEF LogShape

\* A message is stamped, by the one request in its turn.
LEMMA ShapeStamped ==
  ASSUME LogShape, NEW m \in Messages, ~m.blank, log' = Append(log, m),
         m.kind # "prompt" =>
           Len(log) # 0 /\ Prompt(Len(log), m.req) /\ log[Len(log)].stored,
         \A s \in Requests : pc'[s] \in {"storing_prompt", "running"} =>
           s = m.req /\ m.kind = "prompt" /\ pc'[s] = "storing_prompt"
  PROVE  LogShape'
<1>1. /\ log' \in Seq(Messages) /\ Len(log) \in Nat /\ Len(log') = Len(log) + 1
      /\ log'[Len(log) + 1] = m
      /\ \A i \in 1..Len(log) : log'[i] = log[i]
  <2>1. log \in Seq(Messages)
    BY DEF LogShape
  <2>2. QED
    BY <2>1, StampAdds
<1>2. \A i \in 1..Len(log') : i \in 1..Len(log) \/ i = Len(log) + 1
  BY <1>1
<1>3. Spoken'
  BY <1>1, <1>2 DEF LogShape, Spoken
<1>4. \A i \in 1..Len(log) : log[i].stored => i \in Stored'
  BY <1>1 DEF Stored
<1>5. RepliesBehind'
  <2>1. ASSUME NEW i \in 1..Len(log'), log'[i].kind # "prompt"
        PROVE  /\ i # 1 /\ i - 1 \in Stored'
               /\ log'[i - 1].kind = "prompt" /\ log'[i - 1].req = log'[i].req
    <3>1. CASE i \in 1..Len(log)
      <4>1. /\ i # 1 /\ i - 1 \in Stored
            /\ log[i - 1].kind = "prompt" /\ log[i - 1].req = log[i].req
        BY <1>1, <2>1, <3>1 DEF LogShape, RepliesBehind
      <4>2. i - 1 \in 1..Len(log) /\ log[i - 1].stored
        BY <1>1, <3>1, <4>1 DEF Stored
      <4>3. QED
        BY <1>1, <1>4, <3>1, <4>1, <4>2
    <3>2. CASE i = Len(log) + 1
      <4>1. Len(log) # 0 /\ Prompt(Len(log), m.req) /\ log[Len(log)].stored
        BY <1>1, <2>1, <3>2
      <4>2. i - 1 = Len(log) /\ Len(log) \in 1..Len(log) /\ i # 1
        BY <1>1, <3>2, <4>1
      <4>3. QED
        BY <1>1, <1>4, <3>2, <4>1, <4>2 DEF Prompt
    <3>3. QED
      BY <1>2, <3>1, <3>2
  <2>2. QED
    BY <2>1 DEF RepliesBehind
<1>6. PromptLast'
  BY <1>1 DEF PromptLast, Prompt
<1>7. QED
  BY <1>1, <1>3, <1>5, <1>6 DEF LogShape

\* Every step keeps the shape of the log.
LEMMA ShapeStep ==
  ASSUME MaxOpen = 1, MayLeave = FALSE, MayBeBlank = FALSE, TurnsInv, [Next]_vars
  PROVE  LogShape'
<1>1. LogShape /\ pc \in [Requests -> Places] /\ InTurn
  BY DEF TurnsInv, LogShape
<1>2. CASE Delete \/ UNCHANGED vars \/ \E r \in Requests : Leave(r)
  BY <1>1, <1>2, ShapeLeft DEF Delete, vars, Leave
<1>3. ASSUME NEW r \in Requests, Post(r) \/ NoReply(r) PROVE LogShape'
  <2>1. log' = log
    BY <1>3 DEF Post, NoReply
  <2>2. \A s \in Requests : pc'[s] \in {"storing_prompt", "running"} => pc'[s] = pc[s]
    BY <1>1, <1>3 DEF Post, NoReply, Go
  <2>3. QED
    BY <1>1, <2>1, <2>2, ShapeLeft
<1>4. ASSUME NEW r \in Requests, StorePrompt(r) \/ StoreReply(r) PROVE LogShape'
  <2>1. CASE log' = log /\ Go(r, "over")
    <3>1. \A s \in Requests : pc'[s] \in {"storing_prompt", "running"} => pc'[s] = pc[s]
      BY <1>1, <2>1 DEF Go
    <3>2. QED
      BY <1>1, <2>1, <3>1, ShapeLeft
  <2>2. CASE pc[r] = "storing_prompt" /\ Store(r, {"prompt"}) /\ Go(r, "running")
    <3>1. \A s \in Requests : pc'[s] \in {"storing_prompt", "running"} =>
            \/ pc'[s] = pc[s]
            \/ s = r /\ pc[s] = "storing_prompt" /\ "prompt" \in {"prompt"}
      BY <1>1, <2>2 DEF Go
    <3>2. QED
      BY <1>1, <2>2, <3>1, ShapeStored
  <2>3. CASE Store(r, {"clarification", "reply"}) /\ Go(r, "over")
    <3>1. \A s \in Requests : pc'[s] \in {"storing_prompt", "running"} => pc'[s] = pc[s]
      BY <1>1, <2>3 DEF Go
    <3>2. QED
      BY <1>1, <2>3, <3>1, ShapeStored
  <2>4. QED
    BY <1>4, <2>1, <2>2, <2>3 DEF StorePrompt, StoreReply
<1>5. ASSUME NEW r \in Requests, StampPrompt(r) PROVE LogShape'
  <2>1. PICK m \in Messages : /\ log' = Append(log, m) /\ m.req = r /\ ~m.blank
                              /\ m.kind = "prompt"
    <3>1. /\ Message(r, "prompt", FALSE) \in Messages
          /\ Message(r, "prompt", FALSE).req = r /\ ~Message(r, "prompt", FALSE).blank
          /\ Message(r, "prompt", FALSE).kind = "prompt"
      BY DEF Message, Messages, Kinds
    <3>2. log' = Append(log, Message(r, "prompt", FALSE))
      BY <1>5 DEF StampPrompt, Blanks
    <3>3. QED
      BY <3>1, <3>2
  <2>2. pc[r] = "prompt" /\ Go(r, "storing_prompt")
    BY <1>5 DEF StampPrompt
  <2>3. \A s \in Requests : pc'[s] \in {"storing_prompt", "running"} =>
          s = r /\ pc'[s] = "storing_prompt"
    BY <1>1, <2>2 DEF Go, InTurn
  <2>4. QED
    BY <1>1, <2>1, <2>3, ShapeStamped
<1>6. ASSUME NEW r \in Requests, StampReply(r) PROVE LogShape'
  <2>1. PICK m \in Messages : /\ log' = Append(log, m) /\ m.req = r /\ ~m.blank
                              /\ m.kind # "prompt"
    <3>1. ASSUME NEW kind \in {"clarification", "reply"}
          PROVE  /\ Message(r, kind, FALSE) \in Messages
                 /\ Message(r, kind, FALSE).req = r /\ ~Message(r, kind, FALSE).blank
                 /\ Message(r, kind, FALSE).kind # "prompt"
      BY DEF Message, Messages, Kinds
    <3>2. \E kind \in {"clarification", "reply"} : log' = Append(log, Message(r, kind, FALSE))
      BY <1>6 DEF StampReply, Blanks
    <3>3. QED
      BY <3>1, <3>2
  <2>2. pc[r] = "running" /\ Go(r, "storing_reply")
    BY <1>6 DEF StampReply
  <2>3. \A s \in Requests : pc'[s] \notin {"storing_prompt", "running"}
    BY <1>1, <2>2 DEF Go, InTurn
  <2>4. Len(log) # 0 /\ Prompt(Len(log), r) /\ log[Len(log)].stored
    BY <1>1, <2>2 DEF LogShape, PromptLast
  <2>5. QED
    BY <1>1, <2>1, <2>3, <2>4, ShapeStamped
<1>7. QED
  BY <1>2, <1>3, <1>4, <1>5, <1>6 DEF Next, Request

\* One request at a time, and no text blank: the history given to the agent is the open
\* chain of prompts that were answered with a question, each once and in order, whatever
\* write or run fails in between (_load_prompt_history, for any number of turns).
THEOREM OpenChainIsRead ==
  ASSUME MaxOpen = 1, MayLeave = FALSE, MayBeBlank = FALSE
  PROVE  Spec => []HistoryIsOpenChain
<1>1. TurnsInv /\ [Next]_vars => TurnsInv'
  <2>1. SUFFICES ASSUME TurnsInv, [Next]_vars PROVE TurnsInv'
    OBVIOUS
  <2>2. pc' \in [Requests -> Places] /\ left' = {} /\ InTurn'
    BY <2>1, PlacesStep
  <2>3. LogShape'
    BY <2>1, ShapeStep
  <2>4. QED
    BY <2>2, <2>3 DEF TurnsInv, LogShape
<1>2. TurnsInv => HistoryIsOpenChain
  BY HistoryOpen DEF TurnsInv
<1>3. QED
  BY TurnsBegin, <1>1, <1>2, PTL DEF Spec

=============================================================================
