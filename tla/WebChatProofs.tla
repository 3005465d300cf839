---------------------------- MODULE WebChatProofs ----------------------------
(***************************************************************************)
(* Proofs about WebChat, for any number of sessions, messages and retries: *)
(* what is shown for a message stems from one run and from one session, is *)
(* never doubled, keeps its logs, and a message that is lost says so.      *)
(* A message that is posted again leaves its prompt once per attempt at    *)
(* the most, and its retries run out.                                      *)
(***************************************************************************)
EXTENDS WebChat, ChatEventsProofs

-----------------------------------------------------------------------------
(* The first bubble of a message.                                          *)

\* The messages of a transcript.
Elements(s) == {s[i] : i \in 1..Len(s)}

Mine(m, kind) == m.turn = turn /\ m.kind = kind

\* A bubble is found where there is one, and is the message's own.
LEMMA BubbleFound ==
  ASSUME NEW s \in Seq(Items), NEW kind
  PROVE  /\ Bubble(s, kind) \in 0..Len(s)
         /\ Bubble(s, kind) # 0 =>
              Bubble(s, kind) \in 1..Len(s) /\ Mine(s[Bubble(s, kind)], kind)
         /\ (\E m \in Elements(s) : Mine(m, kind)) <=> Bubble(s, kind) # 0
<1> DEFINE I == {i \in 1..Len(s) : s[i].turn = turn /\ s[i].kind = kind}
<1>1. Bubble(s, kind) = IF I # {} THEN Min(I) ELSE 0
  BY DEF Bubble, SelectInSeq
<1>2. I \in SUBSET Nat
  OBVIOUS
<1>3. I # {} => Min(I) \in I
  BY <1>2, LeastNatural DEF Min
<1>4. (\E m \in Elements(s) : Mine(m, kind)) <=> I # {}
  BY DEF Elements, Mine
<1> HIDE DEF I
<1>5. I # {} => Min(I) \in 1..Len(s) /\ Mine(s[Min(I)], kind)
  BY <1>3 DEF I, Mine
<1>6. QED
  BY <1>1, <1>4, <1>5

\* Two sequences joined.
LEMMA Joined ==
  ASSUME NEW a \in Seq(Items), NEW b \in Seq(Items)
  PROVE  /\ a \o b \in Seq(Items) /\ Len(a \o b) = Len(a) + Len(b)
         /\ \A j \in 1..Len(a) : (a \o b)[j] = a[j]
         /\ \A k \in 1..Len(b) : (a \o b)[Len(a) + k] = b[k]
  OBVIOUS

\* Inserting a message adds it and nothing else.
LEMMA Inserted ==
  ASSUME NEW s \in Seq(Items), NEW e \in Items, NEW i \in 1..Len(s)
  PROVE  /\ InsertAt(s, i + 1, e) \in Seq(Items)
         /\ Elements(InsertAt(s, i + 1, e)) = Elements(s) \cup {e}
<1> DEFINE r == InsertAt(s, i + 1, e)
<1>1. r \in Seq(Items)
  BY DEF InsertAt
<1>2. /\ Len(r) = Len(s) + 1 /\ Len(s) \in Nat
      /\ \A j \in 1..i : r[j] = s[j]
      /\ r[i + 1] = e
      /\ \A j \in (i + 2)..(Len(s) + 1) : r[j] = s[j - 1]
  <2> DEFINE a == SubSeq(s, 1, i)
             b == SubSeq(s, i + 1, Len(s))
             c == a \o <<e>>
  <2>1. /\ a \in Seq(Items) /\ Len(a) = i
        /\ \A j \in 1..i : a[j] = s[j]
    OBVIOUS
  <2>2. /\ b \in Seq(Items) /\ Len(b) = Len(s) - i
        /\ \A j \in 1..(Len(s) - i) : b[j] = s[i + j]
    OBVIOUS
  <2>3. (i + 1) - 1 = i
    OBVIOUS
  <2>4. r = c \o b
    BY <2>3 DEF InsertAt
  <2> HIDE DEF a, b, r
  <2>5. /\ c \in Seq(Items) /\ Len(c) = i + 1
        /\ \A j \in 1..i : c[j] = a[j]
        /\ c[i + 1] = e
    BY <2>1
  <2> HIDE DEF c
  <2>6. Len(r) = Len(s) + 1 /\ Len(s) \in Nat
    <3>1. b \in Seq(Items) /\ c \in Seq(Items)
      BY <2>2, <2>5
    <3>2. Len(c \o b) = Len(c) + Len(b)
      BY <3>1, Joined
    <3>3. Len(r) = (i + 1) + (Len(s) - i)
      BY <2>2, <2>4, <2>5, <3>2
    <3>4. QED
      BY <3>3
  <2>7. \A j \in 1..(i + 1) : r[j] = c[j]
    <3>1. \A j \in 1..Len(c) : (c \o b)[j] = c[j]
      BY <2>2, <2>5, Joined
    <3>2. QED
      BY <2>4, <2>5, <3>1
  <2>8. ASSUME NEW j \in (i + 2)..(Len(s) + 1) PROVE r[j] = s[j - 1]
    <3>1. PICK k \in 1..(Len(s) - i) : j = (i + 1) + k
      <4>1. j - (i + 1) \in 1..(Len(s) - i) /\ j = (i + 1) + (j - (i + 1))
        OBVIOUS
      <4>2. QED
        BY <4>1
    <3>2. r[(i + 1) + k] = b[k]
      <4>1. \A m \in 1..Len(b) : (c \o b)[Len(c) + m] = b[m]
        BY <2>2, <2>5, Joined
      <4>2. QED
        BY <2>2, <2>4, <2>5, <4>1
    <3>3. j - 1 = i + k
      BY <3>1
    <3>4. QED
      BY <2>2, <3>1, <3>2, <3>3
  <2>9. QED
    BY <2>1, <2>5, <2>6, <2>7, <2>8
<1> HIDE DEF r
<1>3. Elements(r) \subseteq Elements(s) \cup {e}
  <2>1. ASSUME NEW j \in 1..Len(r) PROVE r[j] \in Elements(s) \cup {e}
    <3>1. j \in 1..i \/ j = i + 1 \/ j \in (i + 2)..(Len(s) + 1)
      BY <1>2
    <3>2. j \in (i + 2)..(Len(s) + 1) => j - 1 \in 1..Len(s)
      OBVIOUS
    <3>3. CASE j \in 1..i
      <4>1. r[j] = s[j] /\ j \in 1..Len(s)
        BY <1>2, <3>3
      <4>2. QED
        BY <4>1 DEF Elements
    <3>4. CASE j = i + 1
      BY <1>2, <3>4
    <3>5. CASE j \in (i + 2)..(Len(s) + 1)
      <4>1. r[j] = s[j - 1] /\ j - 1 \in 1..Len(s)
        BY <1>2, <3>2, <3>5
      <4>2. QED
        BY <4>1 DEF Elements
    <3>6. QED
      BY <3>1, <3>3, <3>4, <3>5
  <2>2. QED
    BY <2>1 DEF Elements
<1>4. Elements(s) \cup {e} \subseteq Elements(r)
  <2>1. e \in Elements(r)
    <3>1. i + 1 \in 1..Len(r)
      BY <1>2
    <3>2. QED
      BY <1>2, <3>1 DEF Elements
  <2>2. ASSUME NEW j \in 1..Len(s) PROVE s[j] \in Elements(r)
    <3>1. CASE j <= i
      <4>1. j \in 1..i /\ j \in 1..Len(r)
        BY <1>2, <3>1
      <4>2. QED
        BY <1>2, <4>1 DEF Elements
    <3>2. CASE j > i
      <4>1. j + 1 \in (i + 2)..(Len(s) + 1) /\ j + 1 \in 1..Len(r) /\ (j + 1) - 1 = j
        BY <1>2, <3>2
      <4>2. r[j + 1] = s[j]
        BY <1>2, <4>1
      <4>3. QED
        BY <4>1, <4>2 DEF Elements
    <3>3. QED
      BY <3>1, <3>2
  <2>3. QED
    BY <2>1, <2>2 DEF Elements
<1>5. QED
  BY <1>1, <1>3, <1>4 DEF r

\* Changing a message leaves the others.
LEMMA Changed ==
  ASSUME NEW s \in Seq(Items), NEW i \in 1..Len(s), NEW e \in Items
  PROVE  /\ [s EXCEPT ![i] = e] \in Seq(Items)
         /\ Elements([s EXCEPT ![i] = e]) \subseteq Elements(s) \cup {e}
         /\ e \in Elements([s EXCEPT ![i] = e])
         /\ \A m \in Elements(s) : m # s[i] => m \in Elements([s EXCEPT ![i] = e])
<1> DEFINE r == [s EXCEPT ![i] = e]
<1>1. /\ r \in Seq(Items) /\ Len(r) = Len(s) /\ r[i] = e
      /\ \A j \in 1..Len(s) : j # i => r[j] = s[j]
  OBVIOUS
<1> HIDE DEF r
<1>2. QED
  BY <1>1 DEF r, Elements

-----------------------------------------------------------------------------
(* What the handlers make of a transcript.                                 *)

\* A message of the run being read, for the session it was posted to.
Fresh(m) ==
  /\ m.turn = turn /\ m.session = home /\ m.runs \subseteq {Run}
  /\ m.text # "doubled"
  /\ m.kind = "question" => m.text = "partial"

\* A transcript that differs from s in messages of this run only.
Edited(s, r) ==
  /\ r \in Seq(Items)
  /\ \A m \in Elements(r) : m \in Elements(s) \/ Fresh(m)
  /\ \A m \in Elements(s) : m.kind = "log" => m \in Elements(r)

Reading == turn \in 1..MaxTurns /\ attempt \in 0..MaxRetries /\ home \in Sessions

\* The bubbles of the open message are items.
LEMMA ItemType ==
  ASSUME Reading, NEW kind \in Kinds, NEW text \in Texts
  PROVE  /\ Run \in Runs
         /\ Item(kind, text, {Run}) \in Items
         /\ Mine(Item(kind, text, {Run}), kind)
         /\ text # "doubled" /\ (kind = "question" => text = "partial") =>
              Fresh(Item(kind, text, {Run}))
<1>1. Run \in Runs
  BY WebAssumption DEF Reading, Run, Runs
<1>2. Item(kind, text, {Run}) \in Items
  BY <1>1 DEF Reading, Item, Items
<1>3. QED
  BY <1>1, <1>2 DEF Item, Mine, Fresh

\* Logs are put behind the answer, if there is one.
LEMMA LogsEdit ==
  ASSUME Reading, NEW s \in Seq(Items)
  PROVE  /\ Edited(s, WithLogs(s, {Run}))
         /\ Elements(WithLogs(s, {Run})) \subseteq
              Elements(s) \cup {Item("log", "final", {Run})}
         /\ Bubble(s, "answer") # 0 => Shows(WithLogs(s, {Run}), Run)
<1> DEFINE e == Item("log", "final", {Run})
           i == Bubble(s, "answer")
           r == WithLogs(s, {Run})
<1>1. /\ e \in Items /\ Fresh(e) /\ e.kind = "log" /\ e.runs = {Run}
  BY ItemType DEF Kinds, Texts, Item
<1>2. i \in 0..Len(s) /\ (i # 0 => i \in 1..Len(s))
  BY BubbleFound
<1>3. CASE i # 0 /\ ~Shows(s, Run)
  <2>1. r = InsertAt(s, i + 1, e)
    BY <1>3 DEF WithLogs
  <2> HIDE DEF e, i, r
  <2>2. r \in Seq(Items) /\ Elements(r) = Elements(s) \cup {e}
    BY <1>1, <1>2, <1>3, <2>1, Inserted
  <2>3. Edited(s, r)
    BY <1>1, <2>2 DEF Edited
  <2>4. Shows(r, Run)
    BY <1>1, <2>2 DEF Shows, Elements
  <2>5. QED
    BY <2>2, <2>3, <2>4 DEF e, i, r
<1>4. CASE i = 0 \/ Shows(s, Run)
  <2>1. r = s
    BY <1>4 DEF WithLogs
  <2>2. Edited(s, s)
    BY DEF Edited
  <2>3. QED
    BY <1>4, <2>1, <2>2
<1>5. QED
  BY <1>3, <1>4

\* A delta opens the bubble of its source, or joins what is in it.
LEMMA DeltaEdit ==
  ASSUME Reading, NEW s \in Seq(Items), NEW kind \in {"question", "answer"},
         \A m \in Elements(s) : Mine(m, kind) => Fresh(m) /\ m.text = "partial"
  PROVE  /\ Edited(s, WithDelta(s, kind))
         /\ \A m \in Elements(WithDelta(s, kind)) :
              m \in Elements(s) \/ (Mine(m, kind) /\ m.text = "partial")
<1> DEFINE e == Item(kind, "partial", {Run})
           i == Bubble(s, kind)
           r == WithDelta(s, kind)
<1>1. e \in Items /\ Fresh(e) /\ Mine(e, kind) /\ e.text = "partial"
  BY ItemType DEF Kinds, Texts, Item
<1>2. i \in 0..Len(s) /\ (i # 0 => i \in 1..Len(s) /\ Mine(s[i], kind))
  BY BubbleFound
<1>3. CASE i = 0
  <2>1. r = Append(s, e)
    BY <1>3 DEF WithDelta
  <2> HIDE DEF e, i, r
  <2>2. /\ r \in Seq(Items) /\ Len(r) = Len(s) + 1 /\ Len(s) \in Nat /\ r[Len(s) + 1] = e
        /\ \A j \in 1..Len(s) : r[j] = s[j]
    BY <1>1, <2>1
  <2>3. Elements(r) = Elements(s) \cup {e}
    <3>1. \A j \in 1..Len(r) : j \in 1..Len(s) \/ j = Len(s) + 1
      BY <2>2
    <3>2. 1..Len(s) \subseteq 1..Len(r) /\ Len(s) + 1 \in 1..Len(r)
      BY <2>2
    <3>3. QED
      BY <2>2, <3>1, <3>2 DEF Elements
  <2>4. Edited(s, r)
    BY <1>1, <2>2, <2>3 DEF Edited
  <2>5. QED
    BY <1>1, <2>3, <2>4 DEF r
<1>4. CASE i # 0
  <2> DEFINE n == [s[i] EXCEPT !.text = IF @ = "partial" THEN @ ELSE "doubled",
                               !.runs = @ \cup {Run}]
  <2>1. s[i] \in Items /\ s[i] \in Elements(s) /\ Mine(s[i], kind)
    BY <1>2, <1>4 DEF Elements
  <2>2. Fresh(s[i]) /\ s[i].text = "partial"
    BY <2>1
  <2>3. r = [s EXCEPT ![i] = n]
    BY <1>4 DEF WithDelta
  <2>4. Run \in Runs
    BY ItemType DEF Kinds, Texts
  <2>5. n \in Items /\ Mine(n, kind) /\ n.text = "partial" /\ Fresh(n)
    BY <2>1, <2>2, <2>4 DEF Items, Mine, Fresh
  <2>e. i \in 1..Len(s)
    BY <1>2, <1>4
  <2> HIDE DEF e, i, n, r
  <2>6. /\ r \in Seq(Items) /\ Elements(r) \subseteq Elements(s) \cup {n}
        /\ \A m \in Elements(s) : m # s[i] => m \in Elements(r)
    BY <2>e, <2>3, <2>5, Changed
  <2>7. s[i].kind # "log"
    BY <2>1 DEF Mine
  <2>8. Edited(s, r)
    BY <2>5, <2>6, <2>7 DEF Edited
  <2>9. \A m \in Elements(r) : m \in Elements(s) \/ (Mine(m, kind) /\ m.text = "partial")
    BY <2>5, <2>6
  <2>10. QED
    BY <2>8, <2>9 DEF r
<1>5. QED
  BY <1>3, <1>4

\* The final text takes the place of what was streamed.
LEMMA AnswerEdit ==
  ASSUME Reading, NEW s \in Seq(Items),
         \A m \in Elements(s) : m.turn = turn => m.session = home
  PROVE  /\ Edited(s, WithAnswer(s))
         /\ Bubble(WithAnswer(s), "answer") # 0
         /\ \A m \in Elements(WithAnswer(s)) : m \in Elements(s) \/ m.kind = "answer"
<1> DEFINE e == Item("answer", "final", {Run})
           i == Bubble(s, "answer")
           r == WithAnswer(s)
<1>1. e \in Items /\ Fresh(e) /\ Mine(e, "answer")
  BY ItemType DEF Kinds, Texts, Item
<1>2. i \in 0..Len(s) /\ (i # 0 => i \in 1..Len(s) /\ Mine(s[i], "answer"))
  BY BubbleFound
<1>3. CASE i = 0
  <2>1. r = Append(s, e)
    BY <1>3 DEF WithAnswer
  <2> HIDE DEF e, i, r
  <2>2. /\ r \in Seq(Items) /\ Len(r) = Len(s) + 1 /\ Len(s) \in Nat /\ r[Len(s) + 1] = e
        /\ \A j \in 1..Len(s) : r[j] = s[j]
    BY <1>1, <2>1
  <2>3. Elements(r) = Elements(s) \cup {e}
    <3>1. \A j \in 1..Len(r) : j \in 1..Len(s) \/ j = Len(s) + 1
      BY <2>2
    <3>2. 1..Len(s) \subseteq 1..Len(r) /\ Len(s) + 1 \in 1..Len(r)
      BY <2>2
    <3>3. QED
      BY <2>2, <3>1, <3>2 DEF Elements
  <2>4. Edited(s, r)
    BY <1>1, <2>2, <2>3 DEF Edited
  <2>5. Bubble(r, "answer") # 0
    BY <1>1, <2>2, <2>3, BubbleFound
  <2>6. QED
    BY <1>1, <2>3, <2>4, <2>5 DEF r, Mine
<1>4. CASE i # 0
  <2> DEFINE n == [s[i] EXCEPT !.text = "final", !.runs = {Run}]
  <2>1. s[i] \in Items /\ s[i] \in Elements(s) /\ Mine(s[i], "answer")
    BY <1>2, <1>4 DEF Elements
  <2>2. s[i].session = home
    BY <2>1 DEF Mine
  <2>3. r = [s EXCEPT ![i] = n]
    BY <1>4 DEF WithAnswer
  <2>4. Run \in Runs
    BY ItemType DEF Kinds, Texts
  <2>5. n \in Items /\ Mine(n, "answer") /\ Fresh(n)
    BY <2>1, <2>2, <2>4 DEF Items, Mine, Fresh, Texts
  <2>e. i \in 1..Len(s)
    BY <1>2, <1>4
  <2> HIDE DEF e, i, n, r
  <2>6. /\ r \in Seq(Items) /\ Elements(r) \subseteq Elements(s) \cup {n}
        /\ n \in Elements(r)
        /\ \A m \in Elements(s) : m # s[i] => m \in Elements(r)
    BY <2>e, <2>3, <2>5, Changed
  <2>7. s[i].kind # "log"
    BY <2>1 DEF Mine
  <2>8. Edited(s, r)
    BY <2>5, <2>6, <2>7 DEF Edited
  <2>9. Bubble(r, "answer") # 0
    BY <2>5, <2>6, BubbleFound
  <2>10. QED
    BY <2>5, <2>6, <2>8, <2>9 DEF r, Mine
<1>5. QED
  BY <1>3, <1>4

\* One edit after another.
LEMMA EditTwice ==
  ASSUME NEW s, NEW r, NEW t, Edited(s, r), Edited(r, t)
  PROVE  Edited(s, t)
  BY DEF Edited

\* No edit at all.
LEMMA EditNothing ==
  ASSUME NEW s \in Seq(Items)
  PROVE  Edited(s, s)
  BY DEF Edited

\* Logs that are shown stay on the screen.
LEMMA StillShows ==
  ASSUME NEW s \in Seq(Items), NEW r \in Seq(Items), Edited(s, r), NEW run, Shows(s, run)
  PROVE  Shows(r, run)
<1>1. PICK m \in Elements(s) : m.kind = "log" /\ run \in m.runs
  BY DEF Shows, Elements
<1>2. m \in Elements(r)
  BY <1>1 DEF Edited
<1>3. QED
  BY <1>1, <1>2 DEF Shows, Elements

-----------------------------------------------------------------------------
(* The transcript.                                                         *)

\* A message that is open was submitted; of an attempt that is repeated nothing was
\* heard.
Kept ==
  /\ turn \in 0..MaxTurns /\ attempt \in 0..MaxRetries
  /\ home \in Sessions /\ view \in Sessions
  /\ pc \in {"idle", "posting", "reading", "delay"}
  /\ pc # "idle" => turn \in 1..MaxTurns
  /\ pc \in {"posting", "delay"} => phase = "none"
  /\ stream \in Seq(Items)

\* Each message shown is of its session and its run; its text is whole as long as its
\* answer is not.
Proper(m) ==
  /\ m.turn \in 1..turn
  /\ m.turn = turn =>
       /\ m.session = home /\ m.runs \subseteq {Run}
       /\ phase = "none" => m.runs = {}
       /\ m.kind = "answer" /\ phase \in Unanswered => m.text = "partial"
  /\ m.text # "doubled"
  /\ m.kind = "question" => m.text = "partial"
  /\ m.session # view => m.turn \in switched

Transcript ==
  /\ \A m \in Elements(stream) : Proper(m)
  /\ pc # "idle" /\ home # view => turn \in switched
  /\ \A t \in 1..turn : \E run :
       \A m \in Elements(stream) : m.turn = t => m.runs \subseteq {run}

\* At first nothing is shown.
LEMMA InitTranscript == Init => Kept /\ Transcript
<1>1. SUFFICES ASSUME Init PROVE Kept /\ Transcript
  OBVIOUS
<1>2. Elements(stream) = {} /\ stream \in Seq(Items) /\ 1..turn = {}
  BY <1>1 DEF Init, Elements
<1>3. QED
  BY <1>1, <1>2, WebAssumption DEF Init, Kept, Transcript

\* What an event does to the transcript.
LEMMA DeliverEdit ==
  ASSUME Kept, Transcript, NEW e \in ClientEvents, Deliver(e)
  PROVE  /\ Reading
         /\ Edited(stream, stream')
         /\ phase' \in Unanswered => phase \in Unanswered /\
              \A m \in Elements(stream') :
                m \in Elements(stream) \/ m.kind # "answer" \/ m.text = "partial"
         /\ phase' # "none"
<1>1. /\ Reading /\ stream \in Seq(Items) /\ pc = "reading"
  BY DEF Deliver, Kept, Reading
<1>2. <<phase, e, phase'>> \in Transitions
  BY AdvanceTo DEF Deliver
<1>3. /\ phase' # "none"
      /\ e = Delta => phase \in {"open", "asking", "answering"}
      /\ phase' \in Unanswered => phase \in Unanswered /\ e # AnswerCompleted
  BY <1>2, Transits
<1>4. \A m \in Elements(stream) : m.turn = turn => m.session = home
  BY DEF Transcript, Proper
<1>a. /\ Edited(stream, stream)
      /\ Edited(stream, WithLogs(stream, {Run}))
      /\ \A m \in Elements(WithLogs(stream, {Run})) :
           m \in Elements(stream) \/ m.kind # "answer"
  <2>1. /\ Edited(stream, WithLogs(stream, {Run}))
        /\ Elements(WithLogs(stream, {Run})) \subseteq
             Elements(stream) \cup {Item("log", "final", {Run})}
    BY <1>1, LogsEdit
  <2>2. Item("log", "final", {Run}).kind # "answer"
    BY DEF Item
  <2>3. QED
    BY <1>1, <2>1, <2>2, EditNothing
<1>5. CASE e = Delta
  <2> DEFINE kind == IF phase' = "asking" THEN "question" ELSE "answer"
  <2>1. stream' = WithDelta(stream, kind)
    BY <1>5 DEF Deliver, OnEvent, OnDelta
  <2>2. kind \in {"question", "answer"}
    OBVIOUS
  <2>3. \A m \in Elements(stream) : Mine(m, kind) => Fresh(m) /\ m.text = "partial"
    BY <1>3, <1>5 DEF Transcript, Proper, Mine, Fresh, Unanswered
  <2> HIDE DEF kind
  <2>4. /\ Edited(stream, WithDelta(stream, kind))
        /\ \A m \in Elements(WithDelta(stream, kind)) :
              m \in Elements(stream) \/ (Mine(m, kind) /\ m.text = "partial")
    BY <1>1, <2>2, <2>3, DeltaEdit
  <2>5. QED
    BY <1>1, <1>3, <2>1, <2>4
<1>6. CASE e # Delta /\ e = ToolLogs
  <2>1. stream' = WithLogs(stream, {Run})
    BY <1>6 DEF Deliver, OnEvent, OnLogs
  <2>2. QED
    BY <1>1, <1>3, <1>a, <2>1
<1>7. CASE e \notin {Delta, ToolLogs} /\ e = AnswerCompleted
  <2>1. stream' \in {stream, WithAnswer(stream), WithLogs(WithAnswer(stream), {Run})}
    BY <1>7 DEF Deliver, OnEvent, OnAnswer, ShowLogs
  <2>2. Edited(stream, WithAnswer(stream)) /\ WithAnswer(stream) \in Seq(Items)
    BY <1>1, <1>4, AnswerEdit DEF Edited
  <2>3. Edited(WithAnswer(stream), WithLogs(WithAnswer(stream), {Run}))
    BY <1>1, <2>2, LogsEdit
  <2>4. Edited(stream, WithLogs(WithAnswer(stream), {Run}))
    BY <2>2, <2>3, EditTwice
  <2>5. QED
    BY <1>1, <1>3, <1>7, <1>a, <2>1, <2>2, <2>4
<1>8. CASE e \notin {Delta, ToolLogs, AnswerCompleted} /\ e \in {Completed, Clarified}
  <2>1. stream' \in {stream, WithLogs(stream, {Run})}
    BY <1>8 DEF Deliver, OnEvent, OnCompleted, ShowLogs
  <2>2. QED
    BY <1>1, <1>3, <1>a, <2>1
<1>9. CASE e \notin {Delta, ToolLogs, AnswerCompleted, Completed, Clarified}
  <2>1. stream' = stream
    BY <1>9 DEF Deliver, OnEvent, OnFailure, OnStage
  <2>2. QED
    BY <1>1, <1>3, <1>a, <2>1
<1>10. QED
  BY <1>5, <1>6, <1>7, <1>8, <1>9

\* An event keeps what is said of the transcript.
LEMMA DeliverTranscript ==
  ASSUME Kept, Transcript, NEW e \in ClientEvents, Deliver(e)
  PROVE  Kept' /\ Transcript'
<1>1. /\ Edited(stream, stream') /\ Reading
      /\ phase' \in Unanswered => phase \in Unanswered /\
           \A m \in Elements(stream') :
             m \in Elements(stream) \/ m.kind # "answer" \/ m.text = "partial"
      /\ phase' # "none"
  BY DeliverEdit
<1>2. UNCHANGED <<view, home, turn, pc, attempt, switched>> /\ pc = "reading"
  BY DEF Deliver
<1>3. Run' = Run
  BY <1>2 DEF Run
<1>4. Kept'
  BY <1>1, <1>2 DEF Kept, Edited
<1>5. ASSUME NEW m \in Elements(stream') PROVE Proper(m)'
  <2>1. CASE m \in Elements(stream)
    <3>1. Proper(m)
      BY <2>1 DEF Transcript
    <3>2. QED
      BY <1>1, <1>2, <1>3, <3>1 DEF Proper
  <2>2. CASE m \notin Elements(stream)
    <3>1. Fresh(m)
      BY <1>1, <1>5, <2>2 DEF Edited
    <3>2. phase' \in Unanswered => m.kind # "answer" \/ m.text = "partial"
      BY <1>1, <1>5, <2>2
    <3>3. home # view => turn \in switched
      BY <1>2 DEF Transcript
    <3>4. turn \in 1..turn
      BY <1>1 DEF Reading
    <3>5. QED
      BY <1>1, <1>2, <1>3, <3>1, <3>2, <3>3, <3>4 DEF Proper, Fresh
  <2>3. QED
    BY <2>1, <2>2
<1>6. ASSUME NEW t \in 1..turn
      PROVE  \E run : \A m \in Elements(stream') : m.turn = t => m.runs \subseteq {run}
  <2>1. CASE t = turn
    BY <1>2, <1>3, <1>5, <2>1 DEF Proper
  <2>2. CASE t # turn
    <3>1. \A m \in Elements(stream') : m.turn = t => m \in Elements(stream)
      BY <1>1, <2>2 DEF Edited, Fresh
    <3>2. QED
      BY <3>1 DEF Transcript
  <2>3. QED
    BY <2>1, <2>2
<1>7. (Elements(stream))' = Elements(stream')
  BY DEF Elements
<1>8. QED
  BY <1>2, <1>4, <1>5, <1>6, <1>7 DEF Transcript

\* A new message is the first of a transcript that knows none of it.
LEMMA SubmitTranscript == Kept /\ Transcript /\ Submit => Kept' /\ Transcript'
<1> SUFFICES ASSUME Kept, Transcript, Submit PROVE Kept' /\ Transcript'
  OBVIOUS
<1> PICK e : e = [turn |-> turn + 1, kind |-> "user", text |-> "final", runs |-> {},
                  session |-> view]
  OBVIOUS
<1>1. /\ turn \in 0..MaxTurns /\ turn < MaxTurns /\ turn' = turn + 1 /\ home' = view
      /\ pc' = "posting" /\ attempt' = 0 /\ phase' = "none"
      /\ stream' = Append(stream, e) /\ view' = view /\ switched' = switched
  BY DEF Submit, Kept
<1>2. e \in Items
  BY <1>1, WebAssumption DEF Items, Kinds, Texts, Kept
<1>3. stream \in Seq(Items)
  BY DEF Kept
<1>4. Kept'
  BY <1>1, <1>2, <1>3, WebAssumption DEF Kept
<1>5. (Elements(stream))' = Elements(stream) \cup {e}
  <2>1. /\ Len(stream') = Len(stream) + 1 /\ Len(stream) \in Nat
        /\ stream'[Len(stream) + 1] = e
        /\ \A j \in 1..Len(stream) : stream'[j] = stream[j]
    BY <1>1, <1>2, <1>3
  <2>2. \A j \in 1..Len(stream') : j \in 1..Len(stream) \/ j = Len(stream) + 1
    BY <2>1
  <2>3. 1..Len(stream) \subseteq 1..Len(stream') /\ Len(stream) + 1 \in 1..Len(stream')
    BY <2>1
  <2>4. QED
    BY <2>1, <2>2, <2>3 DEF Elements
<1>6. ASSUME NEW m \in Elements(stream)
      PROVE  Proper(m)' /\ m.turn # turn + 1
  BY <1>1, <1>6 DEF Transcript, Proper
<1>7. Proper(e)' /\ e.runs = {} /\ e.turn = turn + 1
  <2>1. /\ e.turn = turn + 1 /\ e.kind = "user" /\ e.text = "final" /\ e.runs = {}
        /\ e.session = view /\ turn + 1 \in 1..(turn + 1)
    BY <1>1
  <2>2. QED
    BY <1>1, <2>1 DEF Proper
<1>8. ASSUME NEW t \in 1..(turn + 1)
      PROVE  \E run : \A m \in Elements(stream) \cup {e} : m.turn = t => m.runs \subseteq {run}
  <2>1. CASE t = turn + 1
    BY <1>6, <1>7, <2>1
  <2>2. CASE t # turn + 1
    <3>1. t \in 1..turn
      BY <1>1, <2>2
    <3>2. QED
      BY <1>7, <2>2, <3>1 DEF Transcript
  <2>3. QED
    BY <2>1, <2>2
<1>9. \A m \in Elements(stream) \cup {e} : Proper(m)'
  BY <1>6, <1>7
<1>10. Transcript'
  BY <1>1, <1>5, <1>8, <1>9 DEF Transcript
<1>11. QED
  BY <1>4, <1>10

\* A cleared transcript holds nothing that is improper.
LEMMA SelectTranscript ==
  ASSUME Kept, Transcript, NEW s \in Sessions, Select(s)
  PROVE  Kept' /\ Transcript'
<1>1. /\ UNCHANGED <<home, turn, pc, attempt, phase>> /\ view' = s /\ stream' = <<>>
      /\ switched' = IF pc = "idle" THEN switched ELSE switched \cup {turn}
  BY DEF Select, post
<1>2. Kept'
  BY <1>1 DEF Kept
<1>3. (Elements(stream))' = {}
  BY <1>1 DEF Elements
<1>4. QED
  BY <1>1, <1>2, <1>3 DEF Transcript

\* The steps that leave the transcript: where another attempt begins, nothing was heard.
LEMMA QuietTranscript ==
  ASSUME Kept, Transcript,
         UNCHANGED <<view, home, turn, stream, switched>>,
         phase' = phase,
         pc' \in {"idle", "posting", "reading", "delay"},
         pc = "idle" => pc' = "idle",
         pc' \in {"posting", "delay"} => phase = "none",
         attempt' = attempt \/ (attempt' \in 0..MaxRetries /\ phase = "none")
  PROVE  Kept' /\ Transcript'
<1>1. Kept'
  BY DEF Kept
<1>2. (Elements(stream))' = Elements(stream)
  BY DEF Elements
<1>3. ASSUME NEW m \in Elements(stream) PROVE Proper(m)'
  <2>1. Proper(m)
    BY DEF Transcript
  <2>2. CASE attempt' = attempt
    BY <2>1, <2>2 DEF Proper, Run
  <2>3. CASE phase = "none"
    BY <2>1, <2>3 DEF Proper
  <2>4. QED
    BY <2>2, <2>3
<1>4. QED
  BY <1>1, <1>2, <1>3 DEF Transcript

\* So does every step.
LEMMA StepTranscript == Kept /\ Transcript /\ [Next]_vars => Kept' /\ Transcript'
<1> SUFFICES ASSUME Kept, Transcript, [Next]_vars PROVE Kept' /\ Transcript'
  OBVIOUS
<1>a. pc \in {"idle", "posting", "reading", "delay"} /\ attempt \in 0..MaxRetries
      /\ (pc \in {"posting", "delay"} => phase = "none") /\ MaxRetries \in Nat
  BY WebAssumption DEF Kept
<1>1. CASE Render \/ Accept \/ Respond \/ UNCHANGED vars
  BY <1>1, <1>a, QuietTranscript DEF Render, Accept, Respond, vars, post, screen
<1>2. CASE FailPost \/ Break
  <2>1. PICK again \in BOOLEAN : Fail(again) /\ pc \in {"posting", "reading"}
    BY <1>2 DEF FailPost, Break
  <2>2. /\ UNCHANGED <<view, home, turn, stream, switched>> /\ phase' = phase
        /\ pc' \in {"idle", "delay"} /\ (pc' = "delay" => phase = "none")
        /\ attempt' = attempt \/ (attempt' \in 0..MaxRetries /\ phase = "none")
    BY <1>a, <2>1 DEF Fail, Settle, Retriable
  <2>3. QED
    BY <1>a, <2>1, <2>2, QuietTranscript
<1>3. CASE DelayOver
  BY <1>3, <1>a, QuietTranscript DEF DelayOver, screen
<1>4. CASE Close
  BY <1>4, <1>a, QuietTranscript DEF Close, Settle
<1>5. CASE Submit
  BY <1>5, SubmitTranscript
<1>6. CASE \E s \in Sessions : Select(s)
  BY <1>6, SelectTranscript
<1>7. CASE \E e \in ClientEvents : Deliver(e)
  BY <1>7, DeliverTranscript
<1>8. QED
  BY <1>1, <1>2, <1>3, <1>4, <1>5, <1>6, <1>7 DEF Next

\* The transcript is kept throughout.
LEMMA TranscriptInvariant == Spec => [](Kept /\ Transcript)
<1>1. Init => Kept /\ Transcript
  BY InitTranscript
<1>2. Kept /\ Transcript /\ [Next]_vars => (Kept /\ Transcript)'
  BY StepTranscript
<1>3. QED
  BY <1>1, <1>2, PTL DEF Spec

\* What is shown are the messages of the transcript.
LEMMA ShownElements == Shown = Elements(stream)
  BY DEF Shown, Elements

\* Retries, switches and renders notwithstanding, all that is shown for a message is
\* what one run said.
THEOREM OneRunShown == Spec => []OneRunPerMessage
<1>1. ASSUME Kept, Transcript PROVE OneRunPerMessage
  <2>1. SUFFICES ASSUME NEW t \in 1..turn
                 PROVE  Cardinality(UNION {m.runs : m \in {n \in Shown : n.turn = t}}) <= 1
    BY DEF OneRunPerMessage
  <2> DEFINE runs == UNION {m.runs : m \in {n \in Shown : n.turn = t}}
  <2>2. PICK run : \A m \in Elements(stream) : m.turn = t => m.runs \subseteq {run}
    BY <1>1 DEF Transcript
  <2>3. runs \subseteq {run}
    BY <2>2, ShownElements
  <2> HIDE DEF runs
  <2>4. runs = {} \/ runs = {run}
    BY <2>3
  <2>5. Cardinality(runs) \in {0, 1}
    BY <2>4, FS_EmptySet, FS_Singleton
  <2>6. QED
    BY <2>5 DEF runs
<1>2. QED
  BY <1>1, TranscriptInvariant, PTL

\* A text is shown as it was streamed or as it ended, never as both.
THEOREM AnswerOnce == Spec => []AnswerNotDoubled
<1>1. Transcript => AnswerNotDoubled
  BY ShownElements DEF Transcript, Proper, AnswerNotDoubled
<1>2. QED
  BY <1>1, TranscriptInvariant, PTL

\* Text of another session is shown only where its message was open when the user left.
THEOREM ForeignTextOpen == Spec => []ForeignTextWasOpen
<1>1. Transcript => ForeignTextWasOpen
  BY ShownElements DEF Transcript, Proper, ForeignTextWasOpen
<1>2. QED
  BY <1>1, TranscriptInvariant, PTL

-----------------------------------------------------------------------------
(* No message is lost in silence.                                          *)

\* A message that heard the end of its run heard of a success, shows an error, or was
\* told a failure in a blank text.
Heard ==
  /\ terminal => error \/ told \in {Completed, Clarified} \/ mute
  /\ NoSilentLoss

\* A message that is over has ended well or shows an error, however its stream ended
\* and whatever was retried, unless the server itself told of the failure in a blank
\* text, which the client passes over.
THEOREM LossIsShown == Spec => []NoSilentLoss
<1>1. Init => Heard
  BY DEF Init, Heard, NoSilentLoss
<1>2. ASSUME Kept, Heard, [Next]_vars PROVE Heard'
  <2>1. CASE Submit
    BY <1>2, <2>1 DEF Submit, Heard, NoSilentLoss
  <2>2. CASE Render \/ Accept \/ Respond \/ UNCHANGED vars
    BY <1>2, <2>2 DEF Render, Accept, Respond, vars, post, screen, Heard, NoSilentLoss
  <2>3. CASE FailPost \/ Break
    <3>1. PICK again \in BOOLEAN : Fail(again)
      BY <2>3 DEF FailPost, Break
    <3>2. /\ UNCHANGED <<terminal, told, mute>>
          /\ (pc' = "delay" /\ error' = error) \/ (pc' = "idle" /\ error')
      BY <3>1 DEF Fail, Settle
    <3>3. QED
      BY <1>2, <3>2 DEF Heard, NoSilentLoss
  <2>4. CASE DelayOver
    BY <1>2, <2>4 DEF DelayOver, screen, Heard, NoSilentLoss
  <2>5. CASE Close
    BY <1>2, <2>5 DEF Close, Settle, Heard, NoSilentLoss
  <2>6. CASE \E s \in Sessions : Select(s)
    BY <1>2, <2>6 DEF Select, post, Heard, NoSilentLoss
  <2>7. ASSUME NEW e \in ClientEvents, Deliver(e) PROVE Heard'
    <3>1. pc' = "reading"
      BY <2>7 DEF Deliver
    <3>2. CASE e \in {Completed, Clarified} \ {Delta, ToolLogs, AnswerCompleted}
      BY <2>7, <3>1, <3>2 DEF Deliver, OnEvent, OnCompleted, Heard, NoSilentLoss
    <3>3. CASE e \in {Failed, ErrorEvent}
                     \ {Delta, ToolLogs, AnswerCompleted, Completed, Clarified}
      <4>1. OnFailure(e)
        BY <2>7, <3>3 DEF Deliver, OnEvent
      <4>2. error' \/ mute'
        BY <4>1, Zenon DEF OnFailure
      <4>3. QED
        BY <3>1, <4>2 DEF Heard, NoSilentLoss
    <3>4. CASE e \in {Delta, ToolLogs, AnswerCompleted}
      BY <1>2, <2>7, <3>1, <3>4
         DEF Deliver, OnEvent, OnDelta, OnLogs, OnAnswer, Heard, NoSilentLoss
    <3>5. CASE e \notin {Delta, ToolLogs, AnswerCompleted, Completed, Clarified, Failed,
                         ErrorEvent}
      BY <1>2, <2>7, <3>1, <3>5 DEF Deliver, OnEvent, OnStage, Heard, NoSilentLoss
    <3>6. QED
      BY <3>2, <3>3, <3>4, <3>5
  <2>8. QED
    BY <1>2, <2>1, <2>2, <2>3, <2>4, <2>5, <2>6, <2>7 DEF Next
<1>3. Heard => NoSilentLoss
  BY DEF Heard
<1>4. QED
  BY <1>1, <1>2, <1>3, TranscriptInvariant, PTL DEF Spec

-----------------------------------------------------------------------------
(* Logs are not lost between two renders.                                  *)

Waits(runs) == Run \in runs \/ Shows(stream, Run)

\* Logs that were heard wait for their answer or are shown; once rendered, the handlers
\* know of them, and the last one to show them has done so.
LogsKept ==
  /\ logged \in {"no", "heard", "rendered"}
  /\ logged # "no" => phase # "none"
  /\ told # NoEvent => phase = "over"
  /\ (pc # "idle" /\ turn \notin switched /\ told = NoEvent) =>
       /\ logged # "no" => Waits(pending)
       /\ logged = "rendered" => Waits(pendingRef)
  /\ (told = Completed /\ logged = "rendered" /\ turn \notin switched
      /\ \E m \in Elements(stream) : Mine(m, "answer"))
     => Shows(stream, Run)

\* At first no logs were heard.
LEMMA InitLogs == Init => LogsKept
  BY DEF Init, LogsKept, Elements, Completed, NoEvent, Event

\* Steps that hear nothing: where another attempt begins, no logs were heard.
LEMMA QuietLogs ==
  ASSUME LogsKept,
         UNCHANGED <<turn, stream, pending, pendingRef, logged, switched, told, phase>>,
         pc = "idle" => pc' = "idle",
         attempt' = attempt \/ phase = "none"
  PROVE  LogsKept'
<1>1. CASE attempt' = attempt
  <2>1. Run' = Run
    BY <1>1 DEF Run
  <2>2. /\ Shows(stream, Run)' = Shows(stream, Run)
        /\ (\E m \in Elements(stream) : Mine(m, "answer"))' <=>
             \E m \in Elements(stream) : Mine(m, "answer")
    BY <2>1 DEF Shows, Elements, Mine
  <2>3. Waits(pending)' = Waits(pending) /\ Waits(pendingRef)' = Waits(pendingRef)
    BY <2>1, <2>2 DEF Waits
  <2>4. QED
    BY <2>2, <2>3 DEF LogsKept
<1>2. CASE phase = "none"
  BY <1>2 DEF LogsKept
<1>3. QED
  BY <1>1, <1>2

\* A render tells the handlers of the logs that wait.
LEMMA RenderLogs == Kept /\ LogsKept /\ Render => LogsKept'
<1> SUFFICES ASSUME Kept, LogsKept, Render PROVE LogsKept'
  OBVIOUS
<1>1. /\ UNCHANGED <<turn, stream, pending, switched, told, phase, pc, attempt>>
      /\ pendingRef' = pending
      /\ logged' = IF logged = "heard" /\ told = NoEvent THEN "rendered" ELSE logged
  BY DEF Render, post
<1>2. Run' = Run
  BY <1>1 DEF Run
<1>3. /\ Shows(stream, Run)' = Shows(stream, Run)
      /\ (\E m \in Elements(stream) : Mine(m, "answer"))' <=>
           \E m \in Elements(stream) : Mine(m, "answer")
  BY <1>1, <1>2 DEF Shows, Elements, Mine
<1>4. Waits(pending)' = Waits(pending) /\ Waits(pendingRef)' = Waits(pending)
  BY <1>1, <1>2, <1>3 DEF Waits
<1>5. Completed # NoEvent
  BY DEF Completed, NoEvent, Event
<1>6. QED
  BY <1>1, <1>3, <1>4, <1>5 DEF LogsKept

\* Who goes elsewhere is told nothing of logs; a transcript that is cleared has no answer.
LEMMA SelectLogs ==
  ASSUME LogsKept, NEW s \in Sessions, Select(s)
  PROVE  LogsKept'
<1>1. /\ UNCHANGED <<turn, pc, phase, told, logged>> /\ stream' = <<>>
      /\ pc # "idle" => turn \in switched'
  BY DEF Select, post
<1>2. (Elements(stream))' = {}
  BY <1>1 DEF Elements
<1>3. QED
  BY <1>1, <1>2 DEF LogsKept

\* Logs heard are put away; they are shown with the answer, or at the end if it is there.
LEMMA DeliverLogs ==
  ASSUME Kept, Transcript, LogsKept, NEW e \in ClientEvents, Deliver(e)
  PROVE  LogsKept'
<1>1. /\ Reading /\ stream \in Seq(Items) /\ stream' \in Seq(Items)
      /\ Edited(stream, stream') /\ phase' # "none"
  BY DeliverEdit DEF Kept, Edited
<1>2. /\ UNCHANGED <<turn, attempt, switched, pc>> /\ pc = "reading"
      /\ <<phase, e, phase'>> \in Transitions
  BY AdvanceTo DEF Deliver
<1>3. phase # "over" /\ told = NoEvent /\ (e \in RunEnds => phase' = "over")
  BY <1>2, Transits DEF LogsKept
<1>4. Run' = Run /\ Completed # NoEvent /\ NoEvent \notin RunEnds
  BY <1>2 DEF Run, Completed, Clarified, Failed, NoEvent, RunEnds, Event
<1>5. /\ Shows(stream, Run)' <=> Shows(stream', Run)
      /\ Shows(stream, Run) => Shows(stream', Run)
      /\ (\E m \in Elements(stream) : Mine(m, "answer"))' <=>
           \E m \in Elements(stream') : Mine(m, "answer")
      /\ Waits(pending)' <=> Run \in pending' \/ Shows(stream', Run)
      /\ Waits(pendingRef)' <=> Run \in pendingRef' \/ Shows(stream', Run)
  <2>1. Shows(stream, Run)' <=> Shows(stream', Run)
    BY <1>4 DEF Shows
  <2>2. (\E m \in Elements(stream) : Mine(m, "answer"))' <=>
          \E m \in Elements(stream') : Mine(m, "answer")
    BY <1>2 DEF Elements, Mine
  <2>3. Shows(stream, Run) => Shows(stream', Run)
    BY <1>1, StillShows
  <2>4. QED
    BY <1>4, <2>1, <2>2, <2>3 DEF Waits
\* All but the logs' own event and the two that show them.
<1>6. ASSUME UNCHANGED <<pending, pendingRef, logged>>, told' = NoEvent \/ told' = Failed,
             told' # NoEvent => e \in RunEnds
      PROVE  LogsKept'
  <2>1. told' # Completed
    BY <1>4, <1>6 DEF Completed, Failed, Event
  <2>2. Waits(pending) => Waits(pending)'
    BY <1>5, <1>6 DEF Waits
  <2>3. Waits(pendingRef) => Waits(pendingRef)'
    BY <1>5, <1>6 DEF Waits
  <2>4. QED
    BY <1>1, <1>2, <1>3, <1>6, <2>1, <2>2, <2>3 DEF LogsKept
<1>7. CASE e = Delta
  <2>1. UNCHANGED <<pending, pendingRef, logged, told>>
    BY <1>7 DEF Deliver, OnEvent, OnDelta, NoUpdate
  <2>2. QED
    BY <1>3, <1>6, <2>1
<1>8. CASE e # Delta /\ e = ToolLogs
  <2>1. logged' = "heard" /\ pending' = pending \cup {Run} /\ told' = told
    BY <1>8 DEF Deliver, OnEvent, OnLogs, Update
  <2>2. Waits(pending)'
    BY <1>5, <2>1
  <2>3. QED
    BY <1>1, <1>3, <2>1, <2>2 DEF LogsKept
<1>9. CASE e \notin {Delta, ToolLogs} /\ e = AnswerCompleted
  <2>1. /\ UNCHANGED <<told, logged>>
        /\ \/ ShowLogs(WithAnswer(stream))
           \/ UNCHANGED stream /\ NoUpdate
    BY <1>9 DEF Deliver, OnEvent, OnAnswer
  <2>2. CASE Run \in pendingRef /\ ShowLogs(WithAnswer(stream))
    <3>1. \A m \in Elements(stream) : m.turn = turn => m.session = home
      BY DEF Transcript, Proper
    <3>2. WithAnswer(stream) \in Seq(Items) /\ Bubble(WithAnswer(stream), "answer") # 0
      BY <1>1, <3>1, AnswerEdit DEF Edited
    <3>3. stream' = WithLogs(WithAnswer(stream), {Run})
      BY <2>2 DEF ShowLogs
    <3>4. Shows(stream', Run)
      BY <1>1, <3>2, <3>3, LogsEdit
    <3>5. Waits(pending)' /\ Waits(pendingRef)'
      BY <1>5, <3>4
    <3>6. QED
      BY <1>1, <1>3, <1>4, <2>1, <3>5 DEF LogsKept
  <2>3. CASE UNCHANGED <<pending, pendingRef>>
    BY <1>3, <1>6, <2>1, <2>3
  <2>4. QED
    BY <2>1, <2>2, <2>3 DEF ShowLogs, NoUpdate
<1>10. CASE e \notin {Delta, ToolLogs, AnswerCompleted} /\ e \in {Completed, Clarified}
  <2>1. ShowLogs(stream) /\ told' = e /\ logged' = logged
    BY <1>10 DEF Deliver, OnEvent, OnCompleted
  <2>2. told' # NoEvent /\ phase' = "over"
    BY <1>3, <1>4, <1>10, <2>1 DEF RunEnds
  <2>3. ASSUME logged = "rendered", turn \notin switched,
               \E m \in Elements(stream') : Mine(m, "answer")
        PROVE  Shows(stream', Run)
    <3>1. Waits(pendingRef)
      BY <1>2, <1>3, <2>3 DEF LogsKept
    <3>2. CASE Shows(stream, Run)
      BY <1>5, <3>2
    <3>3. CASE Run \in pendingRef
      <4>1. stream' = WithLogs(stream, {Run})
        BY <2>1, <3>3 DEF ShowLogs
      <4>2. Elements(stream') \subseteq Elements(stream) \cup {Item("log", "final", {Run})}
        BY <1>1, <4>1, LogsEdit
      <4>3. ~Mine(Item("log", "final", {Run}), "answer")
        BY DEF Item, Mine
      <4>4. Bubble(stream, "answer") # 0
        BY <1>1, <2>3, <4>2, <4>3, BubbleFound
      <4>5. QED
        BY <1>1, <4>1, <4>4, LogsEdit
    <3>4. QED
      BY <3>1, <3>2, <3>3 DEF Waits
  <2>4. QED
    BY <1>1, <1>2, <1>5, <2>1, <2>2, <2>3 DEF LogsKept
<1>11. CASE e \notin {Delta, ToolLogs, AnswerCompleted, Completed, Clarified}
  <2>1. CASE e \in {Failed, ErrorEvent}
    <3>1. /\ UNCHANGED <<pending, pendingRef, logged>>
          /\ told' = IF e = Failed THEN e ELSE told
      BY <1>11, <2>1 DEF Deliver, OnEvent, OnFailure, NoUpdate
    <3>2. QED
      BY <1>3, <1>6, <3>1 DEF RunEnds
  <2>2. CASE e \notin {Failed, ErrorEvent}
    <3>1. UNCHANGED <<pending, pendingRef, logged, told>>
      BY <1>11, <2>2 DEF Deliver, OnEvent, OnStage, NoUpdate
    <3>2. QED
      BY <1>3, <1>6, <3>1
  <2>3. QED
    BY <2>1, <2>2
<1>12. QED
  BY <1>7, <1>8, <1>9, <1>10, <1>11

\* Every step keeps the logs.
LEMMA StepLogs ==
  ASSUME Kept, Transcript, LogsKept, [Next]_vars
  PROVE  LogsKept'
<1>1. CASE Submit
  BY <1>1 DEF Submit, LogsKept, Completed, NoEvent, Event
<1>2. CASE Render
  BY <1>2, RenderLogs
<1>3. CASE Accept \/ Respond \/ UNCHANGED vars
  BY <1>3, QuietLogs DEF Accept, Respond, vars, post, screen
<1>4. CASE FailPost \/ Break
  <2>1. PICK again \in BOOLEAN : Fail(again) /\ pc \in {"posting", "reading"}
    BY <1>4 DEF FailPost, Break
  <2>2. /\ UNCHANGED <<turn, stream, pending, pendingRef, logged, switched, told, phase>>
        /\ pc # "idle" /\ (attempt' = attempt \/ phase = "none")
    BY <2>1 DEF Fail, Settle, Retriable
  <2>3. QED
    BY <2>2, QuietLogs
<1>5. CASE DelayOver
  BY <1>5, QuietLogs DEF DelayOver, screen, Kept
<1>6. CASE Close
  BY <1>6, QuietLogs DEF Close, Settle
<1>7. CASE \E s \in Sessions : Select(s)
  BY <1>7, SelectLogs
<1>8. CASE \E e \in ClientEvents : Deliver(e)
  BY <1>8, DeliverLogs
<1>9. QED
  BY <1>1, <1>2, <1>3, <1>4, <1>5, <1>6, <1>7, <1>8 DEF Next

\* The logs of a run are shown with its answer, however handlers and renders interleave
\* once the logs were rendered.
THEOREM LogsAreShown == Spec => []LogsShownUnlessBatched
<1>1. Kept /\ LogsKept => LogsShownUnlessBatched
  <2>1. SUFFICES ASSUME Kept, LogsKept, Bubble(stream, "answer") # 0
                 PROVE  (told = Completed /\ logged = "rendered" /\ turn \notin switched)
                        => Shows(stream, Run)
    BY DEF LogsShownUnlessBatched
  <2>2. \E m \in Elements(stream) : Mine(m, "answer")
    BY <2>1, BubbleFound DEF Kept
  <2>3. QED
    BY <2>1, <2>2 DEF LogsKept
<1>2. QED
  BY <1>1, InitLogs, StepLogs, TranscriptInvariant, PTL DEF Spec

-----------------------------------------------------------------------------
(* What a retried post leaves behind, and how long it goes on.             *)

\* The server stores a message once for an attempt at the most, and has stored it when
\* it answers.
Stored ==
  /\ accepted \in BOOLEAN /\ prompts \in Nat
  /\ prompts <= attempt + 1
  /\ ~accepted \/ pc = "delay" => prompts <= attempt
  /\ accepted => prompts >= 1
  /\ pc = "reading" => accepted
  /\ told # NoEvent => prompts >= 1

\* A message is stored at most once for each time it was posted, and a run the client
\* heard the end of was for one that is stored: retries may double it, but no message
\* is answered that the history of the session has not.
PromptKept ==
  prompts <= MaxRetries + 1 /\ (told # NoEvent => prompts >= 1)

\* Every step keeps count of what the server has stored.
LEMMA StepStored ==
  ASSUME Kept, Stored, [Next]_vars
  PROVE  Stored'
<1>a. attempt \in Nat /\ MaxRetries \in Nat
  BY WebAssumption DEF Kept
<1>1. CASE Render \/ UNCHANGED vars
  BY <1>1 DEF Render, vars, post, Stored
<1>b. CASE \E s \in Sessions : Select(s)
  <2>1. UNCHANGED post
    BY <1>b DEF Select
  <2>2. QED
    BY <2>1 DEF post, Stored
<1>2. CASE Submit
  <2>1. accepted' \in BOOLEAN /\ ~accepted'
    BY <1>2, Zenon DEF Submit
  <2>2. prompts' = 0 /\ attempt' = 0 /\ pc' = "posting" /\ told' = NoEvent
    BY <1>2 DEF Submit
  <2>3. QED
    BY <2>1, <2>2 DEF Stored
<1>3. CASE Accept
  BY <1>a, <1>3 DEF Accept, Stored
<1>4. CASE Respond
  BY <1>4 DEF Respond, Stored
<1>5. CASE FailPost \/ Break
  <2>1. PICK again \in BOOLEAN : Fail(again) /\ pc \in {"posting", "reading"}
    BY <1>5 DEF FailPost, Break
  <2>2. /\ UNCHANGED <<accepted, prompts, told>>
        /\ \/ pc' = "idle" /\ attempt' = attempt
           \/ pc' = "delay" /\ attempt' = attempt + 1
    BY <2>1 DEF Fail, Settle
  <2>3. QED
    BY <1>a, <2>1, <2>2 DEF Stored
<1>6. CASE DelayOver
  BY <1>a, <1>6 DEF DelayOver, Stored
<1>7. CASE Close
  BY <1>7 DEF Close, Settle, Stored
<1>8. ASSUME NEW e \in ClientEvents, Deliver(e) PROVE Stored'
  <2>1. pc = "reading" /\ UNCHANGED <<pc, attempt, accepted, prompts>>
    BY <1>8 DEF Deliver
  <2>2. QED
    BY <2>1 DEF Stored
<1>9. QED
  BY <1>1, <1>b, <1>2, <1>3, <1>4, <1>5, <1>6, <1>7, <1>8 DEF Next

\* However often a post is repeated, its message is stored once for an attempt at the
\* most; and none is answered that is not stored.
THEOREM StoredPerAttempt == Spec => []PromptKept
<1>1. ASSUME Init PROVE Stored
  <2>1. accepted \in BOOLEAN /\ ~accepted
    BY <1>1, Zenon DEF Init
  <2>2. prompts = 0 /\ attempt = 0 /\ pc = "idle" /\ told = NoEvent
    BY <1>1 DEF Init
  <2>3. QED
    BY <2>1, <2>2 DEF Stored
<1>2. Kept /\ Stored => PromptKept
  BY WebAssumption DEF Kept, Stored, PromptKept
<1>3. Kept /\ Stored /\ [Next]_vars => Stored'
  BY StepStored
<1>4. QED
  BY <1>1, <1>2, <1>3, TranscriptInvariant, PTL DEF Spec

\* The phases still ahead of an attempt that is read.
PhasesLeft ==
  CASE phase = "none" -> 5
    [] phase = "open" -> 4
    [] phase \in {"asking", "answering"} -> 3
    [] phase = "answered" -> 2
    [] phase = "failing" -> 1
    [] OTHER -> 0

AttemptLeft ==
  CASE pc = "delay"   -> 9
    [] pc = "posting" -> IF accepted THEN 7 ELSE 8
    [] pc = "reading" -> PhasesLeft + 1
    [] OTHER -> 0

\* The steps an open message may still take, but for the events of a phase.
PostLeft == (MaxRetries - attempt) * 9 + AttemptLeft

\* What is left of an open message is a number.
LEMMA PostLeftNat ==
  Kept => /\ PostLeft \in Nat /\ AttemptLeft \in 0..9
          /\ pc # "idle" => AttemptLeft \in 1..9
<1> SUFFICES ASSUME Kept
             PROVE  /\ PostLeft \in Nat /\ AttemptLeft \in 0..9
                    /\ pc # "idle" => AttemptLeft \in 1..9
  OBVIOUS
<1>1. PhasesLeft \in 0..5
  BY DEF PhasesLeft
<1>2. AttemptLeft \in 0..9 /\ (pc # "idle" => AttemptLeft \in 1..9)
  BY <1>1 DEF AttemptLeft, Kept
<1>3. MaxRetries - attempt \in Nat
  BY WebAssumption DEF Kept
<1>4. QED
  BY <1>2, <1>3 DEF PostLeft

\* An event keeps the phase or leads to a later one.
LEMMA DeliverAdvances ==
  ASSUME Kept, NEW e \in ClientEvents, Deliver(e)
  PROVE  phase' = phase \/ AttemptLeft' < AttemptLeft
<1>1. /\ pc = "reading" /\ pc' = "reading"
      /\ e \in MayFollow(phase) /\ phase' = Advance(phase, e)
  BY DEF Deliver
<1>2. Transit(phase, e, phase')
  BY <1>1, AdvanceTo, TransitionForms
<1>3. /\ phase \in {"none", "open", "asking", "answering", "answered", "failing"}
      /\ \/ phase' = phase
         \/ phase = "none" /\ phase' = "open"
         \/ phase = "open" /\ phase' \in {"asking", "answering", "failing"}
         \/ phase \in {"asking", "answering"} /\ phase' \in {"answered", "failing", "over"}
         \/ phase = "answered" /\ phase' \in {"failing", "over"}
         \/ phase = "failing" /\ phase' = "over"
  BY <1>2 DEF Transit
<1>4. phase' = phase \/ PhasesLeft' < PhasesLeft
  BY <1>3 DEF PhasesLeft
<1>5. PhasesLeft \in 0..5 /\ PhasesLeft' \in 0..5
  BY DEF PhasesLeft
<1>6. QED
  BY <1>1, <1>4, <1>5 DEF AttemptLeft

\* While a message is open a step brings its end nearer, or it is a render, another
\* session selected, or one more event of the same phase.
Settling ==
  pc # "idle" =>
    \/ PostLeft' < PostLeft
    \/ /\ PostLeft' = PostLeft
       /\ \/ Render
          \/ \E s \in Sessions : Select(s)
          \/ \E e \in ClientEvents : Deliver(e) /\ phase' = phase

\* Every step of an open message is one of these.
LEMMA StepSettles ==
  ASSUME Kept, Kept', Next
  PROVE  Settling
<1> SUFFICES ASSUME pc # "idle" PROVE Settling
  BY DEF Settling
<1>a. /\ PostLeft \in Nat /\ AttemptLeft \in 1..9 /\ PostLeft' \in Nat /\ AttemptLeft' \in 0..9
      /\ attempt \in 0..MaxRetries /\ attempt' \in 0..MaxRetries /\ MaxRetries \in Nat
  <2>1. (Kept => /\ PostLeft \in Nat /\ AttemptLeft \in 0..9
                 /\ pc # "idle" => AttemptLeft \in 1..9)'
    BY PostLeftNat, PTL
  <2>2. QED
    BY <2>1, PostLeftNat, WebAssumption DEF Kept
<1>b. ASSUME attempt' = attempt, AttemptLeft' < AttemptLeft PROVE PostLeft' < PostLeft
  <2>1. PICK d \in Nat : d = (MaxRetries - attempt) * 9
    BY <1>a
  <2>2. PostLeft = d + AttemptLeft /\ PostLeft' = d + AttemptLeft'
    BY <1>b, <2>1 DEF PostLeft
  <2>3. AttemptLeft \in Int /\ AttemptLeft' \in Int
    BY <1>a
  <2>4. \A x, y \in Int : x < y => d + x < d + y
    BY <2>1
  <2>5. QED
    BY <1>b, <2>2, <2>3, <2>4
<1>1. CASE Render \/ \E s \in Sessions : Select(s)
  <2>1. UNCHANGED post
    BY <1>1 DEF Render, Select
  <2>2. PostLeft' = PostLeft
    BY <2>1 DEF post, PostLeft, AttemptLeft, PhasesLeft
  <2>3. QED
    BY <1>1, <2>2 DEF Settling
<1>2. CASE Accept \/ Respond \/ DelayOver
  <2>1. attempt' = attempt /\ AttemptLeft' < AttemptLeft
    <3>1. CASE Accept
      BY <3>1 DEF Accept, AttemptLeft
    <3>2. CASE Respond
      <4>1. phase' = "none" /\ pc = "posting" /\ accepted /\ pc' = "reading" /\ attempt' = attempt
        BY <3>2 DEF Respond, Kept
      <4>2. PhasesLeft' = 5
        BY <4>1 DEF PhasesLeft
      <4>3. QED
        BY <4>1, <4>2 DEF AttemptLeft
    <3>3. CASE DelayOver
      BY <3>3 DEF DelayOver, AttemptLeft
    <3>4. QED
      BY <1>2, <3>1, <3>2, <3>3
  <2>2. QED
    BY <1>b, <2>1 DEF Settling
<1>3. CASE FailPost \/ Break
  <2>1. PICK again \in BOOLEAN : Fail(again)
    BY <1>3 DEF FailPost, Break
  <2>2. CASE pc' = "idle" /\ attempt' = attempt
    <3>1. AttemptLeft' = 0
      BY <2>2 DEF AttemptLeft
    <3>2. QED
      BY <1>a, <1>b, <2>2, <3>1 DEF Settling
  <2>3. CASE pc' = "delay" /\ attempt' = attempt + 1
    <3>1. AttemptLeft' = 9
      BY <2>3 DEF AttemptLeft
    <3>2. PostLeft' < PostLeft
      BY <1>a, <2>3, <3>1 DEF PostLeft
    <3>3. QED
      BY <3>2 DEF Settling
  <2>4. QED
    BY <2>1, <2>2, <2>3 DEF Fail, Settle
<1>4. CASE Close
  <2>1. pc' = "idle" /\ attempt' = attempt
    BY <1>4 DEF Close, Settle
  <2>2. AttemptLeft' = 0
    BY <2>1 DEF AttemptLeft
  <2>3. QED
    BY <1>a, <1>b, <2>1, <2>2 DEF Settling
<1>5. ASSUME NEW e \in ClientEvents, Deliver(e) PROVE Settling
  <2>1. UNCHANGED <<pc, attempt, accepted>>
    BY <1>5 DEF Deliver
  <2>2. CASE AttemptLeft' < AttemptLeft
    BY <1>b, <2>1, <2>2 DEF Settling
  <2>3. CASE phase' = phase
    <3>1. PostLeft' = PostLeft
      BY <2>1, <2>3 DEF PostLeft, AttemptLeft, PhasesLeft
    <3>2. QED
      BY <1>5, <2>3, <3>1 DEF Settling
  <2>4. QED
    BY <1>5, <2>2, <2>3, DeliverAdvances
<1>6. QED
  BY <1>1, <1>2, <1>3, <1>4, <1>5 DEF Next, Submit

\* Retries, broken streams and events in any number the order allows notwithstanding,
\* an open message comes to its end unless renders, switches of the session or the
\* events of one phase go on for ever.  What remains of MessageSettles is that the
\* requests are answered and that a response does not stay in one phase.
THEOREM RetriesRunOut == Spec => [](PostLeft \in Nat) /\ [][Settling]_vars
<1>1. Kept => PostLeft \in Nat
  BY PostLeftNat
<1>2. Kept /\ Kept' /\ [Next]_vars => [Settling]_vars
  BY StepSettles
<1>3. QED
  BY <1>1, <1>2, TranscriptInvariant, PTL DEF Spec

=============================================================================
