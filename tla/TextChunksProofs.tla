-------------------------- MODULE TextChunksProofs --------------------------
(***************************************************************************)
(* Theorems about TextChunks: what chunk_text returns, for every text,     *)
(* size and overlap.                                                       *)
(***************************************************************************)
EXTENDS TextChunks, TLAPS

\* What the loop keeps, besides the properties themselves.
Last == chunks[Len(chunks)]

Untouched == start = 0 /\ index = 0 /\ chunks = <<>>

\* Before and after the check.
Checked ==
  /\ pc \in {"check", "raised"} => Untouched
  /\ pc \in {"loop", "done"} => Acceptable

\* Where the next piece begins.
Position ==
  pc = "loop" =>
    /\ index = Len(chunks)
    /\ chunks = <<>> => start = 0
    /\ chunks # <<>> => start = Last.to - overlap /\ Last.to < length

\* What the pieces made so far cover, and that each brings something new.
CoveredSoFar ==
  chunks # <<>> =>
    \A p \in 0..(Last.to - 1) :
      \E i \in 1..Len(chunks) : chunks[i].from <= p /\ p < chunks[i].to

Finished ==
  pc = "done" => IF chunks = <<>> THEN length = 0 ELSE Last.to = length

Growing == \A i \in 1..Len(chunks) : i <= chunks[i].to

LoopInv ==
  /\ TypeOK /\ Checked /\ Position /\ CoveredSoFar /\ Finished /\ Growing
  /\ PiecesFit /\ ExactOverlap /\ NewText /\ IndexIsPlace

-----------------------------------------------------------------------------

\* At first nothing is cut.
LEMMA InitLoop == Init => LoopInv
<1> SUFFICES ASSUME Init PROVE LoopInv
  OBVIOUS
<1> USE BoundAssumption DEF Init
<1>1. TypeOK
  BY DEF TypeOK
<1>2. Checked /\ Position /\ CoveredSoFar /\ Finished /\ Growing
  BY DEF Checked, Untouched, Position, CoveredSoFar, Finished, Growing
<1>3. PiecesFit /\ ExactOverlap /\ NewText /\ IndexIsPlace
  BY DEF PiecesFit, ExactOverlap, NewText, IndexIsPlace
<1> QED
  BY <1>1, <1>2, <1>3 DEF LoopInv

\* The piece a turn of the loop appends, next to the ones before it.
LEMMA CutPiece ==
  ASSUME LoopInv, Cut
  PROVE  /\ start \in Nat /\ End \in Nat
         /\ start < End /\ End - start <= size /\ End <= length
         /\ size \in Nat /\ overlap \in Nat /\ overlap < size
         /\ index = Len(chunks)
         /\ chunks # <<>> => /\ start = Last.to - overlap
                             /\ Last.to \in Nat /\ Last.to < End
         /\ End # length => End - overlap \in Nat
<1>1. /\ start \in Nat /\ length \in Nat /\ size \in Int /\ overlap \in Int
      /\ chunks \in Seq(Pieces)
  BY DEF LoopInv, TypeOK
<1>2. pc = "loop" /\ start < length
  BY DEF Cut
<1>3. size > 0 /\ overlap >= 0 /\ overlap < size
  BY <1>2 DEF LoopInv, Checked, Acceptable
<1>4. chunks # <<>> => start = Last.to - overlap /\ Last.to < length /\ Last \in Pieces
  BY <1>1, <1>2 DEF LoopInv, Position, Last
<1>5. chunks # <<>> => Last.to \in Nat
  BY <1>4 DEF Pieces
<1>6. index = Len(chunks)
  BY <1>2 DEF LoopInv, Position
<1> QED
  BY <1>1, <1>2, <1>3, <1>4, <1>5, <1>6 DEF End

\* A cut covers the text up to its end.
LEMMA CutLoop == ASSUME LoopInv, Cut PROVE LoopInv'
<1> DEFINE piece == [from |-> start, to |-> End, index |-> index]
<1> DEFINE n == Len(chunks)
<1>1. /\ chunks \in Seq(Pieces) /\ n \in Nat /\ length \in Nat /\ index \in Nat
      /\ start \in Nat /\ overlap \in Int /\ size \in Int
  BY DEF LoopInv, TypeOK
<1>2. /\ start \in Nat /\ End \in Nat
      /\ start < End /\ End - start <= size /\ End <= length
      /\ size \in Nat /\ overlap \in Nat /\ overlap < size
      /\ index = n
      /\ chunks # <<>> => /\ start = Last.to - overlap
                          /\ Last.to \in Nat /\ Last.to < End
      /\ End # length => End - overlap \in Nat
  BY CutPiece
<1>3. piece \in Pieces
  BY <1>1, <1>2 DEF Pieces
<1>4. /\ chunks' = Append(chunks, piece)
      /\ UNCHANGED <<length, size, overlap>>
      /\ \/ End = length /\ pc' = "done" /\ UNCHANGED <<start, index>>
         \/ End # length /\ start' = End - overlap /\ index' = index + 1
            /\ pc' = pc /\ pc = "loop"
  BY DEF Cut, Advance
<1>5. /\ Len(chunks') = n + 1 /\ chunks' # <<>> /\ chunks' \in Seq(Pieces)
      /\ \A i \in 1..n : chunks'[i] = chunks[i]
      /\ chunks'[n + 1] = piece
  BY <1>1, <1>3, <1>4
<1>6. Last' = piece
  BY <1>1, <1>5 DEF Last
<1>7. chunks # <<>> => n \in 1..n /\ Last = chunks[n]
  BY <1>1 DEF Last
<1>8. TypeOK'
  BY <1>1, <1>2, <1>4, <1>5 DEF TypeOK
<1>9. Checked'
  BY <1>2, <1>4 DEF Checked, Untouched, Acceptable
<1>10. Position'
  BY <1>1, <1>2, <1>4, <1>5, <1>6 DEF Position
<1>11. Finished'
  BY <1>4, <1>5, <1>6 DEF Finished
<1>12. Growing'
  <2> SUFFICES ASSUME NEW i \in 1..(n + 1) PROVE i <= chunks'[i].to
    BY <1>5 DEF Growing
  <2>1. CASE i \in 1..n
    BY <2>1, <1>5 DEF LoopInv, Growing
  <2>2. CASE i = n + 1
    <3>1. CASE chunks = <<>>
      BY <1>1, <1>2, <1>5, <2>2, <3>1
    <3>2. CASE chunks # <<>>
      <4>1. n <= Last.to
        BY <1>7, <3>2 DEF LoopInv, Growing
      <4> QED
        BY <1>1, <1>2, <1>5, <2>2, <3>2, <4>1
    <3> QED
      BY <3>1, <3>2
  <2> QED
    BY <1>1, <2>1, <2>2
<1>13. PiecesFit'
  <2> SUFFICES ASSUME NEW i \in 1..(n + 1)
               PROVE  /\ chunks'[i].from < chunks'[i].to
                      /\ chunks'[i].to - chunks'[i].from <= size
                      /\ chunks'[i].to <= length
    BY <1>4, <1>5 DEF PiecesFit
  <2>1. CASE i \in 1..n
    BY <2>1, <1>5 DEF LoopInv, PiecesFit
  <2>2. CASE i = n + 1
    BY <2>2, <1>2, <1>5
  <2> QED
    BY <1>1, <2>1, <2>2
<1>14. ExactOverlap' /\ NewText'
  <2> SUFFICES ASSUME NEW i \in 1..n
               PROVE  /\ chunks'[i].to - chunks'[i + 1].from = overlap
                      /\ chunks'[i].to < chunks'[i + 1].to
    BY <1>1, <1>4, <1>5 DEF ExactOverlap, NewText
  <2>1. CASE i \in 1..(n - 1)
    BY <2>1, <1>1, <1>5 DEF LoopInv, ExactOverlap, NewText
  <2>2. CASE i = n
    <3>1. chunks # <<>> /\ chunks'[i] = Last /\ chunks'[i + 1] = piece
      BY <1>1, <1>5, <1>7, <2>2
    <3> QED
      BY <3>1, <1>2
  <2> QED
    BY <1>1, <2>1, <2>2
<1>15. IndexIsPlace'
  <2> SUFFICES ASSUME NEW i \in 1..(n + 1) PROVE chunks'[i].index = i - 1
    BY <1>5 DEF IndexIsPlace
  <2>1. CASE i \in 1..n
    BY <2>1, <1>5 DEF LoopInv, IndexIsPlace
  <2>2. CASE i = n + 1
    BY <2>2, <1>1, <1>2, <1>5
  <2> QED
    BY <1>1, <2>1, <2>2
<1>16. CoveredSoFar'
  <2> SUFFICES ASSUME NEW p \in 0..(End - 1)
               PROVE \E i \in 1..(n + 1) : chunks'[i].from <= p /\ p < chunks'[i].to
    BY <1>5, <1>6 DEF CoveredSoFar
  <2>1. CASE start <= p
    <3>1. n + 1 \in 1..(n + 1)
      BY <1>1
    <3>2. chunks'[n + 1].from <= p /\ p < chunks'[n + 1].to
      BY <1>2, <1>5, <2>1
    <3> QED
      BY <3>1, <3>2
  <2>2. CASE p < start
    <3>1. chunks # <<>>
      BY <2>2 DEF LoopInv, Position, Cut
    <3>2. p \in 0..(Last.to - 1)
      BY <1>2, <2>2, <3>1
    <3>3. PICK i \in 1..n : chunks[i].from <= p /\ p < chunks[i].to
      BY <3>1, <3>2 DEF LoopInv, CoveredSoFar
    <3>4. i \in 1..(n + 1) /\ chunks'[i] = chunks[i]
      BY <1>1, <1>5, <3>3
    <3> QED
      BY <3>3, <3>4
  <2> QED
    BY <1>2, <2>1, <2>2
<1> QED
  BY <1>8, <1>9, <1>10, <1>11, <1>12, <1>13, <1>14, <1>15, <1>16 DEF LoopInv

\* Check and Nothing only move pc; the pieces stay.
LEMMA QuietLoop ==
  ASSUME LoopInv, Check \/ Nothing \/ UNCHANGED vars
  PROVE  LoopInv'
<1>1. UNCHANGED <<length, size, overlap, start, index, chunks>>
  BY DEF Check, Nothing, vars
<1>2. CASE Check
  <2>1. Untouched /\ pc' \in {"loop", "raised"} /\ (pc' = "loop" => Acceptable)
    BY <1>2 DEF LoopInv, Checked, Check
  <2>2. TypeOK' /\ Checked'
    BY <1>1, <2>1 DEF LoopInv, TypeOK, Checked, Untouched, Acceptable
  <2>3. Position' /\ Finished'
    BY <1>1, <2>1 DEF Position, Finished, Untouched
  <2>4. (CoveredSoFar /\ Growing /\ PiecesFit /\ ExactOverlap /\ NewText /\ IndexIsPlace)'
    BY <1>1 DEF LoopInv, CoveredSoFar, Last, Growing, PiecesFit, ExactOverlap,
                NewText, IndexIsPlace
  <2> QED
    BY <2>2, <2>3, <2>4 DEF LoopInv
<1>3. CASE Nothing
  <2>1. pc = "loop" /\ pc' = "done" /\ start >= length
    BY <1>3 DEF Nothing
  <2>2. TypeOK' /\ Checked' /\ Position'
    BY <1>1, <2>1 DEF LoopInv, TypeOK, Checked, Acceptable, Position
  <2>3. chunks = <<>>
    <3> SUFFICES ASSUME chunks # <<>> PROVE FALSE
      OBVIOUS
    <3>1. start = Last.to - overlap /\ Last.to < length
      BY <2>1 DEF LoopInv, Position
    <3>2. Last \in Pieces /\ overlap \in Int /\ overlap >= 0 /\ length \in Nat
      BY <2>1 DEF LoopInv, TypeOK, Checked, Acceptable, Last
    <3> QED
      BY <2>1, <3>1, <3>2 DEF Pieces
  <2>4. Finished'
    BY <1>1, <2>1, <2>3 DEF LoopInv, TypeOK, Position, Finished
  <2>5. (CoveredSoFar /\ Growing /\ PiecesFit /\ ExactOverlap /\ NewText /\ IndexIsPlace)'
    BY <1>1 DEF LoopInv, CoveredSoFar, Last, Growing, PiecesFit, ExactOverlap,
                NewText, IndexIsPlace
  <2> QED
    BY <2>2, <2>4, <2>5 DEF LoopInv
<1>4. CASE UNCHANGED vars
  BY <1>4 DEF vars, LoopInv, TypeOK, Checked, Untouched, Acceptable, Position,
              CoveredSoFar, Finished, Last, Growing, PiecesFit, ExactOverlap,
              NewText, IndexIsPlace
<1> QED
  BY <1>2, <1>3, <1>4

\* LoopInv is kept throughout.
LEMMA LoopInvariant == Spec => []LoopInv
<1>1. LoopInv /\ [Next]_vars => LoopInv'
  BY CutLoop, QuietLoop DEF Next
<1> QED
  BY InitLoop, <1>1, PTL DEF Spec

-----------------------------------------------------------------------------

\* The pieces a document is cut into lose none of its text: chunk_text returns
\* with every character in a piece.
THEOREM NothingLost == Spec => []Covered
<1>1. LoopInv => Covered
  <2> SUFFICES ASSUME LoopInv, pc = "done", NEW p \in 0..(length - 1)
               PROVE \E i \in 1..Len(chunks) : chunks[i].from <= p /\ p < chunks[i].to
    BY DEF Covered
  <2>1. CASE chunks = <<>>
    BY <2>1 DEF LoopInv, Finished
  <2>2. CASE chunks # <<>>
    BY <2>2 DEF LoopInv, Finished, CoveredSoFar
  <2> QED
    BY <2>1, <2>2
<1> QED
  BY LoopInvariant, <1>1, PTL

\* Neighbouring pieces share exactly the overlap that was asked for, and each
\* brings new text: the shape of what is embedded and searched.
THEOREM PiecesOverlap == Spec => [](ExactOverlap /\ NewText /\ PiecesFit)
<1>1. LoopInv => ExactOverlap /\ NewText /\ PiecesFit
  BY DEF LoopInv
<1> QED
  BY LoopInvariant, <1>1, PTL

\* A document's pieces have different identities in the search index.
THEOREM IdentitiesDiffer == Spec => []IndexIsPlace
<1>1. LoopInv => IndexIsPlace
  BY DEF LoopInv
<1> QED
  BY LoopInvariant, <1>1, PTL

\* The loop of chunk_text takes at most one turn for a character.
THEOREM LoopBounded == Spec => []TurnsBounded
<1>1. LoopInv => TurnsBounded
  <2> SUFFICES ASSUME LoopInv PROVE Len(chunks) <= length
    BY DEF TurnsBounded
  <2>1. length \in Nat /\ chunks \in Seq(Pieces) /\ Len(chunks) \in Nat
    BY DEF LoopInv, TypeOK
  <2>2. CASE Len(chunks) = 0
    BY <2>1, <2>2
  <2>3. CASE Len(chunks) # 0
    <3>1. Len(chunks) \in 1..Len(chunks)
      BY <2>1, <2>3
    <3>2. Len(chunks) <= Last.to /\ Last.to <= length /\ Last \in Pieces
      BY <2>1, <3>1 DEF LoopInv, Growing, PiecesFit, Last
    <3> QED
      BY <2>1, <3>2 DEF Pieces
  <2> QED
    BY <2>2, <2>3
<1> QED
  BY LoopInvariant, <1>1, PTL

=============================================================================
