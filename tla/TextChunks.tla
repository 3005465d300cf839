----------------------------- MODULE TextChunks -----------------------------
(***************************************************************************)
(* chunk_text of opscopilot_rag: a document is cut into pieces of a given  *)
(* size that overlap.  A piece is the range of text it takes, from its     *)
(* first position up to the one behind its last, counted from zero as in   *)
(* the code, and its index.                                                *)
(***************************************************************************)
EXTENDS Integers, Sequences

CONSTANTS
  MaxLength,  \* bound of the model: length of the text
  MaxSize     \* bound of the model: the sizes asked for

ASSUME BoundAssumption == MaxLength \in Nat /\ MaxSize \in Nat

VARIABLES
  length,   \* text_length
  size,     \* chunk_size
  overlap,  \* chunk_overlap
  start, index, chunks,
  pc        \* "check", "loop", "done" or "raised"

vars == <<length, size, overlap, start, index, chunks, pc>>

\* The command line takes any integer for size and overlap.
Init ==
  /\ length \in 0..MaxLength
  /\ size \in -1..MaxSize
  /\ overlap \in -1..MaxSize
  /\ start = 0 /\ index = 0 /\ chunks = <<>>
  /\ pc = "check"

\* Mutant of Acceptable: negative overlaps are let through.
AcceptableNegative == size > 0 /\ overlap < size

\* What is not refused by a ValueError.
Acceptable == size > 0 /\ overlap >= 0 /\ overlap < size

Check ==
  /\ pc = "check"
  /\ pc' = IF Acceptable THEN "loop" ELSE "raised"
  /\ UNCHANGED <<length, size, overlap, start, index, chunks>>

End == IF start + size < length THEN start + size ELSE length

Advance == start' = End - overlap /\ index' = index + 1

\* Mutant of Cut: a text that fits exactly is cut once more.
CutOnceMore ==
  /\ pc = "loop" /\ start < length
  /\ chunks' = Append(chunks, [from |-> start, to |-> End, index |-> index])
  /\ IF End = length /\ start + size > length
     THEN pc' = "done" /\ UNCHANGED <<start, index>>
     ELSE Advance /\ UNCHANGED pc
  /\ UNCHANGED <<length, size, overlap>>

\* One turn of the loop; the piece that reaches the end of the text is the last.
Cut ==
  /\ pc = "loop" /\ start < length
  /\ chunks' = Append(chunks, [from |-> start, to |-> End, index |-> index])
  /\ IF End = length
     THEN pc' = "done" /\ UNCHANGED <<start, index>>
     ELSE Advance /\ UNCHANGED pc
  /\ UNCHANGED <<length, size, overlap>>

\* A text without a character has no piece.
Nothing ==
  /\ pc = "loop" /\ start >= length
  /\ pc' = "done"
  /\ UNCHANGED <<length, size, overlap, start, index, chunks>>

Next == Check \/ Cut \/ Nothing

Spec == Init /\ [][Next]_vars

-----------------------------------------------------------------------------

Pieces == [from : Nat, to : Nat, index : Nat]

TypeOK ==
  /\ length \in Nat /\ size \in Int /\ overlap \in Int
  /\ start \in Nat /\ index \in Nat
  /\ chunks \in Seq(Pieces)
  /\ pc \in {"check", "loop", "done", "raised"}

\* Every character of the text is in a piece.
Covered ==
  pc = "done" =>
    \A p \in 0..(length - 1) :
      \E i \in 1..Len(chunks) : chunks[i].from <= p /\ p < chunks[i].to

\* A piece shares exactly the overlap with the one before it.
ExactOverlap ==
  \A i \in 1..(Len(chunks) - 1) : chunks[i].to - chunks[i + 1].from = overlap

\* A piece is not empty, not longer than asked for, and inside the text.
PiecesFit ==
  \A i \in 1..Len(chunks) :
    /\ chunks[i].from < chunks[i].to
    /\ chunks[i].to - chunks[i].from <= size
    /\ chunks[i].to <= length

\* A piece has text that the pieces before it have not, so no piece repeats
\* the tail of another.
NewText ==
  \A i \in 1..(Len(chunks) - 1) : chunks[i].to < chunks[i + 1].to

\* The index, part of the identity of a piece in the search index, is its place.
IndexIsPlace == \A i \in 1..Len(chunks) : chunks[i].index = i - 1

\* The loop takes at most one turn for a character: it ends for every size and
\* overlap that is not refused.
TurnsBounded == Len(chunks) <= length

=============================================================================
