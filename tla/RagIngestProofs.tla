--------------------------- MODULE RagIngestProofs ---------------------------
(***************************************************************************)
(* Theorems about RagIngest: what the search index holds, for any number   *)
(* of documents, contents, ingestions and failures, and any batch size.    *)
(***************************************************************************)
EXTENDS RagIngest, SequenceTheorems, TLAPS

\* The pieces come from the documents loaded, each with its one content, and
\* all of these documents' pieces are there.
FromLoaded ==
  \A i \in 1..Len(chunks) : chunks[i].content = loaded[chunks[i].doc]

AllPieces ==
  \A d \in Docs :
    loaded[d] # NoFile =>
      \A n \in 0..(PieceCount[loaded[d]] - 1) :
        \E i \in 1..Len(chunks) :
          chunks[i] = [doc |-> d, n |-> n, content |-> loaded[d]]

\* A document is read once.
ReadOnce == \A d \in toRead : loaded[d] = NoFile

VectorsAligned ==
  /\ Len(vectors) <= Len(chunks)
  /\ \A i \in 1..Len(vectors) : vectors[i] \in {NoVector, Text(chunks[i])}
  /\ pc = "read" => vectors = <<>>

\* What the bulk request has written, and what it has still to write, is the
\* beginning and the rest of the pieces.
Written == Len(chunks) - Len(toWrite)

IsPiece(e, chunk) == e.doc = chunk.doc /\ e.n = chunk.n /\ e.content = chunk.content

RequestAligned ==
  /\ pc # "bulk" => toWrite = <<>>
  /\ Len(toWrite) <= Len(chunks)
  /\ \A j \in 1..Len(toWrite) :
       /\ IsPiece(toWrite[j], chunks[Written + j])
       /\ toWrite[j].vector \in {NoVector, Text(toWrite[j])}

WrittenIsThere ==
  pc = "bulk" =>
    /\ \A d \in Docs : loaded[d] # NoFile => d \in torn
    /\ rejected \/ \A i \in 1..Written : \E e \in index : IsPiece(e, chunks[i])

IndexInv ==
  /\ TypeOK /\ FromLoaded /\ AllPieces /\ ReadOnce /\ VectorsAligned
  /\ RequestAligned /\ WrittenIsThere
  /\ VectorOfText /\ IdentitiesUnique /\ ServesLastIngested

-----------------------------------------------------------------------------

USE IngestAssumption

\* The pieces of a document are chunks.
LEMMA PiecesType ==
  ASSUME NEW d \in Docs, NEW c \in Contents
  PROVE  /\ Pieces(d, c) \in Seq(Chunk)
         /\ Len(Pieces(d, c)) = PieceCount[c] /\ PieceCount[c] \in Nat
         /\ \A i \in 1..PieceCount[c] :
              Pieces(d, c)[i] = [doc |-> d, n |-> i - 1, content |-> c]
<1>1. PieceCount[c] \in Nat
  OBVIOUS
<1>2. \A i \in 1..PieceCount[c] : [doc |-> d, n |-> i - 1, content |-> c] \in Chunk
  BY <1>1 DEF Chunk
<1> QED
  BY <1>1, <1>2 DEF Pieces

\* No document has a content at first.
LEMMA NowhereType ==
  /\ Nowhere \in [Docs -> Contents \cup {NoFile}]
  /\ \A d \in Docs : Nowhere[d] = NoFile
  BY DEF Nowhere

\* At first the index is empty.
LEMMA InitIndex == Init => IndexInv
<1> SUFFICES ASSUME Init PROVE IndexInv
  OBVIOUS
<1> USE NowhereType DEF Init
<1>1. TypeOK
  <2>1. /\ <<>> \in Seq(Chunk) /\ <<>> \in Seq(Vector) /\ <<>> \in Seq(Item)
        /\ 0 \in 0..MaxEdits /\ 0 \in 0..MaxIngestions
    OBVIOUS
  <2> QED
    BY <2>1 DEF TypeOK
<1>2. FromLoaded /\ AllPieces /\ ReadOnce /\ VectorsAligned /\ RequestAligned
      /\ WrittenIsThere
  BY DEF FromLoaded, AllPieces, ReadOnce, VectorsAligned, RequestAligned,
         WrittenIsThere, Written
<1>3. VectorOfText /\ IdentitiesUnique /\ ServesLastIngested
  BY DEF VectorOfText, IdentitiesUnique, ServesLastIngested
<1> QED
  BY <1>1, <1>2, <1>3 DEF IndexInv

\* What a step that writes nothing and closes nothing leaves as it is.
LEMMA IndexKept ==
  ASSUME IndexInv, UNCHANGED <<index, served>>, torn \subseteq torn', torn' \subseteq Docs
  PROVE  (VectorOfText /\ IdentitiesUnique /\ ServesLastIngested)'
<1>1. VectorOfText' /\ IdentitiesUnique'
  BY DEF IndexInv, VectorOfText, IdentitiesUnique, Text
<1>2. ServesLastIngested'
  BY DEF IndexInv, ServesLastIngested
<1> QED
  BY <1>1, <1>2

\* A change of the files is none of the index.
LEMMA EditIndex ==
  ASSUME IndexInv, NEW d \in Docs, NEW c \in Contents \cup {NoFile}, Edit(d, c)
  PROVE  IndexInv'
<1>1. UNCHANGED <<index, exists, pc, local, ingestions, history>>
  BY DEF Edit
<1>2. TypeOK'
  BY DEF IndexInv, TypeOK, Edit, local, history
<1>3. (FromLoaded /\ AllPieces /\ ReadOnce /\ VectorsAligned /\ RequestAligned
       /\ WrittenIsThere)'
  BY <1>1 DEF IndexInv, local, history, FromLoaded, AllPieces, ReadOnce,
     VectorsAligned, Text, RequestAligned, WrittenIsThere, Written, IsPiece
<1>4. (VectorOfText /\ IdentitiesUnique /\ ServesLastIngested)'
  BY <1>1, IndexKept DEF IndexInv, TypeOK, history
<1> QED
  BY <1>2, <1>3, <1>4 DEF IndexInv

\* An ingestion begins with nothing read.
LEMMA StartIndex == ASSUME IndexInv, Start PROVE IndexInv'
<1>1. /\ toRead' = {d \in Docs : files[d] # NoFile}
      /\ chunks' = <<>> /\ loaded' = Nowhere
      /\ vectors' = <<>> /\ detected' = FALSE /\ rejected' = FALSE
      /\ pc' \in {"idle", "read"} /\ ingestions' \in 0..MaxIngestions
      /\ UNCHANGED <<files, index, exists, toWrite, edits, served, torn>>
  BY DEF Start, history, IndexInv, TypeOK
<1>2. TypeOK'
  <2>1. <<>> \in Seq(Chunk) /\ <<>> \in Seq(Vector)
    OBVIOUS
  <2> QED
    BY <1>1, <2>1, NowhereType DEF IndexInv, TypeOK
<1>3. toWrite = <<>>
  BY DEF IndexInv, RequestAligned, Start
<1>4. (FromLoaded /\ AllPieces /\ ReadOnce /\ VectorsAligned)'
  BY <1>1, NowhereType DEF FromLoaded, AllPieces, ReadOnce, VectorsAligned
<1>5. (RequestAligned /\ WrittenIsThere)'
  BY <1>1, <1>3 DEF RequestAligned, WrittenIsThere, Written
<1>6. (VectorOfText /\ IdentitiesUnique /\ ServesLastIngested)'
  BY <1>1, IndexKept DEF IndexInv, TypeOK
<1> QED
  BY <1>2, <1>4, <1>5, <1>6 DEF IndexInv

\* A document read adds its pieces and no other.
LEMMA ReadIndex ==
  ASSUME IndexInv, NEW d \in Docs, Read(d)
  PROVE  IndexInv'
<1>1. /\ pc = "read" /\ d \in toRead /\ toRead' = toRead \ {d}
      /\ UNCHANGED <<files, index, exists, vectors, detected, toWrite, rejected,
                     edits, ingestions, served, torn>>
      /\ pc' \in {"idle", "read", "embed"}
  BY DEF Read, history
<1>2. /\ TypeOK /\ loaded[d] = NoFile /\ toWrite = <<>> /\ vectors = <<>>
      /\ chunks \in Seq(Chunk)
  BY <1>1 DEF IndexInv, TypeOK, ReadOnce, RequestAligned, VectorsAligned
<1>3. (VectorOfText /\ IdentitiesUnique /\ ServesLastIngested)'
  BY <1>1, IndexKept DEF IndexInv, TypeOK
<1>4. CASE files[d] = NoFile
  <2>1. UNCHANGED <<chunks, loaded>>
    BY <1>4 DEF Read
  <2>2. TypeOK'
    BY <1>1, <2>1 DEF IndexInv, TypeOK
  <2>3. (FromLoaded /\ AllPieces /\ ReadOnce)'
    BY <1>1, <2>1 DEF IndexInv, FromLoaded, AllPieces, ReadOnce
  <2>4. (VectorsAligned /\ RequestAligned /\ WrittenIsThere)'
    BY <1>1, <1>2, <2>1 DEF VectorsAligned, RequestAligned, WrittenIsThere, Written
  <2> QED
    BY <1>3, <2>2, <2>3, <2>4 DEF IndexInv
<1>5. CASE files[d] # NoFile
  <2> DEFINE c == files[d]
             new == Pieces(d, c)
             n == Len(chunks)
  <2>1. c \in Contents
    BY <1>2, <1>5 DEF TypeOK
  <2>2. /\ new \in Seq(Chunk) /\ Len(new) = PieceCount[c] /\ PieceCount[c] \in Nat
        /\ \A i \in 1..PieceCount[c] :
             new[i] = [doc |-> d, n |-> i - 1, content |-> c]
    BY <2>1, PiecesType
  <2>3. chunks' = chunks \o new /\ loaded' = [loaded EXCEPT ![d] = c]
    BY <1>5 DEF Read
  <2> HIDE DEF new
  <2>4. /\ chunks' \in Seq(Chunk) /\ n \in Nat /\ Len(chunks') = n + PieceCount[c]
        /\ \A i \in 1..n : i \in 1..Len(chunks') /\ chunks'[i] = chunks[i]
        /\ \A i \in 1..PieceCount[c] :
             n + i \in 1..Len(chunks') /\ chunks'[n + i] = new[i]
        /\ \A i \in 1..Len(chunks') :
             i \in 1..n \/ (i - n \in 1..PieceCount[c] /\ chunks'[i] = new[i - n])
    <3>1. chunks' \in Seq(Chunk) /\ n \in Nat /\ Len(chunks') = n + Len(new)
      BY <1>2, <2>2, <2>3
    <3>2. \A i \in 1..(n + Len(new)) :
            chunks'[i] = IF i <= n THEN chunks[i] ELSE new[i - n]
      BY <1>2, <2>2, <2>3, ConcatProperties
    <3>3. \A i \in 1..PieceCount[c] :
            n + i \in 1..(n + Len(new)) /\ ~(n + i <= n) /\ (n + i) - n = i
      BY <2>2, <3>1
    <3>4. \A i \in 1..PieceCount[c] :
            n + i \in 1..Len(chunks') /\ chunks'[n + i] = new[i]
      BY <3>1, <3>2, <3>3
    <3>5. \A i \in 1..n : i \in 1..Len(chunks') /\ chunks'[i] = chunks[i]
      BY <2>2, <3>1, <3>2
    <3>6. \A i \in 1..Len(chunks') :
            i \in 1..n \/ (i - n \in 1..PieceCount[c] /\ chunks'[i] = new[i - n])
      BY <2>2, <3>1, <3>2
    <3> QED
      BY <2>2, <3>1, <3>4, <3>5, <3>6
  <2>5. /\ loaded' \in [Docs -> Contents \cup {NoFile}] /\ loaded'[d] = c
        /\ \A e \in Docs : e # d => loaded'[e] = loaded[e]
    BY <1>2, <2>1, <2>3 DEF TypeOK
  <2>6. TypeOK'
    BY <1>1, <1>2, <2>4, <2>5 DEF TypeOK
  <2>7. FromLoaded'
    <3> SUFFICES ASSUME NEW i \in 1..Len(chunks')
                 PROVE chunks'[i].content = loaded'[chunks'[i].doc]
      BY DEF FromLoaded
    <3>1. CASE i \in 1..n
      <4>1. chunks'[i] = chunks[i] /\ chunks[i] \in Chunk
        BY <1>2, <2>4, <3>1
      <4>2. chunks[i].content = loaded[chunks[i].doc] /\ chunks[i].content \in Contents
            /\ chunks[i].doc \in Docs
        BY <3>1, <4>1 DEF IndexInv, FromLoaded, Chunk
      <4>3. chunks[i].doc # d
        BY <1>2, <4>2
      <4> QED
        BY <2>5, <4>1, <4>2, <4>3
    <3>2. CASE i - n \in 1..PieceCount[c] /\ chunks'[i] = new[i - n]
      <4>1. new[i - n] = [doc |-> d, n |-> (i - n) - 1, content |-> c]
        BY <2>2, <3>2
      <4>2. chunks'[i].doc = d /\ chunks'[i].content = c
        BY <3>2, <4>1
      <4> QED
        BY <2>5, <4>2
    <3> QED
      BY <2>4, <3>1, <3>2
  <2>8. AllPieces'
    <3> SUFFICES ASSUME NEW e \in Docs, loaded'[e] # NoFile,
                        NEW m \in 0..(PieceCount[loaded'[e]] - 1)
                 PROVE \E i \in 1..Len(chunks') :
                         chunks'[i] = [doc |-> e, n |-> m, content |-> loaded'[e]]
      BY DEF AllPieces
    <3>1. CASE e = d
      <4>1. m + 1 \in 1..PieceCount[c] /\ (m + 1) - 1 = m
        BY <2>2, <2>5, <3>1
      <4>2. new[m + 1] = [doc |-> d, n |-> m, content |-> c]
        BY <2>2, <4>1
      <4>3. n + (m + 1) \in 1..Len(chunks') /\ chunks'[n + (m + 1)] = new[m + 1]
        BY <2>4, <4>1
      <4> QED
        BY <2>5, <3>1, <4>2, <4>3
    <3>2. CASE e # d
      <4>1. loaded'[e] = loaded[e]
        BY <2>5, <3>2
      <4>2. PICK i \in 1..n : chunks[i] = [doc |-> e, n |-> m, content |-> loaded[e]]
        BY <4>1 DEF IndexInv, AllPieces
      <4> QED
        BY <2>4, <4>1, <4>2
    <3> QED
      BY <3>1, <3>2
  <2>9. ReadOnce'
    BY <1>1, <2>5 DEF IndexInv, TypeOK, ReadOnce
  <2>10. (VectorsAligned /\ RequestAligned)'
    BY <1>1, <1>2, <2>4 DEF VectorsAligned, RequestAligned, Written
  <2>11. WrittenIsThere'
    BY <1>1 DEF WrittenIsThere
  <2> QED
    BY <1>3, <2>6, <2>7, <2>8, <2>9, <2>10, <2>11 DEF IndexInv
<1> QED
  BY <1>4, <1>5

\* The texts of the next batch.
LEMMA BatchTexts ==
  ASSUME TypeOK, NEW done \in Nat, done < Len(chunks)
  PROVE  /\ Batch(done) \in Seq(Chunk)
         /\ Len(Batch(done)) \in Nat \ {0} /\ done + Len(Batch(done)) <= Len(chunks)
         /\ \A i \in 1..Len(Batch(done)) : Batch(done)[i] = chunks[done + i]
<1> DEFINE last == IF done + BatchSize < Len(chunks) THEN done + BatchSize
                   ELSE Len(chunks)
<1>1. chunks \in Seq(Chunk) /\ Len(chunks) \in Nat /\ BatchSize \in Nat \ {0}
  BY DEF TypeOK
<1>2. last \in Nat /\ done + 1 <= last /\ last <= Len(chunks)
  BY <1>1
<1>3. Batch(done) = SubSeq(chunks, done + 1, last)
  BY DEF Batch
<1> HIDE DEF last
<1>4. \A i \in (done + 1)..last : chunks[i] \in Chunk
  BY <1>1, <1>2
<1>5. done + 1 \in Int /\ last \in Int
  BY <1>2
<1>6. /\ SubSeq(chunks, done + 1, last) \in Seq(Chunk)
      /\ Len(SubSeq(chunks, done + 1, last)) = last - done
      /\ \A i \in 1..(last - done) :
           SubSeq(chunks, done + 1, last)[i] = chunks[(done + 1) + i - 1]
  BY <1>2, <1>4, <1>5, SubSeqProperties
<1>7. \A i \in 1..(last - done) : (done + 1) + i - 1 = done + i
  BY <1>2
<1> QED
  BY <1>1, <1>2, <1>3, <1>6, <1>7

\* A batch of vectors is aligned with its texts.
LEMMA EmbedIndex == ASSUME IndexInv, Embed PROVE IndexInv'
<1> DEFINE n == Len(vectors)
           batch == Batch(n)
<1>1. /\ pc = "embed" /\ n < Len(chunks)
      /\ UNCHANGED <<files, index, exists, pc, toRead, chunks, loaded, toWrite,
                     rejected, edits, ingestions, served, torn>>
  BY DEF Embed, history
<1>2. TypeOK /\ VectorsAligned /\ vectors \in Seq(Vector) /\ n \in Nat
      /\ chunks \in Seq(Chunk) /\ Len(chunks) \in Nat /\ detected \in BOOLEAN
  BY DEF IndexInv, TypeOK
<1>3. /\ batch \in Seq(Chunk)
      /\ Len(batch) \in Nat \ {0} /\ n + Len(batch) <= Len(chunks)
      /\ \A i \in 1..Len(batch) : batch[i] = chunks[n + i]
  BY <1>1, <1>2, BatchTexts
<1>4. PICK empty \in SUBSET (1..Len(batch)) :
        /\ vectors' = vectors \o [i \in 1..Len(batch) |->
                        IF i \in empty THEN NoVector ELSE Text(batch[i])]
        /\ detected' \in BOOLEAN
  BY <1>2 DEF Embed, Collected
<1> DEFINE new == [i \in 1..Len(batch) |->
                     IF i \in empty THEN NoVector ELSE Text(batch[i])]
<1> HIDE DEF batch
<1>5. \A i \in 1..Len(batch) : new[i] \in {NoVector, Text(chunks[n + i])}
  BY <1>3
<1>6. \A i \in 1..Len(batch) : new[i] \in Vector
  <2> SUFFICES ASSUME NEW i \in 1..Len(batch) PROVE new[i] \in Vector
    OBVIOUS
  <2>1. chunks[n + i] \in Chunk
    BY <1>2, <1>3
  <2>2. NoVector \in Vector
    BY DEF NoVector, Vector
  <2>3. Text(chunks[n + i]) \in Vector
    BY <2>1 DEF Text, Vector, Chunk
  <2> QED
    BY <1>5, <2>2, <2>3
<1>7. new \in Seq(Vector) /\ Len(new) = Len(batch)
  BY <1>3, <1>6
<1>8. vectors' = vectors \o new
  BY <1>4
<1> HIDE DEF new
<1>9. /\ vectors' \in Seq(Vector) /\ Len(vectors') = n + Len(batch)
      /\ \A i \in 1..(n + Len(batch)) :
           vectors'[i] = IF i <= n THEN vectors[i] ELSE new[i - n]
  <2>1. vectors \in Seq(Vector) /\ new \in Seq(Vector)
    BY <1>2, <1>7
  <2>2. /\ vectors \o new \in Seq(Vector)
        /\ Len(vectors \o new) = n + Len(new)
        /\ \A i \in 1..(n + Len(new)) :
             (vectors \o new)[i] = IF i <= n THEN vectors[i] ELSE new[i - n]
    BY <2>1, ConcatProperties
  <2> QED
    BY <1>7, <1>8, <2>2
<1>10. TypeOK'
  BY <1>1, <1>2, <1>4, <1>9 DEF TypeOK
<1>11. VectorsAligned'
  <2> SUFFICES ASSUME NEW i \in 1..Len(vectors')
               PROVE vectors'[i] \in {NoVector, Text(chunks[i])}
    BY <1>1, <1>3, <1>9 DEF VectorsAligned, Text
  <2>1. CASE i \in 1..n
    BY <1>2, <1>3, <1>9, <2>1 DEF VectorsAligned
  <2>2. CASE i - n \in 1..Len(batch)
    <3>1. n + (i - n) = i /\ i \in 1..(n + Len(batch)) /\ ~(i <= n)
      BY <1>2, <1>3, <2>2
    <3>2. vectors'[i] = new[i - n]
      BY <1>9, <3>1
    <3> QED
      BY <1>5, <2>2, <3>1, <3>2
  <2> QED
    BY <1>2, <1>3, <1>9, <2>1, <2>2
<1>12. (FromLoaded /\ AllPieces /\ ReadOnce)'
  BY <1>1 DEF IndexInv, FromLoaded, AllPieces, ReadOnce
<1>13. (RequestAligned /\ WrittenIsThere)'
  BY <1>1 DEF IndexInv, RequestAligned, WrittenIsThere, Written, IsPiece, Text
<1>14. (VectorOfText /\ IdentitiesUnique /\ ServesLastIngested)'
  BY <1>1, <1>2, IndexKept DEF TypeOK
<1> QED
  BY <1>10, <1>11, <1>12, <1>13, <1>14 DEF IndexInv

\* The bulk request has all pieces of what was loaded.
LEMMA PrepareIndex == ASSUME IndexInv, Prepare PROVE IndexInv'
<1>1. /\ pc = "embed"
      /\ UNCHANGED <<files, index, toRead, chunks, loaded, vectors, detected,
                     rejected, edits, ingestions, served>>
      /\ exists' \in BOOLEAN
  BY DEF Prepare, IndexInv, TypeOK
<1>2. TypeOK /\ VectorsAligned /\ toWrite = <<>> /\ torn \subseteq Docs
  BY <1>1 DEF IndexInv, TypeOK, RequestAligned
<1>3. (FromLoaded /\ AllPieces /\ ReadOnce)'
  BY <1>1 DEF IndexInv, FromLoaded, AllPieces, ReadOnce
<1>4. CASE pc' = "idle" /\ UNCHANGED <<toWrite, torn>>
  <2>1. TypeOK'
    BY <1>1, <1>2, <1>4 DEF TypeOK
  <2>2. (VectorsAligned /\ RequestAligned /\ WrittenIsThere)'
    BY <1>1, <1>2, <1>4 DEF IndexInv, VectorsAligned, Text, RequestAligned,
       WrittenIsThere, Written, TypeOK
  <2>3. (VectorOfText /\ IdentitiesUnique /\ ServesLastIngested)'
    BY <1>1, <1>2, <1>4, IndexKept
  <2> QED
    BY <1>3, <2>1, <2>2, <2>3 DEF IndexInv
<1>5. CASE /\ pc' = "bulk" /\ Len(vectors) = Len(chunks)
           /\ toWrite' = [i \in 1..Len(chunks) |->
                [doc |-> chunks[i].doc, n |-> chunks[i].n,
                 content |-> chunks[i].content, vector |-> vectors[i]]]
           /\ torn' = torn \cup {d \in Docs : loaded[d] # NoFile}
  <2>1. chunks \in Seq(Chunk) /\ vectors \in Seq(Vector) /\ Len(chunks) \in Nat
    BY <1>2 DEF TypeOK
  <2>2. \A i \in 1..Len(chunks) :
          [doc |-> chunks[i].doc, n |-> chunks[i].n,
           content |-> chunks[i].content, vector |-> vectors[i]] \in Item
    <3> SUFFICES ASSUME NEW i \in 1..Len(chunks)
                 PROVE [doc |-> chunks[i].doc, n |-> chunks[i].n,
                        content |-> chunks[i].content, vector |-> vectors[i]] \in Item
      OBVIOUS
    <3>1. chunks[i] \in Chunk /\ vectors[i] \in Vector
      BY <1>5, <2>1
    <3> QED
      BY <3>1 DEF Chunk, Item
  <2>3. toWrite' \in Seq(Item) /\ Len(toWrite') = Len(chunks)
    BY <1>5, <2>1, <2>2
  <2>4. \A i \in 1..Len(chunks) :
          /\ toWrite'[i].doc = chunks[i].doc /\ toWrite'[i].n = chunks[i].n
          /\ toWrite'[i].content = chunks[i].content
          /\ toWrite'[i].vector = vectors[i]
    BY <1>5
  <2>5. TypeOK'
    BY <1>1, <1>2, <1>5, <2>3 DEF TypeOK
  <2>6. VectorsAligned'
    BY <1>1, <1>2, <1>5 DEF VectorsAligned, Text
  <2>7. RequestAligned'
    <3>1. Written' = 0
      BY <1>1, <2>1, <2>3 DEF Written
    <3>2. ASSUME NEW j \in 1..Len(chunks)
          PROVE  /\ IsPiece(toWrite'[j], chunks[j])
                 /\ toWrite'[j].vector \in {NoVector, Text(toWrite'[j])}
      BY <1>2, <1>5, <2>4 DEF VectorsAligned, IsPiece, Text
    <3> HIDE DEF Written
    <3>3. \A j \in 1..Len(chunks) : 0 + j = j
      BY <2>1
    <3> QED
      BY <1>1, <1>5, <2>1, <2>3, <3>1, <3>2, <3>3 DEF RequestAligned, Text, IsPiece
  <2>8. WrittenIsThere'
    <3>1. Written' = 0
      BY <1>1, <2>1, <2>3 DEF Written
    <3> QED
      BY <1>1, <1>5, <3>1 DEF WrittenIsThere
  <2>9. (VectorOfText /\ IdentitiesUnique /\ ServesLastIngested)'
    BY <1>1, <1>2, <1>5, IndexKept
  <2> QED
    BY <1>3, <2>5, <2>6, <2>7, <2>8, <2>9 DEF IndexInv
<1> QED
  BY <1>4, <1>5 DEF Prepare

\* An item written is one less to write.
LEMMA WriteIndex == ASSUME IndexInv, Write PROVE IndexInv'
<1> DEFINE item == Head(toWrite)
           w == Written
<1>1. /\ pc = "bulk" /\ toWrite # <<>> /\ toWrite' = Tail(toWrite)
      /\ UNCHANGED <<files, exists, pc, toRead, chunks, loaded, vectors, detected,
                     edits, ingestions, served, torn>>
  BY DEF Write, history
<1>2. /\ TypeOK /\ toWrite \in Seq(Item) /\ chunks \in Seq(Chunk)
      /\ RequestAligned /\ WrittenIsThere
  BY DEF IndexInv, TypeOK
<1>3. /\ item \in Item /\ item = toWrite[1] /\ 1 \in 1..Len(toWrite)
      /\ Tail(toWrite) \in Seq(Item) /\ Len(Tail(toWrite)) = Len(toWrite) - 1
      /\ Len(toWrite) \in Nat /\ Len(chunks) \in Nat
      /\ \A j \in 1..Len(Tail(toWrite)) : Tail(toWrite)[j] = toWrite[j + 1]
  BY <1>1, <1>2, HeadTailProperties
<1>4. w \in Nat /\ w + 1 \in 1..Len(chunks) /\ Written' = w + 1
  BY <1>1, <1>2, <1>3 DEF RequestAligned, Written
<1> HIDE DEF w, item
<1>5. IsPiece(item, chunks[w + 1]) /\ item.vector \in {NoVector, Text(item)}
  BY <1>2, <1>3 DEF RequestAligned, w
<1>6. item.doc \in Docs /\ item.doc \in torn /\ item.content = loaded[item.doc]
  <2>1. chunks[w + 1] \in Chunk /\ chunks[w + 1].content = loaded[chunks[w + 1].doc]
    BY <1>2, <1>4 DEF IndexInv, FromLoaded
  <2> QED
    BY <1>1, <1>2, <1>5, <2>1 DEF IsPiece, Chunk, WrittenIsThere
<1>7. (FromLoaded /\ AllPieces /\ ReadOnce /\ VectorsAligned)'
  BY <1>1 DEF IndexInv, FromLoaded, AllPieces, ReadOnce, VectorsAligned, Text
<1>8. RequestAligned'
  <2>1. Len(toWrite') = Len(toWrite) - 1 /\ Len(toWrite') \in Nat
    BY <1>1, <1>3
  <2>2. ASSUME NEW j \in 1..Len(toWrite')
        PROVE  /\ IsPiece(toWrite'[j], chunks[(w + 1) + j])
               /\ toWrite'[j].vector \in {NoVector, Text(toWrite'[j])}
    <3>1. j + 1 \in 1..Len(toWrite) /\ toWrite'[j] = toWrite[j + 1]
      BY <1>1, <1>3, <2>1
    <3>2. w + (j + 1) = (w + 1) + j
      BY <1>4, <2>1
    <3> QED
      BY <1>2, <3>1, <3>2 DEF RequestAligned, w
  <2>3. ASSUME NEW j \in 1..Len(toWrite')
        PROVE  /\ IsPiece(toWrite'[j], chunks'[Written' + j])
               /\ toWrite'[j].vector \in {NoVector, Text(toWrite'[j])}
    BY <1>1, <1>4, <2>2
  <2> QED
    BY <1>1, <1>2, <1>3, <2>1, <2>3 DEF RequestAligned, IsPiece, Text
<1>9. CASE rejected' = TRUE /\ UNCHANGED index
  <2>1. TypeOK'
    BY <1>1, <1>2, <1>3, <1>9 DEF TypeOK
  <2>2. WrittenIsThere'
    BY <1>1, <1>2, <1>9 DEF WrittenIsThere
  <2>3. (VectorOfText /\ IdentitiesUnique /\ ServesLastIngested)'
    BY <1>1, <1>2, <1>9, IndexKept DEF TypeOK
  <2> QED
    BY <1>7, <1>8, <2>1, <2>2, <2>3 DEF IndexInv
<1>10. CASE /\ item.vector # NoVector
            /\ index' = {e \in index : ~SameIdentity(e, item)} \cup {item}
            /\ UNCHANGED rejected
  <2>1. TypeOK'
    BY <1>1, <1>2, <1>3, <1>10 DEF TypeOK
  <2>2. WrittenIsThere'
    <3> SUFFICES ASSUME ~rejected, NEW i \in 1..(w + 1)
                 PROVE \E e \in index' : IsPiece(e, chunks[i])
      BY <1>1, <1>2, <1>4, <1>10 DEF WrittenIsThere, IsPiece
    <3>1. CASE i = w + 1
      BY <1>5, <1>10, <3>1
    <3>2. CASE i \in 1..w
      <4>1. PICK e \in index : IsPiece(e, chunks[i])
        BY <1>1, <1>2, <3>2 DEF WrittenIsThere, w
      <4>2. CASE SameIdentity(e, item)
        <5>1. i \in 1..Len(chunks) /\ chunks[i].content = loaded[chunks[i].doc]
          BY <1>3, <1>4, <3>2 DEF IndexInv, FromLoaded
        <5>2. IsPiece(item, chunks[i])
          BY <1>6, <4>1, <4>2, <5>1 DEF IsPiece, SameIdentity
        <5> QED
          BY <1>10, <5>2
      <4>3. CASE ~SameIdentity(e, item)
        BY <1>10, <4>1, <4>3
      <4> QED
        BY <4>2, <4>3
    <3> QED
      BY <1>4, <3>1, <3>2
  <2>3. VectorOfText'
    BY <1>5, <1>10 DEF IndexInv, VectorOfText, Text
  <2>4. IdentitiesUnique'
    BY <1>10 DEF IndexInv, IdentitiesUnique, SameIdentity
  <2>5. ServesLastIngested'
    <3>1. \A d \in Docs \ torn :
            {e \in index' : e.doc = d} = {e \in index : e.doc = d}
      BY <1>6, <1>10 DEF SameIdentity
    <3>2. ASSUME NEW d \in Docs \ torn
          PROVE LET entries == {e \in index' : e.doc = d}
                IN IF served[d] = NoFile THEN entries = {}
                   ELSE /\ \A n \in 0..(PieceCount[served[d]] - 1) :
                             \E e \in entries : e.n = n /\ e.content = served[d]
                        /\ \A e \in entries : \/ e.content = served[d]
                                              \/ e.n >= PieceCount[served[d]]
      BY <3>1 DEF IndexInv, ServesLastIngested
    <3> QED
      BY <1>1, <3>2 DEF ServesLastIngested
  <2> QED
    BY <1>7, <1>8, <2>1, <2>2, <2>3, <2>4, <2>5 DEF IndexInv
<1> QED
  BY <1>9, <1>10 DEF Write, item

\* What was written without a refusal is served.
LEMMA FinishIndex == ASSUME IndexInv, Finish PROVE IndexInv'
<1>1. /\ pc = "bulk" /\ toWrite = <<>> /\ pc' = "idle"
      /\ UNCHANGED <<files, index, exists, toRead, chunks, loaded, vectors,
                     detected, toWrite, rejected, edits, ingestions>>
  BY DEF Finish, local
<1>2. TypeOK /\ chunks \in Seq(Chunk) /\ Written = Len(chunks) /\ Len(chunks) \in Nat
  BY <1>1 DEF IndexInv, TypeOK, Written
<1>3. (FromLoaded /\ AllPieces /\ ReadOnce /\ VectorsAligned)'
  BY <1>1 DEF IndexInv, FromLoaded, AllPieces, ReadOnce, VectorsAligned, Text
<1>4. (RequestAligned /\ WrittenIsThere)'
  BY <1>1 DEF IndexInv, RequestAligned, WrittenIsThere, Written
<1>5. CASE rejected /\ UNCHANGED <<served, torn>>
  <2>1. TypeOK'
    BY <1>1, <1>2, <1>5 DEF TypeOK
  <2>2. (VectorOfText /\ IdentitiesUnique /\ ServesLastIngested)'
    BY <1>1, <1>2, <1>5, IndexKept DEF TypeOK
  <2> QED
    BY <1>3, <1>4, <2>1, <2>2 DEF IndexInv
<1>6. CASE /\ ~rejected
           /\ served' = [d \in Docs |->
                           IF loaded[d] # NoFile THEN loaded[d] ELSE served[d]]
           /\ torn' = {d \in torn : loaded[d] = NoFile}
  <2>1. served' \in [Docs -> Contents \cup {NoFile}] /\ torn' \subseteq Docs
    BY <1>2, <1>6 DEF TypeOK
  <2>2. TypeOK'
    BY <1>1, <1>2, <2>1 DEF TypeOK
  <2>3. (VectorOfText /\ IdentitiesUnique)'
    BY <1>1 DEF IndexInv, VectorOfText, IdentitiesUnique, Text
  <2>4. ServesLastIngested'
    <3> SUFFICES ASSUME NEW d \in Docs \ torn'
                 PROVE LET entries == {e \in index : e.doc = d}
                       IN IF served'[d] = NoFile THEN entries = {}
                          ELSE /\ \A n \in 0..(PieceCount[served'[d]] - 1) :
                                    \E e \in entries : e.n = n /\ e.content = served'[d]
                               /\ \A e \in entries : \/ e.content = served'[d]
                                                     \/ e.n >= PieceCount[served'[d]]
      BY <1>1 DEF ServesLastIngested
    <3>1. CASE loaded[d] = NoFile
      <4>1. served'[d] = served[d] /\ d \in Docs \ torn
        BY <1>6, <3>1
      <4> QED
        BY <4>1 DEF IndexInv, ServesLastIngested
    <3>2. CASE loaded[d] # NoFile
      <4> DEFINE c == loaded[d]
      <4>1. served'[d] = c /\ c \in Contents /\ PieceCount[c] \in Nat
        BY <1>2, <1>6, <3>2 DEF TypeOK
      <4> HIDE DEF c
      <4>2. ASSUME NEW n \in 0..(PieceCount[c] - 1)
            PROVE \E e \in index : e.doc = d /\ e.n = n /\ e.content = c
        <5>1. PICK i \in 1..Len(chunks) : chunks[i] = [doc |-> d, n |-> n, content |-> c]
          BY <3>2 DEF IndexInv, AllPieces, c
        <5>2. PICK e \in index : IsPiece(e, chunks[i])
          BY <1>1, <1>2, <1>6 DEF IndexInv, WrittenIsThere
        <5> QED
          BY <5>1, <5>2 DEF IsPiece
      <4>3. ASSUME NEW e \in index, e.doc = d
            PROVE e.content = c \/ e.n >= PieceCount[c]
        <5>1. e.n \in Nat
          BY <1>2 DEF TypeOK, Item
        <5>2. CASE e.n < PieceCount[c]
          <6>1. e.n \in 0..(PieceCount[c] - 1)
            BY <4>1, <5>1, <5>2
          <6>2. PICK f \in index : f.doc = d /\ f.n = e.n /\ f.content = c
            BY <4>2, <6>1
          <6> QED
            BY <4>3, <6>2 DEF IndexInv, IdentitiesUnique
        <5> QED
          BY <4>1, <5>1, <5>2
      <4>4. c # NoFile
        BY <4>1
      <4> QED
        BY <4>1, <4>2, <4>3, <4>4
    <3> QED
      BY <3>1, <3>2
  <2> QED
    BY <1>3, <1>4, <2>2, <2>3, <2>4 DEF IndexInv
<1> QED
  BY <1>5, <1>6 DEF Finish, history

\* An ingestion that is given up leaves its documents torn.
LEMMA AbortIndex == ASSUME IndexInv, Abort PROVE IndexInv'
<1>1. /\ pc' = "idle" /\ toWrite' = <<>>
      /\ UNCHANGED <<files, index, exists, toRead, chunks, loaded, vectors,
                     detected, rejected, edits, ingestions, served, torn>>
  BY DEF Abort, history
<1>2. TypeOK'
  <2>1. <<>> \in Seq(Item)
    OBVIOUS
  <2> QED
    BY <1>1, <2>1 DEF IndexInv, TypeOK
<1>3. (FromLoaded /\ AllPieces /\ ReadOnce /\ VectorsAligned)'
  BY <1>1 DEF IndexInv, FromLoaded, AllPieces, ReadOnce, VectorsAligned, Text
<1>4. (RequestAligned /\ WrittenIsThere)'
  BY <1>1 DEF IndexInv, TypeOK, RequestAligned, WrittenIsThere, Written
<1>5. (VectorOfText /\ IdentitiesUnique /\ ServesLastIngested)'
  BY <1>1, IndexKept DEF IndexInv, TypeOK
<1> QED
  BY <1>2, <1>3, <1>4, <1>5 DEF IndexInv

\* IndexInv is kept throughout.
LEMMA IndexInvariant == Spec => []IndexInv
<1>1. IndexInv /\ [Next]_vars => IndexInv'
  <2> SUFFICES ASSUME IndexInv, [Next]_vars PROVE IndexInv'
    OBVIOUS
  <2>1. CASE UNCHANGED vars
    <3>1. UNCHANGED <<files, index, exists, pc, toRead, chunks, loaded, vectors,
                      detected, toWrite, rejected, edits, ingestions, served, torn>>
      BY <2>1 DEF vars, local, history
    <3>2. (TypeOK /\ FromLoaded /\ AllPieces /\ ReadOnce /\ VectorsAligned)'
      BY <3>1 DEF IndexInv, TypeOK, FromLoaded, AllPieces, ReadOnce, VectorsAligned, Text
    <3>3. (RequestAligned /\ WrittenIsThere)'
      BY <3>1 DEF IndexInv, RequestAligned, WrittenIsThere, Written, IsPiece, Text
    <3>4. (VectorOfText /\ IdentitiesUnique /\ ServesLastIngested)'
      BY <3>1, IndexKept DEF IndexInv, TypeOK
    <3> QED
      BY <3>2, <3>3, <3>4 DEF IndexInv
  <2>2. CASE Next
    BY <2>2, EditIndex, StartIndex, ReadIndex, EmbedIndex, PrepareIndex, WriteIndex,
       FinishIndex, AbortIndex DEF Next, Ingestion
  <2> QED
    BY <2>1, <2>2
<1> QED
  BY InitIndex, <1>1, PTL DEF Spec

-----------------------------------------------------------------------------

\* The state of an ingestion and of the search index keeps its types.
THEOREM TypeCorrect == Spec => []TypeOK
<1>1. IndexInv => TypeOK
  BY DEF IndexInv
<1> QED
  BY IndexInvariant, <1>1, PTL

\* Every entry is found by the vector of its own text, for every batch size and
\* any sequence of ingestions that fail or succeed.
THEOREM VectorsBelong == Spec => []VectorOfText
<1>1. IndexInv => VectorOfText
  BY DEF IndexInv
<1> QED
  BY IndexInvariant, <1>1, PTL

\* No piece of a document is there twice, however often it is ingested.
THEOREM OneEntryEach == Spec => []IdentitiesUnique
<1>1. IndexInv => IdentitiesUnique
  BY DEF IndexInv
<1> QED
  BY IndexInvariant, <1>1, PTL

\* After an ingestion that succeeded the index serves all of what it loaded,
\* and what is left of earlier contents is behind it.
THEOREM LastIngestedServed == Spec => []ServesLastIngested
<1>1. IndexInv => ServesLastIngested
  BY DEF IndexInv
<1> QED
  BY IndexInvariant, <1>1, PTL

=============================================================================
