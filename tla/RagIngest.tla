------------------------------ MODULE RagIngest ------------------------------
(***************************************************************************)
(* The ingestion of documents into the search index, run again and again   *)
(* while the documents change: load_documents, chunk_text for each, the    *)
(* embeddings in batches, and a bulk request that writes every piece under *)
(* its identity, the document and the index of the piece.  Nothing is ever *)
(* deleted from the index.                                                 *)
(*                                                                         *)
(* An exception may end an ingestion at any call outside of it, and the    *)
(* process may be stopped; what the index has got by then it keeps.        *)
(* TextChunks models how a document is cut: here only the number of pieces *)
(* of a content matters.  One ingestion runs at a time.                    *)
(***************************************************************************)
EXTENDS Integers, Sequences

CONSTANTS
  Docs,          \* the documents there may be
  PieceCount,    \* how many pieces chunk_text makes of each content
  NoFile,        \* in place of a content: there is no such file
  BatchSize,     \* --batch-size
  MaxEdits,      \* bound of the model: changes of the files
  MaxIngestions  \* bound of the model: ingestions started

Contents == DOMAIN PieceCount

ASSUME IngestAssumption ==
  /\ PieceCount \in [Contents -> Nat] /\ NoFile \notin Contents
  /\ BatchSize \in Nat \ {0} /\ MaxEdits \in Nat /\ MaxIngestions \in Nat

VARIABLES
  files,    \* the content of each document now
  index,    \* the entries of the search index
  exists,   \* whether the search index was created
  pc,       \* place in ingest_documents
  toRead,   \* documents found and not yet read
  chunks,   \* the pieces of the documents read
  loaded,   \* the content of each document read, NoFile for the others
  vectors,  \* embeddings so far
  detected, \* dimensions # 0
  toWrite,  \* what the bulk request has still to write
  rejected, \* an item of the bulk request was refused
  edits, ingestions,
  served,   \* history: the content of the last ingestion that succeeded
  torn      \* history: documents written by an ingestion that has not succeeded

local == <<toRead, chunks, loaded, vectors, detected, toWrite, rejected>>
history == <<served, torn>>
vars == <<files, index, exists, pc, local, edits, ingestions, history>>

\* The embedding of a text is the text it was made of.
Text(chunk) == [content |-> chunk.content, n |-> chunk.n]
NoVector == [content |-> NoFile, n |-> 0]

Pieces(d, c) ==
  [i \in 1..PieceCount[c] |-> [doc |-> d, n |-> i - 1, content |-> c]]

Nowhere == [d \in Docs |-> NoFile]

Init ==
  /\ files \in [Docs -> Contents \cup {NoFile}]
  /\ index = {} /\ exists = FALSE
  /\ pc = "idle"
  /\ toRead = {} /\ chunks = <<>> /\ loaded = Nowhere
  /\ vectors = <<>> /\ detected = FALSE
  /\ toWrite = <<>> /\ rejected = FALSE
  /\ edits = 0 /\ ingestions = 0
  /\ served = Nowhere /\ torn = {}

-----------------------------------------------------------------------------

Edit(d, c) ==
  /\ edits < MaxEdits /\ edits' = edits + 1
  /\ files[d] # c
  /\ files' = [files EXCEPT ![d] = c]
  /\ UNCHANGED <<index, exists, pc, local, ingestions, history>>

\* discover_document_paths.
Start ==
  /\ pc = "idle"
  /\ ingestions < MaxIngestions /\ ingestions' = ingestions + 1
  /\ toRead' = {d \in Docs : files[d] # NoFile}
  /\ chunks' = <<>> /\ loaded' = Nowhere
  /\ vectors' = <<>> /\ detected' = FALSE /\ rejected' = FALSE
  /\ pc' = IF toRead' = {} THEN "idle" ELSE "read"
  /\ UNCHANGED <<files, index, exists, toWrite, edits, history>>

\* A file that has gone since it was found raises an exception.  The files are
\* read in the order of their names, which nothing here depends on.
Read(d) ==
  /\ pc = "read" /\ d \in toRead
  /\ toRead' = toRead \ {d}
  /\ IF files[d] = NoFile
     THEN pc' = "idle" /\ UNCHANGED <<chunks, loaded>>
     ELSE /\ loaded' = [loaded EXCEPT ![d] = files[d]]
          /\ chunks' = chunks \o Pieces(d, files[d])
          /\ pc' = IF toRead' # {} THEN "read"
                   ELSE IF chunks' = <<>> THEN "idle" ELSE "embed"
  /\ UNCHANGED <<files, index, exists, vectors, detected, toWrite, rejected,
                 edits, ingestions, history>>

\* _iter_batches: the next texts, as many as a batch takes and as there are.
Batch(done) ==
  LET last == IF done + BatchSize < Len(chunks) THEN done + BatchSize
              ELSE Len(chunks)
  IN SubSeq(chunks, done + 1, last)

\* Mutant of Collected: the vectors of a later batch come first.
CollectedInFront(new) == new \o vectors

Collected(new) == vectors \o new

\* The provider gives a vector for each text; a vector may be empty.  The first
\* one of a batch tells the dimensions, unless it is empty.
Embed ==
  /\ pc = "embed" /\ Len(vectors) < Len(chunks)
  /\ LET batch == Batch(Len(vectors))
     IN \E empty \in SUBSET (1..Len(batch)) :
          LET new == [i \in 1..Len(batch) |->
                        IF i \in empty THEN NoVector ELSE Text(batch[i])]
          IN /\ vectors' = Collected(new)
             /\ detected' = (detected \/ new[1] # NoVector)
  /\ UNCHANGED <<files, index, exists, pc, toRead, chunks, loaded, toWrite,
                 rejected, edits, ingestions, history>>

\* ensure_index, build_index_documents and the start of the bulk request;
\* without dimensions, or a vector for each piece, an exception is raised.
Prepare ==
  /\ pc = "embed" /\ Len(vectors) >= Len(chunks)
  /\ exists' = (exists \/ detected)
  /\ IF detected /\ Len(vectors) = Len(chunks)
     THEN /\ pc' = "bulk"
          /\ toWrite' = [i \in 1..Len(chunks) |->
               [doc |-> chunks[i].doc, n |-> chunks[i].n,
                content |-> chunks[i].content, vector |-> vectors[i]]]
          /\ torn' = torn \cup {d \in Docs : loaded[d] # NoFile}
     ELSE pc' = "idle" /\ UNCHANGED <<toWrite, torn>>
  /\ UNCHANGED <<files, index, toRead, chunks, loaded, vectors, detected,
                 rejected, edits, ingestions, served>>

\* "_id" is the chunk_id: the document and the index of the piece.
SameIdentity(e, f) == e.doc = f.doc /\ e.n = f.n

\* An item of the bulk request is written in place of the one it had there,
\* or refused, as one with an empty vector always is.
Write ==
  /\ pc = "bulk" /\ toWrite # <<>>
  /\ LET item == Head(toWrite)
     IN \/ /\ item.vector # NoVector
           /\ index' = {e \in index : ~SameIdentity(e, item)} \cup {item}
           /\ UNCHANGED rejected
        \/ rejected' = TRUE /\ UNCHANGED index
  /\ toWrite' = Tail(toWrite)
  /\ UNCHANGED <<files, exists, pc, toRead, chunks, loaded, vectors, detected,
                 edits, ingestions, history>>

\* Mutant of Finish: refused items are not looked at.
FinishRegardless ==
  /\ pc = "bulk" /\ toWrite = <<>>
  /\ pc' = "idle"
  /\ served' = [d \in Docs |-> IF loaded[d] # NoFile THEN loaded[d] ELSE served[d]]
  /\ torn' = {d \in torn : loaded[d] = NoFile}
  /\ UNCHANGED <<files, index, exists, local, edits, ingestions>>

\* bulk raises an exception if an item was refused.
Finish ==
  /\ pc = "bulk" /\ toWrite = <<>>
  /\ pc' = "idle"
  /\ IF rejected THEN UNCHANGED history
     ELSE /\ served' = [d \in Docs |->
                          IF loaded[d] # NoFile THEN loaded[d] ELSE served[d]]
          /\ torn' = {d \in torn : loaded[d] = NoFile}
  /\ UNCHANGED <<files, index, exists, local, edits, ingestions>>

\* Another exception, or the process is stopped.
Abort ==
  /\ pc # "idle" /\ pc' = "idle"
  /\ toWrite' = <<>>
  /\ UNCHANGED <<files, index, exists, toRead, chunks, loaded, vectors, detected,
                 rejected, edits, ingestions, history>>

Ingestion == (\E d \in Docs : Read(d)) \/ Embed \/ Prepare \/ Write \/ Finish

Next ==
  \/ \E d \in Docs, c \in Contents \cup {NoFile} : Edit(d, c)
  \/ Start \/ Ingestion \/ Abort

Spec == Init /\ [][Next]_vars

-----------------------------------------------------------------------------

Chunk == [doc : Docs, n : Nat, content : Contents]
Vector == [content : Contents \cup {NoFile}, n : Nat]
Item == [doc : Docs, n : Nat, content : Contents, vector : Vector]

TypeOK ==
  /\ files \in [Docs -> Contents \cup {NoFile}]
  /\ \A e \in index : e \in Item /\ e.vector # NoVector
  /\ exists \in BOOLEAN
  /\ pc \in {"idle", "read", "embed", "bulk"}
  /\ toRead \subseteq Docs /\ chunks \in Seq(Chunk)
  /\ loaded \in [Docs -> Contents \cup {NoFile}]
  /\ vectors \in Seq(Vector) /\ detected \in BOOLEAN
  /\ toWrite \in Seq(Item) /\ rejected \in BOOLEAN
  /\ edits \in 0..MaxEdits /\ ingestions \in 0..MaxIngestions
  /\ served \in [Docs -> Contents \cup {NoFile}] /\ torn \subseteq Docs

\* An entry is found by the vector of its own text: the batches of texts and
\* of vectors stay aligned, whatever the size of a batch.
VectorOfText == \A e \in index : e.vector = Text(e)

\* An identity stands for one entry, over any sequence of ingestions.
IdentitiesUnique ==
  \A e, f \in index : (e.doc = f.doc /\ e.n = f.n) => e = f

\* Once an ingestion has succeeded the index serves all of each document it
\* loaded, however many ingestions failed before; pieces of earlier contents
\* are left only behind the last piece of the new one.  A document that an
\* ingestion has begun to write and not finished is excepted.
ServesLastIngested ==
  \A d \in Docs \ torn :
    LET entries == {e \in index : e.doc = d}
    IN IF served[d] = NoFile THEN entries = {}
       ELSE /\ \A n \in 0..(PieceCount[served[d]] - 1) :
                 \E e \in entries : e.n = n /\ e.content = served[d]
            /\ \A e \in entries :
                 e.content = served[d] \/ e.n >= PieceCount[served[d]]

=============================================================================
