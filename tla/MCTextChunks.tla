----------------------------- MODULE MCTextChunks -----------------------------
(* Constants for model checking TextChunks. *)
EXTENDS TextChunks
=============================================================================
