----------------------------- MODULE MCRagIngest -----------------------------
(* Constants for model checking RagIngest: two documents whose contents have  *)
(* no piece, one, or two.                                                     *)
EXTENDS RagIngest, TLC

CONSTANTS empty, short, long

MCPieceCount == (empty :> 0) @@ (short :> 1) @@ (long :> 2)

=============================================================================
