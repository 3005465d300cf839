---------------------------- MODULE MCMessagePager ----------------------------
(* Constants for model checking MessagePager: sessions are interchangeable.   *)
EXTENDS MessagePager, TLC

Symmetry == Permutations(Sessions)

=============================================================================
