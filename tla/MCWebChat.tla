------------------------------ MODULE MCWebChat ------------------------------
(* Constants for model checking WebChat.                                     *)
EXTENDS WebChat

=============================================================================
