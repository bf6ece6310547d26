---------------------------- MODULE MCStatusStream ----------------------------
(* Instances of StatusStream for TLC; the constants of the module suffice. *)
EXTENDS StatusStream

=============================================================================
