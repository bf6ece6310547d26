------------------------------ MODULE MCRunStack ------------------------------
(* Instances of RunStack for TLC; the constants of the module suffice. *)
EXTENDS RunStack

=============================================================================
