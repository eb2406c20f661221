-------------------------- MODULE MCInitiatePayment --------------------------
(* TLC instances of InitiatePayment. *)
EXTENDS InitiatePayment, TLC

Symmetry == Permutations(Req)

===============================================================================
