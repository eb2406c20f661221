--------------------------- MODULE MCTransactionRepo ---------------------------
(* TLC instances of TransactionRepo. *)
EXTENDS TransactionRepo, TLC

CONSTANTS w1, w2, w3

\* Two handlers that read INITIATED, and a retry of the one that failed.
MCWrites ==
  w1 :> [from |-> "INITIATED", to |-> "AUTHENTICATED", attempt |-> 0, ref |-> FALSE] @@
  w2 :> [from |-> "INITIATED", to |-> "FAILED", attempt |-> 0, ref |-> FALSE] @@
  w3 :> [from |-> "FAILED", to |-> "INITIATED", attempt |-> 1, ref |-> FALSE]

===============================================================================
