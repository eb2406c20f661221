------------------------------ MODULE MCCheckout ------------------------------
(* TLC instances of Checkout. *)
EXTENDS Checkout

===============================================================================
