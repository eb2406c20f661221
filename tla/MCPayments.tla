------------------------------ MODULE MCPayments ------------------------------
(* TLC instances of PaymentService. *)
EXTENDS PaymentService

===============================================================================
