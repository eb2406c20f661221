------------------------------ MODULE MCWebhooks ------------------------------
(* TLC instances of Webhooks. *)
EXTENDS Webhooks

===============================================================================
