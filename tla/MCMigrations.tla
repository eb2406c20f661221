----------------------------- MODULE MCMigrations -----------------------------
(* TLC instances of Migrations. *)
EXTENDS Migrations

===============================================================================
