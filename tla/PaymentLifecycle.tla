--------------------------- MODULE PaymentLifecycle ---------------------------
(***************************************************************************)
(* What the payment service promises about one transaction, seen from      *)
(* outside: its status moves along the transition table and nowhere else,  *)
(* a failed payment is reset at most MaxAttempts times, every move is put  *)
(* on the trail with the status it left, the customer is debited at most   *)
(* once and only while the payment is PROCESSING, and the payment settles  *)
(* as SUCCESS exactly when the debit happened.                             *)
(***************************************************************************)
EXTENDS StateMachine, Sequences

CONSTANT MaxAttempts

VARIABLES status, retryCount, trail, charges

vars == <<status, retryCount, trail, charges>>

Init ==
  /\ status = "INITIATED"
  /\ retryCount = 0
  /\ trail = <<>>
  /\ charges = 0

Move(to, attempt) ==
  /\ canTransition(status, to)
  /\ status' = to
  /\ trail' = Append(trail, [from |-> status, to |-> to, attempt |-> attempt])

Authenticate == Move("AUTHENTICATED", 0) /\ UNCHANGED <<retryCount, charges>>

\* A payment fails before it is processed, or because the bank refused it; a
\* payment that was debited never fails.
Reject ==
  /\ charges = 0
  /\ Move("FAILED", 0)
  /\ UNCHANGED <<retryCount, charges>>

Process == Move("PROCESSING", 0) /\ UNCHANGED <<retryCount, charges>>

Charge ==
  /\ status = "PROCESSING"
  /\ charges = 0
  /\ charges' = 1
  /\ UNCHANGED <<status, retryCount, trail>>

Settle ==
  /\ charges = 1
  /\ Move("SUCCESS", 0)
  /\ UNCHANGED <<retryCount, charges>>

Reconcile == Move("RECONCILED", 0) /\ UNCHANGED <<retryCount, charges>>

Retry ==
  /\ retryCount < MaxAttempts
  /\ Move("INITIATED", retryCount + 1)
  /\ retryCount' = retryCount + 1
  /\ UNCHANGED charges

Next == Authenticate \/ Reject \/ Process \/ Charge \/ Settle \/ Reconcile \/ Retry

Spec == Init /\ [][Next]_vars

===============================================================================
