--------------------------- MODULE TransactionStore ---------------------------
(***************************************************************************)
(* What src/infrastructure/db/TransactionRepo.ts promises its callers of   *)
(* one transactions row and its audit trail: transitionStatus changes both *)
(* in a single step or not at all.  PaymentService is written on top of    *)
(* it; TransactionRepo shows the statements that implement it.             *)
(***************************************************************************)
EXTENDS StateMachine, Sequences

CONSTANT MaxAttempts  \* config.retry.maxAttempts, the highest retry_count a caller writes

ASSUME MaxAttemptsAssumption == MaxAttempts \in Nat

VARIABLES
  row,   \* the transactions row: status, retry_count, has a bank reference
  audit  \* transaction_state_audit in commit order, oldest entry first

Txn   == [status : TransactionStatus, retryCount : Nat, bankRef : BOOLEAN]
Entry == [from : TransactionStatus, to : TransactionStatus, attempt : Nat]

\* A transaction as TransactionRepo.create leaves it: no audit entry.
StoreInit ==
  /\ row = [status |-> "INITIATED", retryCount |-> 0, bankRef |-> FALSE]
  /\ audit = <<>>

\* Fault-seeded: UPDATE without COALESCE on bank_reference_id.
Updated_overwritesRef(txn, to, attempt, ref) ==
  [status     |-> to,
   retryCount |-> IF attempt > 0 THEN attempt ELSE txn.retryCount,
   bankRef    |-> ref]

\* What the UPDATE makes of the row txn: retry_count (here attempt > 0) and
\* bank_reference_id go through COALESCE, so an absent update keeps the old value.
Updated(txn, to, attempt, ref) ==
  [status     |-> to,
   retryCount |-> IF attempt > 0 THEN attempt ELSE txn.retryCount,
   bankRef    |-> txn.bankRef \/ ref]

\* TransactionRepo.transitionStatus.  It locks the row but never looks at the
\* status it overwrites.
transitionStatus(from, to, attempt, ref) ==
  /\ row' = Updated(row, to, attempt, ref)
  /\ audit' = Append(audit, [from |-> from, to |-> to, attempt |-> attempt])

StoreNext ==
  /\ audit' # audit
  /\ \E from, to \in TransactionStatus, attempt \in 0..MaxAttempts, ref \in BOOLEAN :
        transitionStatus(from, to, attempt, ref)

StoreSpec == StoreInit /\ [][StoreNext]_<<row, audit>>

===============================================================================
