----------------------------- MODULE StateMachine -----------------------------
(***************************************************************************)
(* The pure domain layer, src/domain/StateMachine.ts: the status of a      *)
(* transaction and the transition table that every service operation       *)
(* consults before it writes.                                              *)
(***************************************************************************)
EXTENDS Naturals

TransactionStatus ==
  {"INITIATED", "AUTHENTICATED", "PROCESSING", "SUCCESS", "FAILED", "RECONCILED"}

\* The transition table, "the authoritative source of truth for what's allowed".
VALID_TRANSITIONS ==
  [INITIATED     |-> {"AUTHENTICATED", "FAILED"},
   AUTHENTICATED |-> {"PROCESSING", "FAILED"},
   PROCESSING    |-> {"SUCCESS", "FAILED"},
   SUCCESS       |-> {"RECONCILED"},
   FAILED        |-> {"INITIATED"},
   RECONCILED    |-> {}]

TERMINAL_STATES == {"RECONCILED"}

canTransition(from, to) ==
  /\ from \notin TERMINAL_STATES
  /\ to \in VALID_TRANSITIONS[from]

\* "OK", or the code of the domain error the caller throws (HTTP 422 either way).
validateTransition(from, to) ==
  IF from \in TERMINAL_STATES THEN "TERMINAL_STATE"
  ELSE IF to \in VALID_TRANSITIONS[from] THEN "OK"
  ELSE "INVALID_TRANSITION"

\* computeBackoffDelay is min(base * 2^attempt + jitter, max) with a random jitter
\* of up to a tenth of base, so the delay may be a fraction unless there is no
\* jitter or the cap hides it.
FractionalDelay(attempt, base, max) == base > 0 /\ base * 2^attempt < max

===============================================================================
