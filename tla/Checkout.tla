-------------------------------- MODULE Checkout --------------------------------
(***************************************************************************)
(* One payment from its first POST /payments/initiate to its end: the      *)
(* composition of InitiatePayment (the tries under one Idempotency-Key)    *)
(* and PaymentService (the calls on the transaction they make), joined     *)
(* where src/api/routes/payment.routes.ts joins them: the row that a try   *)
(* creates, the OTP it stores, and the answers a client gets and goes by.  *)
(*                                                                         *)
(* OTPs are told apart: number 1 is issued by initiatePayment, number n+1  *)
(* by the n-th retry.  An answer to a call is the status in its body for a *)
(* 200, an HTTP error status, or "lost".                                   *)
(*                                                                         *)
(* The client is the environment.  It makes one call at a time, goes by    *)
(* the status it was told last, may look it up again whenever it likes,    *)
(* and enters a code once; only over initiate it may lose its patience.    *)
(*                                                                         *)
(* A process may die in a COMMIT that the server still executes: the call  *)
(* is over for the client, which may be told so, read the row and call     *)
(* again before the dead call's write lands.                               *)
(***************************************************************************)
EXTENDS InitiatePayment, Sequences

CONSTANTS
  Slots,        \* the requests for the transaction's own routes
  MaxAttempts, BaseDelay, MaxDelay,   \* config.retry
  Patience,     \* subset of BOOLEAN: whether the client waits for initiate
  MaxFailures,  \* bound: crashes, failed calls and expired OTPs in one behaviour
  MaxAudit      \* bound of PaymentService, here never reached

ASSUME ClientAssumption == Patience \subseteq BOOLEAN /\ MaxFailures \in Nat

\* As PaymentService assumes of its constants.
ASSUME LimitsAssumption ==
  /\ IsFiniteSet(Slots)
  /\ {MaxAttempts, BaseDelay, MaxDelay, MaxAudit} \subseteq Nat

\* Requests are told apart.
Nobody == "nobody"
ASSUME SlotsAssumption == Nobody \notin Req \cup Slots /\ Req \cap Slots = {}

VARIABLES
  row, audit, retryLog, lock, cache, charges, dispatched, snap, bankResult,
               \* as in PaymentService
  stored,      \* otp:<id>, the number of the OTP whose hash it holds, 0 = none
  at,          \* PaymentService's pc
  code,        \* per slot: the number of the code sent, matched or handed out
  answer,      \* per slot: the answer on its way
  patient,     \* this client waits for the answer to initiate
  waiting,     \* the request whose answer the client waits for
  view,        \* the status the client was told last
  held,        \* the number of the code the client holds, 0 = none
  orphan,      \* the call whose process died in a COMMIT that the server still has
  failures     \* crashes, failed calls and expired OTPs so far

ServiceFaults == Faults \cap {"crash", "error"}

\* initiatePayment is over for the service once no try can store its OTP.
Svc == INSTANCE PaymentService WITH
  Req        <- Slots,
  Ops        <- {"authenticate", "process", "reconcile", "retry", "get"},
  FaultSets  <- {ServiceFaults},
  faults     <- ServiceFaults,
  initiating <- rows = 0 \/ \E t \in Req : pc[t] = "storeOtp",
  otp        <- stored # 0,
  pc         <- at

initiate == vars
service  == <<row, audit, retryLog, stored, lock, cache, charges, dispatched, at, snap,
              bankResult>>
client   == <<patient, waiting, view, held>>
all      == <<initiate, service, code, answer, client, orphan, failures>>

\* DomainError: the HTTP status the error handler answers for each code.
httpStatus ==
  [INVALID_TRANSITION        |-> "422",
   TERMINAL_STATE            |-> "422",
   PAYMENT_PROCESSING_FAILED |-> "422",
   INVALID_OTP               |-> "401",
   DUPLICATE_TRANSACTION     |-> "409",
   INTERNAL_ERROR            |-> "500"]

HttpErrors == {"401", "409", "422", "500"}

CheckoutTypeOK ==
  /\ TypeOK
  /\ Svc!TypeOK
  /\ stored \in 0..MaxAttempts + 1
  /\ code \in [Slots -> 0..MaxAttempts + 1]
  /\ answer \in [Slots -> Svc!TransactionStatus \cup HttpErrors \cup {"none", "lost"}]
  /\ patient \in Patience
  /\ waiting \in Req \cup Slots \cup {Nobody}
  /\ view \in Svc!TransactionStatus \cup {"nothing", "unknown"}
  /\ held \in 0..MaxAttempts + 1
  /\ orphan \in Slots \cup {Nobody}
  /\ failures \in 0..MaxFailures

CheckoutInit ==
  /\ Init
  /\ Svc!StoreInit /\ retryLog = {}
  /\ stored = 0 /\ lock = FALSE /\ cache = Svc!NoTxn
  /\ charges = 0 /\ dispatched = [e \in Svc!Event |-> 0]
  /\ at = [r \in Slots |-> "idle"]
  /\ snap = [r \in Slots |-> Svc!NoTxn]
  /\ bankResult = [r \in Slots |-> "none"]
  /\ code = [r \in Slots |-> 0]
  /\ answer = [r \in Slots |-> "none"]
  /\ patient \in Patience
  /\ waiting = Nobody /\ view = "nothing" /\ held = 0
  /\ orphan = Nobody /\ failures = 0

Failure == failures < MaxFailures /\ failures' = failures + 1

-------------------------------------------------------------------------------
(* POST /payments/initiate *)

\* A request, well formed or not, reaches the middleware.
Initiate(t) ==
  /\ view = "nothing" /\ waiting = Nobody /\ pc[t] = "new"
  /\ waiting' = t
  /\ \/ Middleware(t) /\ UNCHANGED failures
     \/ Fail(t) /\ Failure
  /\ UNCHANGED <<service, code, answer, patient, view, held, orphan>>

\* A try past the middleware runs on; its OTP goes under the transaction's key.
Try(t) ==
  /\ SvcGet(t) \/ Find(t) \/ Create(t) \/ StoreOtp(t) \/ SvcSet(t) \/ Audit(t)
     \/ CacheWrite(t)
  /\ stored' = IF pc[t] = "storeOtp" /\ otpIssued' THEN 1 ELSE stored
  /\ UNCHANGED <<row, audit, retryLog, lock, cache, charges, dispatched, at, snap,
                 bankResult, code, answer, client, orphan, failures>>

TryBreaks(t) ==
  /\ pc[t] # "new"
  /\ Crash(t) \/ Fail(t)
  /\ Failure
  /\ UNCHANGED <<service, code, answer, client, orphan>>

\* A first answer shows the OTP; a repeated one the transaction's id.
HearTry(t) ==
  /\ waiting = t /\ pc[t] = "done"
  /\ waiting' = Nobody
  /\ view' = CASE reply[t] = "full"            -> "INITIATED"
               [] reply[t] \in {"bare", "raw"} -> "unknown"
               [] OTHER                        -> "nothing"
  /\ held' = IF reply[t] = "full" THEN 1 ELSE held
  /\ UNCHANGED <<initiate, service, code, answer, patient, orphan, failures>>

\* The client stops waiting; the try runs on.
Abandon ==
  /\ ~patient
  /\ waiting \in Req /\ pc[waiting] # "done"
  /\ waiting' = Nobody
  /\ UNCHANGED <<initiate, service, code, answer, patient, view, held, orphan, failures>>

-------------------------------------------------------------------------------
(* The routes of the transaction: a call, which the service takes or refuses *)

\* The client sends code number n, or none, with its call.  Which of the idle slots
\* takes it is of no matter.
Sends(r, n) ==
  /\ waiting = Nobody /\ at[r] = "idle"
  /\ r = CHOOSE q \in Slots : at[q] = "idle"
  /\ waiting' = r
  /\ code' = [code EXCEPT ![r] = n]
  /\ UNCHANGED <<initiate, patient, view, orphan>>

Taken == UNCHANGED <<stored, answer, failures>>

\* The service throws a DomainError before it has changed anything.
Refused(r, error) ==
  /\ error # "OK"
  /\ answer' = [answer EXCEPT ![r] = httpStatus[error]]
  /\ UNCHANGED <<service, failures>>

Authenticate(r) ==
  /\ view = "INITIATED"
  /\ Sends(r, held) /\ held' = 0
  /\ \/ Taken /\ Svc!AuthRead(r)
     \/ Refused(r, Svc!validateTransition(row.status, "AUTHENTICATED"))

Process(r) ==
  /\ view = "AUTHENTICATED"
  /\ Sends(r, 0) /\ UNCHANGED held
  /\ \/ Taken /\ Svc!ProcLock(r)
     \/ Refused(r, IF lock THEN "DUPLICATE_TRANSACTION" ELSE "OK")
     \/ /\ Failure /\ UNCHANGED stored
        /\ Svc!ProcLockUnacked(r)
        /\ answer' = [answer EXCEPT ![r] = httpStatus.INTERNAL_ERROR]

Reconcile(r) ==
  /\ view = "SUCCESS"
  /\ Sends(r, 0) /\ UNCHANGED held
  /\ \/ Taken /\ Svc!ReconRead(r)
     \/ Refused(r, Svc!validateTransition(row.status, "RECONCILED"))

\* The answer to a retry that is taken shows the OTP it issues.
Retry(r) ==
  /\ view = "FAILED"
  /\ UNCHANGED held
  /\ \/ Sends(r, row.retryCount + 2) /\ Taken /\ Svc!RetryRead(r)
     \/ /\ Sends(r, 0)
        /\ Refused(r, CASE row.status # "FAILED"           -> "INVALID_TRANSITION"
                        [] row.retryCount >= MaxAttempts   -> "PAYMENT_PROCESSING_FAILED"
                        [] OTHER                           -> "OK")

\* GET /payments/:id, answered from the cache if it can be.
Look(r) ==
  /\ view \notin {"nothing", "RECONCILED"}
  /\ Sends(r, 0) /\ UNCHANGED held
  /\ \/ Taken /\ Svc!GetMiss(r)
     \/ /\ cache # Svc!NoTxn
        /\ answer' = [answer EXCEPT ![r] = cache.status]
        /\ UNCHANGED <<service, failures>>

-------------------------------------------------------------------------------
(* The service runs on *)

\* The step the handler of r takes next settles the call's answer, or leaves it.
Answers(r) ==
  CASE at[r] = "otpDel" /\ code[r] = 0               -> httpStatus.INVALID_OTP
    [] at[r] = "otpExpired"                          -> httpStatus.INVALID_OTP
    [] at[r] = "authInval"                           -> "AUTHENTICATED"
    [] at[r] = "procRead" /\ at'[r] = "procRelease"  ->
         httpStatus[Svc!validateTransition(row.status, "PROCESSING")]
    [] at[r] = "procInval"                           -> bankResult[r]
    [] at[r] = "reconInval"                          -> "RECONCILED"
    [] at[r] = "retryLog" /\ at'[r] = "idle"         -> httpStatus.INTERNAL_ERROR
    [] at[r] = "retryInval"                          -> "INITIATED"
    [] at[r] = "getFill"                             -> snap[r].status
    [] OTHER                                         -> answer[r]

\* The steps that write the row wait while the server holds its lock for a COMMIT
\* whose process is gone.
WritePcs == {"otpExpired", "authCommit", "procStart", "procFinish", "reconCommit",
             "retryCommit"}

\* The code sent is compared with the hash that was read.
Serve(r) ==
  /\ r # orphan /\ (at[r] \in WritePcs => orphan = Nobody)
  /\ stored' = CASE at[r] = "otpDel"   -> 0
                 [] at[r] = "retryOtp" -> code[r]
                 [] OTHER              -> stored
  /\ Svc!Step(r)
  /\ code' = IF at[r] = "otpGet" /\ code[r] # stored THEN [code EXCEPT ![r] = 0] ELSE code
  /\ at[r] = "otpDel" => (at'[r] = "authCommit" <=> code[r] # 0)
  /\ answer' = [answer EXCEPT ![r] = Answers(r)]
  /\ UNCHANGED <<initiate, client, orphan, failures>>

\* A call fails, or its process dies, at once or in a COMMIT that the server goes on
\* with; then the call is over for the client and not for the row.
ServeBreaks(r) ==
  /\ r # orphan
  /\ Failure
  /\ UNCHANGED stored
  /\ \/ /\ Svc!Fail(r) /\ UNCHANGED orphan
        /\ answer' = [answer EXCEPT ![r] = httpStatus.INTERNAL_ERROR]
     \/ /\ \/ Svc!Crash(r) /\ UNCHANGED orphan
           \/ /\ "crash" \in Faults /\ at[r] \in WritePcs /\ orphan = Nobody
              /\ orphan' = r /\ UNCHANGED service
        /\ answer' = [answer EXCEPT ![r] = "lost"]
  /\ UNCHANGED <<initiate, code, client>>

\* The server executes the COMMIT of a dead call, or aborts it; nothing else of the
\* call is left.
OrphanEnds(r) ==
  /\ r = orphan
  /\ UNCHANGED stored
  /\ (at[r] \in WritePcs /\ Svc!Step(r)) \/ Svc!Crash(r)
  /\ orphan' = IF at'[r] = "idle" THEN Nobody ELSE orphan
  /\ UNCHANGED <<initiate, code, answer, client, failures>>

Hear(r) ==
  /\ waiting = r /\ (at[r] = "idle" \/ r = orphan) /\ answer[r] # "none"
  /\ waiting' = Nobody
  /\ view' = IF answer[r] \in Svc!TransactionStatus THEN answer[r] ELSE "unknown"
  /\ held' = IF answer[r] = "INITIATED" /\ code[r] # 0 THEN code[r] ELSE held
  /\ answer' = [answer EXCEPT ![r] = "none"]
  /\ code' = [code EXCEPT ![r] = 0]
  /\ UNCHANGED <<initiate, service, patient, orphan, failures>>

-------------------------------------------------------------------------------
(* Time passes *)

IdemExpires ==
  /\ IdemExpire
  /\ UNCHANGED <<service, code, answer, client, orphan, failures>>

OtpExpires ==
  /\ Failure
  /\ stored' = 0
  /\ Svc!OtpExpire
  /\ UNCHANGED <<initiate, code, answer, client, orphan>>

CacheExpires ==
  /\ UNCHANGED stored
  /\ Svc!CacheExpire
  /\ UNCHANGED <<initiate, code, answer, client, orphan, failures>>

LockExpires ==
  /\ UNCHANGED stored
  /\ Svc!LockExpire
  /\ UNCHANGED <<initiate, code, answer, client, orphan, failures>>

\* The client has reached the end of the payment, or has no try left.
Rest ==
  /\ waiting = Nobody
  /\ view = "RECONCILED" \/ (view = "nothing" /\ \A t \in Req : pc[t] # "new")
  /\ UNCHANGED all

-------------------------------------------------------------------------------
Act(r) == Authenticate(r) \/ Process(r) \/ Reconcile(r) \/ Retry(r)

CheckoutNext ==
  \/ \E t \in Req : Initiate(t) \/ Try(t) \/ TryBreaks(t) \/ HearTry(t)
  \/ Abandon
  \/ \E r \in Slots : Act(r) \/ Look(r) \/ Serve(r) \/ ServeBreaks(r)
                      \/ OrphanEnds(r) \/ Hear(r)
  \/ IdemExpires \/ OtpExpires \/ CacheExpires \/ LockExpires
  \/ Rest

CheckoutSpec == CheckoutInit /\ [][CheckoutNext]_all

\* Handlers run to their end and TTLs run out; the client is persistent: it sends
\* and hears again and again, and does not look up the status for ever when it
\* could act on it.
CheckoutFairSpec ==
  /\ CheckoutSpec
  /\ \A t \in Req : WF_all(Try(t)) /\ WF_all(HearTry(t))
  /\ \A r \in Slots : WF_all(Serve(r)) /\ WF_all(OrphanEnds(r)) /\ WF_all(Hear(r))
  /\ WF_all(CacheExpires) /\ WF_all(LockExpires)
  /\ WF_all(\E t \in Req : Initiate(t))
  /\ WF_all(\E r \in Slots : Look(r))
  /\ SF_all(\E r \in Slots : Act(r))

-------------------------------------------------------------------------------
(* Properties *)

\* initiatePayment and the routes are the environment PaymentService assumes: one
\* row, one initial OTP, stored late or never, whatever tries overlap or break.
ImplementsService == Svc!Spec

\* A client that makes one call at a time is charged once, although what it goes by
\* may be a status that a failed invalidation or a broken call has left stale.
ChargedOnce == charges <= 1

\* The code a waiting client was given last is the one that verifies, unless the
\* OTP has expired or a call has broken, and then there is none to verify: no code
\* is ever replaced behind the back of the client that holds it.
HeldCodeVerifies ==
  patient /\ waiting = Nobody /\ held # 0 =>
     /\ stored \in {0, held}
     /\ failures = 0 => stored = held

\* A persistent client gets its payment to the end: RECONCILED, or FAILED with the
\* retries used up.  What can stop it is a retry whose delay is no INTEGER, which may
\* be answered 500 however often it is sent, a failure that orphans the payment in
\* PROCESSING, or tries that all break.
Ended ==
  \/ row.status = "RECONCILED"
  \/ /\ row.status = "FAILED"
     /\ \/ row.retryCount = MaxAttempts
        \/ Svc!FractionalDelay(row.retryCount, BaseDelay, MaxDelay)
  \/ row.status = "PROCESSING" /\ failures > 0
  \/ view = "nothing" /\ \A t \in Req : pc[t] = "done"

CheckoutEnds == <>[]Ended

===============================================================================
