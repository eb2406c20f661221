---------------------------- MODULE PaymentService ----------------------------
(***************************************************************************)
(* src/services/PaymentService.ts over one transaction: the handlers       *)
(* authenticateUser, processPayment, reconcileTransaction, retryPayment    *)
(* and getTransaction, run by several requests at once, against the        *)
(* Postgres row with its audit trail and against the four Redis keys of    *)
(* the transaction (OTP, process lock, cached row).                        *)
(*                                                                         *)
(* A handler is cut at its awaits: one action runs from one await to the   *)
(* next.  transitionStatus is the single step TransactionStore promises:   *)
(* TransactionRepo shows how its statements keep that promise.             *)
(* A call refused at its first step (wrong status, lock held, retries used *)
(* up, cache hit) changes nothing and is a stuttering step.                *)
(***************************************************************************)
EXTENDS TransactionStore, FiniteSets

CONSTANTS
  Req,          \* requests that can be in flight at the same time
  Ops,          \* the operations clients call in this instance
  FaultSets,    \* the sets of faults a behaviour may be subject to
  BaseDelay,    \* config.retry.baseDelayMs
  MaxDelay,     \* config.retry.maxDelayMs
  MaxAudit      \* bound: no new writing request once the trail is this long

AllOps    == {"authenticate", "process", "reconcile", "retry", "get"}

\* "crash": a handler's process dies; "error": an awaited call rejects; "slow": a
\* handler outlives the 30 s TTL of the process lock.
AllFaults == {"crash", "error", "slow"}

ASSUME ReqAssumption    == IsFiniteSet(Req)
ASSUME OpsAssumption    == Ops \subseteq AllOps
ASSUME FaultsAssumption == FaultSets \subseteq SUBSET AllFaults
ASSUME DelayAssumption  == BaseDelay \in Nat /\ MaxDelay \in Nat
ASSUME BoundsAssumption == MaxAudit \in Nat

VARIABLES
  faults,      \* what can go wrong in this behaviour
  initiating,  \* initiatePayment has created the row and not stored its OTP yet
  retryLog,    \* attempt numbers present in retry_logs
  otp,         \* otp:<id> holds a hash
  lock,        \* lock:process:<id> is set
  cache,       \* txn:<id>, a copy of the row or NoTxn
  charges,     \* how many times the bank has accepted the debit
  dispatched,  \* calls of dispatchWebhooks, per event type
  pc,          \* where each request stands, "idle" between calls
  snap,        \* each request's txn, as it read it
  bankResult   \* each request's answer from the bank

store == <<row, audit, retryLog>>
env   == <<faults, initiating>>
vars  == <<faults, initiating, row, audit, retryLog, otp, lock, cache, charges, dispatched,
           pc, snap, bankResult>>

-------------------------------------------------------------------------------
NoTxn   == [status |-> "NONE", retryCount |-> 0, bankRef |-> FALSE]
Event   == {"PAYMENT_SUCCESS", "PAYMENT_FAILED", "PAYMENT_RECONCILED"}

AuthPcs  == {"otpGet", "otpDel", "otpExpired", "authCommit", "authInval"}
ProcPcs  == {"procRead", "procStart", "procBank", "procFinish", "procInval",
             "procRelease"}
ReconPcs == {"reconCommit", "reconInval"}
RetryPcs == {"retryLog", "retryCommit", "retryOtp", "retryInval"}
GetPcs   == {"getRead", "getFill"}
Pc       == {"idle"} \cup AuthPcs \cup ProcPcs \cup ReconPcs \cup RetryPcs \cup GetPcs

TypeOK ==
  /\ faults \in FaultSets /\ initiating \in BOOLEAN
  /\ row \in Txn
  /\ audit \in Seq(Entry)
  /\ retryLog \subseteq Nat
  /\ otp \in BOOLEAN /\ lock \in BOOLEAN
  /\ cache \in Txn \cup {NoTxn}
  /\ charges \in Nat
  /\ dispatched \in [Event -> Nat]
  /\ pc \in [Req -> Pc]
  /\ snap \in [Req -> Txn \cup {NoTxn}]
  /\ bankResult \in [Req -> {"none", "SUCCESS", "FAILED"}]

\* A transaction just created.
Init ==
  /\ faults \in FaultSets /\ initiating = TRUE
  /\ StoreInit /\ retryLog = {}
  /\ otp = FALSE
  /\ lock = FALSE /\ cache = NoTxn
  /\ charges = 0
  /\ dispatched = [e \in Event |-> 0]
  /\ pc = [r \in Req |-> "idle"]
  /\ snap = [r \in Req |-> NoTxn]
  /\ bankResult = [r \in Req |-> "none"]

-------------------------------------------------------------------------------
(* Steps shared by the handlers *)

\* A client call of op reaches the idle request r.
Called(r, op) ==
  /\ op \in Ops
  /\ pc[r] = "idle"
  /\ op # "get" => Len(audit) < MaxAudit

At(r, label) == pc[r] = label

Goto(r, label) == pc' = [pc EXCEPT ![r] = label]

\* The handler answers, with whatever status code; its locals are gone.
Answer(r) ==
  /\ Goto(r, "idle")
  /\ snap' = [snap EXCEPT ![r] = NoTxn]
  /\ bankResult' = [bankResult EXCEPT ![r] = "none"]

\* dispatchWebhooks is called and not awaited: here, that it was called.
dispatchWebhooks(e) == dispatched' = [dispatched EXCEPT ![e] = @ + 1]

-------------------------------------------------------------------------------
(* authenticateUser *)

AuthRead(r) ==
  /\ Called(r, "authenticate")
  /\ validateTransition(row.status, "AUTHENTICATED") = "OK"
  /\ snap' = [snap EXCEPT ![r] = row]
  /\ Goto(r, "otpGet")
  /\ UNCHANGED <<store, otp, lock, cache, charges, dispatched, bankResult>>

\* OTPStore.consume, first half: GET.
AuthOtpGet(r) ==
  /\ At(r, "otpGet")
  /\ Goto(r, IF otp THEN "otpDel" ELSE "otpExpired")
  /\ UNCHANGED <<store, otp, lock, cache, charges, dispatched, snap, bankResult>>

\* Fault-seeded: the OTP is read but not deleted.
AuthOtpDel_keepsOtp(r) ==
  /\ At(r, "otpDel")
  /\ \/ Goto(r, "authCommit") /\ UNCHANGED <<snap, bankResult>>
     \/ Answer(r)
  /\ UNCHANGED <<store, otp, lock, cache, charges, dispatched>>

\* OTPStore.consume, second half: DEL, whatever the key holds by now; then the
\* client's code is compared with the hash that was read.
AuthOtpDel(r) ==
  /\ At(r, "otpDel")
  /\ otp' = FALSE
  /\ \/ Goto(r, "authCommit") /\ UNCHANGED <<snap, bankResult>>
     \/ Answer(r)                                       \* wrong code: 401
  /\ UNCHANGED <<store, lock, cache, charges, dispatched>>

\* Fault-seeded: a missing hash is answered 401 and nothing is written.
AuthExpire_onlyAnswers(r) ==
  /\ At(r, "otpExpired")
  /\ Answer(r)
  /\ UNCHANGED <<store, otp, lock, cache, charges, dispatched>>

\* No hash found: FAILED, answered 401; the cached row is not invalidated.
AuthExpire(r) ==
  /\ At(r, "otpExpired")
  /\ transitionStatus(snap[r].status, "FAILED", 0, FALSE)
  /\ Answer(r)
  /\ UNCHANGED <<retryLog, otp, lock, cache, charges, dispatched>>

\* Fault-seeded: the status is written as read back, not as validated.
AuthCommit_currentStatus(r) ==
  /\ At(r, "authCommit")
  /\ transitionStatus(row.status, "AUTHENTICATED", 0, FALSE)
  /\ Goto(r, "authInval")
  /\ UNCHANGED <<retryLog, otp, lock, cache, charges, dispatched, snap, bankResult>>

AuthCommit(r) ==
  /\ At(r, "authCommit")
  /\ transitionStatus(snap[r].status, "AUTHENTICATED", 0, FALSE)
  /\ Goto(r, "authInval")
  /\ UNCHANGED <<retryLog, otp, lock, cache, charges, dispatched, snap, bankResult>>

\* Fault-seeded: the cache is updated from what the handler read, not invalidated.
AuthInval_writesThrough(r) ==
  /\ At(r, "authInval")
  /\ cache' = [snap[r] EXCEPT !.status = "AUTHENTICATED"]
  /\ Answer(r)
  /\ UNCHANGED <<store, otp, lock, charges, dispatched>>

AuthInval(r) ==
  /\ At(r, "authInval")
  /\ cache' = NoTxn
  /\ Answer(r)
  /\ UNCHANGED <<store, otp, lock, charges, dispatched>>

-------------------------------------------------------------------------------
(* processPayment *)

\* Fault-seeded: SET without NX.
ProcLock_overwrites(r) ==
  /\ Called(r, "process")
  /\ lock' = TRUE
  /\ Goto(r, "procRead")
  /\ UNCHANGED <<store, otp, cache, charges, dispatched, snap, bankResult>>

\* DistributedLock.acquire: SET NX PX 30000, outside the try block.
ProcLock(r) ==
  /\ Called(r, "process")
  /\ ~lock
  /\ lock' = TRUE
  /\ Goto(r, "procRead")
  /\ UNCHANGED <<store, otp, cache, charges, dispatched, snap, bankResult>>

\* The SET took effect but its reply was lost: the call throws before the try
\* block (or, resent by the client library, reads its own lock as taken), so
\* nobody will release the lock.
ProcLockUnacked(r) ==
  /\ "error" \in faults
  /\ Called(r, "process")
  /\ ~lock
  /\ lock' = TRUE
  /\ UNCHANGED <<store, otp, cache, charges, dispatched, pc, snap, bankResult>>

\* Fault-seeded: the transition to PROCESSING is not validated.
ProcRead_unchecked(r) ==
  /\ At(r, "procRead")
  /\ snap' = [snap EXCEPT ![r] = row]
  /\ Goto(r, "procStart")
  /\ UNCHANGED <<store, otp, lock, cache, charges, dispatched, bankResult>>

ProcRead(r) ==
  /\ At(r, "procRead")
  /\ snap' = [snap EXCEPT ![r] = row]
  /\ Goto(r, IF validateTransition(row.status, "PROCESSING") = "OK"
             THEN "procStart" ELSE "procRelease")
  /\ UNCHANGED <<store, otp, lock, cache, charges, dispatched, bankResult>>

\* Fault-seeded: the bank's answer is not awaited.
ProcStart_skipsBank(r) ==
  /\ At(r, "procStart")
  /\ transitionStatus(snap[r].status, "PROCESSING", 0, FALSE)
  /\ Goto(r, "procFinish")
  /\ UNCHANGED <<retryLog, otp, lock, cache, charges, dispatched, snap, bankResult>>

ProcStart(r) ==
  /\ At(r, "procStart")
  /\ transitionStatus(snap[r].status, "PROCESSING", 0, FALSE)
  /\ Goto(r, "procBank")
  /\ UNCHANGED <<retryLog, otp, lock, cache, charges, dispatched, snap, bankResult>>

\* After the sleep, simulateBankResponse accepts or refuses the debit.
ProcBank(r) ==
  /\ At(r, "procBank")
  /\ \E result \in {"SUCCESS", "FAILED"} :
        /\ bankResult' = [bankResult EXCEPT ![r] = result]
        /\ charges' = IF result = "SUCCESS" THEN charges + 1 ELSE charges
  /\ Goto(r, "procFinish")
  /\ UNCHANGED <<store, otp, lock, cache, dispatched, snap>>

\* Fault-seeded: a refused debit is not written at all.
ProcFinish_onlySuccess(r) ==
  /\ At(r, "procFinish")
  /\ IF bankResult[r] = "SUCCESS" THEN transitionStatus("PROCESSING", "SUCCESS", 0, TRUE)
     ELSE UNCHANGED <<row, audit>>
  /\ Goto(r, "procInval")
  /\ UNCHANGED <<retryLog, otp, lock, cache, charges, dispatched, snap, bankResult>>

\* Fault-seeded: the outcome is written only if the row is still PROCESSING.
ProcFinish_ifProcessing(r) ==
  /\ At(r, "procFinish")
  /\ IF row.status = "PROCESSING"
     THEN transitionStatus("PROCESSING", bankResult[r], 0, bankResult[r] = "SUCCESS")
     ELSE UNCHANGED <<row, audit>>
  /\ Goto(r, "procInval")
  /\ UNCHANGED <<retryLog, otp, lock, cache, charges, dispatched, snap, bankResult>>

\* The outcome is written with a hard-coded fromStatus 'PROCESSING'.
ProcFinish(r) ==
  /\ At(r, "procFinish")
  /\ transitionStatus("PROCESSING", bankResult[r], 0, bankResult[r] = "SUCCESS")
  /\ Goto(r, "procInval")
  /\ UNCHANGED <<retryLog, otp, lock, cache, charges, dispatched, snap, bankResult>>

ProcInval(r) ==
  /\ At(r, "procInval")
  /\ cache' = NoTxn
  /\ dispatchWebhooks(IF bankResult[r] = "SUCCESS" THEN "PAYMENT_SUCCESS"
                                                   ELSE "PAYMENT_FAILED")
  /\ Goto(r, "procRelease")
  /\ UNCHANGED <<store, otp, lock, charges, snap, bankResult>>

\* The finally block: DistributedLock.release, an unconditional DEL.
ProcRelease(r) ==
  /\ At(r, "procRelease")
  /\ lock' = FALSE
  /\ Answer(r)
  /\ UNCHANGED <<store, otp, cache, charges, dispatched>>

-------------------------------------------------------------------------------
(* reconcileTransaction *)

ReconRead(r) ==
  /\ Called(r, "reconcile")
  /\ validateTransition(row.status, "RECONCILED") = "OK"
  /\ snap' = [snap EXCEPT ![r] = row]
  /\ Goto(r, "reconCommit")
  /\ UNCHANGED <<store, otp, lock, cache, charges, dispatched, bankResult>>

ReconCommit(r) ==
  /\ At(r, "reconCommit")
  /\ transitionStatus(snap[r].status, "RECONCILED", 0, FALSE)
  /\ Goto(r, "reconInval")
  /\ UNCHANGED <<retryLog, otp, lock, cache, charges, dispatched, snap, bankResult>>

\* Fault-seeded: no invalidation and no event.
ReconInval_silent(r) ==
  /\ At(r, "reconInval")
  /\ Answer(r)
  /\ UNCHANGED <<store, otp, lock, cache, charges, dispatched>>

ReconInval(r) ==
  /\ At(r, "reconInval")
  /\ cache' = NoTxn
  /\ dispatchWebhooks("PAYMENT_RECONCILED")
  /\ Answer(r)
  /\ UNCHANGED <<store, otp, lock, charges>>

-------------------------------------------------------------------------------
(* retryPayment *)

\* Fault-seeded: off by one in the retry limit.
RetryRead_oneTooMany(r) ==
  /\ Called(r, "retry")
  /\ row.status = "FAILED"
  /\ row.retryCount <= MaxAttempts
  /\ snap' = [snap EXCEPT ![r] = row]
  /\ Goto(r, "retryLog")
  /\ UNCHANGED <<store, otp, lock, cache, charges, dispatched, bankResult>>

RetryRead(r) ==
  /\ Called(r, "retry")
  /\ row.status = "FAILED"
  /\ row.retryCount < MaxAttempts
  /\ snap' = [snap EXCEPT ![r] = row]
  /\ Goto(r, "retryLog")
  /\ UNCHANGED <<store, otp, lock, cache, charges, dispatched, bankResult>>

\* TransactionRepo.logRetry.  retry_logs.delay_ms is an INTEGER column: it refuses
\* a fractional delay, which ends the call with a 500.
RetryLog(r) ==
  /\ At(r, "retryLog")
  /\ \/ /\ retryLog' = retryLog \cup {snap[r].retryCount + 1}
        /\ Goto(r, "retryCommit")
        /\ UNCHANGED <<snap, bankResult>>
     \/ /\ FractionalDelay(snap[r].retryCount, BaseDelay, MaxDelay)
        /\ Answer(r)
        /\ UNCHANGED retryLog
  /\ UNCHANGED <<row, audit, otp, lock, cache, charges, dispatched>>

RetryCommit(r) ==
  /\ At(r, "retryCommit")
  /\ transitionStatus("FAILED", "INITIATED", snap[r].retryCount + 1, FALSE)
  /\ Goto(r, "retryOtp")
  /\ UNCHANGED <<retryLog, otp, lock, cache, charges, dispatched, snap, bankResult>>

RetryOtp(r) ==
  /\ At(r, "retryOtp")
  /\ otp' = TRUE
  /\ Goto(r, "retryInval")
  /\ UNCHANGED <<store, lock, cache, charges, dispatched, snap, bankResult>>

RetryInval(r) ==
  /\ At(r, "retryInval")
  /\ cache' = NoTxn
  /\ Answer(r)
  /\ UNCHANGED <<store, otp, lock, charges, dispatched>>

-------------------------------------------------------------------------------
(* getTransaction *)

GetMiss(r) ==
  /\ Called(r, "get")
  /\ cache = NoTxn
  /\ Goto(r, "getRead")
  /\ UNCHANGED <<store, otp, lock, cache, charges, dispatched, snap, bankResult>>

GetRead(r) ==
  /\ At(r, "getRead")
  /\ snap' = [snap EXCEPT ![r] = row]
  /\ Goto(r, "getFill")
  /\ UNCHANGED <<store, otp, lock, cache, charges, dispatched, bankResult>>

GetFill(r) ==
  /\ At(r, "getFill")
  /\ cache' = snap[r]
  /\ Answer(r)
  /\ UNCHANGED <<store, otp, lock, charges, dispatched>>

-------------------------------------------------------------------------------
(* The end of initiatePayment, Redis TTLs and failures *)

\* initiatePayment stores the first OTP once the row is there for everyone, whatever
\* has happened to the transaction since, or its call fails or dies before.
InitialOtp ==
  /\ initiating /\ initiating' = FALSE
  /\ otp' = TRUE \/ ({"crash", "error"} \cap faults # {} /\ UNCHANGED otp)
  /\ UNCHANGED <<faults, store, lock, cache, charges, dispatched, pc, snap, bankResult>>

OtpExpire ==
  /\ otp
  /\ otp' = FALSE
  /\ UNCHANGED <<store, lock, cache, charges, dispatched, pc, snap, bankResult>>

CacheExpire ==
  /\ cache # NoTxn
  /\ cache' = NoTxn
  /\ UNCHANGED <<store, otp, lock, charges, dispatched, pc, snap, bankResult>>

\* Fault-seeded: SET NX without PX, the lock has no TTL.
LockExpire_never == FALSE /\ UNCHANGED vars

\* Unless handlers may be slow, one that is in its critical section finishes
\* within the TTL of the lock it holds.
LockExpire ==
  /\ lock
  /\ "slow" \in faults \/ \A r \in Req : pc[r] \notin ProcPcs
  /\ lock' = FALSE
  /\ UNCHANGED <<store, otp, cache, charges, dispatched, pc, snap, bankResult>>

\* The process serving r dies; what it has written stays.  One that dies in a COMMIT
\* which the server goes on with is at its label until the server is done: that step,
\* if it is executed, and then this one.
Crash(r) ==
  /\ "crash" \in faults
  /\ pc[r] # "idle"
  /\ Answer(r)
  /\ UNCHANGED <<store, otp, lock, cache, charges, dispatched>>

\* The awaited call rejects, having had no effect; a rejection after the effect
\* is this step taken at the next label.  In processPayment's try block the
\* finally clause still runs; elsewhere the error handler answers 500.
Fail(r) ==
  /\ "error" \in faults
  /\ pc[r] # "idle"
  /\ IF pc[r] \in ProcPcs \ {"procRelease"}
     THEN Goto(r, "procRelease") /\ UNCHANGED <<snap, bankResult>>
     ELSE Answer(r)
  /\ UNCHANGED <<store, otp, lock, cache, charges, dispatched>>

\* Nothing in flight: the service waits for its next call.
Quiescent ==
  /\ \A r \in Req : pc[r] = "idle"
  /\ UNCHANGED vars

-------------------------------------------------------------------------------
\* The first step of a call, and the steps of a call in flight.
Start(r) ==
  \/ AuthRead(r) \/ ProcLock(r) \/ ProcLockUnacked(r) \/ ReconRead(r)
  \/ RetryRead(r) \/ GetMiss(r)

Step(r) ==
  \/ AuthOtpGet(r) \/ AuthOtpDel(r) \/ AuthExpire(r) \/ AuthCommit(r) \/ AuthInval(r)
  \/ ProcRead(r) \/ ProcStart(r) \/ ProcBank(r) \/ ProcFinish(r) \/ ProcInval(r)
  \/ ProcRelease(r)
  \/ ReconCommit(r) \/ ReconInval(r)
  \/ RetryLog(r) \/ RetryCommit(r) \/ RetryOtp(r) \/ RetryInval(r)
  \/ GetRead(r) \/ GetFill(r)

Next ==
  \/ /\ \/ \E r \in Req : Start(r) \/ Step(r) \/ Crash(r) \/ Fail(r)
        \/ OtpExpire \/ CacheExpire \/ LockExpire
        \/ Quiescent
     /\ UNCHANGED env
  \/ InitialOtp

Spec == Init /\ [][Next]_vars

\* Every awaited call settles, so a handler in flight is run to its end, and
\* Redis drops the process lock once its TTL is over.
FairSpec ==
  /\ Spec
  /\ \A r \in Req : WF_vars(Step(r) /\ UNCHANGED env)
  /\ WF_vars(LockExpire /\ UNCHANGED env)

-------------------------------------------------------------------------------
(* Properties *)

Entries(to) == {i \in DOMAIN audit : audit[i].to = to}

\* Some entry among the first n brought the row into status s.
Held(s, n) == s = "INITIATED" \/ \E i \in 1..n : audit[i].to = s

InFlight(labels) == {r \in Req : pc[r] \in labels}

\* The row as the first n entries of the audit trail tell it.
Resets(n) == {i \in 1..n : audit[i].attempt > 0}
Latest(S) == CHOOSE i \in S : \A j \in S : j <= i

Version(n) ==
  [status     |-> IF n = 0 THEN "INITIATED" ELSE audit[n].to,
   retryCount |-> IF Resets(n) = {} THEN 0 ELSE audit[Latest(Resets(n))].attempt,
   bankRef    |-> \E i \in 1..n : audit[i].to = "SUCCESS"]

\* The row is what its audit trail says it is: transitionStatus writes both in
\* one database transaction, so no interleaving, crash or failed call lets the
\* status, the retry count or the bank reference drift from the trail.
AuditReplaysRow == row = Version(Len(audit))

\* What is cached, and what a handler goes by, was the row at some time: a
\* getTransaction that is overtaken by an invalidation, or the write of a stale
\* handler, can leave an old version behind but never one that never was.
NothingInvented ==
  \A txn \in {cache} \cup {snap[r] : r \in Req} :
    txn # NoTxn => \E n \in 0..Len(audit) : txn = Version(n)

\* What survives a race between handlers: every entry is a transition of the
\* table, taken from a status the transaction really had at some earlier time
\* (not necessarily the one it had when the entry was written).
AuditEntriesLegal ==
  \A i \in DOMAIN audit : /\ canTransition(audit[i].from, audit[i].to)
                          /\ Held(audit[i].from, i - 1)

\* retryPayment never numbers an attempt beyond the maximum, numbers attempts
\* without a gap, and writes the retry_logs row before the reset it announces,
\* however many retries race.
RetriesTraced ==
  /\ row.retryCount <= MaxAttempts
  /\ \A n \in 1..row.retryCount : \E i \in DOMAIN audit : audit[i].attempt = n
  /\ \A i \in DOMAIN audit : audit[i].attempt > 0 => audit[i].attempt \in retryLog

\* Money against trail: a SUCCESS entry is always backed by a debit of its own,
\* and a debit by a PROCESSING entry; with no crash and no failed call every
\* debit is recorded as SUCCESS or is about to be (processPayment).
ChargesAccounted ==
  LET recorded == Cardinality(Entries("SUCCESS"))
      pending  == Cardinality({r \in InFlight({"procFinish"}) :
                                  bankResult[r] = "SUCCESS"})
  IN /\ recorded + pending <= charges
     /\ charges <= Cardinality(Entries("PROCESSING"))
     /\ faults \subseteq {"slow"} => recorded + pending = charges

\* Events against trail: no outcome is announced to webhooks more often than it
\* was recorded; with no crash and no failed call each recorded outcome is
\* announced exactly once, or its handler is about to.
EventsAccounted ==
  LET settled(to) == {i \in Entries(to) : audit[i].from = "PROCESSING"}
      Matches(e, entries, pending) ==
        LET due == dispatched[e] + Cardinality(pending) IN
        /\ due <= Cardinality(entries)
        /\ faults \subseteq {"slow"} => due = Cardinality(entries)
      announcing(res) == {r \in InFlight({"procInval"}) : bankResult[r] = res}
  IN /\ Matches("PAYMENT_SUCCESS", settled("SUCCESS"), announcing("SUCCESS"))
     /\ Matches("PAYMENT_FAILED", settled("FAILED"), announcing("FAILED"))
     /\ Matches("PAYMENT_RECONCILED", Entries("RECONCILED"),
                InFlight({"reconInval"}))

\* A RECONCILED or PROCESSING row that no handler already admitted will write
\* is frozen for good.  For RECONCILED this is what is left of "terminal" when
\* handlers race; for PROCESSING it says that a payment orphaned by a crash or
\* a failed call has no way out: no operation accepts it.
Frozen ==
  /\ row.status \in {"RECONCILED", "PROCESSING"}
  /\ InFlight({"otpGet", "otpDel", "otpExpired", "authCommit", "procStart",
               "procBank", "procFinish", "reconCommit", "retryLog",
               "retryCommit"}) = {}

FrozenForGood == [][Frozen => Frozen']_vars

-------------------------------------------------------------------------------
(* The process lock.                                                         *)

\* If handlers finish within the TTL, at most one request is between the acquire
\* and the release of the lock, and while one is, the lock is set: the process
\* lock is a lock.
OneProcessor ==
  "slow" \notin faults =>
     /\ Cardinality(InFlight(ProcPcs)) <= 1
     /\ InFlight(ProcPcs) # {} => lock

\* The lock never outlives its use: whatever fails or crashes, the finally
\* clause or the TTL frees it, so a payment cannot stay locked for good.
LockReleased == lock ~> ~lock

\* With no crash and no failed call a payment never stays PROCESSING, whatever
\* other handlers write meanwhile.
ProcessingSettles ==
  faults \subseteq {"slow"} /\ row.status = "PROCESSING" ~> row.status # "PROCESSING"

-------------------------------------------------------------------------------
(* What holds when the calls on a transaction do not overlap (one request    *)
(* slot), crashes and failed calls included.                                 *)

\* The service implements the promised lifecycle.
Lifecycle == INSTANCE PaymentLifecycle
  WITH status <- row.status, retryCount <- row.retryCount, trail <- audit

ImplementsLifecycle == Lifecycle!Spec

\* Each OTP issued (at creation and by each reset) authenticates at most once,
\* and one that is still stored has not authenticated.
OtpConsumedOnce ==
  Cardinality(Entries("AUTHENTICATED"))
      + (IF otp THEN 1 ELSE 0) + (IF initiating THEN 1 ELSE 0)
    <= 1 + Cardinality(Entries("INITIATED"))

\* Between calls, with no crash and no failed call, the cached transaction is the
\* row, except after the FAILED that authenticateUser writes for a missing OTP:
\* every other write is followed by an invalidation before its call is answered.
CacheCoherentBetweenCalls ==
  LET expired == audit # <<>> /\ audit[Len(audit)].to = "FAILED"
                              /\ audit[Len(audit)].from = "INITIATED"
  IN faults = {} /\ InFlight(Pc \ {"idle"}) = {} /\ ~expired => cache \in {NoTxn, row}

-------------------------------------------------------------------------------
(* What the repository says of the service and the code does not do.         *)

\* "Invalid state jump: pure state machine rejects": the status only ever moves
\* along the transition table, RECONCILED included ("terminal state").
StatusFollowsTable ==
  [][row'.status # row.status => canTransition(row.status, row'.status)]_row

===============================================================================
