-------------------------- MODULE PaymentSerialProofs --------------------------
(***************************************************************************)
(* Theorems about PaymentService as long as the calls that may change a    *)
(* transaction do not overlap, whoever reads it meanwhile, for any number  *)
(* of request slots: what a client can rely on that waits for the answer   *)
(* to a call before it makes the next one.                                 *)
(***************************************************************************)
EXTENDS PaymentAccountingProofs

\* A request without a call in flight, or with one that only reads (getTransaction).
Reading == {"idle"} \cup GetPcs

\* One call at a time that may change the transaction.
OneWriter == \A r, q \in Req : pc[r] \notin Reading /\ pc[q] \notin Reading => r = q

\* Nobody but r has such a call in flight.
OnlyWriter(r) == \A q \in Req : q # r => pc[q] \in Reading

\* One call at a time, readers included.
NoOverlap == \A r, q \in Req : pc[r] # "idle" /\ pc[q] # "idle" => r = q

\* Nobody but r has a call in flight.
Alone(r) == \A q \in Req : q # r => pc[q] = "idle"

\* With one request slot no two calls overlap.
LEMMA OneSlotIsSerial ==
  ASSUME NEW r, Req = {r}
  PROVE  NoOverlap
BY DEF NoOverlap

LEMMA OneCallOneWriter == NoOverlap => OneWriter
BY DEF NoOverlap, OneWriter, Reading

\* The labels of a handler in flight are not "idle".
LEMMA InFlightStep ==
  ASSUME TInv, NEW r \in Req, Start(r) \/ Step(r) \/ Crash(r) \/ Fail(r)
  PROVE  ProcLockUnacked(r) \/ pc[r] # "idle" \/ pc'[r] # "idle"
<1> USE DEF At, Goto, Called
<1>1. pc \in [Req -> Pc]  BY DEF TInv, TypeOK
<1>2. CASE Start(r)
  BY <1>1, <1>2 DEF Start, AuthRead, ProcLock, ReconRead, RetryRead, GetMiss
<1>3. CASE Crash(r) \/ Fail(r)  BY <1>3 DEF Crash, Fail
<1>4. CASE Step(r)
  BY <1>4 DEF Step, AuthOtpGet, AuthOtpDel, AuthExpire, AuthCommit, AuthInval, ProcRead,
     ProcStart, ProcBank, ProcFinish, ProcInval, ProcRelease, ReconCommit, ReconInval,
     RetryLog, RetryCommit, RetryOtp, RetryInval, GetRead, GetFill
<1>5. QED  BY <1>2, <1>3, <1>4

\* A request that moves while calls do not overlap is alone before and after, unless
\* its call ends as it begins.
LEMMA AloneStep ==
  ASSUME TInv, NoOverlap, NoOverlap', NEW r \in Req,
         Start(r) \/ Step(r) \/ Crash(r) \/ Fail(r)
  PROVE  ProcLockUnacked(r) \/ (Alone(r) /\ Alone(r)')
BY InFlightStep, OthersStay DEF NoOverlap, Alone

\* What a reader does is of no concern to the others, but for what it caches.
LEMMA ReaderStep ==
  ASSUME TInv, NEW r \in Req, Start(r) \/ Step(r) \/ Crash(r) \/ Fail(r),
         pc[r] \in Reading, pc'[r] \in Reading
  PROVE  /\ UNCHANGED <<row, audit, charges, otp>>
         /\ \A q \in Req : q # r => snap'[q] = snap[q]
<1> USE DEF At, Goto, Answer, Called, store, Reading, GetPcs
<1>1. pc \in [Req -> Pc] /\ snap \in [Req -> Txn \cup {NoTxn}]  BY DEF TInv, TypeOK
<1>2. CASE Start(r)
  BY <1>1, <1>2 DEF Start, AuthRead, ProcLock, ProcLockUnacked, ReconRead, RetryRead, GetMiss
<1>3. CASE Crash(r) \/ Fail(r)
  BY <1>1, <1>3 DEF Crash, Fail, ProcPcs
<1>4. CASE Step(r)
  BY <1>1, <1>4 DEF Step, AuthOtpGet, AuthOtpDel, AuthExpire, AuthCommit, AuthInval, ProcRead,
     ProcStart, ProcBank, ProcFinish, ProcInval, ProcRelease, ReconCommit, ReconInval,
     RetryLog, RetryCommit, RetryOtp, RetryInval, GetRead, GetFill
<1>5. QED  BY <1>2, <1>3, <1>4

\* Whoever else moves is the only writer before and after.
LEMMA WriterStep ==
  ASSUME TInv, OneWriter, OneWriter', NEW r \in Req,
         Start(r) \/ Step(r) \/ Crash(r) \/ Fail(r)
  PROVE  (pc[r] \in Reading /\ pc'[r] \in Reading) \/ (OnlyWriter(r) /\ OnlyWriter(r)')
BY OthersStay DEF OneWriter, OnlyWriter

-------------------------------------------------------------------------------
(* Implementation of PaymentLifecycle. *)

\* What a handler read is still the row when it writes, and the debit is where the
\* status says it is.
Current(r) ==
  /\ pc[r] \in {"otpGet", "otpDel", "otpExpired", "authCommit", "procStart",
                "reconCommit", "retryLog", "retryCommit"} => snap[r] = row
  /\ pc[r] \in {"procBank", "procFinish"} => row.status = "PROCESSING"
  /\ pc[r] = "procBank" => charges = 0
  /\ pc[r] = "procFinish" => charges = IF bankResult[r] = "SUCCESS" THEN 1 ELSE 0

DebitInStatus ==
  /\ row.status \in {"INITIATED", "AUTHENTICATED", "FAILED"} => charges = 0
  /\ row.status \in {"SUCCESS", "RECONCILED"} => charges = 1

SerialInv == DebitInStatus /\ \A r \in Req : Current(r)

AbstractVars == <<row.status, row.retryCount, audit, charges>>

\* A validated write of the row is a move of the lifecycle.
LEMMA MoveRefined ==
  ASSUME row \in Txn, audit \in Seq(Entry),
         NEW from \in TransactionStatus, NEW to \in TransactionStatus,
         NEW attempt \in Nat, NEW ref \in BOOLEAN,
         transitionStatus(from, to, attempt, ref),
         from = row.status, canTransition(from, to)
  PROVE  /\ Lifecycle!Move(to, attempt)
         /\ row'.status = to
         /\ row'.retryCount = IF attempt > 0 THEN attempt ELSE row.retryCount
<1>1. /\ row'.status = to
      /\ row'.retryCount = IF attempt > 0 THEN attempt ELSE row.retryCount
  BY DEF transitionStatus, Updated, Txn
<1>2. audit' = Append(audit, [from |-> row.status, to |-> to, attempt |-> attempt])
  BY DEF transitionStatus
<1>3. Lifecycle!canTransition(row.status, to)
  BY DEF canTransition, VALID_TRANSITIONS, TERMINAL_STATES,
     Lifecycle!canTransition, Lifecycle!VALID_TRANSITIONS, Lifecycle!TERMINAL_STATES
<1>4. QED  BY <1>1, <1>2, <1>3 DEF Lifecycle!Move

\* A step of a request whose locals are current is a step of the lifecycle or leaves
\* it alone.
LEMMA SerialStep ==
  ASSUME TInv, SerialInv, NEW r \in Req,
         Start(r) \/ Step(r) \/ Crash(r) \/ Fail(r)
  PROVE  DebitInStatus' /\ Current(r)' /\ (Lifecycle!Next \/ UNCHANGED AbstractVars)
<1>1. /\ pc \in [Req -> Pc] /\ row \in Txn /\ audit \in Seq(Entry)
      /\ snap \in [Req -> Txn \cup {NoTxn}] /\ r \in Req
      /\ bankResult \in [Req -> {"none", "SUCCESS", "FAILED"}]
      /\ charges \in Nat /\ Admitted(r)
  BY DEF TInv, TypeOK
<1>2. DebitInStatus /\ Current(r)  BY DEF SerialInv
<1>3. ASSUME row' = row, audit' = audit, charges' = charges, Current(r)'
      PROVE  DebitInStatus' /\ Current(r)' /\ (Lifecycle!Next \/ UNCHANGED AbstractVars)
  BY <1>2, <1>3 DEF AbstractVars, DebitInStatus
<1>4. CASE AuthRead(r)
  <2>1. row' = row /\ audit' = audit /\ charges' = charges  BY <1>4 DEF AuthRead, store
  <2>2. Current(r)'
    BY <1>1, <1>2, <1>4, <2>1 DEF AuthRead, At, Goto, Answer, Called, DebitInStatus, Current
  <2>3. QED  BY <1>3, <2>1, <2>2
<1>5. CASE ProcLock(r)
  <2>1. row' = row /\ audit' = audit /\ charges' = charges  BY <1>5 DEF ProcLock, store
  <2>2. Current(r)'
    BY <1>1, <1>2, <1>5, <2>1 DEF ProcLock, At, Goto, Answer, Called, DebitInStatus, Current
  <2>3. QED  BY <1>3, <2>1, <2>2
<1>6. CASE ProcLockUnacked(r)
  <2>1. row' = row /\ audit' = audit /\ charges' = charges  BY <1>6 DEF ProcLockUnacked, store
  <2>2. Current(r)'
    BY <1>1, <1>2, <1>6, <2>1 DEF ProcLockUnacked, At, Goto, Answer, Called, DebitInStatus, Current
  <2>3. QED  BY <1>3, <2>1, <2>2
<1>7. CASE ReconRead(r)
  <2>1. row' = row /\ audit' = audit /\ charges' = charges  BY <1>7 DEF ReconRead, store
  <2>2. Current(r)'
    BY <1>1, <1>2, <1>7, <2>1 DEF ReconRead, At, Goto, Answer, Called, DebitInStatus, Current
  <2>3. QED  BY <1>3, <2>1, <2>2
<1>8. CASE RetryRead(r)
  <2>1. row' = row /\ audit' = audit /\ charges' = charges  BY <1>8 DEF RetryRead, store
  <2>2. Current(r)'
    BY <1>1, <1>2, <1>8, <2>1 DEF RetryRead, At, Goto, Answer, Called, DebitInStatus, Current
  <2>3. QED  BY <1>3, <2>1, <2>2
<1>9. CASE GetMiss(r)
  <2>1. row' = row /\ audit' = audit /\ charges' = charges  BY <1>9 DEF GetMiss, store
  <2>2. Current(r)'
    BY <1>1, <1>2, <1>9, <2>1 DEF GetMiss, At, Goto, Answer, Called, DebitInStatus, Current
  <2>3. QED  BY <1>3, <2>1, <2>2
<1>10. CASE AuthOtpGet(r)
  <2>1. row' = row /\ audit' = audit /\ charges' = charges  BY <1>10 DEF AuthOtpGet, store
  <2>2. Current(r)'
    BY <1>1, <1>2, <1>10, <2>1 DEF AuthOtpGet, At, Goto, Answer, Called, DebitInStatus, Current
  <2>3. QED  BY <1>3, <2>1, <2>2
<1>11. CASE AuthOtpDel(r)
  <2>1. row' = row /\ audit' = audit /\ charges' = charges  BY <1>11 DEF AuthOtpDel, store
  <2>2. Current(r)'
    BY <1>1, <1>2, <1>11, <2>1 DEF AuthOtpDel, At, Goto, Answer, Called, DebitInStatus, Current
  <2>3. QED  BY <1>3, <2>1, <2>2
<1>12. CASE AuthExpire(r)
  <2>1. row.status = "INITIATED" /\ snap[r] = row
    BY <1>1, <1>2, <1>12 DEF AuthExpire, At, Admitted, DebitInStatus, Current
  <2>2. charges' = charges /\ transitionStatus("INITIATED", "FAILED", 0, FALSE)
    BY <1>12, <2>1 DEF AuthExpire
  <2>3. /\ Lifecycle!Move("FAILED", 0)
        /\ row'.status = "FAILED" /\ row'.retryCount = row.retryCount
    <3>1. canTransition("INITIATED", "FAILED")
      BY DEF canTransition, VALID_TRANSITIONS, TERMINAL_STATES
    <3>2. PICK ref \in BOOLEAN : transitionStatus("INITIATED", "FAILED", 0, ref)
      BY <2>2
    <3>3. QED
      BY <1>1, <1>2, <2>1, <3>1, <3>2, MoveRefined DEF TransactionStatus
  <2>4. DebitInStatus' /\ Current(r)'
    BY <1>1, <1>2, <1>12, <2>1, <2>2, <2>3 DEF AuthExpire, Goto, Answer, DebitInStatus, Current
  <2>5. Lifecycle!Reject
    BY <1>2, <2>1, <2>2, <2>3 DEF Lifecycle!Reject, DebitInStatus
  <2>6. QED  BY <2>4, <2>5 DEF Lifecycle!Next
<1>13. CASE AuthCommit(r)
  <2>1. row.status = "INITIATED" /\ snap[r] = row
    BY <1>1, <1>2, <1>13 DEF AuthCommit, At, Admitted, DebitInStatus, Current
  <2>2. charges' = charges /\ transitionStatus("INITIATED", "AUTHENTICATED", 0, FALSE)
    BY <1>13, <2>1 DEF AuthCommit
  <2>3. /\ Lifecycle!Move("AUTHENTICATED", 0)
        /\ row'.status = "AUTHENTICATED" /\ row'.retryCount = row.retryCount
    <3>1. canTransition("INITIATED", "AUTHENTICATED")
      BY DEF canTransition, VALID_TRANSITIONS, TERMINAL_STATES
    <3>2. PICK ref \in BOOLEAN : transitionStatus("INITIATED", "AUTHENTICATED", 0, ref)
      BY <2>2
    <3>3. QED
      BY <1>1, <1>2, <2>1, <3>1, <3>2, MoveRefined DEF TransactionStatus
  <2>4. DebitInStatus' /\ Current(r)'
    BY <1>1, <1>2, <1>13, <2>1, <2>2, <2>3 DEF AuthCommit, Goto, Answer, DebitInStatus, Current
  <2>5. Lifecycle!Authenticate
    BY <2>1, <2>2, <2>3 DEF Lifecycle!Authenticate
  <2>6. QED  BY <2>4, <2>5 DEF Lifecycle!Next
<1>14. CASE AuthInval(r)
  <2>1. row' = row /\ audit' = audit /\ charges' = charges  BY <1>14 DEF AuthInval, store
  <2>2. Current(r)'
    BY <1>1, <1>2, <1>14, <2>1 DEF AuthInval, At, Goto, Answer, Called, DebitInStatus, Current
  <2>3. QED  BY <1>3, <2>1, <2>2
<1>15. CASE ProcRead(r)
  <2>1. row' = row /\ audit' = audit /\ charges' = charges  BY <1>15 DEF ProcRead, store
  <2>2. Current(r)'
    BY <1>1, <1>2, <1>15, <2>1 DEF ProcRead, At, Goto, Answer, Called, DebitInStatus, Current
  <2>3. QED  BY <1>3, <2>1, <2>2
<1>16. CASE ProcStart(r)
  <2>1. row.status = "AUTHENTICATED" /\ snap[r] = row
    BY <1>1, <1>2, <1>16 DEF ProcStart, At, Admitted, DebitInStatus, Current
  <2>2. charges' = charges /\ transitionStatus("AUTHENTICATED", "PROCESSING", 0, FALSE)
    BY <1>16, <2>1 DEF ProcStart
  <2>3. /\ Lifecycle!Move("PROCESSING", 0)
        /\ row'.status = "PROCESSING" /\ row'.retryCount = row.retryCount
    <3>1. canTransition("AUTHENTICATED", "PROCESSING")
      BY DEF canTransition, VALID_TRANSITIONS, TERMINAL_STATES
    <3>2. PICK ref \in BOOLEAN : transitionStatus("AUTHENTICATED", "PROCESSING", 0, ref)
      BY <2>2
    <3>3. QED
      BY <1>1, <1>2, <2>1, <3>1, <3>2, MoveRefined DEF TransactionStatus
  <2>4. DebitInStatus' /\ Current(r)'
    BY <1>1, <1>2, <1>16, <2>1, <2>2, <2>3 DEF ProcStart, Goto, Answer, DebitInStatus, Current
  <2>5. Lifecycle!Process
    BY <2>1, <2>2, <2>3 DEF Lifecycle!Process
  <2>6. QED  BY <2>4, <2>5 DEF Lifecycle!Next
<1>17. CASE ProcBank(r)
  <2>1. row.status = "PROCESSING" /\ charges = 0
    BY <1>2, <1>17 DEF ProcBank, At, DebitInStatus, Current
  <2>2. /\ row' = row /\ audit' = audit /\ pc' = [pc EXCEPT ![r] = "procFinish"]
        /\ \E result \in {"SUCCESS", "FAILED"} :
              /\ bankResult' = [bankResult EXCEPT ![r] = result]
              /\ charges' = IF result = "SUCCESS" THEN charges + 1 ELSE charges
    BY <1>17 DEF ProcBank, Goto, store
  <2>3. DebitInStatus' /\ Current(r)'  BY <1>1, <1>2, <2>1, <2>2 DEF DebitInStatus, Current
  <2>4. Lifecycle!Charge \/ UNCHANGED AbstractVars
    BY <2>1, <2>2 DEF Lifecycle!Charge, AbstractVars
  <2>5. QED  BY <2>3, <2>4 DEF Lifecycle!Next
<1>18. CASE ProcFinish(r)
  <2>1. /\ row.status = "PROCESSING" /\ bankResult[r] \in {"SUCCESS", "FAILED"}
        /\ charges = IF bankResult[r] = "SUCCESS" THEN 1 ELSE 0
    BY <1>1, <1>2, <1>18 DEF ProcFinish, At, Admitted, DebitInStatus, Current
  <2>2. PICK ref \in BOOLEAN : transitionStatus("PROCESSING", bankResult[r], 0, ref)
    BY <1>18 DEF ProcFinish
  <2>3. Lifecycle!Move(bankResult[r], 0)
        /\ row'.status = bankResult[r] /\ row'.retryCount = row.retryCount
    <3>1. canTransition("PROCESSING", bankResult[r])
      BY <2>1 DEF canTransition, VALID_TRANSITIONS, TERMINAL_STATES
    <3>2. bankResult[r] \in TransactionStatus /\ "PROCESSING" \in TransactionStatus
      BY <2>1 DEF TransactionStatus
    <3>3. "PROCESSING" = row.status /\ 0 \in Nat /\ ~(0 > 0)  BY <2>1
    <3>4. QED  BY MoveRefined, <1>1, <2>2, <3>1, <3>2, <3>3
  <2>4. charges' = charges /\ pc' = [pc EXCEPT ![r] = "procInval"]
    BY <1>18 DEF ProcFinish, Goto
  <2>5. DebitInStatus' /\ Current(r)'
    BY <1>1, <1>2, <2>1, <2>3, <2>4 DEF DebitInStatus, Current
  <2>6. Lifecycle!Settle \/ Lifecycle!Reject
    BY <2>1, <2>3, <2>4 DEF Lifecycle!Settle, Lifecycle!Reject
  <2>7. QED  BY <2>5, <2>6 DEF Lifecycle!Next
<1>19. CASE ProcInval(r)
  <2>1. row' = row /\ audit' = audit /\ charges' = charges  BY <1>19 DEF ProcInval, store
  <2>2. Current(r)'
    BY <1>1, <1>2, <1>19, <2>1 DEF ProcInval, At, Goto, Answer, Called, DebitInStatus, Current
  <2>3. QED  BY <1>3, <2>1, <2>2
<1>20. CASE ProcRelease(r)
  <2>1. row' = row /\ audit' = audit /\ charges' = charges  BY <1>20 DEF ProcRelease, store
  <2>2. Current(r)'
    BY <1>1, <1>2, <1>20, <2>1 DEF ProcRelease, At, Goto, Answer, Called, DebitInStatus, Current
  <2>3. QED  BY <1>3, <2>1, <2>2
<1>21. CASE ReconCommit(r)
  <2>1. row.status = "SUCCESS" /\ snap[r] = row
    BY <1>1, <1>2, <1>21 DEF ReconCommit, At, Admitted, DebitInStatus, Current
  <2>2. charges' = charges /\ transitionStatus("SUCCESS", "RECONCILED", 0, FALSE)
    BY <1>21, <2>1 DEF ReconCommit
  <2>3. /\ Lifecycle!Move("RECONCILED", 0)
        /\ row'.status = "RECONCILED" /\ row'.retryCount = row.retryCount
    <3>1. canTransition("SUCCESS", "RECONCILED")
      BY DEF canTransition, VALID_TRANSITIONS, TERMINAL_STATES
    <3>2. PICK ref \in BOOLEAN : transitionStatus("SUCCESS", "RECONCILED", 0, ref)
      BY <2>2
    <3>3. QED
      BY <1>1, <1>2, <2>1, <3>1, <3>2, MoveRefined DEF TransactionStatus
  <2>4. DebitInStatus' /\ Current(r)'
    BY <1>1, <1>2, <1>21, <2>1, <2>2, <2>3 DEF ReconCommit, Goto, Answer, DebitInStatus, Current
  <2>5. Lifecycle!Reconcile
    BY <2>1, <2>2, <2>3 DEF Lifecycle!Reconcile
  <2>6. QED  BY <2>4, <2>5 DEF Lifecycle!Next
<1>22. CASE ReconInval(r)
  <2>1. row' = row /\ audit' = audit /\ charges' = charges  BY <1>22 DEF ReconInval, store
  <2>2. Current(r)'
    BY <1>1, <1>2, <1>22, <2>1 DEF ReconInval, At, Goto, Answer, Called, DebitInStatus, Current
  <2>3. QED  BY <1>3, <2>1, <2>2
<1>23. CASE RetryLog(r)
  <2>1. row' = row /\ audit' = audit /\ charges' = charges  BY <1>23 DEF RetryLog, store
  <2>2. Current(r)'
    BY <1>1, <1>2, <1>23, <2>1 DEF RetryLog, At, Goto, Answer, Called, DebitInStatus, Current
  <2>3. QED  BY <1>3, <2>1, <2>2
<1>24. CASE RetryCommit(r)
  <2> DEFINE k == row.retryCount + 1
  <2>1. /\ snap[r] = row /\ row.status = "FAILED" /\ row.retryCount < MaxAttempts
        /\ k \in Nat /\ k > 0
    BY <1>1, <1>2, <1>24, StatusTyped DEF RetryCommit, At, Admitted, DebitInStatus, Current
  <2>2. transitionStatus("FAILED", "INITIATED", k, FALSE) /\ charges' = charges
    BY <1>24, <2>1 DEF RetryCommit
  <2>3. /\ Lifecycle!Move("INITIATED", k)
        /\ row'.status = "INITIATED" /\ row'.retryCount = k
    <3> HIDE DEF k
    <3>1. QED
      BY MoveRefined, <1>1, <2>1, <2>2
         DEF canTransition, VALID_TRANSITIONS, TERMINAL_STATES, TransactionStatus
  <2>4. DebitInStatus' /\ Current(r)'
    BY <1>1, <1>2, <1>24, <2>1, <2>3 DEF RetryCommit, Goto, DebitInStatus, Current
  <2>5. Lifecycle!Retry
    BY <2>1, <2>2, <2>3 DEF Lifecycle!Retry
  <2>6. QED  BY <2>4, <2>5 DEF Lifecycle!Next
<1>25. CASE RetryOtp(r)
  <2>1. row' = row /\ audit' = audit /\ charges' = charges  BY <1>25 DEF RetryOtp, store
  <2>2. Current(r)'
    BY <1>1, <1>2, <1>25, <2>1 DEF RetryOtp, At, Goto, Answer, Called, DebitInStatus, Current
  <2>3. QED  BY <1>3, <2>1, <2>2
<1>26. CASE RetryInval(r)
  <2>1. row' = row /\ audit' = audit /\ charges' = charges  BY <1>26 DEF RetryInval, store
  <2>2. Current(r)'
    BY <1>1, <1>2, <1>26, <2>1 DEF RetryInval, At, Goto, Answer, Called, DebitInStatus, Current
  <2>3. QED  BY <1>3, <2>1, <2>2
<1>27. CASE GetRead(r)
  <2>1. row' = row /\ audit' = audit /\ charges' = charges  BY <1>27 DEF GetRead, store
  <2>2. Current(r)'
    BY <1>1, <1>2, <1>27, <2>1 DEF GetRead, At, Goto, Answer, Called, DebitInStatus, Current
  <2>3. QED  BY <1>3, <2>1, <2>2
<1>28. CASE GetFill(r)
  <2>1. row' = row /\ audit' = audit /\ charges' = charges  BY <1>28 DEF GetFill, store
  <2>2. Current(r)'
    BY <1>1, <1>2, <1>28, <2>1 DEF GetFill, At, Goto, Answer, Called, DebitInStatus, Current
  <2>3. QED  BY <1>3, <2>1, <2>2
<1>29. CASE Crash(r)
  <2>1. row' = row /\ audit' = audit /\ charges' = charges  BY <1>29 DEF Crash, store
  <2>2. Current(r)'
    BY <1>1, <1>2, <1>29, <2>1 DEF Crash, At, Goto, Answer, Called, DebitInStatus, Current
  <2>3. QED  BY <1>3, <2>1, <2>2
<1>30. CASE Fail(r)
  <2>1. row' = row /\ audit' = audit /\ charges' = charges  BY <1>30 DEF Fail, store
  <2>2. Current(r)'
    BY <1>1, <1>2, <1>30, <2>1 DEF Fail, At, Goto, Answer, Called, DebitInStatus, Current
  <2>3. QED  BY <1>3, <2>1, <2>2
<1>31. QED
  BY <1>4, <1>5, <1>6, <1>7, <1>8, <1>9, <1>10, <1>11, <1>12, <1>13, <1>14, <1>15, <1>16, <1>17, <1>18, <1>19, <1>20, <1>21, <1>22, <1>23, <1>24, <1>25, <1>26, <1>27, <1>28, <1>29, <1>30 DEF Start, Step

\* A step while writers do not overlap: the locals of the others do not matter.
LEMMA OneWriterStep ==
  ASSUME TInv, SerialInv, OneWriter, OneWriter', [Next]_vars
  PROVE  SerialInv' /\ [Lifecycle!Next]_AbstractVars
<1>1. CASE Aside
  BY <1>1, AsideKeeps DEF store, SerialInv, DebitInStatus, Current, AbstractVars
<1>2. ASSUME NEW r \in Req, Start(r) \/ Step(r) \/ Crash(r) \/ Fail(r)
      PROVE  SerialInv' /\ [Lifecycle!Next]_AbstractVars
  <2>1. \A q \in Req : pc'[q] \in Reading => Current(q)'
    BY DEF Current, Reading, GetPcs
  <2>2. CASE pc[r] \in Reading /\ pc'[r] \in Reading
    <3>1. /\ UNCHANGED <<row, audit, charges>>
          /\ \A q \in Req : q # r => /\ pc'[q] = pc[q] /\ snap'[q] = snap[q]
                                    /\ bankResult'[q] = bankResult[q]
      BY <1>2, <2>2, ReaderStep, OthersStay
    <3>2. \A q \in Req : Current(q)'  BY <2>1, <2>2, <3>1 DEF SerialInv, Current
    <3>3. QED  BY <3>1, <3>2 DEF SerialInv, DebitInStatus, AbstractVars
  <2>3. CASE OnlyWriter(r)'
    <3>1. DebitInStatus' /\ Current(r)' /\ (Lifecycle!Next \/ UNCHANGED AbstractVars)
      BY <1>2, SerialStep
    <3>2. \A q \in Req : Current(q)'  BY <2>1, <2>3, <3>1 DEF OnlyWriter
    <3>3. QED  BY <3>1, <3>2 DEF SerialInv
  <2>4. QED  BY <1>2, <2>2, <2>3, WriterStep
<1>3. QED  BY <1>1, <1>2, Cases

\* As long as the calls that may change a transaction do not overlap, whoever reads it
\* meanwhile, the service keeps every promise of PaymentLifecycle, crashes, failed calls
\* and expiries included: moves along the table only, at most MaxAttempts resets, at most
\* one debit, SUCCESS exactly when the debit happened, and a trail that names every move.
THEOREM OneWriterImplementsLifecycle == Spec /\ []OneWriter => ImplementsLifecycle
<1>1. Init => SerialInv /\ Lifecycle!Init
  BY DEF Init, StoreInit, SerialInv, DebitInStatus, Current, Lifecycle!Init
<1>2. TInv /\ [Next]_vars => TInv'
  BY Cases, TypeStep, TypeEnv
<1>3. AbstractVars = Lifecycle!vars  BY DEF AbstractVars, Lifecycle!vars
<1>4. TInv /\ SerialInv /\ OneWriter /\ OneWriter' /\ [Next]_vars
        => (TInv /\ SerialInv)' /\ [Lifecycle!Next]_(Lifecycle!vars)
  BY <1>2, <1>3, OneWriterStep DEF AbstractVars, Lifecycle!vars
<1>5. QED  BY TypeInit, <1>1, <1>4, PTL DEF Spec, ImplementsLifecycle, Lifecycle!Spec

\* So it does for the requests of a client that has one slot (the payments_serial run).
THEOREM SerialImplementsLifecycle ==
  ASSUME NEW r, Req = {r}
  PROVE  Spec => ImplementsLifecycle
<1>1. OneWriter  BY OneSlotIsSerial, OneCallOneWriter
<1>2. QED  BY <1>1, OneWriterImplementsLifecycle, PTL

-------------------------------------------------------------------------------
(* What the lifecycle comes to. *)

\* The customer is debited at most once, and the status tells whether: not in a payment
\* that is new, authenticated or failed, once in one that succeeded.
DebitDecides == charges \in {0, 1} /\ DebitInStatus

\* The trail is a walk through the table: it starts at INITIATED, every entry leaves the
\* status the one before it entered, and the last one entered the row's status.
TrailIsWalk ==
  /\ \A i \in DOMAIN audit : audit[i].from = IF i = 1 THEN "INITIATED" ELSE audit[i - 1].to
  /\ row.status = IF Len(audit) = 0 THEN "INITIATED" ELSE audit[Len(audit)].to

\* Every walk ends: at most MaxAttempts resets, and at most four entries after each.
TrailBounded == Len(audit) <= 4 * (MaxAttempts + 1)

\* How many entries lead from INITIATED to a status without a reset, at most.
Depth == [INITIATED |-> 0, AUTHENTICATED |-> 1, PROCESSING |-> 2, SUCCESS |-> 3,
          FAILED |-> 3, RECONCILED |-> 4]

WalkInv ==
  /\ charges \in {0, 1}
  /\ TrailIsWalk
  /\ row.retryCount <= MaxAttempts
  /\ Len(audit) <= 4 * row.retryCount + Depth[row.status]

\* A move of the lifecycle prolongs the walk; a reset pays for four more entries.
LEMMA MoveProlongs ==
  ASSUME TInv, TInv', TrailIsWalk, NEW to \in TransactionStatus, NEW attempt,
         Lifecycle!Move(to, attempt)
  PROVE  TrailIsWalk' /\ Len(audit') = Len(audit) + 1 /\ to \in VALID_TRANSITIONS[row.status]
<1> DEFINE e == [from |-> row.status, to |-> to, attempt |-> attempt]
<1>1. /\ row'.status = to /\ audit' = Append(audit, e)
      /\ to \in VALID_TRANSITIONS[row.status]
  BY DEF Lifecycle!Move, Lifecycle!canTransition, Lifecycle!VALID_TRANSITIONS, VALID_TRANSITIONS
<1>2. audit \in Seq(Entry)  BY DEF TInv, TypeOK
<1>3. PICK n \in Nat : n = Len(audit)  BY <1>2
<1>4. /\ Len(audit') = n + 1 /\ DOMAIN audit' = 1..(n + 1) /\ DOMAIN audit = 1..n
      /\ audit'[n + 1] = e /\ \A i \in 1..n : audit'[i] = audit[i]
  BY <1>1, <1>2, <1>3
<1>5. ASSUME NEW i \in 1..(n + 1)
      PROVE  audit'[i].from = IF i = 1 THEN "INITIATED" ELSE audit'[i - 1].to
  <2>1. CASE i \in 1..n
    <3>1. audit[i].from = IF i = 1 THEN "INITIATED" ELSE audit[i - 1].to
      BY <1>4, <2>1 DEF TrailIsWalk
    <3>2. i # 1 => i - 1 \in 1..n  BY <2>1
    <3>3. QED  BY <1>4, <2>1, <3>1, <3>2
  <2>2. CASE i = n + 1
    <3>1. audit'[i].from = row.status  BY <1>4, <2>2
    <3>2. CASE n = 0
      <4>1. row.status = "INITIATED"  BY <1>3, <3>2 DEF TrailIsWalk
      <4>2. QED  BY <2>2, <3>1, <3>2, <4>1
    <3>3. CASE n # 0
      <4>1. Len(audit) # 0 /\ n \in 1..n  BY <1>3, <3>3
      <4>2. row.status = audit[n].to  BY <1>3, <4>1 DEF TrailIsWalk
      <4>3. i # 1 /\ i - 1 = n  BY <2>2, <3>3
      <4>4. QED  BY <1>4, <3>1, <4>1, <4>2, <4>3
    <3>4. QED  BY <3>2, <3>3
  <2>3. QED  BY <2>1, <2>2
<1>6. Len(audit') # 0 /\ row'.status = audit'[Len(audit')].to  BY <1>1, <1>4
<1>7. TrailIsWalk'  BY <1>4, <1>5, <1>6 DEF TrailIsWalk
<1>8. QED  BY <1>1, <1>3, <1>4, <1>7

LEMMA WalkStep ==
  ASSUME TInv, TInv', WalkInv, [Lifecycle!Next]_AbstractVars
  PROVE  WalkInv'
<1>1. /\ row \in Txn /\ row' \in Txn /\ MaxAttempts \in Nat
      /\ audit \in Seq(Entry) /\ audit' \in Seq(Entry)
  <2>1. row \in Txn /\ audit \in Seq(Entry)  BY DEF TInv, TypeOK
  <2>2. row' \in Txn /\ audit' \in Seq(Entry)  BY DEF TInv, TypeOK
  <2>3. QED  BY <2>1, <2>2, MaxAttemptsAssumption
<1>2. /\ row.status \in TransactionStatus /\ row'.status \in TransactionStatus
      /\ row.retryCount \in Nat /\ row'.retryCount \in Nat
      /\ Len(audit) \in Nat /\ Len(audit') \in Nat
  BY <1>1 DEF Txn
<1>3. ASSUME UNCHANGED <<row.status, row.retryCount, audit>>, charges' \in {0, 1}
      PROVE  WalkInv'
  BY <1>3 DEF WalkInv, TrailIsWalk
<1>4. ASSUME NEW to \in TransactionStatus, to # "INITIATED", Lifecycle!Move(to, 0),
             UNCHANGED <<row.retryCount, charges>>
      PROVE  WalkInv'
  <2>1. TrailIsWalk' /\ Len(audit') = Len(audit) + 1 /\ to \in VALID_TRANSITIONS[row.status]
    BY <1>4, MoveProlongs DEF WalkInv
  <2>2. row'.status = to  BY <1>4 DEF Lifecycle!Move
  <2>3. Depth[row.status] + 1 <= Depth[to] /\ Depth[row.status] \in Nat /\ Depth[to] \in Nat
    BY <1>2, <1>4, <2>1 DEF VALID_TRANSITIONS, TransactionStatus, Depth
  <2>4. Len(audit) <= 4 * row.retryCount + Depth[row.status]  BY DEF WalkInv
  <2>5. Len(audit') <= 4 * row'.retryCount + Depth[row'.status]
    BY <1>2, <1>4, <2>1, <2>2, <2>3, <2>4
  <2>6. QED  BY <1>4, <2>1, <2>5 DEF WalkInv
<1>5. CASE Lifecycle!Retry
  <2>1. /\ Lifecycle!Move("INITIATED", row.retryCount + 1) /\ charges' = charges
        /\ row.retryCount < MaxAttempts /\ row'.retryCount = row.retryCount + 1
    BY <1>5 DEF Lifecycle!Retry
  <2>2. TrailIsWalk' /\ Len(audit') = Len(audit) + 1 /\ "INITIATED" \in VALID_TRANSITIONS[row.status]
    BY <2>1, MoveProlongs DEF WalkInv, TransactionStatus
  <2>3. row.status = "FAILED"  BY <1>2, <2>2 DEF VALID_TRANSITIONS, TransactionStatus
  <2>4. row'.status = "INITIATED"  BY <2>1 DEF Lifecycle!Move
  <2>5. Len(audit) <= 4 * row.retryCount + 3  BY <2>3 DEF WalkInv, Depth
  <2>6. Len(audit') <= 4 * row'.retryCount + Depth[row'.status]
    BY <1>2, <2>1, <2>2, <2>4, <2>5 DEF Depth
  <2>7. row'.retryCount <= MaxAttempts  BY <1>1, <1>2, <2>1
  <2>8. QED  BY <2>1, <2>2, <2>6, <2>7 DEF WalkInv
<1>6. CASE Lifecycle!Next
  <2>1. {"AUTHENTICATED", "FAILED", "PROCESSING", "SUCCESS", "RECONCILED"} \subseteq TransactionStatus
    BY DEF TransactionStatus
  <2>2. CASE Lifecycle!Authenticate  BY <1>4, <2>1, <2>2 DEF Lifecycle!Authenticate
  <2>3. CASE Lifecycle!Reject  BY <1>4, <2>1, <2>3 DEF Lifecycle!Reject
  <2>4. CASE Lifecycle!Process  BY <1>4, <2>1, <2>4 DEF Lifecycle!Process
  <2>5. CASE Lifecycle!Charge  BY <1>3, <2>5 DEF Lifecycle!Charge
  <2>6. CASE Lifecycle!Settle  BY <1>4, <2>1, <2>6 DEF Lifecycle!Settle
  <2>7. CASE Lifecycle!Reconcile  BY <1>4, <2>1, <2>7 DEF Lifecycle!Reconcile
  <2>8. QED  BY <1>5, <1>6, <2>2, <2>3, <2>4, <2>5, <2>6, <2>7 DEF Lifecycle!Next
<1>7. CASE UNCHANGED AbstractVars  BY <1>3, <1>7 DEF AbstractVars, WalkInv
<1>8. QED  BY <1>6, <1>7

\* As long as the calls that may change a transaction do not overlap the customer is
\* debited at most once, exactly in the payments that settle, the trail tells the row's
\* whole history without a gap, and it ends: no payment makes more than
\* 4 * (MaxAttempts + 1) moves, however often it is read.
THEOREM OneWriterTellsAll ==
  Spec /\ []OneWriter => [](DebitDecides /\ TrailIsWalk /\ TrailBounded)
<1>1. Init => SerialInv /\ WalkInv
  <2> SUFFICES ASSUME Init PROVE SerialInv /\ WalkInv  OBVIOUS
  <2>1. /\ audit = <<>> /\ charges = 0 /\ pc = [r \in Req |-> "idle"]
        /\ row = [status |-> "INITIATED", retryCount |-> 0, bankRef |-> FALSE]
    BY DEF Init, StoreInit
  <2>2. SerialInv  BY <2>1 DEF SerialInv, DebitInStatus, Current
  <2>3. Len(audit) = 0 /\ DOMAIN audit = {}  BY <2>1
  <2>4. QED  BY <2>1, <2>2, <2>3, MaxAttemptsAssumption DEF WalkInv, TrailIsWalk, Depth
<1>2. TInv /\ [Next]_vars => TInv'  BY Cases, TypeStep, TypeEnv
<1>3. TInv /\ SerialInv /\ WalkInv /\ OneWriter /\ OneWriter' /\ [Next]_vars
        => (TInv /\ SerialInv /\ WalkInv)'
  BY <1>2, OneWriterStep, WalkStep
<1>4. TInv /\ SerialInv /\ WalkInv => DebitDecides /\ TrailIsWalk /\ TrailBounded
  <2> SUFFICES ASSUME TInv, SerialInv, WalkInv
               PROVE  DebitDecides /\ TrailIsWalk /\ TrailBounded
    OBVIOUS
  <2>1. /\ row.status \in TransactionStatus /\ row.retryCount \in Nat /\ MaxAttempts \in Nat
        /\ Len(audit) \in Nat
    BY MaxAttemptsAssumption DEF TInv, TypeOK, Txn
  <2>2. Depth[row.status] \in 0..4  BY <2>1 DEF Depth, TransactionStatus
  <2>3. row.retryCount <= MaxAttempts /\ Len(audit) <= 4 * row.retryCount + Depth[row.status]
    BY DEF WalkInv
  <2>4. TrailBounded  BY <2>1, <2>2, <2>3 DEF TrailBounded
  <2>5. QED  BY <2>4 DEF DebitDecides, SerialInv, WalkInv
<1>5. QED  BY TypeInit, <1>1, <1>3, <1>4, PTL DEF Spec

-------------------------------------------------------------------------------
(* One OTP, one authentication. *)

\* OTPs that may still authenticate: the one that is stored or has been read and
\* not deleted yet, the one initiatePayment is about to store, and the one whose
\* authentication, or whose storing by a retry, is about to be written.
Codes(r) ==
    (IF otp \/ pc[r] = "otpDel" THEN 1 ELSE 0)
  + (IF initiating THEN 1 ELSE 0)
  + (IF pc[r] \in {"authCommit", "retryOtp"} THEN 1 ELSE 0)

OtpInv(r) ==
  Cardinality(Entries("AUTHENTICATED")) + Codes(r) <= 1 + Cardinality(Entries("INITIATED"))

\* The trail is finite.
LEMMA EntriesCounted ==
  ASSUME TInv
  PROVE  \A s : Cardinality(Entries(s)) \in Nat
<1>1. PICK L \in Nat : L = Len(audit)  BY DEF TInv, TypeOK
<1>2. ASSUME NEW s  PROVE Cardinality(Entries(s)) \in Nat
  <2>1. Entries(s) \in SUBSET (1..L)  BY <1>1 DEF Entries, TInv, TypeOK
  <2>2. IsFiniteSet(1..L)  BY <1>1, FS_Interval
  <2>3. QED  BY <2>1, <2>2, FS_Subset, FS_CardinalityType
<1>3. QED  BY <1>2

\* A step without an entry that makes no code keeps the account.
LEMMA NoNewCode ==
  ASSUME NEW r, TInv, OtpInv(r), audit' = audit, Codes(r)' <= Codes(r)
  PROVE  OtpInv(r)'
<1>1. UNCHANGED <<Entries("AUTHENTICATED"), Entries("INITIATED")>>  BY DEF Entries
<1>2. /\ Cardinality(Entries("AUTHENTICATED")) \in Nat
      /\ Cardinality(Entries("INITIATED")) \in Nat
  BY EntriesCounted
<1>3. Codes(r) \in Nat /\ Codes(r)' \in Nat  BY DEF Codes
<1>4. QED  BY <1>1, <1>2, <1>3 DEF OtpInv

\* An entry is counted against the codes by its new status.
LEMMA CodeSpent ==
  ASSUME NEW r, TInv, OtpInv(r), NEW from, NEW to, Wrote(from, to),
         Codes(r)' <= Codes(r) + (IF to = "INITIATED" THEN 1 ELSE 0)
                               - (IF to = "AUTHENTICATED" THEN 1 ELSE 0)
  PROVE  OtpInv(r)'
<1>1. /\ Cardinality(Entries("AUTHENTICATED")) \in Nat
      /\ Cardinality(Entries("INITIATED")) \in Nat
      /\ Cardinality(Entries("AUTHENTICATED"))' = Cardinality(Entries("AUTHENTICATED"))
           + (IF to = "AUTHENTICATED" THEN 1 ELSE 0)
      /\ Cardinality(Entries("INITIATED"))' = Cardinality(Entries("INITIATED"))
           + (IF to = "INITIATED" THEN 1 ELSE 0)
  BY EntryCounts
<1>2. Codes(r) \in Nat /\ Codes(r)' \in Nat  BY DEF Codes
<1>3. QED  BY <1>1, <1>2 DEF OtpInv

\* What each writing step writes.
LEMMA Written ==
  ASSUME TInv, NEW r \in Req
  PROVE  /\ AuthExpire(r)  => Wrote("INITIATED", "FAILED")
         /\ AuthCommit(r)  => Wrote("INITIATED", "AUTHENTICATED")
         /\ ProcStart(r)   => Wrote("AUTHENTICATED", "PROCESSING")
         /\ ProcFinish(r)  => /\ bankResult[r] \in {"SUCCESS", "FAILED"}
                              /\ Wrote("PROCESSING", bankResult[r])
         /\ ReconCommit(r) => Wrote("SUCCESS", "RECONCILED")
         /\ RetryCommit(r) => Wrote("FAILED", "INITIATED")
<1>1. Admitted(r) /\ {0} \subseteq Nat /\ {FALSE} \subseteq BOOLEAN
      /\ {"INITIATED", "AUTHENTICATED", "PROCESSING", "SUCCESS", "FAILED", "RECONCILED"}
           \subseteq TransactionStatus
  BY DEF TInv, TransactionStatus
<1>2. AuthExpire(r) => Wrote("INITIATED", "FAILED")
  BY <1>1 DEF AuthExpire, At, Admitted, Wrote
<1>3. AuthCommit(r) => Wrote("INITIATED", "AUTHENTICATED")
  BY <1>1 DEF AuthCommit, At, Admitted, Wrote
<1>4. ProcStart(r) => Wrote("AUTHENTICATED", "PROCESSING")
  BY <1>1 DEF ProcStart, At, Admitted, Wrote
<1>5. ASSUME ProcFinish(r)
      PROVE  bankResult[r] \in {"SUCCESS", "FAILED"} /\ Wrote("PROCESSING", bankResult[r])
  <2>1. bankResult[r] \in {"SUCCESS", "FAILED"}  BY <1>1, <1>5 DEF ProcFinish, At, Admitted
  <2>2. PICK ref \in BOOLEAN : transitionStatus("PROCESSING", bankResult[r], 0, ref)
    BY <1>5 DEF ProcFinish
  <2>3. QED  BY <1>1, <2>1, <2>2 DEF Wrote
<1>6. ReconCommit(r) => Wrote("SUCCESS", "RECONCILED")
  BY <1>1 DEF ReconCommit, At, Admitted, Wrote
<1>7. ASSUME RetryCommit(r) PROVE Wrote("FAILED", "INITIATED")
  <2>1. snap[r].retryCount + 1 \in Nat
    BY <1>1, <1>7, SnapshotRead DEF RetryCommit, At, Admitted, TransactionStatus
  <2>2. QED  BY <1>1, <1>7, <2>1 DEF RetryCommit, Wrote
<1>8. QED  BY <1>2, <1>3, <1>4, <1>5, <1>6, <1>7

\* A step of request r.
LEMMA OtpStep ==
  ASSUME TInv, NEW r \in Req, OtpInv(r), UNCHANGED env,
         Start(r) \/ Step(r) \/ Crash(r) \/ Fail(r)
  PROVE  OtpInv(r)'
<1>1. /\ pc \in [Req -> Pc] /\ r \in Req /\ otp \in BOOLEAN /\ initiating' = initiating
      /\ initiating \in BOOLEAN
  BY DEF TInv, TypeOK, env
<1> USE DEF At, Goto, Answer, Called, store
<1>2. CASE AuthRead(r)
  <2>1. audit' = audit /\ Codes(r)' <= Codes(r)  BY <1>1, <1>2 DEF AuthRead, Codes
  <2>2. QED  BY <2>1, NoNewCode
<1>3. CASE ProcLock(r)
  <2>1. audit' = audit /\ Codes(r)' <= Codes(r)  BY <1>1, <1>3 DEF ProcLock, Codes
  <2>2. QED  BY <2>1, NoNewCode
<1>4. CASE ProcLockUnacked(r)
  <2>1. audit' = audit /\ Codes(r)' <= Codes(r)  BY <1>1, <1>4 DEF ProcLockUnacked, Codes
  <2>2. QED  BY <2>1, NoNewCode
<1>5. CASE ReconRead(r)
  <2>1. audit' = audit /\ Codes(r)' <= Codes(r)  BY <1>1, <1>5 DEF ReconRead, Codes
  <2>2. QED  BY <2>1, NoNewCode
<1>6. CASE RetryRead(r)
  <2>1. audit' = audit /\ Codes(r)' <= Codes(r)  BY <1>1, <1>6 DEF RetryRead, Codes
  <2>2. QED  BY <2>1, NoNewCode
<1>7. CASE GetMiss(r)
  <2>1. audit' = audit /\ Codes(r)' <= Codes(r)  BY <1>1, <1>7 DEF GetMiss, Codes
  <2>2. QED  BY <2>1, NoNewCode
<1>8. CASE AuthOtpGet(r)
  <2>1. audit' = audit /\ Codes(r)' <= Codes(r)  BY <1>1, <1>8 DEF AuthOtpGet, Codes
  <2>2. QED  BY <2>1, NoNewCode
<1>9. CASE AuthOtpDel(r)
  <2>1. audit' = audit /\ Codes(r)' <= Codes(r)  BY <1>1, <1>9 DEF AuthOtpDel, Codes
  <2>2. QED  BY <2>1, NoNewCode
<1>10. CASE AuthInval(r)
  <2>1. audit' = audit /\ Codes(r)' <= Codes(r)  BY <1>1, <1>10 DEF AuthInval, Codes
  <2>2. QED  BY <2>1, NoNewCode
<1>11. CASE ProcRead(r)
  <2>1. audit' = audit /\ Codes(r)' <= Codes(r)  BY <1>1, <1>11 DEF ProcRead, Codes
  <2>2. QED  BY <2>1, NoNewCode
<1>12. CASE ProcBank(r)
  <2>1. audit' = audit /\ Codes(r)' <= Codes(r)  BY <1>1, <1>12 DEF ProcBank, Codes
  <2>2. QED  BY <2>1, NoNewCode
<1>13. CASE ProcInval(r)
  <2>1. audit' = audit /\ Codes(r)' <= Codes(r)  BY <1>1, <1>13 DEF ProcInval, Codes
  <2>2. QED  BY <2>1, NoNewCode
<1>14. CASE ProcRelease(r)
  <2>1. audit' = audit /\ Codes(r)' <= Codes(r)  BY <1>1, <1>14 DEF ProcRelease, Codes
  <2>2. QED  BY <2>1, NoNewCode
<1>15. CASE ReconInval(r)
  <2>1. audit' = audit /\ Codes(r)' <= Codes(r)  BY <1>1, <1>15 DEF ReconInval, Codes
  <2>2. QED  BY <2>1, NoNewCode
<1>16. CASE RetryLog(r)
  <2>1. audit' = audit /\ Codes(r)' <= Codes(r)  BY <1>1, <1>16 DEF RetryLog, Codes
  <2>2. QED  BY <2>1, NoNewCode
<1>17. CASE RetryOtp(r)
  <2>1. audit' = audit /\ Codes(r)' <= Codes(r)  BY <1>1, <1>17 DEF RetryOtp, Codes
  <2>2. QED  BY <2>1, NoNewCode
<1>18. CASE RetryInval(r)
  <2>1. audit' = audit /\ Codes(r)' <= Codes(r)  BY <1>1, <1>18 DEF RetryInval, Codes
  <2>2. QED  BY <2>1, NoNewCode
<1>19. CASE GetRead(r)
  <2>1. audit' = audit /\ Codes(r)' <= Codes(r)  BY <1>1, <1>19 DEF GetRead, Codes
  <2>2. QED  BY <2>1, NoNewCode
<1>20. CASE GetFill(r)
  <2>1. audit' = audit /\ Codes(r)' <= Codes(r)  BY <1>1, <1>20 DEF GetFill, Codes
  <2>2. QED  BY <2>1, NoNewCode
<1>21. CASE Crash(r)
  <2>1. audit' = audit /\ Codes(r)' <= Codes(r)  BY <1>1, <1>21 DEF Crash, Codes
  <2>2. QED  BY <2>1, NoNewCode
<1>22. CASE Fail(r)
  <2>1. audit' = audit /\ Codes(r)' <= Codes(r)  BY <1>1, <1>22 DEF Fail, Codes
  <2>2. QED  BY <2>1, NoNewCode
<1>23. CASE AuthExpire(r)
  <2>1. Codes(r)' <= Codes(r)  BY <1>1, <1>23 DEF AuthExpire, Codes
  <2>2. Wrote("INITIATED", "FAILED")  BY <1>1, <1>23, Written
  <2>3. Codes(r) \in Nat /\ Codes(r)' \in Nat  BY DEF Codes
  <2>4. QED  BY <2>1, <2>2, <2>3, CodeSpent
<1>24. CASE AuthCommit(r)
  <2>1. Codes(r)' <= Codes(r) - 1  BY <1>1, <1>24 DEF AuthCommit, Codes
  <2>2. Wrote("INITIATED", "AUTHENTICATED")  BY <1>1, <1>24, Written
  <2>3. Codes(r) \in Nat /\ Codes(r)' \in Nat  BY DEF Codes
  <2>4. QED  BY <2>1, <2>2, <2>3, CodeSpent
<1>25. CASE ProcStart(r)
  <2>1. Codes(r)' <= Codes(r)  BY <1>1, <1>25 DEF ProcStart, Codes
  <2>2. Wrote("AUTHENTICATED", "PROCESSING")  BY <1>1, <1>25, Written
  <2>3. Codes(r) \in Nat /\ Codes(r)' \in Nat  BY DEF Codes
  <2>4. QED  BY <2>1, <2>2, <2>3, CodeSpent
<1>26. CASE ProcFinish(r)
  <2>1. Codes(r)' <= Codes(r)  BY <1>1, <1>26 DEF ProcFinish, Codes
  <2>2. bankResult[r] \in {"SUCCESS", "FAILED"} /\ Wrote("PROCESSING", bankResult[r])
    BY <1>1, <1>26, Written
  <2>3. Codes(r) \in Nat /\ Codes(r)' \in Nat  BY DEF Codes
  <2>4. QED  BY <2>1, <2>2, <2>3, CodeSpent
<1>27. CASE ReconCommit(r)
  <2>1. Codes(r)' <= Codes(r)  BY <1>1, <1>27 DEF ReconCommit, Codes
  <2>2. Wrote("SUCCESS", "RECONCILED")  BY <1>1, <1>27, Written
  <2>3. Codes(r) \in Nat /\ Codes(r)' \in Nat  BY DEF Codes
  <2>4. QED  BY <2>1, <2>2, <2>3, CodeSpent
<1>28. CASE RetryCommit(r)
  <2>1. Codes(r)' <= Codes(r) + 1  BY <1>1, <1>28 DEF RetryCommit, Codes
  <2>2. Wrote("FAILED", "INITIATED")  BY <1>1, <1>28, Written
  <2>3. Codes(r) \in Nat /\ Codes(r)' \in Nat  BY DEF Codes
  <2>4. QED  BY <2>1, <2>2, <2>3, CodeSpent
<1>29. QED
  BY <1>2, <1>3, <1>4, <1>5, <1>6, <1>7, <1>8, <1>9, <1>10, <1>11, <1>12, <1>13, <1>14, <1>15, <1>16, <1>17, <1>18, <1>19, <1>20, <1>21, <1>22, <1>23, <1>24, <1>25, <1>26, <1>27, <1>28 DEF Start, Step

\* The account, whoever is in flight.
OtpsInv == OtpConsumedOnce /\ \A r \in Req : OtpInv(r)

\* The account of one request covers the OTP that is stored or awaited.
LEMMA CodesCovered ==
  ASSUME NEW r, TInv, OtpInv(r)
  PROVE  OtpConsumedOnce
<1>1. /\ Cardinality(Entries("AUTHENTICATED")) \in Nat
      /\ Cardinality(Entries("INITIATED")) \in Nat
  BY EntriesCounted
<1>2. (IF otp THEN 1 ELSE 0) + (IF initiating THEN 1 ELSE 0) <= Codes(r)  BY DEF Codes
<1>3. Codes(r) \in Nat  BY DEF Codes
<1>4. QED  BY <1>1, <1>2, <1>3 DEF OtpInv, OtpConsumedOnce

\* Expiries and the end of initiatePayment issue nothing twice.
LEMMA OtpAside ==
  ASSUME TInv, OtpsInv, Aside \/ \E r \in Req : ProcLockUnacked(r) /\ UNCHANGED env
  PROVE  OtpsInv'
<1>1. UNCHANGED <<audit, pc>>
  BY AsideKeeps DEF store, ProcLockUnacked
<1>2. otp \in BOOLEAN /\ initiating \in BOOLEAN  BY DEF TInv, TypeOK
<1>3. \/ otp' = otp /\ initiating' = initiating
      \/ otp' = FALSE /\ initiating' = initiating
      \/ otp' = TRUE /\ initiating /\ ~initiating'
      \/ otp' = otp /\ initiating /\ ~initiating'
  BY DEF Aside, OtpExpire, CacheExpire, LockExpire, InitialOtp, env, vars, ProcLockUnacked
<1>4. ASSUME NEW r \in Req  PROVE OtpInv(r)'
  <2>1. Codes(r)' <= Codes(r)
    <3>1. CASE otp' = otp /\ initiating' = initiating  BY <1>1, <3>1 DEF Codes
    <3>2. CASE otp' = FALSE /\ initiating' = initiating  BY <1>1, <1>2, <3>2 DEF Codes
    <3>3. CASE otp' = TRUE /\ initiating /\ ~initiating'  BY <1>1, <1>2, <3>3 DEF Codes
    <3>4. CASE otp' = otp /\ initiating /\ ~initiating'  BY <1>1, <1>2, <3>4 DEF Codes
    <3>5. QED  BY <1>3, <3>1, <3>2, <3>3, <3>4
  <2>2. QED  BY <1>1, <2>1, NoNewCode DEF OtpsInv
<1>5. OtpConsumedOnce'
  <2>1. /\ Cardinality(Entries("AUTHENTICATED")) \in Nat
        /\ Cardinality(Entries("INITIATED")) \in Nat
    BY EntriesCounted
  <2>2. UNCHANGED <<Entries("AUTHENTICATED"), Entries("INITIATED")>>
    BY <1>1 DEF Entries
  <2>3. (IF otp' THEN 1 ELSE 0) + (IF initiating' THEN 1 ELSE 0)
          <= (IF otp THEN 1 ELSE 0) + (IF initiating THEN 1 ELSE 0)
    <3>1. CASE otp' = otp /\ initiating' = initiating  BY <3>1
    <3>2. CASE otp' = FALSE /\ initiating' = initiating  BY <3>2
    <3>3. CASE otp' = TRUE /\ initiating /\ ~initiating'  BY <3>3
    <3>4. CASE otp' = otp /\ initiating /\ ~initiating'  BY <3>4
    <3>5. QED  BY <1>3, <3>1, <3>2, <3>3, <3>4
  <2>4. QED  BY <2>1, <2>2, <2>3 DEF OtpsInv, OtpConsumedOnce
<1>6. QED  BY <1>4, <1>5 DEF OtpsInv

LEMMA OtpOneWriterStep ==
  ASSUME TInv, TInv', OtpsInv, OneWriter, OneWriter', [Next]_vars
  PROVE  OtpsInv'
<1>1. CASE Aside  BY <1>1, OtpAside
<1>2. ASSUME UNCHANGED env, NEW r \in Req, Start(r) \/ Step(r) \/ Crash(r) \/ Fail(r)
      PROVE  OtpsInv'
  <2>1. CASE pc[r] \in Reading /\ pc'[r] \in Reading
    <3>1. UNCHANGED <<audit, otp, initiating>>  BY <1>2, <2>1, ReaderStep DEF env
    <3>2. ASSUME NEW q \in Req  PROVE Codes(q)' = Codes(q)
      <4>1. \/ pc'[q] = pc[q]
            \/ pc[q] \in Reading /\ pc'[q] \in Reading
        BY <1>2, <2>1, OthersStay
      <4>2. QED  BY <3>1, <4>1 DEF Codes, Reading, GetPcs
    <3>3. \A s : Entries(s)' = Entries(s)  BY <3>1 DEF Entries
    <3>4. QED  BY <3>1, <3>2, <3>3 DEF OtpsInv, OtpInv, OtpConsumedOnce
  <2>2. CASE OnlyWriter(r)'
    <3>1. OtpInv(r)'  BY <1>2, OtpStep DEF OtpsInv
    <3>2. OtpConsumedOnce'  BY <3>1, CodesCovered, PTL
    <3>3. ASSUME NEW q \in Req  PROVE OtpInv(q)'
      <4>1. q # r => Codes(q)' = (IF otp' THEN 1 ELSE 0) + (IF initiating' THEN 1 ELSE 0)
        BY <2>2 DEF OnlyWriter, Codes, Reading, GetPcs
      <4>2. (\A s : Cardinality(Entries(s)) \in Nat)'  BY EntriesCounted, PTL
      <4>3. QED  BY <3>1, <3>2, <4>1, <4>2 DEF OtpConsumedOnce, OtpInv
    <3>4. QED  BY <3>2, <3>3 DEF OtpsInv
  <2>3. QED  BY <1>2, <2>1, <2>2, WriterStep
<1>3. QED  BY <1>1, <1>2, Cases

\* As long as the calls that may change a transaction do not overlap, an OTP authenticates
\* at most once, and one that is still stored has not, whatever is read meanwhile, crashes,
\* fails or expires (OTPStore.consume).
THEOREM OneWriterSpendsOtpOnce == Spec /\ []OneWriter => []OtpConsumedOnce
<1>1. Init => OtpsInv
  <2> SUFFICES ASSUME Init PROVE OtpsInv  OBVIOUS
  <2>1. audit = <<>> /\ otp = FALSE /\ pc = [r \in Req |-> "idle"] /\ initiating = TRUE
    BY DEF Init, StoreInit
  <2>2. \A s : Entries(s) = {}  BY <2>1 DEF Entries
  <2>3. \A s : Cardinality(Entries(s)) = 0  BY <2>2, FS_EmptySet
  <2>4. \A r \in Req : Codes(r) = 1  BY <2>1 DEF Codes
  <2>5. QED  BY <2>1, <2>3, <2>4 DEF OtpInv, OtpConsumedOnce, OtpsInv
<1>2. TInv /\ [Next]_vars => TInv'  BY Cases, TypeStep, TypeEnv
<1>3. TInv /\ OtpsInv /\ OneWriter /\ OneWriter' /\ [Next]_vars => (TInv /\ OtpsInv)'
  BY <1>2, OtpOneWriterStep
<1>4. OtpsInv => OtpConsumedOnce  BY DEF OtpsInv
<1>5. QED  BY TypeInit, <1>1, <1>3, <1>4, PTL DEF Spec

\* So it is for the requests of a client that has one slot (the payments_serial run).
THEOREM OtpSpentOnce ==
  ASSUME NEW r, Req = {r}
  PROVE  Spec => []OtpConsumedOnce
<1>1. OneWriter  BY OneSlotIsSerial, OneCallOneWriter
<1>2. QED  BY <1>1, OneWriterSpendsOtpOnce, PTL

-------------------------------------------------------------------------------
(* The cached transaction between calls. *)

\* From a write of the row to the end of the call that invalidates the cache for it.
Invalidating == {"authInval", "procBank", "procFinish", "procInval", "reconInval",
                 "retryOtp", "retryInval"}

\* The FAILED that authenticateUser writes for a missing OTP is the row's last change.
Expired ==
  audit # <<>> /\ audit[Len(audit)].to = "FAILED" /\ audit[Len(audit)].from = "INITIATED"

CacheInv(r) ==
  faults = {} =>
    /\ pc[r] = "getFill" => snap[r] = row
    /\ Expired \/ cache \in {NoTxn, row} \/ pc[r] \in Invalidating

\* A step of request r.
LEMMA CacheStep ==
  ASSUME TInv, NEW r \in Req, CacheInv(r), UNCHANGED env,
         Start(r) \/ Step(r) \/ Crash(r) \/ Fail(r)
  PROVE  CacheInv(r)'
<1>1. /\ pc \in [Req -> Pc] /\ r \in Req /\ faults' = faults
      /\ snap \in [Req -> Txn \cup {NoTxn}]
  BY DEF TInv, TypeOK, env
<1> USE DEF At, Goto, Answer, Called, store
<1>2. CASE AuthRead(r)
  <2>1. row' = row /\ audit' = audit  BY <1>2 DEF AuthRead
  <2>2. Expired' = Expired  BY <2>1 DEF Expired
  <2>3. QED  BY <1>1, <1>2, <2>1, <2>2 DEF AuthRead, CacheInv, Invalidating
<1>3. CASE ProcLock(r)
  <2>1. row' = row /\ audit' = audit  BY <1>3 DEF ProcLock
  <2>2. Expired' = Expired  BY <2>1 DEF Expired
  <2>3. QED  BY <1>1, <1>3, <2>1, <2>2 DEF ProcLock, CacheInv, Invalidating
<1>4. CASE ProcLockUnacked(r)
  <2>1. row' = row /\ audit' = audit  BY <1>4 DEF ProcLockUnacked
  <2>2. Expired' = Expired  BY <2>1 DEF Expired
  <2>3. QED  BY <1>1, <1>4, <2>1, <2>2 DEF ProcLockUnacked, CacheInv, Invalidating
<1>5. CASE ReconRead(r)
  <2>1. row' = row /\ audit' = audit  BY <1>5 DEF ReconRead
  <2>2. Expired' = Expired  BY <2>1 DEF Expired
  <2>3. QED  BY <1>1, <1>5, <2>1, <2>2 DEF ReconRead, CacheInv, Invalidating
<1>6. CASE RetryRead(r)
  <2>1. row' = row /\ audit' = audit  BY <1>6 DEF RetryRead
  <2>2. Expired' = Expired  BY <2>1 DEF Expired
  <2>3. QED  BY <1>1, <1>6, <2>1, <2>2 DEF RetryRead, CacheInv, Invalidating
<1>7. CASE GetMiss(r)
  <2>1. row' = row /\ audit' = audit  BY <1>7 DEF GetMiss
  <2>2. Expired' = Expired  BY <2>1 DEF Expired
  <2>3. QED  BY <1>1, <1>7, <2>1, <2>2 DEF GetMiss, CacheInv, Invalidating
<1>8. CASE AuthOtpGet(r)
  <2>1. row' = row /\ audit' = audit  BY <1>8 DEF AuthOtpGet
  <2>2. Expired' = Expired  BY <2>1 DEF Expired
  <2>3. QED  BY <1>1, <1>8, <2>1, <2>2 DEF AuthOtpGet, CacheInv, Invalidating
<1>9. CASE AuthOtpDel(r)
  <2>1. row' = row /\ audit' = audit  BY <1>9 DEF AuthOtpDel
  <2>2. Expired' = Expired  BY <2>1 DEF Expired
  <2>3. QED  BY <1>1, <1>9, <2>1, <2>2 DEF AuthOtpDel, CacheInv, Invalidating
<1>10. CASE AuthInval(r)
  <2>1. row' = row /\ audit' = audit  BY <1>10 DEF AuthInval
  <2>2. Expired' = Expired  BY <2>1 DEF Expired
  <2>3. QED  BY <1>1, <1>10, <2>1, <2>2 DEF AuthInval, CacheInv, Invalidating
<1>11. CASE ProcRead(r)
  <2>1. row' = row /\ audit' = audit  BY <1>11 DEF ProcRead
  <2>2. Expired' = Expired  BY <2>1 DEF Expired
  <2>3. QED  BY <1>1, <1>11, <2>1, <2>2 DEF ProcRead, CacheInv, Invalidating
<1>12. CASE ProcBank(r)
  <2>1. row' = row /\ audit' = audit  BY <1>12 DEF ProcBank
  <2>2. Expired' = Expired  BY <2>1 DEF Expired
  <2>3. QED  BY <1>1, <1>12, <2>1, <2>2 DEF ProcBank, CacheInv, Invalidating
<1>13. CASE ProcInval(r)
  <2>1. row' = row /\ audit' = audit  BY <1>13 DEF ProcInval
  <2>2. Expired' = Expired  BY <2>1 DEF Expired
  <2>3. QED  BY <1>1, <1>13, <2>1, <2>2 DEF ProcInval, CacheInv, Invalidating
<1>14. CASE ProcRelease(r)
  <2>1. row' = row /\ audit' = audit  BY <1>14 DEF ProcRelease
  <2>2. Expired' = Expired  BY <2>1 DEF Expired
  <2>3. QED  BY <1>1, <1>14, <2>1, <2>2 DEF ProcRelease, CacheInv, Invalidating
<1>15. CASE ReconInval(r)
  <2>1. row' = row /\ audit' = audit  BY <1>15 DEF ReconInval
  <2>2. Expired' = Expired  BY <2>1 DEF Expired
  <2>3. QED  BY <1>1, <1>15, <2>1, <2>2 DEF ReconInval, CacheInv, Invalidating
<1>16. CASE RetryLog(r)
  <2>1. row' = row /\ audit' = audit  BY <1>16 DEF RetryLog
  <2>2. Expired' = Expired  BY <2>1 DEF Expired
  <2>3. QED  BY <1>1, <1>16, <2>1, <2>2 DEF RetryLog, CacheInv, Invalidating
<1>17. CASE RetryOtp(r)
  <2>1. row' = row /\ audit' = audit  BY <1>17 DEF RetryOtp
  <2>2. Expired' = Expired  BY <2>1 DEF Expired
  <2>3. QED  BY <1>1, <1>17, <2>1, <2>2 DEF RetryOtp, CacheInv, Invalidating
<1>18. CASE RetryInval(r)
  <2>1. row' = row /\ audit' = audit  BY <1>18 DEF RetryInval
  <2>2. Expired' = Expired  BY <2>1 DEF Expired
  <2>3. QED  BY <1>1, <1>18, <2>1, <2>2 DEF RetryInval, CacheInv, Invalidating
<1>19. CASE GetRead(r)
  <2>1. row' = row /\ audit' = audit  BY <1>19 DEF GetRead
  <2>2. Expired' = Expired  BY <2>1 DEF Expired
  <2>3. QED  BY <1>1, <1>19, <2>1, <2>2 DEF GetRead, CacheInv, Invalidating
<1>20. CASE GetFill(r)
  <2>1. row' = row /\ audit' = audit  BY <1>20 DEF GetFill
  <2>2. Expired' = Expired  BY <2>1 DEF Expired
  <2>3. QED  BY <1>1, <1>20, <2>1, <2>2 DEF GetFill, CacheInv, Invalidating
<1>21. CASE Crash(r)  BY <1>1, <1>21 DEF Crash, CacheInv
<1>22. CASE Fail(r)  BY <1>1, <1>22 DEF Fail, CacheInv
<1>23. CASE AuthExpire(r)
  <2>1. audit' = Append(audit, [from |-> snap[r].status, to |-> "FAILED", attempt |-> 0])
        /\ snap[r].status = "INITIATED"
    BY <1>23 DEF AuthExpire, transitionStatus, TInv, Admitted
  <2>2. audit \in Seq(Entry) /\ [from |-> "INITIATED", to |-> "FAILED", attempt |-> 0] \in Entry
    BY DEF TInv, TypeOK, Entry, TransactionStatus
  <2>3. Expired'  BY <2>1, <2>2 DEF Expired
  <2>4. pc'[r] = "idle"  BY <1>1, <1>23 DEF AuthExpire
  <2>5. QED  BY <2>3, <2>4 DEF CacheInv
<1>24. CASE AuthCommit(r)  BY <1>1, <1>24 DEF AuthCommit, CacheInv, Invalidating
<1>25. CASE ProcStart(r)  BY <1>1, <1>25 DEF ProcStart, CacheInv, Invalidating
<1>26. CASE ProcFinish(r)  BY <1>1, <1>26 DEF ProcFinish, CacheInv, Invalidating
<1>27. CASE ReconCommit(r)  BY <1>1, <1>27 DEF ReconCommit, CacheInv, Invalidating
<1>28. CASE RetryCommit(r)  BY <1>1, <1>28 DEF RetryCommit, CacheInv, Invalidating
<1>29. QED
  BY <1>2, <1>3, <1>4, <1>5, <1>6, <1>7, <1>8, <1>9, <1>10, <1>11, <1>12, <1>13, <1>14, <1>15, <1>16, <1>17, <1>18, <1>19, <1>20, <1>21, <1>22, <1>23, <1>24, <1>25, <1>26, <1>27, <1>28 DEF Start, Step

\* The cached row, whoever is in flight.
CachedInv ==
  faults = {} =>
    /\ \A r \in Req : pc[r] = "getFill" => snap[r] = row
    /\ Expired \/ cache \in {NoTxn, row} \/ \E r \in Req : pc[r] \in Invalidating

LEMMA CacheNoOverlapStep ==
  ASSUME TInv, CachedInv, NoOverlap, NoOverlap', [Next]_vars
  PROVE  CachedInv'
<1>1. ASSUME UNCHANGED <<faults, row, audit, pc, snap>>, cache' \in {cache, NoTxn}
      PROVE  CachedInv'
  <2>1. Expired' = Expired  BY <1>1 DEF Expired
  <2>2. QED  BY <1>1, <2>1 DEF CachedInv
<1>2. CASE Aside
  <2>1. UNCHANGED <<faults, row, audit, pc, snap>>  BY <1>2, AsideKeeps DEF store
  <2>2. cache' \in {cache, NoTxn}
    BY <1>2 DEF Aside, OtpExpire, CacheExpire, LockExpire, InitialOtp, vars
  <2>3. QED  BY <1>1, <2>1, <2>2
<1>3. ASSUME UNCHANGED env, NEW r \in Req, Start(r) \/ Step(r) \/ Crash(r) \/ Fail(r)
      PROVE  CachedInv'
  <2>1. CASE ProcLockUnacked(r)  BY <1>1, <1>3, <2>1 DEF ProcLockUnacked, store, env
  <2>2. CASE Alone(r) /\ Alone(r)'
    <3>1. "idle" \notin Invalidating  BY DEF Invalidating
    <3>2. CacheInv(r)  BY <2>2, <3>1 DEF CachedInv, CacheInv, Alone
    <3>3. CacheInv(r)'  BY <1>3, <3>2, CacheStep
    <3>4. QED  BY <2>2, <3>3 DEF CachedInv, CacheInv, Alone
  <2>3. QED  BY <1>3, <2>1, <2>2, AloneStep
<1>4. QED  BY <1>2, <1>3, Cases

\* As long as no calls overlap, readers included, and none crashes or fails, the cached
\* transaction is the row whenever no call is in flight, but after an expired OTP. (A
\* reader that overlaps a writer may cache the row it read before.)
THEOREM NoOverlapKeepsCacheTrue == Spec /\ []NoOverlap => []CacheCoherentBetweenCalls
<1>1. Init => CachedInv  BY DEF Init, CachedInv
<1>2. ASSUME TInv, CachedInv  PROVE CacheCoherentBetweenCalls
  <2> SUFFICES ASSUME faults = {}, InFlight(Pc \ {"idle"}) = {}, ~Expired
               PROVE  cache \in {NoTxn, row}
    BY DEF CacheCoherentBetweenCalls, Expired
  <2>1. \A r \in Req : pc[r] = "idle"  BY <1>2 DEF InFlight, TInv, TypeOK
  <2>2. QED  BY <1>2, <2>1 DEF CachedInv, Invalidating
<1>3. TInv /\ [Next]_vars => TInv'  BY Cases, TypeStep, TypeEnv
<1>4. TInv /\ CachedInv /\ NoOverlap /\ NoOverlap' /\ [Next]_vars => (TInv /\ CachedInv)'
  BY <1>3, CacheNoOverlapStep
<1>5. QED  BY TypeInit, <1>1, <1>2, <1>4, PTL DEF Spec

\* So it is for the requests of a client that has one slot (the payments_serial run).
THEOREM CacheTrueBetweenCalls ==
  ASSUME NEW r, Req = {r}
  PROVE  Spec => []CacheCoherentBetweenCalls
<1>1. NoOverlap  BY OneSlotIsSerial
<1>2. QED  BY <1>1, NoOverlapKeepsCacheTrue, PTL

===============================================================================
