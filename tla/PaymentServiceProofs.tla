------------------------- MODULE PaymentServiceProofs -------------------------
(***************************************************************************)
(* Theorems about PaymentService for every set of requests, every set of   *)
(* operations and faults, and every bound.                                 *)
(***************************************************************************)
EXTENDS PaymentService, FiniteSetTheorems, TLAPS

(* The checks a handler made before its awaits still hold of its own locals. *)
Admitted(r) ==
  /\ pc[r] \in {"otpGet", "otpDel", "otpExpired", "authCommit"}
        => snap[r].status = "INITIATED"
  /\ pc[r] = "procStart" => snap[r].status = "AUTHENTICATED"
  /\ pc[r] = "procFinish" => bankResult[r] \in {"SUCCESS", "FAILED"}
  /\ pc[r] = "reconCommit" => snap[r].status = "SUCCESS"
  /\ pc[r] \in {"retryLog", "retryCommit"}
        => snap[r].status = "FAILED" /\ snap[r].retryCount < MaxAttempts
  /\ pc[r] = "getFill" => snap[r] \in Txn

TInv == TypeOK /\ \A r \in Req : Admitted(r)

-------------------------------------------------------------------------------
(* What the shared steps do. *)

\* A validated transition is an edge of the table.
LEMMA Validated ==
  ASSUME NEW from \in TransactionStatus, NEW to \in TransactionStatus,
         validateTransition(from, to) = "OK"
  PROVE  canTransition(from, to)
BY DEF validateTransition, canTransition

\* The one status from which each handler may start.
LEMMA Sources ==
  ASSUME NEW s \in TransactionStatus
  PROVE  /\ validateTransition(s, "AUTHENTICATED") = "OK" <=> s = "INITIATED"
         /\ validateTransition(s, "PROCESSING") = "OK" <=> s = "AUTHENTICATED"
         /\ validateTransition(s, "RECONCILED") = "OK" <=> s = "SUCCESS"
BY DEF validateTransition, TransactionStatus, VALID_TRANSITIONS, TERMINAL_STATES

\* transitionStatus keeps the row and the trail well typed, appends one entry
\* and leaves the older ones alone.
LEMMA TransitionAppends ==
  ASSUME row \in Txn, audit \in Seq(Entry),
         NEW from \in TransactionStatus, NEW to \in TransactionStatus,
         NEW attempt \in Nat, NEW ref \in BOOLEAN,
         transitionStatus(from, to, attempt, ref)
  PROVE  /\ row' \in Txn
         /\ row'.status = to
         /\ row'.retryCount = IF attempt > 0 THEN attempt ELSE row.retryCount
         /\ audit' \in Seq(Entry)
         /\ Len(audit') = Len(audit) + 1
         /\ \A i \in 1..Len(audit) : audit'[i] = audit[i]
         /\ audit'[Len(audit) + 1] = [from |-> from, to |-> to, attempt |-> attempt]
<1> DEFINE e == [from |-> from, to |-> to, attempt |-> attempt]
<1>1. e \in Entry  BY DEF Entry
<1>2. audit' = Append(audit, e)  BY DEF transitionStatus
<1>3. row' \in Txn /\ row'.status = to
      /\ row'.retryCount = IF attempt > 0 THEN attempt ELSE row.retryCount
  BY DEF transitionStatus, Updated, Txn
<1> HIDE DEF e
<1>4. /\ audit' \in Seq(Entry) /\ Len(audit') = Len(audit) + 1
      /\ \A i \in 1..Len(audit) : audit'[i] = audit[i]
      /\ audit'[Len(audit) + 1] = e
  BY <1>1, <1>2
<1>5. QED  BY <1>3, <1>4 DEF e

-------------------------------------------------------------------------------
(* Type correctness, with what the handlers know of their locals. *)

\* Initially nothing is in flight and every variable has its type.
LEMMA TypeInit == Init => TInv
<1> SUFFICES ASSUME Init PROVE TInv  OBVIOUS
<1>1. row \in Txn  BY DEF Init, StoreInit, Txn, TransactionStatus
<1>2. audit \in Seq(Entry) /\ retryLog \subseteq Nat  BY DEF Init, StoreInit
<1>3. dispatched \in [Event -> Nat]  BY DEF Init
<1>4. pc \in [Req -> Pc] /\ snap \in [Req -> Txn \cup {NoTxn}]
      /\ bankResult \in [Req -> {"none", "SUCCESS", "FAILED"}]
  BY DEF Init, Pc
<1>5. \A r \in Req : Admitted(r)  BY DEF Init, Admitted
<1>6. QED  BY <1>1, <1>2, <1>3, <1>4, <1>5 DEF Init, TInv, TypeOK

\* A snapshot with a status is a transaction that was read.
LEMMA SnapshotRead ==
  ASSUME TInv, NEW r \in Req, snap[r].status # "NONE"
  PROVE  /\ snap[r] \in Txn
         /\ snap[r].status \in TransactionStatus
         /\ snap[r].retryCount \in Nat
BY DEF TInv, TypeOK, Txn, NoTxn

\* The row, as the table and the retry limit see it.
LEMMA StatusTyped ==
  ASSUME TInv
  PROVE  row.status \in TransactionStatus /\ row.retryCount \in Nat
BY DEF TInv, TypeOK, Txn

\* Every step of a request keeps the types and the admissions.
LEMMA TypeStep ==
  ASSUME TInv, UNCHANGED env, NEW r \in Req,
         Start(r) \/ Step(r) \/ Crash(r) \/ Fail(r)
  PROVE  TInv'
<1> USE DEF env, TInv, TypeOK, Admitted, Pc, AuthPcs, ProcPcs, ReconPcs, RetryPcs, GetPcs,
            At, Goto, Answer, Called
<1>1. CASE AuthRead(r)
  BY <1>1, StatusTyped, Sources DEF AuthRead, store
<1>2. CASE ProcLock(r)  BY <1>2 DEF ProcLock, store
<1>3. CASE ProcLockUnacked(r)  BY <1>3 DEF ProcLockUnacked, store
<1>4. CASE ReconRead(r)
  BY <1>4, StatusTyped, Sources DEF ReconRead, store
<1>5. CASE RetryRead(r)  BY <1>5 DEF RetryRead, store
<1>6. CASE GetMiss(r)  BY <1>6 DEF GetMiss, store
<1>7. CASE AuthOtpGet(r)  BY <1>7 DEF AuthOtpGet, store
<1>8. CASE AuthOtpDel(r)
  <2>1. CASE Goto(r, "authCommit") /\ UNCHANGED <<snap, bankResult>>
    BY <1>8, <2>1 DEF AuthOtpDel, store
  <2>2. CASE Answer(r)  BY <1>8, <2>2 DEF AuthOtpDel, store
  <2>3. QED  BY <1>8, <2>1, <2>2 DEF AuthOtpDel
<1>9. CASE AuthExpire(r)
  <2>1. transitionStatus(snap[r].status, "FAILED", 0, FALSE)  BY <1>9 DEF AuthExpire
  <2>2. snap[r].status \in TransactionStatus
    BY <1>9, SnapshotRead DEF AuthExpire, TransactionStatus
  <2>3. row' \in Txn /\ audit' \in Seq(Entry)
    BY <2>1, <2>2, TransitionAppends DEF TransactionStatus
  <2>4. QED  BY <1>9, <2>3 DEF AuthExpire
<1>10. CASE AuthCommit(r)
  <2>1. transitionStatus(snap[r].status, "AUTHENTICATED", 0, FALSE)  BY <1>10 DEF AuthCommit
  <2>2. snap[r].status \in TransactionStatus
    BY <1>10, SnapshotRead DEF AuthCommit, TransactionStatus
  <2>3. row' \in Txn /\ audit' \in Seq(Entry)
    BY <2>1, <2>2, TransitionAppends DEF TransactionStatus
  <2>4. QED  BY <1>10, <2>3 DEF AuthCommit
<1>11. CASE AuthInval(r)  BY <1>11 DEF AuthInval, store
<1>12. CASE ProcRead(r)
  BY <1>12, StatusTyped, Sources DEF ProcRead, store
<1>13. CASE ProcStart(r)
  <2>1. transitionStatus(snap[r].status, "PROCESSING", 0, FALSE)  BY <1>13 DEF ProcStart
  <2>2. snap[r].status \in TransactionStatus
    BY <1>13, SnapshotRead DEF ProcStart, TransactionStatus
  <2>3. row' \in Txn /\ audit' \in Seq(Entry)
    BY <2>1, <2>2, TransitionAppends DEF TransactionStatus
  <2>4. QED  BY <1>13, <2>3 DEF ProcStart
<1>14. CASE ProcBank(r)  BY <1>14 DEF ProcBank, store
<1>15. CASE ProcFinish(r)
  <2>1. transitionStatus("PROCESSING", bankResult[r], 0, bankResult[r] = "SUCCESS")  BY <1>15 DEF ProcFinish
  <2>2. bankResult[r] \in TransactionStatus /\ (bankResult[r] = "SUCCESS") \in BOOLEAN
    BY <1>15 DEF ProcFinish, TransactionStatus
  <2>3. row' \in Txn /\ audit' \in Seq(Entry)
    BY <2>1, <2>2, TransitionAppends DEF TransactionStatus
  <2>4. QED  BY <1>15, <2>3 DEF ProcFinish
<1>16. CASE ProcInval(r)  BY <1>16 DEF ProcInval, dispatchWebhooks, Event, store
<1>17. CASE ProcRelease(r)  BY <1>17 DEF ProcRelease, store
<1>18. CASE ReconCommit(r)
  <2>1. transitionStatus(snap[r].status, "RECONCILED", 0, FALSE)  BY <1>18 DEF ReconCommit
  <2>2. snap[r].status \in TransactionStatus
    BY <1>18, SnapshotRead DEF ReconCommit, TransactionStatus
  <2>3. row' \in Txn /\ audit' \in Seq(Entry)
    BY <2>1, <2>2, TransitionAppends DEF TransactionStatus
  <2>4. QED  BY <1>18, <2>3 DEF ReconCommit
<1>19. CASE ReconInval(r)  BY <1>19 DEF ReconInval, dispatchWebhooks, Event, store
<1>20. CASE RetryLog(r)
  <2>1. snap[r].retryCount + 1 \in Nat  BY <1>20, SnapshotRead DEF RetryLog
  <2>2. retryLog' \subseteq Nat  BY <1>20, <2>1 DEF RetryLog
  <2>3. CASE UNCHANGED <<snap, bankResult>> /\ Goto(r, "retryCommit")
    BY <1>20, <2>2, <2>3 DEF RetryLog
  <2>4. CASE Answer(r)  BY <1>20, <2>2, <2>4 DEF RetryLog
  <2>5. QED  BY <1>20, <2>3, <2>4 DEF RetryLog
<1>21. CASE RetryCommit(r)
  <2>1. transitionStatus("FAILED", "INITIATED", snap[r].retryCount + 1, FALSE)  BY <1>21 DEF RetryCommit
  <2>2. snap[r].retryCount + 1 \in Nat
    BY <1>21, SnapshotRead DEF RetryCommit, TransactionStatus
  <2>3. row' \in Txn /\ audit' \in Seq(Entry)
    BY <2>1, <2>2, TransitionAppends DEF TransactionStatus
  <2>4. QED  BY <1>21, <2>3 DEF RetryCommit
<1>22. CASE RetryOtp(r)  BY <1>22 DEF RetryOtp, store
<1>23. CASE RetryInval(r)  BY <1>23 DEF RetryInval, store
<1>24. CASE GetRead(r)  BY <1>24 DEF GetRead, store
<1>25. CASE GetFill(r)  BY <1>25 DEF GetFill, store
<1>26. CASE Crash(r)  BY <1>26 DEF Crash, store
<1>27. CASE Fail(r)
  <2>1. CASE Goto(r, "procRelease") /\ UNCHANGED <<snap, bankResult>>
    BY <1>27, <2>1 DEF Fail, store
  <2>2. CASE Answer(r)  BY <1>27, <2>2 DEF Fail, store
  <2>3. QED  BY <1>27, <2>1, <2>2 DEF Fail
<1>28. QED
  BY <1>1, <1>2, <1>3, <1>4, <1>5, <1>6, <1>7, <1>8, <1>9, <1>10, <1>11, <1>12, <1>13, <1>14, <1>15, <1>16, <1>17, <1>18, <1>19, <1>20, <1>21, <1>22, <1>23, <1>24, <1>25, <1>26, <1>27 DEF Start, Step

\* What happens beside the requests: expiries, the end of initiatePayment, nothing.
Aside ==
  \/ (OtpExpire \/ CacheExpire \/ LockExpire) /\ UNCHANGED env
  \/ InitialOtp
  \/ UNCHANGED vars

\* A step of the specification is the step of a request or happens beside them.
LEMMA Cases ==
  ASSUME [Next]_vars
  PROVE  \/ Aside
         \/ UNCHANGED env /\ \E r \in Req : Start(r) \/ Step(r) \/ Crash(r) \/ Fail(r)
BY DEF Next, Quiescent, Aside

\* It touches neither the store, nor the debits and events, nor the handlers.
LEMMA AsideKeeps ==
  ASSUME Aside
  PROVE  UNCHANGED <<faults, store, charges, dispatched, pc, snap, bankResult>>
BY DEF Aside, OtpExpire, CacheExpire, LockExpire, InitialOtp, vars, env, store

\* So it keeps the types.
LEMMA TypeEnv ==
  ASSUME TInv, Aside
  PROVE  TInv'
BY DEF Aside, env, TInv, TypeOK, Admitted, OtpExpire, CacheExpire, LockExpire, InitialOtp,
       store, vars

LEMMA TypesAlways == Spec => []TInv
<1>1. TInv /\ [Next]_vars => TInv'
  BY Cases, TypeStep, TypeEnv
<1>2. QED  BY TypeInit, <1>1, PTL DEF Spec

\* Every variable keeps its type in every behaviour; in particular no handler
\* writes a status, a retry count or an audit entry outside the schema, whatever
\* races, crashes and failed calls happen.
THEOREM TypeCorrect == Spec => []TypeOK
<1>1. TInv => TypeOK  BY DEF TInv
<1>2. QED  BY TypesAlways, <1>1, PTL

-------------------------------------------------------------------------------
(* Legality of the trail. *)

\* A handler that is about to append an entry names a status the row has had.
Sourced(r) ==
  /\ pc[r] = "procStart" => Held("AUTHENTICATED", Len(audit))
  /\ pc[r] \in {"procBank", "procFinish"} => Held("PROCESSING", Len(audit))
  /\ pc[r] = "reconCommit" => Held("SUCCESS", Len(audit))
  /\ pc[r] \in {"retryLog", "retryCommit"} => Held("FAILED", Len(audit))

TrailInv ==
  /\ AuditEntriesLegal
  /\ Held(row.status, Len(audit))
  /\ \A r \in Req : Sourced(r)

\* Appending a legal entry from a status that was held keeps the trail legal and
\* everything that was held held.
LEMMA TrailExtends ==
  ASSUME row \in Txn, audit \in Seq(Entry), AuditEntriesLegal,
         NEW from \in TransactionStatus, NEW to \in TransactionStatus,
         NEW attempt \in Nat, NEW ref \in BOOLEAN,
         transitionStatus(from, to, attempt, ref),
         canTransition(from, to), Held(from, Len(audit))
  PROVE  /\ AuditEntriesLegal'
         /\ Held(to, Len(audit))'
         /\ Held(row.status, Len(audit))'
         /\ \A s \in TransactionStatus : Held(s, Len(audit)) => Held(s, Len(audit))'
<1>1. /\ row'.status = to
      /\ audit' \in Seq(Entry) /\ Len(audit') = Len(audit) + 1
      /\ \A i \in 1..Len(audit) : audit'[i] = audit[i]
      /\ audit'[Len(audit) + 1] = [from |-> from, to |-> to, attempt |-> attempt]
  BY TransitionAppends, SMTT(20)
<1>2. Len(audit) \in Nat  OBVIOUS
<1>3. ASSUME NEW s, NEW n \in 0..Len(audit), Held(s, n)
      PROVE  Held(s, n)'
  BY <1>1, <1>2, <1>3 DEF Held
<1>4. Held(to, Len(audit))'  BY <1>1, <1>2 DEF Held
<1>5. \A s \in TransactionStatus : Held(s, Len(audit)) => Held(s, Len(audit))'
  <2> SUFFICES ASSUME NEW s \in TransactionStatus, Held(s, Len(audit))
               PROVE  Held(s, Len(audit))'
    OBVIOUS
  <2>1. QED  BY <1>1, <1>2 DEF Held
<1>6. AuditEntriesLegal'
  <2>1. DOMAIN audit = 1..Len(audit) /\ DOMAIN audit' = 1..(Len(audit) + 1)
    BY <1>1
  <2>2. ASSUME NEW i \in 1..Len(audit)
        PROVE  /\ canTransition(audit[i].from, audit[i].to)'
               /\ Held(audit[i].from, i - 1)'
    <3>1. canTransition(audit[i].from, audit[i].to) /\ Held(audit[i].from, i - 1)
      BY <2>1 DEF AuditEntriesLegal
    <3>2. i - 1 \in 0..Len(audit) /\ audit'[i] = audit[i]  BY <1>1, <1>2
    <3>3. Held(audit[i].from, i - 1)'  BY <3>1, <3>2, <1>1, <1>2 DEF Held
    <3>4. QED  BY <3>1, <3>2, <3>3
  <2>3. ASSUME NEW i, i = Len(audit) + 1
        PROVE  /\ canTransition(audit[i].from, audit[i].to)'
               /\ Held(audit[i].from, i - 1)'
    <3>1. audit'[i].from = from /\ audit'[i].to = to /\ i - 1 = Len(audit)
      BY <2>3, <1>1, <1>2
    <3>2. Held(from, i - 1)'  BY <3>1, <1>1, <1>2 DEF Held
    <3>3. QED  BY <3>1, <3>2
  <2>4. QED  BY <2>1, <2>2, <2>3, <1>2 DEF AuditEntriesLegal
<1>7. QED  BY <1>1, <1>4, <1>5, <1>6

\* The trail starts empty.
LEMMA TrailInit == Init => TrailInv
BY DEF Init, StoreInit, TrailInv, AuditEntriesLegal, Held, Sourced

\* Every step of a request keeps the trail legal.
LEMMA TrailStep ==
  ASSUME TInv, TrailInv, NEW r \in Req, Start(r) \/ Step(r) \/ Crash(r) \/ Fail(r)
  PROVE  TrailInv'
<1> DEFINE Kept == /\ row' = row /\ audit' = audit
<1>1. pc \in [Req -> Pc] /\ row \in Txn /\ audit \in Seq(Entry)
      /\ snap \in [Req -> Txn \cup {NoTxn}]
  BY DEF TInv, TypeOK
<1>2. ASSUME Kept, \A q \in Req : Sourced(q)'
      PROVE  TrailInv'
  BY <1>2 DEF TrailInv, AuditEntriesLegal, Held
<1>3. CASE AuthRead(r)
  <2>1. Kept  BY <1>3 DEF AuthRead, store
  <2>2. \A q \in Req : Sourced(q)'
    BY <1>1, <1>3, <2>1 DEF AuthRead, TrailInv, Sourced, At, Goto, Answer, Held
  <2>3. QED  BY <1>2, <2>1, <2>2
<1>4. CASE ProcLock(r)
  <2>1. Kept  BY <1>4 DEF ProcLock, store
  <2>2. \A q \in Req : Sourced(q)'
    BY <1>1, <1>4, <2>1 DEF ProcLock, TrailInv, Sourced, At, Goto, Answer, Held
  <2>3. QED  BY <1>2, <2>1, <2>2
<1>5. CASE ProcLockUnacked(r)
  <2>1. Kept  BY <1>5 DEF ProcLockUnacked, store
  <2>2. \A q \in Req : Sourced(q)'
    BY <1>1, <1>5, <2>1 DEF ProcLockUnacked, TrailInv, Sourced, At, Goto, Answer, Held
  <2>3. QED  BY <1>2, <2>1, <2>2
<1>6. CASE ReconRead(r)
  <2>1. Kept  BY <1>6 DEF ReconRead, store
  <2>2. row.status = "SUCCESS"  BY <1>6, StatusTyped, Sources DEF ReconRead
  <2>3. \A q \in Req : Sourced(q)'
    BY <1>1, <1>6, <2>1, <2>2 DEF ReconRead, TrailInv, Sourced, Goto, Held
  <2>4. QED  BY <1>2, <2>1, <2>3
<1>7. CASE RetryRead(r)
  <2>1. Kept  BY <1>7 DEF RetryRead, store
  <2>2. row.status = "FAILED"  BY <1>7 DEF RetryRead
  <2>3. \A q \in Req : Sourced(q)'
    BY <1>1, <1>7, <2>1, <2>2 DEF RetryRead, TrailInv, Sourced, Goto, Held
  <2>4. QED  BY <1>2, <2>1, <2>3
<1>8. CASE GetMiss(r)
  <2>1. Kept  BY <1>8 DEF GetMiss, store
  <2>2. \A q \in Req : Sourced(q)'
    BY <1>1, <1>8, <2>1 DEF GetMiss, TrailInv, Sourced, At, Goto, Answer, Held
  <2>3. QED  BY <1>2, <2>1, <2>2
<1>9. CASE AuthOtpGet(r)
  <2>1. Kept  BY <1>9 DEF AuthOtpGet, store
  <2>2. \A q \in Req : Sourced(q)'
    BY <1>1, <1>9, <2>1 DEF AuthOtpGet, TrailInv, Sourced, At, Goto, Answer, Held
  <2>3. QED  BY <1>2, <2>1, <2>2
<1>10. CASE AuthOtpDel(r)
  <2>1. Kept  BY <1>10 DEF AuthOtpDel, store
  <2>2. \A q \in Req : Sourced(q)'
    BY <1>1, <1>10, <2>1 DEF AuthOtpDel, TrailInv, Sourced, At, Goto, Answer, Held
  <2>3. QED  BY <1>2, <2>1, <2>2
<1>11. CASE AuthExpire(r)
  <2>1. transitionStatus(snap[r].status, "FAILED", 0, FALSE)  BY <1>11 DEF AuthExpire
  <2>2. snap[r].status = "INITIATED" /\ Held("INITIATED", Len(audit))
    BY <1>11 DEF AuthExpire, At, TInv, Admitted, TrailInv, Sourced, Held
  <2>3. canTransition(snap[r].status, "FAILED")
    BY <2>2 DEF canTransition, VALID_TRANSITIONS, TERMINAL_STATES
  <2>4. /\ AuditEntriesLegal'
        /\ Held("FAILED", Len(audit))'
        /\ Held(row.status, Len(audit))'
        /\ \A s \in TransactionStatus : Held(s, Len(audit)) => Held(s, Len(audit))'
    BY <1>1, <2>1, <2>2, <2>3, TrailExtends DEF TrailInv, TransactionStatus
  <2>5. \A q \in Req : Sourced(q)'
    BY <1>1, <1>11, <2>4 DEF AuthExpire, TrailInv, Sourced, Goto, Answer, TransactionStatus
  <2>6. QED  BY <2>4, <2>5 DEF TrailInv
<1>12. CASE AuthCommit(r)
  <2>1. transitionStatus(snap[r].status, "AUTHENTICATED", 0, FALSE)  BY <1>12 DEF AuthCommit
  <2>2. snap[r].status = "INITIATED" /\ Held("INITIATED", Len(audit))
    BY <1>12 DEF AuthCommit, At, TInv, Admitted, TrailInv, Sourced, Held
  <2>3. canTransition(snap[r].status, "AUTHENTICATED")
    BY <2>2 DEF canTransition, VALID_TRANSITIONS, TERMINAL_STATES
  <2>4. /\ AuditEntriesLegal'
        /\ Held("AUTHENTICATED", Len(audit))'
        /\ Held(row.status, Len(audit))'
        /\ \A s \in TransactionStatus : Held(s, Len(audit)) => Held(s, Len(audit))'
    BY <1>1, <2>1, <2>2, <2>3, TrailExtends DEF TrailInv, TransactionStatus
  <2>5. \A q \in Req : Sourced(q)'
    BY <1>1, <1>12, <2>4 DEF AuthCommit, TrailInv, Sourced, Goto, Answer, TransactionStatus
  <2>6. QED  BY <2>4, <2>5 DEF TrailInv
<1>13. CASE AuthInval(r)
  <2>1. Kept  BY <1>13 DEF AuthInval, store
  <2>2. \A q \in Req : Sourced(q)'
    BY <1>1, <1>13, <2>1 DEF AuthInval, TrailInv, Sourced, At, Goto, Answer, Held
  <2>3. QED  BY <1>2, <2>1, <2>2
<1>14. CASE ProcRead(r)
  <2>1. Kept  BY <1>14 DEF ProcRead, store
  <2>2. pc'[r] = "procStart" => row.status = "AUTHENTICATED"
    BY <1>1, <1>14, StatusTyped, Sources DEF ProcRead, Goto
  <2>3. \A q \in Req : Sourced(q)'
    BY <1>1, <1>14, <2>1, <2>2 DEF ProcRead, TrailInv, Sourced, Goto, Held
  <2>4. QED  BY <1>2, <2>1, <2>3
<1>15. CASE ProcStart(r)
  <2>1. transitionStatus(snap[r].status, "PROCESSING", 0, FALSE)  BY <1>15 DEF ProcStart
  <2>2. snap[r].status = "AUTHENTICATED" /\ Held("AUTHENTICATED", Len(audit))
    BY <1>15 DEF ProcStart, At, TInv, Admitted, TrailInv, Sourced, Held
  <2>3. canTransition(snap[r].status, "PROCESSING")
    BY <2>2 DEF canTransition, VALID_TRANSITIONS, TERMINAL_STATES
  <2>4. /\ AuditEntriesLegal'
        /\ Held("PROCESSING", Len(audit))'
        /\ Held(row.status, Len(audit))'
        /\ \A s \in TransactionStatus : Held(s, Len(audit)) => Held(s, Len(audit))'
    BY <1>1, <2>1, <2>2, <2>3, TrailExtends DEF TrailInv, TransactionStatus
  <2>5. \A q \in Req : Sourced(q)'
    BY <1>1, <1>15, <2>4 DEF ProcStart, TrailInv, Sourced, Goto, Answer, TransactionStatus
  <2>6. QED  BY <2>4, <2>5 DEF TrailInv
<1>16. CASE ProcBank(r)
  <2>1. Kept  BY <1>16 DEF ProcBank, store
  <2>2. \A q \in Req : Sourced(q)'
    BY <1>1, <1>16, <2>1 DEF ProcBank, TrailInv, Sourced, At, Goto, Answer, Held
  <2>3. QED  BY <1>2, <2>1, <2>2
<1>17. CASE ProcFinish(r)
  <2>1. transitionStatus("PROCESSING", bankResult[r], 0, bankResult[r] = "SUCCESS")  BY <1>17 DEF ProcFinish
  <2>2. bankResult[r] \in {"SUCCESS", "FAILED"} /\ Held("PROCESSING", Len(audit))
    BY <1>17 DEF ProcFinish, At, TInv, Admitted, TrailInv, Sourced
  <2>3. canTransition("PROCESSING", bankResult[r])
    BY <2>2 DEF canTransition, VALID_TRANSITIONS, TERMINAL_STATES
  <2>4. /\ AuditEntriesLegal'
        /\ Held(row.status, Len(audit))'
        /\ \A s \in TransactionStatus : Held(s, Len(audit)) => Held(s, Len(audit))'
    <3>1. PICK ref \in BOOLEAN : transitionStatus("PROCESSING", bankResult[r], 0, ref)
      BY <2>1
    <3>2. bankResult[r] \in TransactionStatus /\ "PROCESSING" \in TransactionStatus
      BY <2>2 DEF TransactionStatus
    <3>3. QED  BY <1>1, <2>2, <2>3, <3>1, <3>2, TrailExtends DEF TrailInv
  <2>5. \A q \in Req : Sourced(q)'
    BY <1>1, <1>17, <2>4 DEF ProcFinish, TrailInv, Sourced, Goto, Answer, TransactionStatus
  <2>6. QED  BY <2>4, <2>5 DEF TrailInv
<1>18. CASE ProcInval(r)
  <2>1. Kept  BY <1>18 DEF ProcInval, store
  <2>2. \A q \in Req : Sourced(q)'
    BY <1>1, <1>18, <2>1 DEF ProcInval, TrailInv, Sourced, At, Goto, Answer, Held
  <2>3. QED  BY <1>2, <2>1, <2>2
<1>19. CASE ProcRelease(r)
  <2>1. Kept  BY <1>19 DEF ProcRelease, store
  <2>2. \A q \in Req : Sourced(q)'
    BY <1>1, <1>19, <2>1 DEF ProcRelease, TrailInv, Sourced, At, Goto, Answer, Held
  <2>3. QED  BY <1>2, <2>1, <2>2
<1>20. CASE ReconCommit(r)
  <2>1. transitionStatus(snap[r].status, "RECONCILED", 0, FALSE)  BY <1>20 DEF ReconCommit
  <2>2. snap[r].status = "SUCCESS" /\ Held("SUCCESS", Len(audit))
    BY <1>20 DEF ReconCommit, At, TInv, Admitted, TrailInv, Sourced, Held
  <2>3. canTransition(snap[r].status, "RECONCILED")
    BY <2>2 DEF canTransition, VALID_TRANSITIONS, TERMINAL_STATES
  <2>4. /\ AuditEntriesLegal'
        /\ Held("RECONCILED", Len(audit))'
        /\ Held(row.status, Len(audit))'
        /\ \A s \in TransactionStatus : Held(s, Len(audit)) => Held(s, Len(audit))'
    BY <1>1, <2>1, <2>2, <2>3, TrailExtends DEF TrailInv, TransactionStatus
  <2>5. \A q \in Req : Sourced(q)'
    BY <1>1, <1>20, <2>4 DEF ReconCommit, TrailInv, Sourced, Goto, Answer, TransactionStatus
  <2>6. QED  BY <2>4, <2>5 DEF TrailInv
<1>21. CASE ReconInval(r)
  <2>1. Kept  BY <1>21 DEF ReconInval, store
  <2>2. \A q \in Req : Sourced(q)'
    BY <1>1, <1>21, <2>1 DEF ReconInval, TrailInv, Sourced, At, Goto, Answer, Held
  <2>3. QED  BY <1>2, <2>1, <2>2
<1>22. CASE RetryLog(r)
  <2>1. Kept  BY <1>22 DEF RetryLog, store
  <2>2. \A q \in Req : Sourced(q)'
    BY <1>1, <1>22, <2>1 DEF RetryLog, TrailInv, Sourced, At, Goto, Answer, Held
  <2>3. QED  BY <1>2, <2>1, <2>2
<1>23. CASE RetryCommit(r)
  <2> DEFINE n == snap[r].retryCount + 1
  <2>0. n \in Nat  BY <1>23, SnapshotRead DEF RetryCommit, At, TInv, Admitted
  <2>1. PICK attempt \in Nat : transitionStatus("FAILED", "INITIATED", attempt, FALSE)
    <3>1. transitionStatus("FAILED", "INITIATED", n, FALSE)  BY <1>23 DEF RetryCommit
    <3> HIDE DEF n
    <3>2. QED  BY <2>0, <3>1
  <2>2. Held("FAILED", Len(audit))
    BY <1>23 DEF RetryCommit, At, TrailInv, Sourced
  <2>3. canTransition("FAILED", "INITIATED")
    BY DEF canTransition, VALID_TRANSITIONS, TERMINAL_STATES
  <2>4. /\ AuditEntriesLegal'
        /\ Held("INITIATED", Len(audit))'
        /\ Held(row.status, Len(audit))'
        /\ \A s \in TransactionStatus : Held(s, Len(audit)) => Held(s, Len(audit))'
    BY <1>1, <2>1, <2>2, <2>3, TrailExtends DEF TrailInv, TransactionStatus
  <2>5. \A q \in Req : Sourced(q)'
    BY <1>1, <1>23, <2>4 DEF RetryCommit, TrailInv, Sourced, Goto, Answer, TransactionStatus
  <2>6. QED  BY <2>4, <2>5 DEF TrailInv
<1>24. CASE RetryOtp(r)
  <2>1. Kept  BY <1>24 DEF RetryOtp, store
  <2>2. \A q \in Req : Sourced(q)'
    BY <1>1, <1>24, <2>1 DEF RetryOtp, TrailInv, Sourced, At, Goto, Answer, Held
  <2>3. QED  BY <1>2, <2>1, <2>2
<1>25. CASE RetryInval(r)
  <2>1. Kept  BY <1>25 DEF RetryInval, store
  <2>2. \A q \in Req : Sourced(q)'
    BY <1>1, <1>25, <2>1 DEF RetryInval, TrailInv, Sourced, At, Goto, Answer, Held
  <2>3. QED  BY <1>2, <2>1, <2>2
<1>26. CASE GetRead(r)
  <2>1. Kept  BY <1>26 DEF GetRead, store
  <2>2. \A q \in Req : Sourced(q)'
    BY <1>1, <1>26, <2>1 DEF GetRead, TrailInv, Sourced, At, Goto, Answer, Held
  <2>3. QED  BY <1>2, <2>1, <2>2
<1>27. CASE GetFill(r)
  <2>1. Kept  BY <1>27 DEF GetFill, store
  <2>2. \A q \in Req : Sourced(q)'
    BY <1>1, <1>27, <2>1 DEF GetFill, TrailInv, Sourced, At, Goto, Answer, Held
  <2>3. QED  BY <1>2, <2>1, <2>2
<1>28. CASE Crash(r)
  <2>1. Kept  BY <1>28 DEF Crash, store
  <2>2. \A q \in Req : Sourced(q)'
    BY <1>1, <1>28, <2>1 DEF Crash, TrailInv, Sourced, At, Goto, Answer, Held
  <2>3. QED  BY <1>2, <2>1, <2>2
<1>29. CASE Fail(r)
  <2>1. Kept  BY <1>29 DEF Fail, store
  <2>2. \A q \in Req : Sourced(q)'
    BY <1>1, <1>29, <2>1 DEF Fail, TrailInv, Sourced, At, Goto, Answer, Held
  <2>3. QED  BY <1>2, <2>1, <2>2
<1>30. QED
  BY <1>3, <1>4, <1>5, <1>6, <1>7, <1>8, <1>9, <1>10, <1>11, <1>12, <1>13, <1>14, <1>15, <1>16, <1>17, <1>18, <1>19, <1>20, <1>21, <1>22, <1>23, <1>24, <1>25, <1>26, <1>27, <1>28, <1>29 DEF Start, Step

\* The expiries touch neither the row, nor its trail, nor the handlers.
LEMMA TrailEnv ==
  ASSUME TrailInv, Aside
  PROVE  TrailInv'
<1>1. UNCHANGED <<row, audit, pc>>  BY AsideKeeps DEF store
<1>2. QED  BY <1>1 DEF TrailInv, AuditEntriesLegal, Sourced, Held

\* Whatever handlers race, crash or fail, and however slow they are against the
\* lock, every entry of the trail is a transition of the table taken from a status
\* the row really had before: the checks made on a stale read never let an entry
\* into the trail that the table forbids.
THEOREM TrailLegal == Spec => []AuditEntriesLegal
<1>1. TInv /\ TrailInv /\ [Next]_vars => (TInv /\ TrailInv)'
  BY Cases, TypeStep, TypeEnv, TrailStep, TrailEnv
<1>2. TrailInv => AuditEntriesLegal  BY DEF TrailInv
<1>3. QED  BY TypeInit, TrailInit, <1>1, <1>2, PTL DEF Spec

-------------------------------------------------------------------------------
(* The process lock. *)

LockInv ==
  "slow" \notin faults =>
     /\ \A r, q \in Req : pc[r] \in ProcPcs /\ pc[q] \in ProcPcs => r = q
     /\ \A r \in Req : pc[r] \in ProcPcs => lock

\* Only ProcLock brings a request into the critical section, and only ProcRelease
\* frees the lock while one is inside.
LEMMA LockStep ==
  ASSUME TInv, LockInv, UNCHANGED env, NEW r \in Req,
         Start(r) \/ Step(r) \/ Crash(r) \/ Fail(r)
  PROVE  LockInv'
<1> USE DEF env, LockInv, ProcPcs, At, Goto, Answer, Called
<1> pc \in [Req -> Pc]  BY DEF TInv, TypeOK
<1>1. CASE AuthRead(r)  BY <1>1 DEF AuthRead
<1>2. CASE ProcLock(r)  BY <1>2 DEF ProcLock
<1>3. CASE ProcLockUnacked(r)  BY <1>3 DEF ProcLockUnacked
<1>4. CASE ReconRead(r)  BY <1>4 DEF ReconRead
<1>5. CASE RetryRead(r)  BY <1>5 DEF RetryRead
<1>6. CASE GetMiss(r)  BY <1>6 DEF GetMiss
<1>7. CASE AuthOtpGet(r)  BY <1>7 DEF AuthOtpGet
<1>8. CASE AuthOtpDel(r)  BY <1>8 DEF AuthOtpDel
<1>9. CASE AuthExpire(r)  BY <1>9 DEF AuthExpire
<1>10. CASE AuthCommit(r)  BY <1>10 DEF AuthCommit
<1>11. CASE AuthInval(r)  BY <1>11 DEF AuthInval
<1>12. CASE ProcRead(r)  BY <1>12 DEF ProcRead
<1>13. CASE ProcStart(r)  BY <1>13 DEF ProcStart
<1>14. CASE ProcBank(r)  BY <1>14 DEF ProcBank
<1>15. CASE ProcFinish(r)  BY <1>15 DEF ProcFinish
<1>16. CASE ProcInval(r)  BY <1>16 DEF ProcInval
<1>17. CASE ProcRelease(r)  BY <1>17 DEF ProcRelease
<1>18. CASE ReconCommit(r)  BY <1>18 DEF ReconCommit
<1>19. CASE ReconInval(r)  BY <1>19 DEF ReconInval
<1>20. CASE RetryLog(r)  BY <1>20 DEF RetryLog
<1>21. CASE RetryCommit(r)  BY <1>21 DEF RetryCommit
<1>22. CASE RetryOtp(r)  BY <1>22 DEF RetryOtp
<1>23. CASE RetryInval(r)  BY <1>23 DEF RetryInval
<1>24. CASE GetRead(r)  BY <1>24 DEF GetRead
<1>25. CASE GetFill(r)  BY <1>25 DEF GetFill
<1>26. CASE Crash(r)  BY <1>26 DEF Crash
<1>27. CASE Fail(r)  BY <1>27 DEF Fail
<1>28. QED
  BY <1>1, <1>2, <1>3, <1>4, <1>5, <1>6, <1>7, <1>8, <1>9, <1>10, <1>11, <1>12, <1>13, <1>14, <1>15, <1>16, <1>17, <1>18, <1>19, <1>20, <1>21, <1>22, <1>23, <1>24, <1>25, <1>26, <1>27 DEF Start, Step

\* If handlers finish within the TTL of the lock they hold, at most one request is
\* inside processPayment's critical section, for any number of requests and
\* whatever crashes, fails or loses its acknowledgement.
THEOREM LockExcludes == Spec => []OneProcessor
<1>1. Init => LockInv  BY DEF Init, LockInv, ProcPcs
<1>2. ASSUME LockInv, Aside
      PROVE  LockInv'
  BY <1>2 DEF LockInv, Aside, env, OtpExpire, CacheExpire, LockExpire, InitialOtp, vars
<1>3. TInv /\ LockInv /\ [Next]_vars => (TInv /\ LockInv)'
  BY <1>2, Cases, TypeStep, TypeEnv, LockStep
<1>4. LockInv => OneProcessor
  <2> SUFFICES ASSUME LockInv, "slow" \notin faults PROVE OneProcessor
    BY DEF OneProcessor
  <2> DEFINE S == InFlight(ProcPcs)
  <2>1. S # {} => lock  BY DEF LockInv, InFlight
  <2>2. CASE S = {}  BY <2>1, <2>2, FS_EmptySet DEF OneProcessor
  <2>3. CASE S # {}
    <3>1. PICK r \in S : TRUE  BY <2>3
    <3>2. S = {r}  BY <3>1 DEF LockInv, InFlight
    <3>3. Cardinality(S) = 1  BY <3>2, FS_Singleton
    <3>4. QED  BY <2>1, <3>3 DEF OneProcessor
  <2>4. QED  BY <2>2, <2>3
<1>5. QED  BY TypeInit, <1>1, <1>3, <1>4, PTL DEF Spec

-------------------------------------------------------------------------------
(* Orphans. *)

\* No request can be admitted on a frozen row.
LEMMA FrozenStep ==
  ASSUME TInv, Frozen, NEW r \in Req, Start(r) \/ Step(r) \/ Crash(r) \/ Fail(r)
  PROVE  Frozen'
<1> DEFINE W == {"otpGet", "otpDel", "otpExpired", "authCommit", "procStart",
                 "procBank", "procFinish", "reconCommit", "retryLog", "retryCommit"}
<1>1. /\ row.status \in {"RECONCILED", "PROCESSING"}
      /\ \A q \in Req : pc[q] \notin W
  BY DEF Frozen, InFlight
<1>2. pc \in [Req -> Pc]  BY DEF TInv, TypeOK
<1>3. ASSUME row' = row, \A q \in Req : pc'[q] \notin W
      PROVE  Frozen'
  BY <1>1, <1>3 DEF Frozen, InFlight
<1>4. CASE AuthRead(r)
  BY <1>1, <1>2, <1>3, <1>4, StatusTyped, Sources DEF AuthRead, At, Goto, Answer, store
<1>5. CASE ProcLock(r)
  BY <1>1, <1>2, <1>3, <1>5 DEF ProcLock, At, Goto, Answer, store
<1>6. CASE ProcLockUnacked(r)
  BY <1>1, <1>2, <1>3, <1>6 DEF ProcLockUnacked, At, Goto, Answer, store
<1>7. CASE ReconRead(r)
  BY <1>1, <1>2, <1>3, <1>7, StatusTyped, Sources DEF ReconRead, At, Goto, Answer, store
<1>8. CASE RetryRead(r)
  BY <1>1, <1>2, <1>3, <1>8 DEF RetryRead, At, Goto, Answer, store
<1>9. CASE GetMiss(r)
  BY <1>1, <1>2, <1>3, <1>9 DEF GetMiss, At, Goto, Answer, store
<1>10. CASE AuthOtpGet(r)
  BY <1>1, <1>2, <1>3, <1>10 DEF AuthOtpGet, At, Goto, Answer, store
<1>11. CASE AuthOtpDel(r)
  BY <1>1, <1>2, <1>3, <1>11 DEF AuthOtpDel, At, Goto, Answer, store
<1>12. CASE AuthExpire(r)
  BY <1>1, <1>2, <1>3, <1>12 DEF AuthExpire, At, Goto, Answer, store
<1>13. CASE AuthCommit(r)
  BY <1>1, <1>2, <1>3, <1>13 DEF AuthCommit, At, Goto, Answer, store
<1>14. CASE AuthInval(r)
  BY <1>1, <1>2, <1>3, <1>14 DEF AuthInval, At, Goto, Answer, store
<1>15. CASE ProcRead(r)
  BY <1>1, <1>2, <1>3, <1>15, StatusTyped, Sources DEF ProcRead, At, Goto, Answer, store
<1>16. CASE ProcStart(r)
  BY <1>1, <1>2, <1>3, <1>16 DEF ProcStart, At, Goto, Answer, store
<1>17. CASE ProcBank(r)
  BY <1>1, <1>2, <1>3, <1>17 DEF ProcBank, At, Goto, Answer, store
<1>18. CASE ProcFinish(r)
  BY <1>1, <1>2, <1>3, <1>18 DEF ProcFinish, At, Goto, Answer, store
<1>19. CASE ProcInval(r)
  BY <1>1, <1>2, <1>3, <1>19 DEF ProcInval, At, Goto, Answer, store
<1>20. CASE ProcRelease(r)
  BY <1>1, <1>2, <1>3, <1>20 DEF ProcRelease, At, Goto, Answer, store
<1>21. CASE ReconCommit(r)
  BY <1>1, <1>2, <1>3, <1>21 DEF ReconCommit, At, Goto, Answer, store
<1>22. CASE ReconInval(r)
  BY <1>1, <1>2, <1>3, <1>22 DEF ReconInval, At, Goto, Answer, store
<1>23. CASE RetryLog(r)
  BY <1>1, <1>2, <1>3, <1>23 DEF RetryLog, At, Goto, Answer, store
<1>24. CASE RetryCommit(r)
  BY <1>1, <1>2, <1>3, <1>24 DEF RetryCommit, At, Goto, Answer, store
<1>25. CASE RetryOtp(r)
  BY <1>1, <1>2, <1>3, <1>25 DEF RetryOtp, At, Goto, Answer, store
<1>26. CASE RetryInval(r)
  BY <1>1, <1>2, <1>3, <1>26 DEF RetryInval, At, Goto, Answer, store
<1>27. CASE GetRead(r)
  BY <1>1, <1>2, <1>3, <1>27 DEF GetRead, At, Goto, Answer, store
<1>28. CASE GetFill(r)
  BY <1>1, <1>2, <1>3, <1>28 DEF GetFill, At, Goto, Answer, store
<1>29. CASE Crash(r)
  BY <1>1, <1>2, <1>3, <1>29 DEF Crash, At, Goto, Answer, store
<1>30. CASE Fail(r)
  BY <1>1, <1>2, <1>3, <1>30 DEF Fail, At, Goto, Answer, store
<1>31. QED
  BY <1>4, <1>5, <1>6, <1>7, <1>8, <1>9, <1>10, <1>11, <1>12, <1>13, <1>14, <1>15, <1>16, <1>17, <1>18, <1>19, <1>20, <1>21, <1>22, <1>23, <1>24, <1>25, <1>26, <1>27, <1>28, <1>29, <1>30 DEF Start, Step

\* A PROCESSING or RECONCILED row with no admitted writer in flight never changes
\* again, for any number of requests and all faults: a payment orphaned while
\* PROCESSING has no way out through any operation of the service.
THEOREM OrphanForever == Spec => FrozenForGood
<1>1. ASSUME Frozen, Aside
      PROVE  Frozen'
  BY <1>1, AsideKeeps DEF Frozen, InFlight, store
<1>2. TInv /\ [Next]_vars => TInv'
  BY Cases, TypeStep, TypeEnv
<1>3. TInv /\ [Next]_vars => [Frozen => Frozen']_vars
  BY <1>1, Cases, FrozenStep
<1>4. QED  BY TypeInit, <1>2, <1>3, PTL DEF Spec, FrozenForGood

===============================================================================
