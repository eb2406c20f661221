----------------------------- MODULE CheckoutProofs -----------------------------
(***************************************************************************)
(* Theorems about Checkout for every set of tries, slots, faults and every *)
(* limit: it is made of behaviours of InitiatePayment and PaymentService,  *)
(* so that what is proved of these two holds of it.                        *)
(***************************************************************************)
EXTENDS Checkout, InitiatePaymentProofs

\* A step of the tries under the key.
TrySteps ==
  \E t \in Req : Initiate(t) \/ Try(t) \/ TryBreaks(t) \/ HearTry(t)

\* A step that leaves initiatePayment and the key alone.
SlotSteps(r) ==
  Authenticate(r) \/ Process(r) \/ Reconcile(r) \/ Retry(r) \/ Look(r) \/ Serve(r)
    \/ ServeBreaks(r) \/ OrphanEnds(r) \/ Hear(r)

\* The client's own steps, and time.
Rests == Abandon \/ IdemExpires \/ OtpExpires \/ CacheExpires \/ LockExpires \/ Rest

\* What a step can be.
LEMMA CheckoutCases ==
  ASSUME CheckoutNext
  PROVE  TrySteps \/ (\E r \in Slots : SlotSteps(r)) \/ Rests
BY DEF CheckoutNext, TrySteps, SlotSteps, Rests, Act

-------------------------------------------------------------------------------
(* The tries under the key. *)

\* A slot's step leaves the tries alone.
LEMMA SlotKeepsTries ==
  ASSUME NEW r \in Slots, SlotSteps(r)
  PROVE  UNCHANGED initiate
BY DEF SlotSteps, Authenticate, Process, Reconcile, Retry, Look, Serve, ServeBreaks,
       OrphanEnds, Hear, Sends

\* A step of a try, and the expiry of its key, are steps of InitiatePayment.
LEMMA TryIsStep ==
  ASSUME NEW t \in Req, Initiate(t) \/ Try(t) \/ TryBreaks(t) \/ HearTry(t)
  PROVE  [Next]_vars
<1>1. CASE Initiate(t)   BY <1>1 DEF Initiate, Next
<1>2. CASE Try(t)        BY <1>2 DEF Try, Next
<1>3. CASE TryBreaks(t)  BY <1>3 DEF TryBreaks, Next
<1>4. CASE HearTry(t)    BY <1>4 DEF HearTry, initiate
<1>5. QED  BY <1>1, <1>2, <1>3, <1>4

LEMMA RestIsStep ==
  ASSUME Rests
  PROVE  [Next]_vars
<1>1. CASE Abandon       BY <1>1 DEF Abandon, initiate
<1>2. CASE IdemExpires   BY <1>2 DEF IdemExpires, Next
<1>3. CASE OtpExpires    BY <1>3 DEF OtpExpires, initiate
<1>4. CASE CacheExpires  BY <1>4 DEF CacheExpires, initiate
<1>5. CASE LockExpires   BY <1>5 DEF LockExpires, initiate
<1>6. CASE Rest          BY <1>6 DEF Rest, all, initiate
<1>7. QED  BY <1>1, <1>2, <1>3, <1>4, <1>5, <1>6 DEF Rests

LEMMA InitiateStep == [CheckoutNext]_all => [Next]_vars
<1>1. CASE UNCHANGED all  BY <1>1 DEF all, initiate
<1>2. ASSUME CheckoutNext  PROVE [Next]_vars
  <2>1. CASE TrySteps  BY <2>1, TryIsStep DEF TrySteps
  <2>2. CASE \E r \in Slots : SlotSteps(r)  BY <2>2, SlotKeepsTries DEF initiate
  <2>3. CASE Rests  BY <2>3, RestIsStep
  <2>4. QED  BY <1>2, <2>1, <2>2, <2>3, CheckoutCases
<1>3. QED  BY <1>1, <1>2

\* The tries of a client that also pays are tries as InitiatePayment describes them:
\* its theorems (one transaction, one OTP, no OTP in the cache) hold of Checkout.
THEOREM CheckoutInitiates == CheckoutSpec => Spec
<1>1. CheckoutInit => Init  BY DEF CheckoutInit
<1>2. QED  BY <1>1, InitiateStep, PTL DEF CheckoutSpec, Spec

-------------------------------------------------------------------------------
(* The service and its environment. *)

\* The answer of a try is cached after it was sent.
LateWrites == \A t \in Req : cacheWrite[t] # "none" => pc[t] = "done"

LEMMA WritesAreLate == Spec => [](IInv /\ LateWrites)
<1>1. Init => LateWrites  BY DEF Init, LateWrites
<1>2. ASSUME IInv, LateWrites, NEW t \in Req,
             \/ Middleware(t) \/ SvcGet(t) \/ Find(t) \/ Create(t) \/ StoreOtp(t)
             \/ SvcSet(t) \/ Audit(t) \/ CacheWrite(t) \/ Crash(t) \/ Fail(t)
      PROVE  LateWrites'
  <2>1. /\ \A q \in Req : q # t => pc'[q] = pc[q] /\ cacheWrite'[q] = cacheWrite[q]
        /\ pc'[t] = "done" \/ (pc[t] # "done" /\ cacheWrite'[t] = cacheWrite[t])
    <3> USE DEF IInv, TypeOK, Goto, Answer, AnswerUncached
    <3>1. CASE Middleware(t)  BY <1>2, <3>1 DEF Middleware
    <3>2. CASE SvcGet(t)      BY <1>2, <3>2 DEF SvcGet
    <3>3. CASE Find(t)        BY <1>2, <3>3 DEF Find
    <3>4. CASE Create(t)      BY <1>2, <3>4 DEF Create
    <3>5. CASE StoreOtp(t)    BY <1>2, <3>5 DEF StoreOtp
    <3>6. CASE SvcSet(t)      BY <1>2, <3>6 DEF SvcSet
    <3>7. CASE Audit(t)       BY <1>2, <3>7 DEF Audit
    <3>8. CASE CacheWrite(t)  BY <1>2, <3>8 DEF CacheWrite, LateWrites
    <3>9. CASE Crash(t)       BY <1>2, <3>9 DEF Crash
    <3>10. CASE Fail(t)       BY <1>2, <3>10 DEF Fail
    <3>11. QED
      BY <1>2, <3>1, <3>2, <3>3, <3>4, <3>5, <3>6, <3>7, <3>8, <3>9, <3>10
  <2>2. QED  BY <1>2, <2>1 DEF LateWrites
<1>3. ASSUME LateWrites, IdemExpire \/ Done \/ UNCHANGED vars  PROVE LateWrites'
  BY <1>3 DEF LateWrites, IdemExpire, Done, vars
<1>4. IInv /\ LateWrites /\ [Next]_vars => (IInv /\ LateWrites)'
  BY <1>2, <1>3, RequestStep, OtherStep DEF Next
<1>5. QED  BY <1>1, <1>4, InitIInv, PTL DEF Spec

\* initiatePayment is not over for the service.
Initiating == rows = 0 \/ \E t \in Req : pc[t] = "storeOtp"

\* A step of a slot is a step of the service or none.
LEMMA SlotServes ==
  ASSUME NEW r \in Slots, SlotSteps(r)
  PROVE  [Svc!Next]_(Svc!vars)
<1>1. Initiating' = Initiating
  BY SlotKeepsTries DEF Initiating, initiate, vars
<1>2. Svc!env' = Svc!env  BY <1>1 DEF Svc!env, Initiating
<1>3. ASSUME Svc!Start(r) \/ Svc!Step(r) \/ Svc!Crash(r) \/ Svc!Fail(r)
      PROVE  Svc!Next
  BY <1>2, <1>3 DEF Svc!Next
<1>4. ASSUME UNCHANGED service  PROVE UNCHANGED Svc!vars
  BY <1>1, <1>4 DEF service, Svc!vars, Initiating
<1>5. CASE Authenticate(r)  BY <1>3, <1>4, <1>5 DEF Authenticate, Refused, Svc!Start
<1>6. CASE Process(r)       BY <1>3, <1>4, <1>6 DEF Process, Refused, Svc!Start
<1>7. CASE Reconcile(r)     BY <1>3, <1>4, <1>7 DEF Reconcile, Refused, Svc!Start
<1>8. CASE Retry(r)         BY <1>3, <1>4, <1>8 DEF Retry, Refused, Svc!Start
<1>9. CASE Look(r)          BY <1>3, <1>4, <1>9 DEF Look, Svc!Start
<1>10. CASE Serve(r)        BY <1>3, <1>10 DEF Serve
<1>11. CASE ServeBreaks(r)  BY <1>3, <1>4, <1>11 DEF ServeBreaks
<1>12. CASE OrphanEnds(r)   BY <1>3, <1>12 DEF OrphanEnds
<1>13. CASE Hear(r)         BY <1>4, <1>13 DEF Hear
<1>14. QED  BY <1>5, <1>6, <1>7, <1>8, <1>9, <1>10, <1>11, <1>12, <1>13 DEF SlotSteps

\* A step of a try that does not end initiatePayment, as the service sees it, is none
\* of the service's; the one that does is the end of its environment's part.
LEMMA TryServes ==
  ASSUME IInv, LateWrites,
         NEW t \in Req, Initiate(t) \/ Try(t) \/ TryBreaks(t) \/ HearTry(t)
  PROVE  [Svc!Next]_(Svc!vars)
<1>1. /\ pc \in [Req -> {"new", "svcGet", "find", "create", "storeOtp", "svcSet",
                         "audit", "done"}]
      /\ rows \in {0, 1}
      /\ \A q \in Req : pc[q] = "storeOtp" => rows = 1
      /\ \A q \in Req : pc[q] = "storeOtp" /\ pc[t] = "storeOtp" => q = t
  BY DEF IInv, TypeOK, OneCreator, Creator
<1>2. ASSUME UNCHANGED <<row, audit, retryLog, lock, cache, charges, dispatched, at, snap,
                         bankResult, stored>>,
             Initiating' = Initiating
      PROVE  UNCHANGED Svc!vars
  BY <1>2 DEF Svc!vars, Initiating
<1>3. CASE pc[t] # "storeOtp"
  <2>1. UNCHANGED <<row, audit, retryLog, lock, cache, charges, dispatched, at, snap,
                    bankResult, stored>>
    BY <1>3 DEF Initiate, Try, TryBreaks, HearTry, service
  <2>2. Initiating' = Initiating
    <3>1. /\ \A q \in Req : q # t => pc'[q] = pc[q]
          /\ \/ rows' = rows /\ pc'[t] # "storeOtp"
             \/ rows = 0 /\ pc'[t] = "storeOtp"
      <4>1. CASE Initiate(t)
        BY <1>1, <1>3, <4>1 DEF Initiate, Middleware, Fail, AnswerUncached, Answer, Goto
      <4>2. CASE Try(t)
        BY <1>1, <1>3, <4>2 DEF Try, SvcGet, Find, Create, StoreOtp, SvcSet, Audit, CacheWrite,
                          AnswerUncached, Answer, Goto
      <4>3. CASE TryBreaks(t)
        BY <1>1, <1>3, <4>3 DEF TryBreaks, Crash, Fail, AnswerUncached
      <4>4. CASE HearTry(t)
        BY <1>1, <1>3, <4>4 DEF HearTry, initiate, vars
      <4>5. QED  BY <4>1, <4>2, <4>3, <4>4
    <3>2. QED  BY <1>1, <1>3, <3>1 DEF Initiating
  <2>3. QED  BY <1>2, <2>1, <2>2
<1>4. CASE pc[t] = "storeOtp"
  <2>1. Initiating  BY <1>4 DEF Initiating
  <2>2. CASE Try(t) /\ ~CacheWrite(t)
    <3>1. StoreOtp(t)
      BY <1>4, <2>2 DEF Try, SvcGet, Find, Create, SvcSet, Audit
    <3>2. rows' = 1 /\ \A q \in Req : pc'[q] # "storeOtp"
      BY <1>1, <1>4, <3>1 DEF StoreOtp, Goto
    <3>3. ~Initiating'  BY <3>2 DEF Initiating
    <3>4. stored' = 1  BY <1>4, <2>2, <3>1 DEF Try, StoreOtp
    <3>5. Svc!InitialOtp
      BY <2>1, <2>2, <3>3, <3>4 DEF Try, Svc!InitialOtp, Svc!store, Initiating
    <3>6. QED  BY <3>5 DEF Svc!Next
  <2>3. CASE Try(t) /\ CacheWrite(t)
    <3>1. FALSE  BY <1>4, <2>3 DEF CacheWrite, LateWrites
    <3>2. QED  BY <3>1
  <2>4. CASE Initiate(t)
    <3>1. FALSE  BY <1>4, <2>4 DEF Initiate
    <3>2. QED  BY <3>1
  <2>5. CASE TryBreaks(t)
    <3>1. rows' = 1 /\ (\A q \in Req : pc'[q] # "storeOtp") /\ Faults \cap {"crash", "error"} # {}
      BY <1>1, <1>4, <2>5 DEF TryBreaks, Crash, Fail, AnswerUncached
    <3>2. ~Initiating'  BY <3>1 DEF Initiating
    <3>3. {"crash", "error"} \cap ServiceFaults # {}  BY <3>1 DEF ServiceFaults
    <3>4. Svc!InitialOtp
      BY <2>1, <2>5, <3>2, <3>3 DEF TryBreaks, service, Svc!InitialOtp, Svc!store, Initiating
    <3>5. QED  BY <3>4 DEF Svc!Next
  <2>6. CASE HearTry(t)
    <3>1. FALSE  BY <1>4, <2>6 DEF HearTry
    <3>2. QED  BY <3>1
  <2>7. QED  BY <2>2, <2>3, <2>4, <2>5, <2>6
<1>5. QED  BY <1>3, <1>4

\* Expiries are the service's, patience and rest are not.
LEMMA RestServes ==
  ASSUME IInv, Rests
  PROVE  [Svc!Next]_(Svc!vars)
<1>1. Initiating' = Initiating
  BY DEF Rests, Abandon, IdemExpires, IdemExpire, OtpExpires, CacheExpires, LockExpires, Rest,
         initiate, vars, all, Initiating
<1>2. Svc!env' = Svc!env  BY <1>1 DEF Svc!env, Initiating
<1>3. ASSUME UNCHANGED service  PROVE UNCHANGED Svc!vars
  BY <1>1, <1>3 DEF service, Svc!vars, Initiating
<1>4. CASE Abandon       BY <1>3, <1>4 DEF Abandon
<1>5. CASE IdemExpires   BY <1>3, <1>5 DEF IdemExpires
<1>6. CASE OtpExpires    BY <1>2, <1>6 DEF OtpExpires, Svc!Next
<1>7. CASE CacheExpires  BY <1>2, <1>7 DEF CacheExpires, Svc!Next
<1>8. CASE LockExpires   BY <1>2, <1>8 DEF LockExpires, Svc!Next
<1>9. CASE Rest          BY <1>3, <1>9 DEF Rest, all
<1>10. QED  BY <1>4, <1>5, <1>6, <1>7, <1>8, <1>9 DEF Rests

\* The tries and the routes are the environment PaymentService assumes, for any
\* number of overlapping tries and slots and any faults: its theorems hold of
\* Checkout.
THEOREM CheckoutServes == CheckoutSpec => ImplementsService
<1>1. CheckoutInit => Svc!Init
  BY DEF CheckoutInit, Init, Svc!Init, Svc!StoreInit
<1>2. ASSUME IInv, LateWrites, [CheckoutNext]_all  PROVE [Svc!Next]_(Svc!vars)
  <2>1. CASE UNCHANGED all
    <3>1. UNCHANGED <<service, pc, rows>>  BY <2>1 DEF all, initiate, vars
    <3>2. QED  BY <3>1 DEF service, Svc!vars
  <2>2. CASE TrySteps  BY <1>2, <2>2, TryServes DEF TrySteps
  <2>3. CASE \E r \in Slots : SlotSteps(r)  BY <2>3, SlotServes
  <2>4. CASE Rests  BY <1>2, <2>4, RestServes
  <2>5. QED  BY <1>2, <2>1, <2>2, <2>3, <2>4, CheckoutCases
<1>3. CheckoutSpec => [](IInv /\ LateWrites)
  BY CheckoutInitiates, WritesAreLate, PTL
<1>4. QED  BY <1>1, <1>2, <1>3, PTL DEF CheckoutSpec, ImplementsService, Svc!Spec

-------------------------------------------------------------------------------
(* What is proved of the service holds of the service of Checkout. *)

\* PaymentService again, as Checkout instantiates it, with its theorems.
Pay == INSTANCE PaymentSerialProofs WITH
  Req        <- Slots,
  Ops        <- {"authenticate", "process", "reconcile", "retry", "get"},
  FaultSets  <- {ServiceFaults},
  faults     <- ServiceFaults,
  initiating <- rows = 0 \/ \E t \in Req : pc[t] = "storeOtp",
  otp        <- stored # 0,
  pc         <- at

\* Checkout's constants are as PaymentService assumes them.
LEMMA PayAssumptions ==
  /\ Pay!IsFiniteSet(Slots)
  /\ {"authenticate", "process", "reconcile", "retry", "get"} \subseteq Pay!AllOps
  /\ {ServiceFaults} \subseteq SUBSET Pay!AllFaults
  /\ BaseDelay \in Nat /\ MaxDelay \in Nat /\ MaxAudit \in Nat /\ MaxAttempts \in Nat
BY LimitsAssumption
   DEF Pay!AllOps, Pay!AllFaults, ServiceFaults, Pay!IsFiniteSet, IsFiniteSet

\* The steps the handlers share are the same in both,
LEMMA SameSteps ==
  /\ Svc!NoTxn = Pay!NoTxn /\ Svc!ProcPcs = Pay!ProcPcs
  /\ \A s, to : Svc!validateTransition(s, to) = Pay!validateTransition(s, to)
  /\ \A n, base, max : Svc!FractionalDelay(n, base, max) <=> Pay!FractionalDelay(n, base, max)
  /\ \A r, label : Svc!At(r, label) <=> Pay!At(r, label)
  /\ \A r, op : Svc!Called(r, op) <=> Pay!Called(r, op)
  /\ \A r, label : Svc!Goto(r, label) <=> Pay!Goto(r, label)
  /\ \A r : Svc!Answer(r) <=> Pay!Answer(r)
  /\ \A e : Svc!dispatchWebhooks(e) <=> Pay!dispatchWebhooks(e)
  /\ \A from, to, attempt, ref :
       Svc!transitionStatus(from, to, attempt, ref) <=> Pay!transitionStatus(from, to, attempt, ref)
<1>1. Svc!NoTxn = Pay!NoTxn /\ Svc!ProcPcs = Pay!ProcPcs
  BY DEF Svc!NoTxn, Pay!NoTxn, Svc!ProcPcs, Pay!ProcPcs
<1>2. \A s, to : Svc!validateTransition(s, to) = Pay!validateTransition(s, to)
  BY DEF Svc!validateTransition, Pay!validateTransition, Svc!VALID_TRANSITIONS,
     Pay!VALID_TRANSITIONS, Svc!TERMINAL_STATES, Pay!TERMINAL_STATES
<1>3. \A n, base, max : Svc!FractionalDelay(n, base, max) <=> Pay!FractionalDelay(n, base, max)
  BY DEF Svc!FractionalDelay, Pay!FractionalDelay
<1>4. \A r, label : Svc!At(r, label) <=> Pay!At(r, label)
  BY DEF Svc!At, Pay!At
<1>5. \A r, op : Svc!Called(r, op) <=> Pay!Called(r, op)
  BY DEF Svc!Called, Pay!Called
<1>6. \A r, label : Svc!Goto(r, label) <=> Pay!Goto(r, label)
  BY DEF Svc!Goto, Pay!Goto
<1>7. \A r : Svc!Answer(r) <=> Pay!Answer(r)
  BY <1>1 DEF Svc!Answer, Pay!Answer, Svc!Goto, Pay!Goto
<1>8. \A e : Svc!dispatchWebhooks(e) <=> Pay!dispatchWebhooks(e)
  BY DEF Svc!dispatchWebhooks, Pay!dispatchWebhooks
<1>9. \A from, to, attempt, ref :
       Svc!transitionStatus(from, to, attempt, ref) <=> Pay!transitionStatus(from, to, attempt, ref)
  BY DEF Svc!transitionStatus, Pay!transitionStatus, Svc!Updated, Pay!Updated
<1>10. QED  BY <1>1, <1>2, <1>3, <1>4, <1>5, <1>6, <1>7, <1>8, <1>9

\* so are the handlers,
LEMMA SameHandlers ==
  ASSUME NEW r
  PROVE  /\ Svc!Start(r) => Pay!Start(r)
         /\ Svc!Step(r) => Pay!Step(r)
         /\ Svc!Crash(r) => Pay!Crash(r)
         /\ Svc!Fail(r) => Pay!Fail(r)
<1> USE SameSteps DEF Svc!store, Pay!store
<1>1. Svc!AuthRead(r) => Pay!AuthRead(r)  BY DEF Svc!AuthRead, Pay!AuthRead
<1>2. Svc!ProcLock(r) => Pay!ProcLock(r)  BY DEF Svc!ProcLock, Pay!ProcLock
<1>3. Svc!ProcLockUnacked(r) => Pay!ProcLockUnacked(r)  BY DEF Svc!ProcLockUnacked, Pay!ProcLockUnacked
<1>4. Svc!ReconRead(r) => Pay!ReconRead(r)  BY DEF Svc!ReconRead, Pay!ReconRead
<1>5. Svc!RetryRead(r) => Pay!RetryRead(r)  BY DEF Svc!RetryRead, Pay!RetryRead
<1>6. Svc!GetMiss(r) => Pay!GetMiss(r)  BY DEF Svc!GetMiss, Pay!GetMiss
<1>7. Svc!AuthOtpGet(r) => Pay!AuthOtpGet(r)  BY DEF Svc!AuthOtpGet, Pay!AuthOtpGet
<1>8. Svc!AuthOtpDel(r) => Pay!AuthOtpDel(r)  BY DEF Svc!AuthOtpDel, Pay!AuthOtpDel
<1>9. Svc!AuthExpire(r) => Pay!AuthExpire(r)  BY DEF Svc!AuthExpire, Pay!AuthExpire
<1>10. Svc!AuthCommit(r) => Pay!AuthCommit(r)  BY DEF Svc!AuthCommit, Pay!AuthCommit
<1>11. Svc!AuthInval(r) => Pay!AuthInval(r)  BY DEF Svc!AuthInval, Pay!AuthInval
<1>12. Svc!ProcRead(r) => Pay!ProcRead(r)  BY DEF Svc!ProcRead, Pay!ProcRead
<1>13. Svc!ProcStart(r) => Pay!ProcStart(r)  BY DEF Svc!ProcStart, Pay!ProcStart
<1>14. Svc!ProcBank(r) => Pay!ProcBank(r)  BY DEF Svc!ProcBank, Pay!ProcBank
<1>15. Svc!ProcFinish(r) => Pay!ProcFinish(r)  BY DEF Svc!ProcFinish, Pay!ProcFinish
<1>16. Svc!ProcInval(r) => Pay!ProcInval(r)  BY DEF Svc!ProcInval, Pay!ProcInval
<1>17. Svc!ProcRelease(r) => Pay!ProcRelease(r)  BY DEF Svc!ProcRelease, Pay!ProcRelease
<1>18. Svc!ReconCommit(r) => Pay!ReconCommit(r)  BY DEF Svc!ReconCommit, Pay!ReconCommit
<1>19. Svc!ReconInval(r) => Pay!ReconInval(r)  BY DEF Svc!ReconInval, Pay!ReconInval
<1>20. Svc!RetryLog(r) => Pay!RetryLog(r)  BY DEF Svc!RetryLog, Pay!RetryLog
<1>21. Svc!RetryCommit(r) => Pay!RetryCommit(r)  BY DEF Svc!RetryCommit, Pay!RetryCommit
<1>22. Svc!RetryOtp(r) => Pay!RetryOtp(r)  BY DEF Svc!RetryOtp, Pay!RetryOtp
<1>23. Svc!RetryInval(r) => Pay!RetryInval(r)  BY DEF Svc!RetryInval, Pay!RetryInval
<1>24. Svc!GetRead(r) => Pay!GetRead(r)  BY DEF Svc!GetRead, Pay!GetRead
<1>25. Svc!GetFill(r) => Pay!GetFill(r)  BY DEF Svc!GetFill, Pay!GetFill
<1>26. Svc!Crash(r) => Pay!Crash(r)  BY DEF Svc!Crash, Pay!Crash
<1>27. Svc!Fail(r) => Pay!Fail(r)  BY DEF Svc!Fail, Pay!Fail
<1>28. QED  BY <1>1, <1>2, <1>3, <1>4, <1>5, <1>6, <1>7, <1>8, <1>9, <1>10, <1>11, <1>12, <1>13, <1>14, <1>15, <1>16, <1>17, <1>18, <1>19, <1>20, <1>21, <1>22, <1>23, <1>24, <1>25, <1>26, <1>27 DEF Svc!Start, Svc!Step, Pay!Start, Pay!Step

\* and the whole specification.
LEMMA SameSpec == Svc!Spec => Pay!Spec
<1>1. Svc!Init => Pay!Init
  BY SameSteps DEF Svc!Init, Pay!Init, Svc!StoreInit, Pay!StoreInit, Svc!Event, Pay!Event
<1>2. Svc!vars' = Svc!vars <=> Pay!vars' = Pay!vars  BY DEF Svc!vars, Pay!vars
<1>3. Svc!env' = Svc!env <=> Pay!env' = Pay!env  BY DEF Svc!env, Pay!env
<1>4. /\ Svc!OtpExpire   => Pay!OtpExpire
      /\ Svc!CacheExpire => Pay!CacheExpire
      /\ Svc!LockExpire  => Pay!LockExpire
      /\ Svc!InitialOtp  => Pay!InitialOtp
  BY SameSteps
     DEF Svc!OtpExpire, Pay!OtpExpire, Svc!CacheExpire, Pay!CacheExpire, Svc!LockExpire,
         Pay!LockExpire, Svc!InitialOtp, Pay!InitialOtp, Svc!store, Pay!store
<1>5. Svc!Quiescent => Pay!Quiescent  BY <1>2 DEF Svc!Quiescent, Pay!Quiescent
<1>6. [Svc!Next]_(Svc!vars) => [Pay!Next]_(Pay!vars)
  BY <1>2, <1>3, <1>4, <1>5, SameHandlers DEF Svc!Next, Pay!Next
<1>7. QED  BY <1>1, <1>6, PTL DEF Svc!Spec, Pay!Spec

LEMMA CheckoutPays == CheckoutSpec => Pay!Spec
BY CheckoutServes, SameSpec, PTL DEF ImplementsService

\* The trail, and what it tells, is the same in both.
LEMMA SameTrail ==
  /\ \A S : Svc!Cardinality(S) = Pay!Cardinality(S)
  /\ \A s : Svc!Entries(s) = Pay!Entries(s)
  /\ \A n : Svc!Version(n) = Pay!Version(n)
  /\ \A s, n : Svc!Held(s, n) <=> Pay!Held(s, n)
  /\ \A labels : Svc!InFlight(labels) = Pay!InFlight(labels)
<1>1. \A S : Svc!Cardinality(S) = Pay!Cardinality(S)
  BY DEF Svc!Cardinality, Pay!Cardinality, Svc!IsFiniteSet, Pay!IsFiniteSet
<1>2. \A s : Svc!Entries(s) = Pay!Entries(s)  BY DEF Svc!Entries, Pay!Entries
<1>3. \A n : Svc!Version(n) = Pay!Version(n)
  <2>1. \A n : Svc!Resets(n) = Pay!Resets(n)  BY DEF Svc!Resets, Pay!Resets
  <2>2. \A S : Svc!Latest(S) = Pay!Latest(S)  BY DEF Svc!Latest, Pay!Latest
  <2>3. QED  BY <2>1, <2>2 DEF Svc!Version, Pay!Version
<1>4. \A s, n : Svc!Held(s, n) <=> Pay!Held(s, n)  BY DEF Svc!Held, Pay!Held
<1>5. \A labels : Svc!InFlight(labels) = Pay!InFlight(labels)
  BY DEF Svc!InFlight, Pay!InFlight
<1>6. QED  BY <1>1, <1>2, <1>3, <1>4, <1>5

\* Whatever the tries and the calls of a client do, and whatever of them breaks: the
\* row is what its trail tells, nobody goes by a version that never was, every entry
\* is a transition of the table, retries are counted and traced, and every debit and
\* every announced outcome is on the trail.
ServicePromises ==
  /\ Svc!AuditReplaysRow /\ Svc!NothingInvented /\ Svc!AuditEntriesLegal
  /\ Svc!RetriesTraced /\ Svc!ChargesAccounted /\ Svc!EventsAccounted

\* A payment that is begun through initiatePayment and goes through the routes has all
\* that is proved of the service, for any number of tries, slots and failures.
THEOREM CheckoutKeepsPromises == CheckoutSpec => []ServicePromises
<1>1. Pay!Spec => [](/\ Pay!AuditReplaysRow /\ Pay!NothingInvented /\ Pay!AuditEntriesLegal
                    /\ Pay!RetriesTraced /\ Pay!ChargesAccounted /\ Pay!EventsAccounted)
  BY PayAssumptions, Pay!RowIsItsTrail, Pay!OnlyOldVersions, Pay!TrailLegal,
     Pay!AttemptsTraced, Pay!DebitsAccounted, Pay!AnnouncementsAccounted, PTL
<1>2. Pay!AuditReplaysRow => Svc!AuditReplaysRow
  BY SameTrail DEF Svc!AuditReplaysRow, Pay!AuditReplaysRow
<1>3. Pay!NothingInvented => Svc!NothingInvented
  BY SameSteps, SameTrail DEF Svc!NothingInvented, Pay!NothingInvented
<1>4. Pay!AuditEntriesLegal => Svc!AuditEntriesLegal
  BY SameTrail
     DEF Svc!AuditEntriesLegal, Pay!AuditEntriesLegal, Svc!canTransition, Pay!canTransition,
         Svc!VALID_TRANSITIONS, Pay!VALID_TRANSITIONS, Svc!TERMINAL_STATES,
         Pay!TERMINAL_STATES
<1>5. Pay!RetriesTraced => Svc!RetriesTraced  BY DEF Svc!RetriesTraced, Pay!RetriesTraced
<1>6. Pay!ChargesAccounted => Svc!ChargesAccounted
  BY SameTrail DEF Svc!ChargesAccounted, Pay!ChargesAccounted
<1>7. Pay!EventsAccounted => Svc!EventsAccounted
  BY SameTrail DEF Svc!EventsAccounted, Pay!EventsAccounted
<1>8. QED
  BY CheckoutPays, <1>1, <1>2, <1>3, <1>4, <1>5, <1>6, <1>7, PTL DEF ServicePromises

-------------------------------------------------------------------------------
(* One charge. *)

\* What the handlers of a client that makes one call at a time are sure of, though the
\* COMMIT of a dead call may yet come between them and the row: how often the debit was
\* made by then,
Going(r) ==
  /\ at[r] \in {"otpGet", "otpDel", "otpExpired", "authCommit", "procStart", "procBank",
                "retryLog", "retryCommit"}
       => charges = 0
  /\ at[r] \in {"procBank", "procFinish"} => row.status = "PROCESSING"
  /\ at[r] = "procFinish" => /\ bankResult[r] \in {"SUCCESS", "FAILED"}
                             /\ charges = IF bankResult[r] = "SUCCESS" THEN 1 ELSE 0
  /\ at[r] = "reconCommit" => charges = 1

\* and the debit is where the status says it is.
Money ==
  /\ charges \in {0, 1}
  /\ row.status \in {"INITIATED", "AUTHENTICATED", "FAILED"} => charges = 0
  /\ row.status \in {"SUCCESS", "RECONCILED"} => charges = 1

LocalTypes ==
  /\ row.status \in Svc!TransactionStatus
  /\ at \in [Slots -> Svc!Pc]
  /\ bankResult \in [Slots -> {"none", "SUCCESS", "FAILED"}]
  /\ orphan \in Slots \cup {Nobody}

\* One call is in flight, beside the dead one the server is not done with;
OneCall == \A r \in Slots : at[r] # "idle" => waiting = r \/ r = orphan

\* no other COMMIT is between a handler and the bank's answer.
AtBank == \A r \in Slots : at[r] \in {"procBank", "procFinish"} => orphan \in {Nobody, r}

ChargedInv == LocalTypes /\ Money /\ OneCall /\ AtBank /\ \A r \in Slots : Going(r)

\* The one status from which a handler may start.
LEMMA StartSources ==
  ASSUME NEW s \in Svc!TransactionStatus
  PROVE  /\ Svc!validateTransition(s, "AUTHENTICATED") = "OK" <=> s = "INITIATED"
         /\ Svc!validateTransition(s, "PROCESSING") = "OK" <=> s = "AUTHENTICATED"
         /\ Svc!validateTransition(s, "RECONCILED") = "OK" <=> s = "SUCCESS"
BY DEF Svc!validateTransition, Svc!TransactionStatus, Svc!VALID_TRANSITIONS,
       Svc!TERMINAL_STATES

\* A step of a handler keeps the debit where it belongs; the row is written in the
\* steps that can be a COMMIT, and the debit is the bank's.
LEMMA HandlerStep ==
  ASSUME LocalTypes, orphan' \in Slots \cup {Nobody}, Money, NEW r \in Slots, Going(r),
         Svc!Start(r) \/ Svc!Step(r) \/ Svc!Crash(r) \/ Svc!Fail(r)
  PROVE  /\ LocalTypes' /\ Money' /\ Going(r)'
         /\ \A q \in Slots : q # r => at'[q] = at[q] /\ bankResult'[q] = bankResult[q]
         /\ row' = row \/ (Svc!Step(r) /\ at[r] \in WritePcs)
         /\ charges' = charges \/ at[r] = "procBank"
         /\ at'[r] \in {"procBank", "procFinish"} => at[r] \in {"procStart", "procBank"}
<1> USE DEF LocalTypes, Going, WritePcs, Svc!At, Svc!Goto, Svc!Answer, Svc!Called
<1>1. ASSUME row' = row, charges' = charges
      PROVE  Money' /\ row'.status \in Svc!TransactionStatus
  BY <1>1 DEF Money
<1>2. {"idle", "otpGet", "otpDel", "otpExpired", "authCommit", "authInval", "procRead",
       "procStart", "procBank", "procFinish", "procInval", "procRelease", "reconCommit",
       "reconInval", "retryLog", "retryCommit", "retryOtp", "retryInval", "getRead",
       "getFill"} = Svc!Pc
  BY DEF Svc!Pc, Svc!AuthPcs, Svc!ProcPcs, Svc!ReconPcs, Svc!RetryPcs, Svc!GetPcs
<1>3. CASE Svc!AuthRead(r)
  <2>1. row' = row /\ charges' = charges  BY <1>3 DEF Svc!AuthRead, Svc!store
  <2>2. charges = 0  BY <1>3, StartSources DEF Svc!AuthRead, Money
  <2>3. QED  BY <1>1, <1>2, <1>3, <2>1, <2>2 DEF Svc!AuthRead
<1>4. CASE Svc!ProcLock(r)
  <2>1. row' = row /\ charges' = charges  BY <1>4 DEF Svc!ProcLock, Svc!store
  <2>2. QED  BY <1>1, <1>2, <1>4, <2>1 DEF Svc!ProcLock
<1>5. CASE Svc!ProcLockUnacked(r)
  <2>1. row' = row /\ charges' = charges  BY <1>5 DEF Svc!ProcLockUnacked, Svc!store
  <2>2. QED  BY <1>1, <1>2, <1>5, <2>1 DEF Svc!ProcLockUnacked
<1>6. CASE Svc!ReconRead(r)
  <2>1. row' = row /\ charges' = charges  BY <1>6 DEF Svc!ReconRead, Svc!store
  <2>2. charges = 1  BY <1>6, StartSources DEF Svc!ReconRead, Money
  <2>3. QED  BY <1>1, <1>2, <1>6, <2>1, <2>2 DEF Svc!ReconRead
<1>7. CASE Svc!RetryRead(r)
  <2>1. row' = row /\ charges' = charges  BY <1>7 DEF Svc!RetryRead, Svc!store
  <2>2. charges = 0  BY <1>7 DEF Svc!RetryRead, Money
  <2>3. QED  BY <1>1, <1>2, <1>7, <2>1, <2>2 DEF Svc!RetryRead
<1>8. CASE Svc!GetMiss(r)
  <2>1. row' = row /\ charges' = charges  BY <1>8 DEF Svc!GetMiss, Svc!store
  <2>2. QED  BY <1>1, <1>2, <1>8, <2>1 DEF Svc!GetMiss
<1>9. CASE Svc!AuthOtpGet(r)
  <2>1. row' = row /\ charges' = charges  BY <1>9 DEF Svc!AuthOtpGet, Svc!store
  <2>2. QED  BY <1>1, <1>2, <1>9, <2>1 DEF Svc!AuthOtpGet
<1>10. CASE Svc!AuthOtpDel(r)
  <2>1. row' = row /\ charges' = charges  BY <1>10 DEF Svc!AuthOtpDel, Svc!store
  <2>2. QED  BY <1>1, <1>2, <1>10, <2>1 DEF Svc!AuthOtpDel
<1>11. CASE Svc!AuthInval(r)
  <2>1. row' = row /\ charges' = charges  BY <1>11 DEF Svc!AuthInval, Svc!store
  <2>2. QED  BY <1>1, <1>2, <1>11, <2>1 DEF Svc!AuthInval
<1>12. CASE Svc!ProcRead(r)
  <2>1. row' = row /\ charges' = charges  BY <1>12 DEF Svc!ProcRead, Svc!store
  <2>2. at'[r] = "procStart" => charges = 0
    BY <1>12, StartSources DEF Svc!ProcRead, Money
  <2>3. QED  BY <1>1, <1>2, <1>12, <2>1, <2>2 DEF Svc!ProcRead
<1>13. CASE Svc!ProcInval(r)
  <2>1. row' = row /\ charges' = charges  BY <1>13 DEF Svc!ProcInval, Svc!store
  <2>2. QED  BY <1>1, <1>2, <1>13, <2>1 DEF Svc!ProcInval
<1>14. CASE Svc!ProcRelease(r)
  <2>1. row' = row /\ charges' = charges  BY <1>14 DEF Svc!ProcRelease, Svc!store
  <2>2. QED  BY <1>1, <1>2, <1>14, <2>1 DEF Svc!ProcRelease
<1>15. CASE Svc!ReconInval(r)
  <2>1. row' = row /\ charges' = charges  BY <1>15 DEF Svc!ReconInval, Svc!store
  <2>2. QED  BY <1>1, <1>2, <1>15, <2>1 DEF Svc!ReconInval
<1>16. CASE Svc!RetryLog(r)
  <2>1. row' = row /\ charges' = charges  BY <1>16 DEF Svc!RetryLog, Svc!store
  <2>2. QED  BY <1>1, <1>2, <1>16, <2>1 DEF Svc!RetryLog
<1>17. CASE Svc!RetryOtp(r)
  <2>1. row' = row /\ charges' = charges  BY <1>17 DEF Svc!RetryOtp, Svc!store
  <2>2. QED  BY <1>1, <1>2, <1>17, <2>1 DEF Svc!RetryOtp
<1>18. CASE Svc!RetryInval(r)
  <2>1. row' = row /\ charges' = charges  BY <1>18 DEF Svc!RetryInval, Svc!store
  <2>2. QED  BY <1>1, <1>2, <1>18, <2>1 DEF Svc!RetryInval
<1>19. CASE Svc!GetRead(r)
  <2>1. row' = row /\ charges' = charges  BY <1>19 DEF Svc!GetRead, Svc!store
  <2>2. QED  BY <1>1, <1>2, <1>19, <2>1 DEF Svc!GetRead
<1>20. CASE Svc!GetFill(r)
  <2>1. row' = row /\ charges' = charges  BY <1>20 DEF Svc!GetFill, Svc!store
  <2>2. QED  BY <1>1, <1>2, <1>20, <2>1 DEF Svc!GetFill
<1>21. CASE Svc!Crash(r)
  <2>1. row' = row /\ charges' = charges  BY <1>21 DEF Svc!Crash, Svc!store
  <2>2. QED  BY <1>1, <1>2, <1>21, <2>1 DEF Svc!Crash
<1>22. CASE Svc!Fail(r)
  <2>1. row' = row /\ charges' = charges  BY <1>22 DEF Svc!Fail, Svc!store
  <2>2. QED  BY <1>1, <1>2, <1>22, <2>1 DEF Svc!Fail, Svc!ProcPcs
<1>23. CASE Svc!ProcBank(r)
  <2>1. row' = row /\ charges = 0 /\ row.status = "PROCESSING"
    BY <1>23 DEF Svc!ProcBank, Svc!store
  <2>2. PICK result \in {"SUCCESS", "FAILED"} :
          /\ bankResult' = [bankResult EXCEPT ![r] = result]
          /\ charges' = IF result = "SUCCESS" THEN charges + 1 ELSE charges
    BY <1>23 DEF Svc!ProcBank
  <2>3. QED  BY <1>2, <1>23, <2>1, <2>2 DEF Svc!ProcBank, Money
<1>24. CASE Svc!AuthExpire(r)
  <2>1. row'.status = "FAILED" /\ charges' = charges
    BY <1>24 DEF Svc!AuthExpire, Svc!transitionStatus, Svc!Updated
  <2>2. QED  BY <1>2, <1>24, <2>1 DEF Svc!AuthExpire, Svc!Step, Svc!TransactionStatus, Money
<1>25. CASE Svc!AuthCommit(r)
  <2>1. row'.status = "AUTHENTICATED" /\ charges' = charges
    BY <1>25 DEF Svc!AuthCommit, Svc!transitionStatus, Svc!Updated
  <2>2. QED  BY <1>2, <1>25, <2>1 DEF Svc!AuthCommit, Svc!Step, Svc!TransactionStatus, Money
<1>26. CASE Svc!ProcStart(r)
  <2>1. row'.status = "PROCESSING" /\ charges' = charges
    BY <1>26 DEF Svc!ProcStart, Svc!transitionStatus, Svc!Updated
  <2>2. QED  BY <1>2, <1>26, <2>1 DEF Svc!ProcStart, Svc!Step, Svc!TransactionStatus, Money
<1>27. CASE Svc!ProcFinish(r)
  <2>1. row'.status = bankResult[r] /\ charges' = charges
    BY <1>27 DEF Svc!ProcFinish, Svc!transitionStatus, Svc!Updated
  <2>2. QED  BY <1>2, <1>27, <2>1 DEF Svc!ProcFinish, Svc!Step, Svc!TransactionStatus, Money
<1>28. CASE Svc!ReconCommit(r)
  <2>1. row'.status = "RECONCILED" /\ charges' = charges
    BY <1>28 DEF Svc!ReconCommit, Svc!transitionStatus, Svc!Updated
  <2>2. QED  BY <1>2, <1>28, <2>1 DEF Svc!ReconCommit, Svc!Step, Svc!TransactionStatus, Money
<1>29. CASE Svc!RetryCommit(r)
  <2>1. row'.status = "INITIATED" /\ charges' = charges
    BY <1>29 DEF Svc!RetryCommit, Svc!transitionStatus, Svc!Updated
  <2>2. QED  BY <1>2, <1>29, <2>1 DEF Svc!RetryCommit, Svc!Step, Svc!TransactionStatus, Money
<1>30. QED
  BY <1>3, <1>4, <1>5, <1>6, <1>7, <1>8, <1>9, <1>10, <1>11, <1>12, <1>13, <1>14, <1>15, <1>16, <1>17, <1>18, <1>19, <1>20, <1>21, <1>22, <1>23, <1>24, <1>25, <1>26, <1>27, <1>28, <1>29 DEF Svc!Start, Svc!Step

\* The labels of a handler in flight, and of one that has something to write.
LEMMA StepLabels ==
  ASSUME NEW r, Svc!Step(r) \/ Svc!Crash(r) \/ Svc!Fail(r)
  PROVE  at[r] # "idle"
BY DEF Svc!Step, Svc!Crash, Svc!Fail, Svc!At, Svc!AuthOtpGet, Svc!AuthOtpDel,
       Svc!AuthExpire, Svc!AuthCommit, Svc!AuthInval, Svc!ProcRead, Svc!ProcStart,
       Svc!ProcBank, Svc!ProcFinish, Svc!ProcInval, Svc!ProcRelease, Svc!ReconCommit,
       Svc!ReconInval, Svc!RetryLog, Svc!RetryCommit, Svc!RetryOtp, Svc!RetryInval,
       Svc!GetRead, Svc!GetFill

\* A call that is taken changes nothing but where its handler stands.
LEMMA StartLabels ==
  ASSUME LocalTypes, NEW r \in Slots, Svc!Start(r)
  PROVE  /\ UNCHANGED <<row, charges>>
         /\ at'[r] \in {"idle", "otpGet", "procRead", "reconCommit", "retryLog", "getRead"}
BY DEF LocalTypes, Svc!Start, Svc!AuthRead, Svc!ProcLock, Svc!ProcLockUnacked, Svc!ReconRead,
       Svc!RetryRead, Svc!GetMiss, Svc!Goto, Svc!Called, Svc!store

\* A slot's step is its handler's, or none of the service's.  It writes the row when no
\* dead call is about to, or is the dead call's own COMMIT.
LEMMA SlotCharges ==
  ASSUME ChargedInv, NEW r \in Slots, SlotSteps(r)
  PROVE  ChargedInv'
<1>1. ASSUME Svc!Start(r) \/ Svc!Step(r) \/ Svc!Crash(r) \/ Svc!Fail(r),
             orphan' \in Slots \cup {Nobody}, OneCall', AtBank',
             \A q \in Slots : q # r /\ at[q] # "idle" =>
                /\ charges' = charges
                /\ row' = row \/ at[q] \notin {"procBank", "procFinish"}
      PROVE  ChargedInv'
  <2>1. /\ LocalTypes' /\ Money' /\ Going(r)'
        /\ \A q \in Slots : q # r => at'[q] = at[q] /\ bankResult'[q] = bankResult[q]
    BY <1>1, HandlerStep DEF ChargedInv
  <2>2. ASSUME NEW q \in Slots, q # r  PROVE Going(q)'
    <3>1. at'[q] = at[q] /\ bankResult'[q] = bankResult[q] /\ Going(q)
      BY <2>1, <2>2 DEF ChargedInv
    <3>2. CASE at[q] = "idle"  BY <3>1, <3>2 DEF Going
    <3>3. CASE at[q] # "idle"  BY <1>1, <2>2, <3>1, <3>3 DEF Going
    <3>4. QED  BY <3>2, <3>3
  <2>3. QED  BY <1>1, <2>1, <2>2 DEF ChargedInv
<1>2. ASSUME UNCHANGED service, orphan' \in Slots \cup {Nobody}, OneCall', AtBank'
      PROVE  ChargedInv'
  <2>1. UNCHANGED <<row, charges, at, bankResult>>  BY <1>2 DEF service
  <2>2. QED  BY <1>2, <2>1 DEF ChargedInv, LocalTypes, Money, Going
<1>3. ASSUME Authenticate(r) \/ Process(r) \/ Reconcile(r) \/ Retry(r) \/ Look(r)
      PROVE  ChargedInv'
  <2>1. waiting = Nobody /\ waiting' = r /\ at[r] = "idle" /\ orphan' = orphan
    BY <1>3 DEF Authenticate, Process, Reconcile, Retry, Look, Sends
  <2>2. Svc!Start(r) \/ UNCHANGED service
    BY <1>3 DEF Authenticate, Process, Reconcile, Retry, Look, Refused, Svc!Start
  <2>3. /\ UNCHANGED <<row, charges>>
        /\ at'[r] \notin {"procBank", "procFinish"}
        /\ \A q \in Slots : q # r => at'[q] = at[q]
    <3>1. CASE Svc!Start(r)
      BY <3>1, StartLabels, HandlerStep, <2>1 DEF ChargedInv, LocalTypes
    <3>2. CASE UNCHANGED service  BY <2>1, <3>2 DEF service
    <3>3. QED  BY <2>2, <3>1, <3>2
  <2>4. OneCall' /\ AtBank'
    BY <2>1, <2>3, SlotsAssumption DEF ChargedInv, OneCall, AtBank
  <2>5. QED  BY <1>1, <1>2, <2>1, <2>2, <2>3, <2>4 DEF ChargedInv, LocalTypes
<1>4. ASSUME Serve(r) \/ (ServeBreaks(r) /\ orphan' = orphan)
      PROVE  ChargedInv'
  <2>1. CASE UNCHANGED service
    <3>1. OneCall' /\ AtBank'
      BY <1>4, <2>1 DEF Serve, ServeBreaks, service, client, ChargedInv, OneCall, AtBank
    <3>2. QED  BY <1>2, <1>4, <2>1, <3>1 DEF Serve, ChargedInv, LocalTypes
  <2>2. CASE ~UNCHANGED service
    <3>1. /\ Svc!Step(r) \/ Svc!Crash(r) \/ Svc!Fail(r)
          /\ r # orphan /\ orphan' = orphan /\ waiting' = waiting
          /\ Svc!Step(r) /\ at[r] \in WritePcs => orphan = Nobody \/ row' = row
      BY <1>4, <2>2 DEF Serve, ServeBreaks, client, Svc!Crash, Svc!Fail, Svc!store
    <3>2. waiting = r /\ at[r] # "idle"
      BY <3>1, StepLabels DEF ChargedInv, OneCall
    <3>3. /\ \A q \in Slots : q # r => at'[q] = at[q]
          /\ row' = row \/ (Svc!Step(r) /\ at[r] \in WritePcs)
          /\ charges' = charges \/ at[r] = "procBank"
          /\ at'[r] \in {"procBank", "procFinish"} => at[r] \in {"procStart", "procBank"}
      BY <3>1, HandlerStep DEF ChargedInv, LocalTypes
    <3>4. \A q \in Slots : q # r /\ at[q] # "idle" => q = orphan
      BY <3>2 DEF ChargedInv, OneCall
    <3>5. row' # row \/ charges' # charges => orphan = Nobody
      BY <3>1, <3>3 DEF ChargedInv, AtBank
    <3>6. at'[r] \in {"procBank", "procFinish"} => orphan = Nobody
      BY <1>4, <3>1, <3>3
         DEF Serve, ServeBreaks, WritePcs, ChargedInv, AtBank, LocalTypes, Svc!Crash, Svc!Fail,
             Svc!Answer, Svc!Goto
    <3>7. OneCall' /\ AtBank'
      BY <3>1, <3>2, <3>3, <3>6 DEF ChargedInv, OneCall, AtBank
    <3>8. QED
      BY <1>1, <3>1, <3>4, <3>5, <3>7, SlotsAssumption DEF ChargedInv, LocalTypes
  <2>3. QED  BY <2>1, <2>2
<1>5. ASSUME ServeBreaks(r), orphan' # orphan
      PROVE  ChargedInv'
  <2>1. /\ at[r] \in WritePcs /\ orphan = Nobody /\ orphan' = r
        /\ UNCHANGED service /\ waiting' = waiting
    BY <1>5 DEF ServeBreaks, client
  <2>2. waiting = r  BY <2>1, SlotsAssumption DEF ChargedInv, OneCall, WritePcs
  <2>3. OneCall' /\ AtBank'
    BY <2>1, <2>2, SlotsAssumption DEF ChargedInv, OneCall, AtBank, service
  <2>4. QED  BY <1>2, <2>1, <2>3
<1>6. ASSUME OrphanEnds(r)
      PROVE  ChargedInv'
  <2>1. /\ r = orphan /\ waiting' = waiting
        /\ (at[r] \in WritePcs /\ Svc!Step(r)) \/ Svc!Crash(r)
        /\ orphan' = IF at'[r] = "idle" THEN Nobody ELSE orphan
    BY <1>6 DEF OrphanEnds, client
  <2>2. /\ \A q \in Slots : q # r => at'[q] = at[q]
        /\ charges' = charges
    <3>1. /\ \A q \in Slots : q # r => at'[q] = at[q]
          /\ charges' = charges \/ at[r] = "procBank"
      BY <2>1, HandlerStep DEF ChargedInv, LocalTypes
    <3>2. QED  BY <2>1, <3>1 DEF WritePcs, Svc!Crash
  <2>3. \A q \in Slots : q # r => at[q] \notin {"procBank", "procFinish"}
    BY <2>1, SlotsAssumption DEF ChargedInv, AtBank
  <2>4. OneCall' /\ AtBank'
    BY <2>1, <2>2, <2>3 DEF ChargedInv, OneCall, AtBank
  <2>5. QED  BY <1>1, <2>1, <2>2, <2>3, <2>4
<1>7. ASSUME Hear(r)
      PROVE  ChargedInv'
  <2>1. /\ waiting = r /\ (at[r] = "idle" \/ r = orphan) /\ orphan' = orphan
        /\ UNCHANGED service
    BY <1>7 DEF Hear
  <2>2. OneCall' /\ AtBank'
    BY <2>1 DEF ChargedInv, OneCall, AtBank, service
  <2>3. QED  BY <1>2, <2>1, <2>2 DEF ChargedInv, LocalTypes
<1>8. QED  BY <1>3, <1>4, <1>5, <1>6, <1>7 DEF SlotSteps

LEMMA ChargedAlways == CheckoutSpec => []ChargedInv
<1>1. CheckoutInit => ChargedInv
  BY DEF CheckoutInit, Svc!StoreInit, ChargedInv, LocalTypes, Money, OneCall, AtBank, Going,
         Svc!TransactionStatus, Svc!Pc
<1>2. ASSUME ChargedInv,
             UNCHANGED <<row, charges, at, bankResult, orphan>>,
             \A r \in Slots : waiting = r => waiting' = r
      PROVE  ChargedInv'
  BY <1>2 DEF ChargedInv, LocalTypes, Money, OneCall, AtBank, Going
<1>3. ASSUME ChargedInv, [CheckoutNext]_all  PROVE ChargedInv'
  <2>1. CASE UNCHANGED all
    BY <1>2, <1>3, <2>1 DEF all, service, client
  <2>2. CASE TrySteps
    <3>1. UNCHANGED <<row, charges, at, bankResult, orphan>>
      BY <2>2 DEF TrySteps, Initiate, Try, TryBreaks, HearTry, service
    <3>2. \A r \in Slots : waiting = r => waiting' = r
      BY <2>2, SlotsAssumption DEF TrySteps, Initiate, Try, TryBreaks, HearTry, client
    <3>3. QED  BY <1>2, <1>3, <3>1, <3>2
  <2>3. CASE \E r \in Slots : SlotSteps(r)  BY <1>3, <2>3, SlotCharges
  <2>4. CASE Rests
    <3>1. UNCHANGED <<row, charges, at, bankResult, orphan>>
      BY <2>4 DEF Rests, Abandon, IdemExpires, OtpExpires, CacheExpires, LockExpires, Rest,
                  Svc!OtpExpire, Svc!CacheExpire, Svc!LockExpire, Svc!store, service, all
    <3>2. \A r \in Slots : waiting = r => waiting' = r
      BY <2>4, SlotsAssumption
         DEF Rests, Abandon, IdemExpires, OtpExpires, CacheExpires, LockExpires, Rest,
             client, all
    <3>3. QED  BY <1>2, <1>3, <3>1, <3>2
  <2>5. QED  BY <1>3, <2>1, <2>2, <2>3, <2>4, CheckoutCases
<1>4. QED  BY <1>1, <1>3, PTL DEF CheckoutSpec

\* A client that makes one call at a time is charged once, for any number of tries,
\* slots, retries and failures, whatever stale status it goes by (processPayment).
THEOREM CheckoutChargesOnce == CheckoutSpec => []ChargedOnce
<1>1. ChargedInv => ChargedOnce  BY DEF ChargedInv, Money, ChargedOnce
<1>2. QED  BY ChargedAlways, <1>1, PTL

-------------------------------------------------------------------------------
(* What a client gains that waits for its answers, and for dead calls. *)

\* While the server has the COMMIT of a dead call, no later call that may change the
\* payment is under way: the client came back, or called, after it was executed or
\* aborted.
SettledFirst ==
  orphan # Nobody => \A r \in Slots \ {orphan} : at[r] \in Pay!Reading

NoOrphan == orphan = Nobody

\* Where no process dies there is no such COMMIT.
LEMMA NoDeathNoOrphan ==
  ASSUME "crash" \notin Faults
  PROVE  CheckoutSpec => []NoOrphan
<1> USE DEF NoOrphan
<1>1. CheckoutInit => NoOrphan  BY DEF CheckoutInit
<1>2. NoOrphan /\ [CheckoutNext]_all => NoOrphan'
  <2> SUFFICES ASSUME NoOrphan, CheckoutNext \/ UNCHANGED all  PROVE NoOrphan'
    OBVIOUS
  <2>1. CASE UNCHANGED all  BY <2>1 DEF all
  <2>2. CASE TrySteps
    BY <2>2 DEF TrySteps, Initiate, Try, TryBreaks, HearTry
  <2>3. CASE \E r \in Slots : SlotSteps(r)
    BY <2>3, SlotsAssumption
       DEF SlotSteps, Authenticate, Process, Reconcile, Retry, Look, Sends, Serve, ServeBreaks,
           OrphanEnds, Hear
  <2>4. CASE Rests
    BY <2>4
       DEF Rests, Abandon, IdemExpires, OtpExpires, CacheExpires, LockExpires, Rest, all
  <2>5. QED  BY <2>1, <2>2, <2>3, <2>4, CheckoutCases
<1>3. QED  BY <1>1, <1>2, PTL DEF CheckoutSpec

\* Its writing calls do not overlap, nor with no dead call do any.
LEMMA ClientIsSerial ==
  /\ CheckoutSpec /\ []SettledFirst => []Pay!OneWriter
  /\ CheckoutSpec /\ []NoOrphan => []Pay!NoOverlap
<1>1. ChargedInv /\ SettledFirst => Pay!OneWriter
  <2> SUFFICES ASSUME ChargedInv, SettledFirst, NEW r \in Slots, NEW q \in Slots,
                      at[r] \notin Pay!Reading, at[q] \notin Pay!Reading
               PROVE  r = q
    BY DEF Pay!OneWriter
  <2>1. (waiting = r \/ r = orphan) /\ (waiting = q \/ q = orphan)
    BY DEF ChargedInv, OneCall, Pay!Reading
  <2>2. QED  BY <2>1, SlotsAssumption DEF SettledFirst
<1>2. ChargedInv /\ NoOrphan => Pay!NoOverlap
  BY SlotsAssumption DEF ChargedInv, OneCall, NoOrphan, Pay!NoOverlap
<1>3. QED  BY ChargedAlways, <1>1, <1>2, PTL

LEMMA SameLifecycle == Pay!ImplementsLifecycle => Svc!ImplementsLifecycle
<1>1. Pay!Lifecycle!Init => Svc!Lifecycle!Init
  BY DEF Svc!Lifecycle!Init, Pay!Lifecycle!Init
<1>2. Pay!Lifecycle!vars' = Pay!Lifecycle!vars => Svc!Lifecycle!vars' = Svc!Lifecycle!vars
  BY DEF Svc!Lifecycle!vars, Pay!Lifecycle!vars
<1>3. \A to, attempt : Pay!Lifecycle!Move(to, attempt) => Svc!Lifecycle!Move(to, attempt)
  BY DEF Svc!Lifecycle!Move, Pay!Lifecycle!Move, Svc!Lifecycle!canTransition, Pay!Lifecycle!canTransition,
  Svc!Lifecycle!TERMINAL_STATES, Pay!Lifecycle!TERMINAL_STATES, Svc!Lifecycle!VALID_TRANSITIONS, Pay!Lifecycle!VALID_TRANSITIONS
<1>4. Pay!Lifecycle!Next => Svc!Lifecycle!Next
  BY <1>3 DEF Svc!Lifecycle!Next, Pay!Lifecycle!Next, Svc!Lifecycle!Authenticate, Pay!Lifecycle!Authenticate, Svc!Lifecycle!Reject, Pay!Lifecycle!Reject, Svc!Lifecycle!Process, Pay!Lifecycle!Process, Svc!Lifecycle!Charge, Pay!Lifecycle!Charge,
   Svc!Lifecycle!Settle, Pay!Lifecycle!Settle, Svc!Lifecycle!Reconcile, Pay!Lifecycle!Reconcile, Svc!Lifecycle!Retry, Pay!Lifecycle!Retry
<1>5. [Pay!Lifecycle!Next]_(Pay!Lifecycle!vars) => [Svc!Lifecycle!Next]_(Svc!Lifecycle!vars)
  BY <1>2, <1>4
<1>6. QED BY <1>1, <1>5, PTL DEF Svc!ImplementsLifecycle, Pay!ImplementsLifecycle, Svc!Lifecycle!Spec, Pay!Lifecycle!Spec

\* The payment of such a client is PaymentLifecycle's, from its first initiate to its
\* end, for any number of tries, slots, retries and failures, if what a dead call left
\* with the server is settled before a call that goes by the row: moves along the table
\* only, at most MaxAttempts resets, at most one debit, SUCCESS exactly when it happened.
THEOREM CheckoutImplementsLifecycle ==
  CheckoutSpec /\ []SettledFirst => Svc!ImplementsLifecycle
<1>1. Pay!Spec /\ []Pay!OneWriter => Pay!ImplementsLifecycle
  BY PayAssumptions, Pay!OneWriterImplementsLifecycle, PTL
<1>2. QED  BY CheckoutPays, ClientIsSerial, <1>1, SameLifecycle, PTL

\* It is then debited at most once, exactly when the payment settles, and the trail tells
\* the payment's whole history, which ends: 4 * (MaxAttempts + 1) moves at the very most.
THEOREM CheckoutTellsAll ==
  CheckoutSpec /\ []SettledFirst
    => [](Pay!DebitDecides /\ Pay!TrailIsWalk /\ Pay!TrailBounded)
<1>1. Pay!Spec /\ []Pay!OneWriter => [](Pay!DebitDecides /\ Pay!TrailIsWalk /\ Pay!TrailBounded)
  BY PayAssumptions, Pay!OneWriterTellsAll, PTL
<1>2. QED  BY CheckoutPays, ClientIsSerial, <1>1, PTL

\* Where no process dies the hypothesis holds of itself: whatever calls fail, are refused,
\* repeated or given up, and whatever expires, the payment is PaymentLifecycle's.
THEOREM CheckoutLivesOn ==
  ASSUME "crash" \notin Faults
  PROVE  CheckoutSpec => Svc!ImplementsLifecycle
<1>1. NoOrphan => SettledFirst  BY DEF NoOrphan, SettledFirst
<1>2. QED  BY <1>1, NoDeathNoOrphan, CheckoutImplementsLifecycle, PTL

\* Once its payment is RECONCILED, or an orphan in PROCESSING, no call moves it again.
THEOREM CheckoutFreezes == CheckoutSpec => Svc!FrozenForGood
<1>1. Pay!Spec => Pay!FrozenForGood  BY PayAssumptions, Pay!OrphanForever, PTL
<1>2. (Pay!Frozen <=> Svc!Frozen) /\ (Pay!Frozen' <=> Svc!Frozen')
  BY SameTrail DEF Pay!Frozen, Svc!Frozen, Pay!InFlight, Svc!InFlight
<1>3. Pay!vars' = Pay!vars => Svc!vars' = Svc!vars  BY DEF Svc!vars, Pay!vars
<1>4. [Pay!Frozen => Pay!Frozen']_(Pay!vars) => [Svc!Frozen => Svc!Frozen']_(Svc!vars)
  BY <1>2, <1>3
<1>5. QED  BY CheckoutPays, <1>1, <1>4, PTL DEF Pay!FrozenForGood, Svc!FrozenForGood

\* Each OTP it is given, by initiatePayment or by a retry, authenticates at most once, on
\* the same terms.
THEOREM CheckoutSpendsOtpOnce == CheckoutSpec /\ []SettledFirst => []Svc!OtpConsumedOnce
<1>1. Pay!Spec /\ []Pay!OneWriter => []Pay!OtpConsumedOnce
  BY PayAssumptions, Pay!OneWriterSpendsOtpOnce, PTL
<1>2. Pay!OtpConsumedOnce => Svc!OtpConsumedOnce
  BY SameTrail DEF Svc!OtpConsumedOnce, Pay!OtpConsumedOnce
<1>3. QED  BY CheckoutPays, ClientIsSerial, <1>1, <1>2, PTL

\* If nothing breaks, what it is told between its calls is the row's status, but after
\* an expired OTP.
THEOREM CheckoutKeepsCacheTrue == CheckoutSpec => []Svc!CacheCoherentBetweenCalls
<1>1. Pay!Spec /\ []Pay!NoOverlap => []Pay!CacheCoherentBetweenCalls
  BY PayAssumptions, Pay!NoOverlapKeepsCacheTrue, PTL
<1>2. Pay!Pc = Svc!Pc
  BY DEF Svc!Pc, Pay!Pc, Svc!AuthPcs, Pay!AuthPcs, Svc!ProcPcs, Pay!ProcPcs, Svc!ReconPcs,
         Pay!ReconPcs, Svc!RetryPcs, Pay!RetryPcs, Svc!GetPcs, Pay!GetPcs
<1>3. Pay!CacheCoherentBetweenCalls => Svc!CacheCoherentBetweenCalls
  BY SameSteps, SameTrail, <1>2
     DEF Svc!CacheCoherentBetweenCalls, Pay!CacheCoherentBetweenCalls
<1>4. CASE "crash" \in Faults
  <2>1. Svc!CacheCoherentBetweenCalls
    BY <1>4 DEF Svc!CacheCoherentBetweenCalls, ServiceFaults
  <2>2. QED  BY <2>1, PTL
<1>5. CASE "crash" \notin Faults
  BY <1>5, NoDeathNoOrphan, CheckoutPays, ClientIsSerial, <1>1, <1>3, PTL
<1>6. QED  BY <1>4, <1>5

-------------------------------------------------------------------------------
(* The code the client holds. *)

\* The code r's answer shows, or is about to show, is the one that verifies.
Fresh(r) ==
  /\ row.status = "INITIATED" /\ held = 0 /\ orphan = Nobody
  /\ stored \in {0, code[r]}
  /\ failures = 0 => stored = code[r]

\* While nothing is known of the transaction only one try at a time is under way,
\* and the one that is answered in full has stored its OTP.
Trying ==
  /\ \A t \in Req : pc[t] \notin {"new", "done"} => waiting = t
  /\ \A t \in Req : pc[t] # "done" => reply[t] = "none"
  /\ waiting \in Req => view = "nothing"
  /\ view = "nothing" => /\ waiting \notin Slots /\ orphan = Nobody
                         /\ row.status = "INITIATED" /\ held = 0 /\ stored \in {0, 1}
  /\ \A t \in Req :
       waiting = t /\ failures = 0 /\ (pc[t] \in {"svcSet", "audit"} \/ reply[t] = "full")
         => stored = 1

\* A code is held only between its issue and the authenticate call it is sent with, and
\* no dead call is left then that could write the row.
Holding ==
  held # 0 => /\ row.status = "INITIATED" /\ orphan = Nobody
              /\ stored \in {0, held}
              /\ failures = 0 => stored = held

\* What the call of slot r does to the OTP, and what it answers.
Serving(r) ==
  /\ waiting # r => answer[r] = "none"
  /\ answer[r] = "INITIATED" /\ code[r] # 0 => Fresh(r)
  /\ r # orphan =>
       /\ at[r] \in Svc!AuthPcs \cup Svc!RetryPcs => answer[r] = "none"
       /\ at[r] \in Svc!AuthPcs \cup Svc!RetryPcs \cup WritePcs \cup {"procBank"} => held = 0
       /\ at[r] \in {"retryOtp", "retryInval"} => row.status = "INITIATED" /\ orphan = Nobody
       /\ at[r] = "retryInval" => Fresh(r)
       /\ at[r] \in Svc!ProcPcs \cup Svc!ReconPcs \cup Svc!GetPcs => code[r] = 0

HeldInv ==
  patient =>
    /\ failures \in Nat /\ DOMAIN code = Slots /\ DOMAIN answer = Slots
    /\ Trying /\ Holding
    /\ \A r \in Slots : Serving(r)

\* Every slot but the one that is waited for has no answer, and nothing in flight but
\* a dead call's COMMIT.
LEMMA OthersIdle ==
  ASSUME OneCall, HeldInv, patient, NEW q \in Slots, waiting # q
  PROVE  answer[q] = "none" /\ (at[q] = "idle" \/ q = orphan)
BY DEF OneCall, HeldInv, Serving

\* The labels of handlers in flight.
LEMMA IdleIsNoLabel ==
  "idle" \notin Svc!AuthPcs \cup Svc!ProcPcs \cup Svc!ReconPcs \cup Svc!RetryPcs
                  \cup Svc!GetPcs \cup WritePcs \cup {"retryOtp", "retryInval", "procBank"}
BY DEF Svc!AuthPcs, Svc!ProcPcs, Svc!ReconPcs, Svc!RetryPcs, Svc!GetPcs, WritePcs

LEMMA HeldInit == CheckoutInit => HeldInv
BY SlotsAssumption, IdleIsNoLabel
   DEF CheckoutInit, Init, Svc!StoreInit, HeldInv, Trying, Holding, Serving

\* A slot's step, for what it leaves alone: the tries, and the other slots.
LEMMA SlotFrame ==
  ASSUME OneCall, HeldInv, patient, NEW r \in Slots,
         waiting \in {Nobody, r}, waiting' \in {Nobody, r},
         view # "nothing", view' # "nothing",
         UNCHANGED initiate, failures' \in {failures, failures + 1},
         orphan # Nobody => orphan' = orphan,
         DOMAIN code' = Slots, DOMAIN answer' = Slots,
         \A q \in Slots : q # r => at'[q] = at[q] /\ answer'[q] = answer[q],
         Holding', Serving(r)'
  PROVE  HeldInv'
<1>1. Trying'
  <2>1. waiting \notin Req /\ waiting' \notin Req  BY SlotsAssumption
  <2>2. QED  BY <2>1 DEF HeldInv, Trying, initiate, vars
<1>2. ASSUME NEW q \in Slots, q # r  PROVE Serving(q)'
  <2>1. waiting # q /\ waiting' # q  BY <1>2, SlotsAssumption
  <2>2. answer'[q] = "none" /\ (at'[q] = "idle" \/ q = orphan')
    BY <1>2, <2>1, OthersIdle, SlotsAssumption
  <2>3. QED  BY <2>2, IdleIsNoLabel DEF Serving
<1>3. failures' \in Nat  BY DEF HeldInv
<1>4. \A q \in Slots : Serving(q)'  BY <1>2
<1>5. QED  BY <1>1, <1>3, <1>4 DEF HeldInv

-------------------------------------------------------------------------------
(* The tries keep it. *)

\* The first request of a client that waits: nobody else's is under way.
LEMMA InitiateHolds ==
  ASSUME IInv, OneCall, HeldInv, patient, NEW t \in Req, Initiate(t)
  PROVE  HeldInv'
<1>1. /\ waiting = Nobody /\ waiting' = t /\ view = "nothing" /\ pc[t] = "new"
      /\ UNCHANGED <<service, code, answer, patient, view, held, orphan>>
      /\ failures' \in {failures, failures + 1}
      /\ orphan = Nobody
  BY DEF Initiate, Failure, HeldInv, Trying
<1>2. /\ \A q \in Req : q # t => pc'[q] = pc[q] /\ reply'[q] = reply[q]
      /\ pc'[t] \in {"svcGet", "done"} /\ reply'[t] # "full"
      /\ pc'[t] # "done" => reply'[t] = "none"
  BY <1>1 DEF Initiate, Middleware, Fail, AnswerUncached, Answer, Goto, IInv, TypeOK,
              Shielded, HeldInv, Trying
<1>3. \A q \in Req : q # t => pc[q] \in {"new", "done"}
  BY <1>1, SlotsAssumption DEF HeldInv, Trying
<1>4. Trying'
  BY <1>1, <1>2, <1>3, SlotsAssumption DEF HeldInv, Trying, service
<1>5. \A q \in Slots : Serving(q)'
  <2> SUFFICES ASSUME NEW q \in Slots  PROVE Serving(q)'
    OBVIOUS
  <2>1. at'[q] = "idle" /\ answer'[q] = "none"
    BY <1>1, OthersIdle, SlotsAssumption DEF service
  <2>2. QED  BY <2>1, IdleIsNoLabel DEF Serving
<1>6. Holding'  BY <1>1 DEF HeldInv, Trying, Holding
<1>7. failures' \in Nat /\ DOMAIN code' = Slots /\ DOMAIN answer' = Slots
  BY <1>1 DEF HeldInv
<1>8. QED  BY <1>4, <1>5, <1>6, <1>7 DEF HeldInv

\* A try that goes on is the one the client waits for, or has been answered.
LEMMA TryHolds ==
  ASSUME IInv, OneCall, HeldInv, patient, NEW t \in Req, Try(t)
  PROVE  HeldInv'
<1>1. /\ UNCHANGED <<row, at, code, answer, client, orphan, failures>>
      /\ stored' = IF pc[t] = "storeOtp" /\ otpIssued' THEN 1 ELSE stored
  BY DEF Try
<1>2. \A q \in Req : q # t => pc'[q] = pc[q] /\ reply'[q] = reply[q]
  BY DEF Try, SvcGet, Find, Create, StoreOtp, SvcSet, Audit, CacheWrite, AnswerUncached,
         Answer, Goto, IInv, TypeOK
<1>3. CASE CacheWrite(t) /\ stored' = stored
  <2>1. UNCHANGED <<pc, reply>>  BY <1>3 DEF CacheWrite
  <2>2. Trying' /\ Holding'  BY <1>1, <1>3, <2>1 DEF HeldInv, Trying, Holding, client
  <2>3. \A q \in Slots : Serving(q)'
    BY <1>1, <1>3 DEF HeldInv, Serving, Fresh, client
  <2>4. QED  BY <1>1, <2>2, <2>3 DEF HeldInv
<1>4. CASE pc[t] \notin {"new", "done"}
  <2>1. /\ waiting = t /\ view = "nothing" /\ row.status = "INITIATED" /\ held = 0
        /\ stored \in {0, 1} /\ reply[t] = "none" /\ orphan = Nobody
    BY <1>4 DEF HeldInv, Trying
  <2>2. stored' \in {stored, 1}  BY <1>1
  <2>3. pc'[t] # "done" => reply'[t] = "none"
    BY <1>4, <2>1 DEF Try, SvcGet, Find, Create, StoreOtp, SvcSet, Audit, CacheWrite,
       AnswerUncached, Answer, Goto, IInv, TypeOK
  <2>4. pc'[t] \in {"svcSet", "audit"} \/ reply'[t] = "full"
          => stored' = 1 \/ (stored' = stored /\ pc[t] \in {"svcSet", "audit"})
    BY <1>1, <1>4, <2>1 DEF Try, SvcGet, Find, Create, StoreOtp, SvcSet, Audit, CacheWrite,
       AnswerUncached, Answer, Goto, IInv, TypeOK
  <2>5. Trying'
    BY <1>1, <1>2, <2>1, <2>2, <2>3, <2>4, SlotsAssumption DEF HeldInv, Trying, client
  <2>6. Holding'  BY <1>1, <2>1 DEF Holding, client
  <2>7. \A q \in Slots : Serving(q)'
    <3> SUFFICES ASSUME NEW q \in Slots  PROVE Serving(q)'
      OBVIOUS
    <3>1. at'[q] = "idle" /\ answer'[q] = "none"
      BY <1>1, <2>1, OthersIdle, SlotsAssumption
    <3>2. QED  BY <3>1, IdleIsNoLabel DEF Serving
  <2>8. QED  BY <1>1, <2>5, <2>6, <2>7 DEF HeldInv, client
<1>5. QED
  BY <1>1, <1>3, <1>4
     DEF Try, SvcGet, Find, Create, StoreOtp, SvcSet, Audit

LEMMA TryBreaksHolds ==
  ASSUME IInv, OneCall, HeldInv, patient, NEW t \in Req, TryBreaks(t)
  PROVE  HeldInv'
<1>1. /\ UNCHANGED <<row, stored, at, code, answer, client, orphan>>
      /\ failures' = failures + 1 /\ failures' \in Nat /\ failures' # 0
  BY DEF TryBreaks, Failure, service, HeldInv
<1>2. /\ \A q \in Req : q # t => pc'[q] = pc[q] /\ reply'[q] = reply[q]
      /\ pc'[t] = "done"
  BY DEF TryBreaks, Crash, Fail, AnswerUncached, IInv, TypeOK
<1>3. Trying' /\ Holding'  BY <1>1, <1>2 DEF HeldInv, Trying, Holding, client
<1>4. \A q \in Slots : Serving(q)'  BY <1>1 DEF HeldInv, Serving, Fresh, client
<1>5. QED  BY <1>1, <1>3, <1>4 DEF HeldInv

\* The answer in full hands over the code that is stored.
LEMMA HearTryHolds ==
  ASSUME IInv, OneCall, HeldInv, patient, NEW t \in Req, HearTry(t)
  PROVE  HeldInv'
<1>1. /\ waiting = t /\ pc[t] = "done" /\ waiting' = Nobody
      /\ view' \in {"INITIATED", "unknown", "nothing"}
      /\ view' = "nothing" => reply[t] # "full"
      /\ held' = IF reply[t] = "full" THEN 1 ELSE held
      /\ UNCHANGED <<initiate, service, code, answer, patient, orphan, failures>>
  BY DEF HearTry
<1>2. UNCHANGED <<pc, reply, row, stored, at>>  BY <1>1 DEF initiate, vars, service
<1>3. /\ view = "nothing" /\ row.status = "INITIATED" /\ held = 0 /\ stored \in {0, 1}
      /\ orphan = Nobody
      /\ reply[t] = "full" /\ failures = 0 => stored = 1
  BY <1>1 DEF HeldInv, Trying
<1>4. Trying'  BY <1>1, <1>2, <1>3, SlotsAssumption DEF HeldInv, Trying
<1>5. Holding'  BY <1>1, <1>2, <1>3 DEF Holding
<1>6. \A q \in Slots : Serving(q)'
  <2> SUFFICES ASSUME NEW q \in Slots  PROVE Serving(q)'
    OBVIOUS
  <2>1. at'[q] = "idle" /\ answer'[q] = "none"
    BY <1>1, <1>2, <1>3, OthersIdle, SlotsAssumption
  <2>2. QED  BY <2>1, IdleIsNoLabel DEF Serving
<1>7. QED  BY <1>1, <1>4, <1>5, <1>6 DEF HeldInv

\* The client does not give up, and what runs out is counted or no OTP.
LEMMA RestHolds ==
  ASSUME HeldInv, patient, Rests
  PROVE  HeldInv' /\ patient' = patient
<1>1. CASE Abandon  BY <1>1 DEF Abandon
<1>2. ASSUME UNCHANGED <<pc, reply, row, stored, at, code, answer, client, orphan, failures>>
      PROVE  HeldInv' /\ patient' = patient
  <2>1. Trying' /\ Holding'  BY <1>2 DEF HeldInv, Trying, Holding, client
  <2>2. \A q \in Slots : Serving(q)'  BY <1>2 DEF HeldInv, Serving, Fresh, client
  <2>3. QED  BY <1>2, <2>1, <2>2 DEF HeldInv, client
<1>3. CASE IdemExpires
  BY <1>2, <1>3 DEF IdemExpires, IdemExpire, service
<1>4. CASE CacheExpires
  BY <1>2, <1>4 DEF CacheExpires, Svc!CacheExpire, Svc!store, initiate, vars
<1>5. CASE LockExpires
  BY <1>2, <1>5 DEF LockExpires, Svc!LockExpire, Svc!store, initiate, vars
<1>6. CASE Rest
  BY <1>2, <1>6 DEF Rest, all, initiate, vars, service
<1>7. CASE OtpExpires
  <2>1. /\ UNCHANGED <<pc, reply, row, at, code, answer, client, orphan>>
        /\ stored' = 0 /\ failures' = failures + 1 /\ failures' \in Nat /\ failures' # 0
    BY <1>7 DEF OtpExpires, Failure, Svc!OtpExpire, Svc!store, initiate, vars, HeldInv
  <2>2. Trying' /\ Holding'  BY <2>1 DEF HeldInv, Trying, Holding, client
  <2>3. \A q \in Slots : Serving(q)'  BY <2>1 DEF HeldInv, Serving, Fresh, client
  <2>4. QED  BY <2>1, <2>2, <2>3 DEF HeldInv, client
<1>8. QED  BY <1>1, <1>3, <1>4, <1>5, <1>6, <1>7 DEF Rests

-------------------------------------------------------------------------------
(* The calls keep it. *)

\* A call, taken or refused: what the client sends, and what is as it was.
LEMMA ActHolds ==
  ASSUME ChargedInv, HeldInv, patient, NEW r \in Slots,
         Authenticate(r) \/ Process(r) \/ Reconcile(r) \/ Retry(r) \/ Look(r)
  PROVE  HeldInv'
<1> DEFINE Labels(ls) == at'[r] \in ls \cup {"idle"}
<1>1. /\ waiting = Nobody /\ waiting' = r /\ at[r] = "idle" /\ view # "nothing"
      /\ UNCHANGED <<initiate, patient, view, orphan>>
  BY DEF Authenticate, Process, Reconcile, Retry, Look, Sends
<1>2. answer[r] = "none"  BY <1>1, OthersIdle, SlotsAssumption DEF ChargedInv
<1>3. /\ UNCHANGED <<row, stored>> /\ failures' \in {failures, failures + 1}
      /\ held' \in {held, 0}
  BY DEF Authenticate, Process, Reconcile, Retry, Look, Taken, Refused, Failure, service,
     Svc!AuthRead, Svc!ProcLock, Svc!ProcLockUnacked, Svc!ReconRead, Svc!RetryRead,
     Svc!GetMiss, Svc!store
<1>4. /\ DOMAIN code' = Slots /\ DOMAIN answer' = Slots
      /\ \A q \in Slots : q # r => answer'[q] = answer[q]
  BY DEF HeldInv, Authenticate, Process, Reconcile, Retry, Look, Sends, Taken, Refused
<1>5. \A q \in Slots : q # r => at'[q] = at[q]
  BY DEF ChargedInv, LocalTypes, Authenticate, Process, Reconcile, Retry, Look, Taken,
     Refused, service, Svc!AuthRead, Svc!ProcLock, Svc!ProcLockUnacked, Svc!ReconRead,
     Svc!RetryRead, Svc!GetMiss, Svc!Goto
<1>6. Holding'  BY <1>1, <1>3 DEF HeldInv, Holding
<1>7. \A error \in {"INVALID_TRANSITION", "TERMINAL_STATE", "PAYMENT_PROCESSING_FAILED",
                    "DUPLICATE_TRANSACTION", "INTERNAL_ERROR"} : httpStatus[error] # "INITIATED"
  BY DEF httpStatus
<1>8. \A s, to : Svc!validateTransition(s, to)
                   \in {"OK", "INVALID_TRANSITION", "TERMINAL_STATE"}
  BY DEF Svc!validateTransition
<1>9. Serving(r)'
  <2>1. CASE Authenticate(r)
    <3>1. held' = 0  BY <2>1 DEF Authenticate
    <3>2. \/ at'[r] = "otpGet" /\ answer'[r] = "none"
          \/ at'[r] = "idle" /\ answer'[r] # "INITIATED"
      BY <1>1, <1>2, <1>7, <1>8, <2>1
         DEF Authenticate, Taken, Refused, Svc!AuthRead, Svc!Goto, ChargedInv, LocalTypes,
             HeldInv, service
    <3>3. QED  BY <1>1, <3>1, <3>2, IdleIsNoLabel
               DEF Serving, Svc!AuthPcs, Svc!ProcPcs, Svc!ReconPcs, Svc!RetryPcs, Svc!GetPcs
  <2>2. CASE Process(r) \/ Reconcile(r) \/ Look(r)
    <3>1. code'[r] = 0
      BY <2>2 DEF Process, Reconcile, Look, Sends, HeldInv
    <3>2. at'[r] \in {"idle", "procRead", "reconCommit", "getRead"}
      BY <1>1, <2>2 DEF Process, Reconcile, Look, Taken, Refused, Svc!ProcLock,
         Svc!ProcLockUnacked, Svc!ReconRead, Svc!GetMiss, Svc!Goto, ChargedInv, LocalTypes,
         service
    <3>3. at'[r] = "reconCommit" => held' = 0
      <4>1. ASSUME at'[r] = "reconCommit"  PROVE row.status = "SUCCESS" /\ held' = held
        BY <1>1, <2>2, <4>1, StartSources
           DEF Process, Reconcile, Look, Taken, Refused, Svc!ProcLock, Svc!ProcLockUnacked,
               Svc!ReconRead, Svc!GetMiss, Svc!Goto, ChargedInv, LocalTypes, service
      <4>2. QED  BY <4>1 DEF HeldInv, Holding
    <3>4. QED  BY <1>1, <3>1, <3>2, <3>3, IdleIsNoLabel
               DEF Serving, Svc!AuthPcs, Svc!ProcPcs, Svc!ReconPcs, Svc!RetryPcs, Svc!GetPcs,
                   WritePcs
  <2>3. CASE Retry(r)
    <3>1. \/ at'[r] = "retryLog" /\ answer'[r] = "none" /\ held' = 0
          \/ at'[r] = "idle" /\ answer'[r] # "INITIATED"
      BY <1>1, <1>2, <1>7, <2>3
         DEF Retry, Taken, Refused, Svc!RetryRead, Svc!Goto, ChargedInv, LocalTypes,
             HeldInv, Holding, service
    <3>2. QED  BY <1>1, <3>1, IdleIsNoLabel
               DEF Serving, Svc!AuthPcs, Svc!ProcPcs, Svc!ReconPcs, Svc!RetryPcs, Svc!GetPcs
  <2>4. QED  BY <2>1, <2>2, <2>3
<1>10. QED
  BY <1>1, <1>3, <1>4, <1>5, <1>6, <1>9, SlotFrame DEF ChargedInv

\* The client hears the answer; a new code is the one that is stored.
LEMMA HearHolds ==
  ASSUME ChargedInv, HeldInv, patient, NEW r \in Slots, Hear(r)
  PROVE  HeldInv'
<1>1. /\ waiting = r /\ (at[r] = "idle" \/ r = orphan) /\ waiting' = Nobody
      /\ UNCHANGED <<initiate, row, stored, at, patient, orphan, failures>>
      /\ answer' = [answer EXCEPT ![r] = "none"]
      /\ code' = [code EXCEPT ![r] = 0]
  BY DEF Hear, service
<1>2. view # "nothing"  BY <1>1 DEF HeldInv, Trying
<1>3. view' # "nothing"  BY DEF Hear, Svc!TransactionStatus
<1>4. Holding'
  <2>1. CASE answer[r] = "INITIATED" /\ code[r] # 0
    <3>1. held' = code[r]  BY <2>1 DEF Hear
    <3>2. Fresh(r)  BY <2>1 DEF HeldInv, Serving
    <3>3. QED  BY <1>1, <3>1, <3>2 DEF Fresh, Holding
  <2>2. CASE ~(answer[r] = "INITIATED" /\ code[r] # 0)
    <3>1. held' = held  BY <2>2 DEF Hear
    <3>2. QED  BY <1>1, <3>1 DEF HeldInv, Holding
  <2>3. QED  BY <2>1, <2>2
<1>5. /\ DOMAIN code' = Slots /\ DOMAIN answer' = Slots /\ answer'[r] = "none"
      /\ \A q \in Slots : q # r => at'[q] = at[q] /\ answer'[q] = answer[q]
  BY <1>1 DEF HeldInv
<1>6. Serving(r)'  BY <1>1, <1>5, IdleIsNoLabel DEF Serving
<1>7. QED
  BY <1>1, <1>2, <1>3, <1>4, <1>5, <1>6, SlotFrame DEF ChargedInv

\* What a step of a handler does to the row, the OTP and the answer of its call.
LEMMA ServeHolds ==
  ASSUME ChargedInv, HeldInv, patient, NEW r \in Slots, Serve(r)
  PROVE  HeldInv'
<1>1. /\ Svc!Step(r)
      /\ stored' = CASE at[r] = "otpDel"   -> 0
                     [] at[r] = "retryOtp" -> code[r]
                     [] OTHER              -> stored
      /\ code' = IF at[r] = "otpGet" /\ code[r] # stored
                 THEN [code EXCEPT ![r] = 0] ELSE code
      /\ at[r] = "otpDel" => (at'[r] = "authCommit" <=> code[r] # 0)
      /\ answer' = [answer EXCEPT ![r] = Answers(r)]
      /\ UNCHANGED <<initiate, client, orphan, failures>>
      /\ r # orphan /\ (at[r] \in WritePcs => orphan = Nobody)
  BY DEF Serve
<1>2. /\ at[r] # "idle"
      /\ \A q \in Slots : q # r => at'[q] = at[q]
      /\ row' = row \/ at[r] \in WritePcs
  <2>2. /\ \A q \in Slots : q # r => at'[q] = at[q]
        /\ row' = row \/ at[r] \in WritePcs
    BY <1>1, HandlerStep DEF ChargedInv, LocalTypes
  <2>3. QED  BY <1>1, <2>2, StepLabels
<1>3. waiting = r /\ view # "nothing"
  BY <1>1, <1>2 DEF ChargedInv, OneCall, HeldInv, Trying
<1>4. answer'[r] = Answers(r) /\ at \in [Slots -> Svc!Pc] /\ r \in DOMAIN code
  BY <1>1 DEF HeldInv, ChargedInv, LocalTypes
<1>5. Serving(r) /\ Holding /\ Going(r)  BY DEF HeldInv, ChargedInv
<1>6. Holding' /\ Serving(r)'
  <2> USE DEF Svc!At, Svc!Goto, Svc!Answer
  <2>1. CASE Svc!AuthOtpGet(r) \/ Svc!AuthOtpDel(r) \/ Svc!AuthExpire(r)
               \/ Svc!AuthCommit(r) \/ Svc!AuthInval(r)
    <3>1. at[r] \in {"otpGet", "otpDel", "otpExpired", "authCommit", "authInval"}
      BY <2>1 DEF Svc!AuthOtpGet, Svc!AuthOtpDel, Svc!AuthExpire, Svc!AuthCommit,
         Svc!AuthInval
    <3>2. held' = 0 /\ answer[r] = "none"
      BY <1>1, <1>5, <3>1 DEF Serving, Svc!AuthPcs, client
    <3>3. \/ at'[r] \in {"otpDel", "otpExpired", "authCommit", "authInval"}
             /\ answer'[r] = "none"
          \/ at'[r] = "idle" /\ answer'[r] # "INITIATED"
      <4>1. CASE Svc!AuthOtpGet(r)
        BY <1>1, <1>4, <4>1, <3>2 DEF Svc!AuthOtpGet, Answers
      <4>2. CASE Svc!AuthOtpDel(r)
        <5>1. at[r] = "otpDel" /\ at'[r] \in {"authCommit", "idle"}
          BY <1>4, <4>2 DEF Svc!AuthOtpDel
        <5>2. CASE code[r] = 0
          BY <1>1, <1>4, <5>1, <5>2 DEF Answers, httpStatus
        <5>3. CASE code[r] # 0
          BY <1>1, <1>4, <5>1, <5>3, <3>2 DEF Answers
        <5>4. QED  BY <5>2, <5>3
      <4>3. CASE Svc!AuthExpire(r)
        BY <1>1, <1>4, <4>3 DEF Svc!AuthExpire, Answers, httpStatus
      <4>4. CASE Svc!AuthCommit(r)
        BY <1>1, <1>4, <4>4, <3>2 DEF Svc!AuthCommit, Answers
      <4>5. CASE Svc!AuthInval(r)
        BY <1>1, <1>4, <4>5 DEF Svc!AuthInval, Answers
      <4>6. QED  BY <2>1, <4>1, <4>2, <4>3, <4>4, <4>5
    <3>4. Holding'  BY <3>2 DEF Holding
    <3>5. Serving(r)'
      BY <1>1, <1>3, <3>2, <3>3, IdleIsNoLabel
         DEF Serving, Svc!AuthPcs, Svc!ProcPcs, Svc!ReconPcs, Svc!RetryPcs, Svc!GetPcs, WritePcs,
             client
    <3>6. QED  BY <3>4, <3>5
  <2>2. CASE Svc!RetryLog(r) \/ Svc!RetryCommit(r)
    <3>1. at[r] \in {"retryLog", "retryCommit"}
      BY <2>2 DEF Svc!RetryLog, Svc!RetryCommit
    <3>2. held' = 0 /\ answer[r] = "none"
      BY <1>1, <1>5, <3>1 DEF Serving, Svc!RetryPcs, client
    <3>3. \/ at'[r] = "retryCommit" /\ answer'[r] = "none"
          \/ /\ at'[r] = "retryOtp" /\ answer'[r] = "none" /\ row'.status = "INITIATED"
             /\ orphan' = Nobody
          \/ at'[r] = "idle" /\ answer'[r] # "INITIATED"
      BY <1>1, <1>4, <2>2, <3>2
         DEF Svc!RetryLog, Svc!RetryCommit, Svc!transitionStatus, Svc!Updated,
             Answers, httpStatus, WritePcs
    <3>4. Holding'  BY <3>2 DEF Holding
    <3>5. Serving(r)'
      BY <1>1, <1>3, <3>2, <3>3, IdleIsNoLabel
         DEF Serving, Svc!AuthPcs, Svc!ProcPcs, Svc!ReconPcs, Svc!RetryPcs, Svc!GetPcs, WritePcs,
             client
    <3>6. QED  BY <3>4, <3>5
  <2>3. CASE Svc!RetryOtp(r) \/ Svc!RetryInval(r)
    <3>1. at[r] \in {"retryOtp", "retryInval"} /\ row' = row
      BY <2>3 DEF Svc!RetryOtp, Svc!RetryInval, Svc!store
    <3>2. /\ held' = 0 /\ held = 0 /\ answer[r] = "none" /\ row'.status = "INITIATED"
          /\ orphan' = Nobody
      BY <1>1, <1>5, <3>1 DEF Serving, Svc!RetryPcs, client
    <3>3. code' = code /\ (at[r] = "retryInval" => stored' = stored)
      BY <1>1, <3>1
    <3>4. Fresh(r)'
      <4>1. CASE at[r] = "retryOtp"
        BY <1>1, <3>2, <3>3, <4>1 DEF Fresh
      <4>2. CASE at[r] = "retryInval"
        BY <1>1, <1>5, <3>1, <3>2, <3>3, <4>2 DEF Serving, Fresh
      <4>3. QED  BY <3>1, <4>1, <4>2
    <3>5. \/ at'[r] = "retryInval" /\ answer'[r] = "none"
          \/ at'[r] = "idle"
      BY <1>1, <1>4, <2>3, <3>2 DEF Svc!RetryOtp, Svc!RetryInval, Answers
    <3>6. Holding'  BY <3>2 DEF Holding
    <3>7. Serving(r)'
      BY <1>1, <1>3, <3>2, <3>4, <3>5, IdleIsNoLabel
         DEF Serving, Svc!AuthPcs, Svc!ProcPcs, Svc!ReconPcs, Svc!RetryPcs, Svc!GetPcs, WritePcs,
             client
    <3>8. QED  BY <3>6, <3>7
  <2>4. CASE Svc!ProcRead(r) \/ Svc!ProcStart(r) \/ Svc!ProcBank(r) \/ Svc!ProcFinish(r)
               \/ Svc!ProcInval(r) \/ Svc!ProcRelease(r) \/ Svc!ReconCommit(r)
               \/ Svc!ReconInval(r) \/ Svc!GetRead(r) \/ Svc!GetFill(r)
    <3>1. at[r] \in {"procRead", "procStart", "procBank", "procFinish", "procInval",
                     "procRelease", "reconCommit", "reconInval", "getRead", "getFill"}
      BY <2>4 DEF Svc!ProcRead, Svc!ProcStart, Svc!ProcBank, Svc!ProcFinish, Svc!ProcInval,
         Svc!ProcRelease, Svc!ReconCommit, Svc!ReconInval, Svc!GetRead, Svc!GetFill
    <3>2. code'[r] = 0 /\ stored' = stored
      BY <1>1, <1>5, <3>1 DEF Serving, Svc!ProcPcs, Svc!ReconPcs, Svc!GetPcs
    <3>3. at'[r] \in {"procStart", "procBank", "procFinish", "procInval", "procRelease",
                      "reconInval", "getFill", "idle"}
      BY <1>4, <2>4 DEF Svc!ProcRead, Svc!ProcStart, Svc!ProcBank, Svc!ProcFinish,
         Svc!ProcInval, Svc!ProcRelease, Svc!ReconCommit, Svc!ReconInval, Svc!GetRead,
         Svc!GetFill
    <3>4. held = 0 \/ row' = row  BY <1>1, <1>2, <1>5 DEF Serving
    <3>5. Holding'  BY <1>1, <1>5, <3>2, <3>4 DEF Holding, client
    <3>6. at'[r] \in WritePcs \cup {"procBank"} => held = 0
      <4>1. CASE Svc!ProcRead(r)
        <5>1. at'[r] = "procStart" => row.status = "AUTHENTICATED"
          BY <1>4, <4>1, StartSources DEF Svc!ProcRead, ChargedInv, LocalTypes
        <5>2. at'[r] \in {"procStart", "procRelease"}  BY <1>4, <4>1 DEF Svc!ProcRead
        <5>3. QED  BY <1>5, <5>1, <5>2 DEF Holding, WritePcs
      <4>2. CASE Svc!ProcStart(r) \/ Svc!ProcBank(r)
        <5>1. at[r] \in WritePcs \cup {"procBank"}
          BY <4>2 DEF Svc!ProcStart, Svc!ProcBank, WritePcs
        <5>2. QED  BY <1>1, <1>5, <5>1 DEF Serving
      <4>3. CASE Svc!ProcFinish(r) \/ Svc!ProcInval(r) \/ Svc!ProcRelease(r)
                   \/ Svc!ReconCommit(r) \/ Svc!ReconInval(r) \/ Svc!GetRead(r)
                   \/ Svc!GetFill(r)
        BY <1>4, <4>3
           DEF WritePcs, Svc!ProcFinish, Svc!ProcInval, Svc!ProcRelease, Svc!ReconCommit,
               Svc!ReconInval, Svc!GetRead, Svc!GetFill
      <4>4. QED  BY <2>4, <4>1, <4>2, <4>3
    <3>7. Serving(r)'
      BY <1>1, <1>3, <3>2, <3>3, <3>6, IdleIsNoLabel
         DEF Serving, Svc!AuthPcs, Svc!ProcPcs, Svc!ReconPcs, Svc!RetryPcs, Svc!GetPcs, WritePcs,
             client
    <3>8. QED  BY <3>5, <3>7
  <2>5. QED  BY <1>1, <2>1, <2>2, <2>3, <2>4 DEF Svc!Step
<1>7. /\ DOMAIN code' = Slots /\ DOMAIN answer' = Slots
      /\ \A q \in Slots : q # r => answer'[q] = answer[q]
  BY <1>1 DEF HeldInv
<1>8. QED
  BY <1>1, <1>2, <1>3, <1>6, <1>7, SlotFrame DEF ChargedInv, client

\* A call that breaks leaves the code it was about to hand out unheard; one that the
\* server goes on with was about to write the row.
LEMMA ServeBreaksHolds ==
  ASSUME ChargedInv, HeldInv, patient, NEW r \in Slots, ServeBreaks(r)
  PROVE  HeldInv'
<1>1. /\ UNCHANGED <<initiate, row, stored, code, client>>
      /\ failures' = failures + 1 /\ failures' # 0
      /\ r # orphan
      /\ \/ answer' = [answer EXCEPT ![r] = "lost"]
         \/ answer' = [answer EXCEPT ![r] = httpStatus.INTERNAL_ERROR]
      /\ \/ (Svc!Crash(r) \/ Svc!Fail(r)) /\ orphan' = orphan
         \/ at[r] \in WritePcs /\ orphan = Nobody /\ orphan' = r /\ at' = at
  BY DEF ServeBreaks, Failure, Svc!Crash, Svc!Fail, Svc!store, HeldInv, service
<1>2. at[r] # "idle"  BY <1>1, StepLabels, IdleIsNoLabel
<1>3. waiting = r /\ view # "nothing"
  BY <1>1, <1>2 DEF ChargedInv, OneCall, HeldInv, Trying
<1>4. /\ DOMAIN code' = Slots /\ DOMAIN answer' = Slots
      /\ \A q \in Slots : q # r => answer'[q] = answer[q]
      /\ answer'[r] # "INITIATED"
  BY <1>1 DEF HeldInv, httpStatus
<1>5. CASE (Svc!Crash(r) \/ Svc!Fail(r)) /\ orphan' = orphan
  <2>1. \/ at'[r] = "idle"
        \/ at'[r] = "procRelease" /\ code[r] = 0
    BY <1>1, <1>2, <1>5 DEF Svc!Crash, Svc!Fail, Svc!Goto, Svc!Answer, ChargedInv,
       LocalTypes, HeldInv, Serving
  <2>2. \A q \in Slots : q # r => at'[q] = at[q]
    BY <1>5 DEF Svc!Crash, Svc!Fail, Svc!Goto, Svc!Answer, ChargedInv, LocalTypes
  <2>3. Holding'  BY <1>1, <1>5 DEF HeldInv, Holding, client
  <2>4. Serving(r)'
    BY <1>1, <1>3, <1>4, <1>5, <2>1, IdleIsNoLabel
       DEF Serving, Svc!AuthPcs, Svc!ProcPcs, Svc!ReconPcs, Svc!RetryPcs, Svc!GetPcs, WritePcs,
           client
  <2>5. QED
    BY <1>1, <1>3, <1>4, <1>5, <2>2, <2>3, <2>4, SlotFrame DEF ChargedInv, client
<1>6. CASE at[r] \in WritePcs /\ orphan = Nobody /\ orphan' = r /\ at' = at
  <2>1. held = 0  BY <1>1, <1>6 DEF HeldInv, Serving
  <2>2. Holding'  BY <1>1, <2>1 DEF Holding, client
  <2>3. Serving(r)'  BY <1>1, <1>3, <1>4, <1>6 DEF Serving, client
  <2>4. QED
    BY <1>1, <1>3, <1>4, <1>6, <2>2, <2>3, SlotFrame DEF ChargedInv, client
<1>7. QED  BY <1>1, <1>5, <1>6

\* The COMMIT of a dead call comes when no code is held and none is being handed out.
LEMMA OrphanEndsHolds ==
  ASSUME ChargedInv, HeldInv, patient, NEW r \in Slots, OrphanEnds(r)
  PROVE  HeldInv'
<1>1. /\ UNCHANGED <<initiate, stored, code, answer, client, failures>>
      /\ r = orphan /\ orphan # Nobody
      /\ orphan' = IF at'[r] = "idle" THEN Nobody ELSE orphan
      /\ Svc!Step(r) \/ Svc!Crash(r)
  BY SlotsAssumption DEF OrphanEnds
<1>2. \A q \in Slots : q # r => at'[q] = at[q]
  BY <1>1, HandlerStep DEF ChargedInv, LocalTypes
<1>3. held = 0 /\ view # "nothing" /\ \A q \in Slots : ~Fresh(q)
  BY <1>1 DEF HeldInv, Holding, Trying, Fresh
<1>4. Trying'
  <2>1. waiting \notin Req  BY <1>3 DEF HeldInv, Trying
  <2>2. QED  BY <1>1, <1>3, <2>1 DEF HeldInv, Trying, initiate, vars, client
<1>5. Holding'  BY <1>1, <1>3 DEF Holding, client
<1>6. ASSUME NEW q \in Slots  PROVE Serving(q)'
  <2>1. Serving(q)  BY DEF HeldInv
  <2>2. answer[q] = "INITIATED" => code[q] = 0  BY <1>3, <2>1 DEF Serving
  <2>3. CASE q = r
    BY <1>1, <2>1, <2>2, <2>3, IdleIsNoLabel DEF Serving, client
  <2>4. CASE q # r
    BY <1>1, <1>2, <1>3, <2>1, <2>2, <2>4 DEF Serving, client
  <2>5. QED  BY <2>3, <2>4
<1>7. QED  BY <1>1, <1>4, <1>5, <1>6 DEF HeldInv, client

LEMMA HeldStep ==
  ASSUME IInv, ChargedInv, HeldInv, [CheckoutNext]_all
  PROVE  HeldInv'
<1>1. patient' = patient
  BY DEF CheckoutNext, Initiate, Try, TryBreaks, HearTry, Abandon, Act, Authenticate,
     Process, Reconcile, Retry, Look, Sends, Serve, ServeBreaks, OrphanEnds, Hear,
     IdemExpires, OtpExpires, CacheExpires, LockExpires, Rest, all, client
<1>2. CASE ~patient  BY <1>1, <1>2 DEF HeldInv
<1>3. CASE patient
  <2>1. CASE UNCHANGED all
    BY <1>3, <2>1 DEF all, service, client, initiate, vars, HeldInv, Trying, Holding,
       Serving, Fresh
  <2>2. CASE TrySteps
    BY <1>3, <2>2, InitiateHolds, TryHolds, TryBreaksHolds, HearTryHolds
       DEF TrySteps, ChargedInv
  <2>3. CASE \E r \in Slots : SlotSteps(r)
    BY <1>3, <2>3, ActHolds, ServeHolds, ServeBreaksHolds, OrphanEndsHolds, HearHolds
       DEF SlotSteps
  <2>4. CASE Rests  BY <1>3, <2>4, RestHolds
  <2>5. QED  BY <2>1, <2>2, <2>3, <2>4, CheckoutCases
<1>4. QED  BY <1>2, <1>3

\* The code a waiting client holds is never replaced behind its back, for any
\* number of tries, slots, retries and failures (OTPStore.store in initiatePayment
\* and retryPayment, OTPStore.consume).
THEOREM CheckoutCodeWorks == CheckoutSpec => []HeldCodeVerifies
<1>1. HeldInv => HeldCodeVerifies  BY DEF HeldInv, Holding, HeldCodeVerifies
<1>2. IInv /\ ChargedInv /\ HeldInv /\ [CheckoutNext]_all => HeldInv'  BY HeldStep
<1>3. CheckoutSpec => []IInv  BY CheckoutInitiates, Invariant, PTL
<1>4. QED  BY HeldInit, ChargedAlways, <1>1, <1>2, <1>3, PTL DEF CheckoutSpec

-------------------------------------------------------------------------------
(* Types. *)

\* What the service keeps, and hands out.
ServiceTypes ==
  /\ Svc!TypeOK
  /\ \A r \in Slots : at[r] = "getFill" => snap[r].status \in Svc!TransactionStatus

Codes  == 0..MaxAttempts + 1
Bodies == Svc!TransactionStatus \cup HttpErrors \cup {"none", "lost"}

\* The part of CheckoutTypeOK that is Checkout's own.
OwnTypes ==
  /\ stored \in Codes /\ held \in Codes /\ code \in [Slots -> Codes]
  /\ answer \in [Slots -> Bodies]
  /\ patient \in Patience
  /\ waiting \in Req \cup Slots \cup {Nobody}
  /\ view \in Svc!TransactionStatus \cup {"nothing", "unknown"}
  /\ orphan \in Slots \cup {Nobody}
  /\ failures \in 0..MaxFailures

LEMMA ServiceTyped == CheckoutSpec => []ServiceTypes
<1>1. Pay!Spec => []Pay!TInv  BY PayAssumptions, Pay!TypesAlways, PTL
<1>2. Pay!TInv => ServiceTypes
  <2>1. /\ Pay!TransactionStatus = Svc!TransactionStatus /\ Pay!NoTxn = Svc!NoTxn
        /\ Pay!Pc = Svc!Pc /\ Pay!Event = Svc!Event
    BY DEF Pay!TransactionStatus, Svc!TransactionStatus, Pay!NoTxn, Svc!NoTxn, Pay!Event,
           Svc!Event, Svc!Pc, Pay!Pc, Svc!AuthPcs, Pay!AuthPcs, Svc!ProcPcs, Pay!ProcPcs,
           Svc!ReconPcs, Pay!ReconPcs, Svc!RetryPcs, Pay!RetryPcs, Svc!GetPcs, Pay!GetPcs
  <2>2. Pay!Txn = Svc!Txn /\ Pay!Entry = Svc!Entry
    BY <2>1 DEF Pay!Txn, Svc!Txn, Pay!Entry, Svc!Entry
  <2>3. Pay!TypeOK => Svc!TypeOK  BY <2>1, <2>2 DEF Pay!TypeOK, Svc!TypeOK
  <2>4. \A txn \in Svc!Txn : txn.status \in Svc!TransactionStatus  BY DEF Svc!Txn
  <2>5. QED  BY <2>2, <2>3, <2>4 DEF Pay!TInv, Pay!Admitted, ServiceTypes
<1>3. QED  BY CheckoutPays, <1>1, <1>2, PTL

LEMMA OwnTypesTry ==
  ASSUME OwnTypes, TrySteps
  PROVE  OwnTypes'
BY LimitsAssumption, ClientAssumption
   DEF OwnTypes, Codes, TrySteps, Initiate, Try, TryBreaks, HearTry, Failure, service,
       client, Svc!TransactionStatus

LEMMA OwnTypesRest ==
  ASSUME OwnTypes, Rests
  PROVE  OwnTypes'
BY LimitsAssumption, ClientAssumption
   DEF OwnTypes, Codes, Rests, Abandon, IdemExpires, OtpExpires, CacheExpires, LockExpires,
       Rest, Failure, service, client, all

LEMMA OwnTypesCall ==
  ASSUME OwnTypes, ServiceTypes, NEW r \in Slots,
         Authenticate(r) \/ Process(r) \/ Reconcile(r) \/ Retry(r) \/ Look(r)
  PROVE  OwnTypes'
<1>1. /\ waiting' = r /\ UNCHANGED <<patient, view, orphan>> /\ stored' = stored
      /\ held' \in {held, 0} /\ failures' \in {failures, failures + 1}
      /\ failures' # failures => failures < MaxFailures
  BY DEF Authenticate, Process, Reconcile, Retry, Look, Sends, Taken, Refused, Failure,
         service
<1>2. \A error \in {"INVALID_TRANSITION", "TERMINAL_STATE", "PAYMENT_PROCESSING_FAILED",
                    "DUPLICATE_TRANSACTION", "INTERNAL_ERROR"} : httpStatus[error] \in Bodies
  BY DEF httpStatus, Bodies, HttpErrors
<1>3. \A s, to : Svc!validateTransition(s, to)
                   \in {"OK", "INVALID_TRANSITION", "TERMINAL_STATE"}
  BY DEF Svc!validateTransition
<1>4. \A txn \in Svc!Txn : /\ txn.status \in Svc!TransactionStatus
                           /\ txn.retryCount \in Nat
  BY DEF Svc!Txn
<1>5. answer' \in [Slots -> Bodies]
  <2>1. \/ answer' = answer
        \/ \E a \in Bodies : answer' = [answer EXCEPT ![r] = a]
    <3>1. CASE Authenticate(r)
      BY <1>2, <1>3, <3>1 DEF Authenticate, Taken, Refused
    <3>2. CASE Process(r)
      BY <1>2, <3>2 DEF Process, Taken, Refused
    <3>3. CASE Reconcile(r)
      BY <1>2, <1>3, <3>3 DEF Reconcile, Taken, Refused
    <3>4. CASE Retry(r)
      BY <1>2, <3>4 DEF Retry, Taken, Refused
    <3>5. CASE Look(r)
      BY <1>4, <3>5 DEF Look, Taken, ServiceTypes, Svc!TypeOK, Bodies
    <3>6. QED  BY <3>1, <3>2, <3>3, <3>4, <3>5
  <2>2. QED  BY <2>1 DEF OwnTypes
<1>6. code' \in [Slots -> Codes]
  <2>1. \E n \in Codes : code' = [code EXCEPT ![r] = n]
    <3>1. CASE Retry(r) /\ Svc!RetryRead(r)
      <4>1. row.retryCount < MaxAttempts /\ row.retryCount \in Nat
        BY <1>4, <3>1 DEF Svc!RetryRead, ServiceTypes, Svc!TypeOK
      <4>2. row.retryCount + 2 \in Codes /\ 0 \in Codes
        BY <4>1, LimitsAssumption DEF Codes
      <4>3. QED  BY <3>1, <4>2 DEF Retry, Sends
    <3>2. CASE ~(Retry(r) /\ Svc!RetryRead(r))
      <4>1. held \in Codes /\ 0 \in Codes  BY LimitsAssumption DEF OwnTypes, Codes
      <4>2. QED
        BY <3>2, <4>1 DEF Authenticate, Process, Reconcile, Retry, Look, Sends
    <3>3. QED  BY <3>1, <3>2
  <2>2. QED  BY <2>1 DEF OwnTypes
<1>7. QED
  BY <1>1, <1>5, <1>6, LimitsAssumption, ClientAssumption DEF OwnTypes, Codes

LEMMA OwnTypesServe ==
  ASSUME OwnTypes, ServiceTypes, NEW r \in Slots,
         Serve(r) \/ ServeBreaks(r) \/ OrphanEnds(r) \/ Hear(r)
  PROVE  OwnTypes'
<1>1. 0 \in Codes  BY LimitsAssumption DEF Codes
<1>2. CASE Serve(r)
  <2>1. Answers(r) \in Bodies
    <3>1. \A error \in {"INVALID_TRANSITION", "TERMINAL_STATE", "INVALID_OTP",
                        "INTERNAL_ERROR"} : httpStatus[error] \in Bodies
      BY DEF httpStatus, Bodies, HttpErrors
    <3>2. /\ {"AUTHENTICATED", "RECONCILED", "INITIATED", "SUCCESS", "FAILED", "none"}
               \subseteq Bodies
          /\ Svc!TransactionStatus \subseteq Bodies
      BY DEF Bodies, Svc!TransactionStatus
    <3>3. at[r] = "procRead" /\ at'[r] = "procRelease"
            => Svc!validateTransition(row.status, "PROCESSING")
                 \in {"INVALID_TRANSITION", "TERMINAL_STATE"}
      <4>1. ASSUME at[r] = "procRead", at'[r] = "procRelease"
            PROVE  Svc!ProcRead(r)
        BY <1>2, <4>1 DEF Serve, Svc!Step, Svc!At, Svc!AuthOtpGet, Svc!AuthOtpDel,
           Svc!AuthExpire, Svc!AuthCommit, Svc!AuthInval, Svc!ProcStart, Svc!ProcBank,
           Svc!ProcFinish, Svc!ProcInval, Svc!ProcRelease, Svc!ReconCommit,
           Svc!ReconInval, Svc!RetryLog, Svc!RetryCommit, Svc!RetryOtp,
           Svc!RetryInval, Svc!GetRead, Svc!GetFill
      <4>2. QED
        BY <4>1 DEF Svc!ProcRead, Svc!Goto, Svc!validateTransition, ServiceTypes, Svc!TypeOK
    <3>4. bankResult[r] \in {"none", "SUCCESS", "FAILED"} /\ answer[r] \in Bodies
      BY DEF ServiceTypes, Svc!TypeOK, OwnTypes
    <3>5. at[r] = "getFill" => snap[r].status \in Svc!TransactionStatus
      BY DEF ServiceTypes
    <3>6. QED  BY <3>1, <3>2, <3>3, <3>4, <3>5 DEF Answers
  <2>2. answer' = [answer EXCEPT ![r] = Answers(r)]  BY <1>2 DEF Serve
  <2>3. answer' \in [Slots -> Bodies]  BY <2>1, <2>2 DEF OwnTypes
  <2>4. stored' \in Codes /\ code' \in [Slots -> Codes]
        /\ UNCHANGED <<client, orphan, failures>>
    BY <1>1, <1>2 DEF Serve, OwnTypes
  <2>5. QED  BY <2>3, <2>4 DEF OwnTypes, client
<1>3. CASE ServeBreaks(r)
  <2>1. "lost" \in Bodies /\ httpStatus.INTERNAL_ERROR \in Bodies
    BY DEF Bodies, HttpErrors, httpStatus
  <2>2. QED
    BY <1>3, <2>1, ClientAssumption DEF ServeBreaks, Failure, OwnTypes, service, client
<1>4. CASE Hear(r)
  <2>1. "none" \in Bodies /\ code[r] \in Codes  BY DEF Bodies, OwnTypes
  <2>2. QED  BY <1>1, <1>4, <2>1 DEF Hear, OwnTypes, service
<1>5. CASE OrphanEnds(r)
  BY <1>5 DEF OrphanEnds, OwnTypes, client
<1>6. QED  BY <1>2, <1>3, <1>4, <1>5

\* Every variable keeps its type; in particular no code is issued beyond the last retry,
\* and every answer is a status the row can have or an error (the routes, and the error
\* handler's statusCode).
THEOREM CheckoutTypes == CheckoutSpec => []CheckoutTypeOK
<1>1. CheckoutInit => OwnTypes
  BY LimitsAssumption, ClientAssumption
     DEF CheckoutInit, OwnTypes, Codes, Bodies
<1>2. ASSUME OwnTypes, ServiceTypes, [CheckoutNext]_all  PROVE OwnTypes'
  <2>1. CASE UNCHANGED all  BY <1>2, <2>1 DEF all, service, client, OwnTypes
  <2>2. CASE TrySteps  BY <1>2, <2>2, OwnTypesTry
  <2>3. CASE \E r \in Slots : SlotSteps(r)
    BY <1>2, <2>3, OwnTypesCall, OwnTypesServe DEF SlotSteps
  <2>4. CASE Rests  BY <1>2, <2>4, OwnTypesRest
  <2>5. QED  BY <1>2, <2>1, <2>2, <2>3, <2>4, CheckoutCases
<1>3. IInv /\ ServiceTypes /\ OwnTypes => CheckoutTypeOK
  BY DEF IInv, ServiceTypes, OwnTypes, Codes, Bodies, CheckoutTypeOK
<1>4. CheckoutSpec => []IInv  BY CheckoutInitiates, Invariant, PTL
<1>5. QED  BY ServiceTyped, <1>1, <1>2, <1>3, <1>4, PTL DEF CheckoutSpec

===============================================================================
