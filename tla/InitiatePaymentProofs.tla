------------------------ MODULE InitiatePaymentProofs ------------------------
(***************************************************************************)
(* Theorems about InitiatePayment for every set of requests that carry the *)
(* key and every set of faults.                                            *)
(***************************************************************************)
EXTENDS InitiatePayment, FiniteSetTheorems, TLAPS

\* r inserted the row and goes on from there, or has answered with the OTP.
Creator(r) == pc[r] \in {"storeOtp", "svcSet", "audit"} \/ reply[r] = "full"

\* There is one row at most, one creator at most, and no creator without a row.
OneCreator ==
  /\ rows \in {0, 1}
  /\ \A r \in Req : Creator(r) => rows = 1
  /\ \A r, q \in Req : Creator(r) /\ Creator(q) => r = q

\* Every 201, answered, cached or about to be cached, has its row.
Backed ==
  /\ idem \in {"raw", "bare"} => rows = 1
  /\ \A r \in Req : /\ cacheWrite[r] \in {"full", "bare"} => rows = 1
                    /\ reply[r] \in {"full", "bare", "raw"} => rows = 1

\* The service's own entry keeps the answer with the OTP out of the cache.
Shielded ==
  /\ idem # "full"
  /\ \A r \in Req : pc[r] = "audit" \/ cacheWrite[r] = "full" => idem # "none"

\* Whoever is past the OTP store, or has answered with an OTP, has stored it.
Issued ==
  \A r \in Req : pc[r] \in {"svcSet", "audit"} \/ reply[r] = "full" => otpIssued

IInv == TypeOK /\ OneCreator /\ Backed /\ Shielded /\ Issued

-------------------------------------------------------------------------------
\* Before the first request there is no row, no answer and no cached answer.
LEMMA InitIInv == Init => IInv
<1> SUFFICES ASSUME Init PROVE IInv
  OBVIOUS
<1> USE DEF Init
<1>1. TypeOK  BY DEF TypeOK, Reply
<1>2. \A r \in Req : ~Creator(r)  BY DEF Creator
<1>3. OneCreator  BY <1>2 DEF OneCreator
<1>4. Backed /\ Shielded /\ Issued  BY DEF Backed, Shielded, Issued
<1> QED  BY <1>1, <1>3, <1>4 DEF IInv

\* Every step of a request keeps the invariant: the UNIQUE constraint makes the
\* creator unique, SET NX keeps what the creator cached.
LEMMA RequestStep ==
  ASSUME IInv, NEW r \in Req,
         \/ Middleware(r) \/ SvcGet(r) \/ Find(r) \/ Create(r) \/ StoreOtp(r)
         \/ SvcSet(r) \/ Audit(r) \/ CacheWrite(r) \/ Crash(r) \/ Fail(r)
  PROVE  IInv'
<1> USE DEF IInv, TypeOK, Reply, OneCreator, Creator, Backed, Shielded, Issued
<1>1. CASE Middleware(r)  BY <1>1 DEF Middleware, AnswerUncached, Answer, Goto
<1>2. CASE SvcGet(r)      BY <1>2 DEF SvcGet, AnswerUncached, Answer, Goto
<1>3. CASE Find(r)        BY <1>3 DEF Find, Answer, Goto
<1>4. CASE Create(r)      BY <1>4 DEF Create, AnswerUncached, Goto
<1>5. CASE StoreOtp(r)    BY <1>5 DEF StoreOtp, Goto
<1>6. CASE SvcSet(r)      BY <1>6 DEF SvcSet, setIfAbsent, Goto
<1>7. CASE Audit(r)       BY <1>7 DEF Audit, Answer
<1>8. CASE CacheWrite(r)  BY <1>8 DEF CacheWrite, setIfAbsent
<1>9. CASE Crash(r)       BY <1>9 DEF Crash
<1>10. CASE Fail(r)       BY <1>10 DEF Fail, AnswerUncached
<1> QED  BY <1>1, <1>2, <1>3, <1>4, <1>5, <1>6, <1>7, <1>8, <1>9, <1>10

\* The key expires only between requests, and stuttering changes nothing.
LEMMA OtherStep ==
  ASSUME IInv, IdemExpire \/ Done \/ UNCHANGED vars
  PROVE  IInv'
<1> USE DEF IInv, TypeOK, Reply, OneCreator, Creator, Backed, Shielded, Issued
<1>1. CASE IdemExpire                BY <1>1 DEF IdemExpire
<1>2. CASE Done \/ UNCHANGED vars    BY <1>2 DEF Done, vars
<1> QED  BY <1>1, <1>2

\* The invariant holds in every reachable state.
LEMMA Invariant == Spec => []IInv
<1>1. IInv /\ [Next]_vars => IInv'
  BY RequestStep, OtherStep DEF Next
<1> QED  BY InitIInv, <1>1, PTL DEF Spec

\* However requests with one Idempotency-Key repeat, overlap, fail or outlive the
\* cached answer, the route makes one transaction for them, and a 201 has one.
THEOREM OneTransaction == Spec => []OneTransactionPerKey
<1>1. IInv => OneTransactionPerKey
  BY DEF IInv, OneCreator, Backed, OneTransactionPerKey
<1> QED  BY Invariant, <1>1, PTL

\* At most one request is ever answered with the OTP, and it was stored before.
THEOREM OneOtp == Spec => []OtpHandedOutOnce
<1>1. ASSUME IInv  PROVE OtpHandedOutOnce
  <2> DEFINE full == {r \in Req : reply[r] = "full"}
  <2>1. CASE full = {}
    BY <2>1, FS_EmptySet DEF OtpHandedOutOnce
  <2>2. CASE full # {}
    <3>1. PICK r \in Req : reply[r] = "full"  BY <2>2
    <3>2. full = {r}
      BY <1>1, <3>1 DEF IInv, OneCreator, Creator
    <3>3. Cardinality(full) = 1  BY <3>2, FS_Singleton
    <3>4. otpIssued  BY <1>1, <3>1 DEF IInv, Issued
    <3> QED  BY <3>3, <3>4 DEF OtpHandedOutOnce
  <2> QED  BY <2>1, <2>2
<1> QED  BY Invariant, <1>1, PTL

\* The idempotency cache never holds an OTP and never a 201 without its row.
THEOREM NoOtpCached == Spec => []CacheHoldsNoOtp
<1>1. IInv => CacheHoldsNoOtp
  BY DEF IInv, Backed, Shielded, CacheHoldsNoOtp
<1> QED  BY Invariant, <1>1, PTL

===============================================================================
