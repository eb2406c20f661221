------------------------ MODULE PaymentAccountingProofs ------------------------
(***************************************************************************)
(* Theorems about PaymentService that count or replay the audit trail: the *)
(* row is its trail, nothing is invented, retries are numbered, and debits *)
(* and events agree with the entries, for any number of requests.          *)
(***************************************************************************)
EXTENDS PaymentServiceProofs

(* What a step of a request does to the store. *)

\* The transitions a handler may write: SUCCESS comes with the bank's reference,
\* and only a retry numbers an attempt.
Writes(r, from, to, attempt, ref) ==
  /\ transitionStatus(from, to, attempt, ref)
  /\ ref <=> to = "SUCCESS"
  /\ attempt > 0 => pc[r] = "retryCommit" /\ attempt = snap[r].retryCount + 1

\* A step leaves the store alone or writes one transition; what it caches is what
\* it has read, and what it reads is the row.
LEMMA Effect ==
  ASSUME TInv, NEW r \in Req, Start(r) \/ Step(r) \/ Crash(r) \/ Fail(r)
  PROVE  /\ \/ UNCHANGED <<row, audit>>
            \/ \E from, to \in TransactionStatus, attempt \in Nat, ref \in BOOLEAN :
                  Writes(r, from, to, attempt, ref)
         /\ cache' \in {cache, NoTxn, snap[r]}
         /\ \A q \in Req : snap'[q] \in {snap[q], NoTxn, row}
<1> USE DEF At, Goto, Answer, Called, store
<1>1. snap \in [Req -> Txn \cup {NoTxn}] /\ bankResult \in [Req -> {"none", "SUCCESS", "FAILED"}]
      /\ Admitted(r)
  BY DEF TInv, TypeOK
<1>2. CASE AuthRead(r)  BY <1>1, <1>2 DEF AuthRead
<1>3. CASE ProcLock(r)  BY <1>1, <1>3 DEF ProcLock
<1>4. CASE ProcLockUnacked(r)  BY <1>1, <1>4 DEF ProcLockUnacked
<1>5. CASE ReconRead(r)  BY <1>1, <1>5 DEF ReconRead
<1>6. CASE RetryRead(r)  BY <1>1, <1>6 DEF RetryRead
<1>7. CASE GetMiss(r)  BY <1>1, <1>7 DEF GetMiss
<1>8. CASE AuthOtpGet(r)  BY <1>1, <1>8 DEF AuthOtpGet
<1>9. CASE AuthOtpDel(r)  BY <1>1, <1>9 DEF AuthOtpDel
<1>10. CASE AuthExpire(r)
  <2>1. snap[r].status \in TransactionStatus
    BY <1>10, SnapshotRead DEF AuthExpire, TInv, Admitted, TransactionStatus
  <2>2. Writes(r, snap[r].status, "FAILED", 0, FALSE)
    BY <1>10, ~(0 > 0) DEF AuthExpire, Writes
  <2>3. "FAILED" \in TransactionStatus /\ 0 \in Nat  BY DEF TransactionStatus
  <2>4. QED  BY <1>1, <1>10, <2>1, <2>2, <2>3 DEF AuthExpire
<1>11. CASE AuthCommit(r)
  <2>1. snap[r].status \in TransactionStatus
    BY <1>11, SnapshotRead DEF AuthCommit, TInv, Admitted, TransactionStatus
  <2>2. Writes(r, snap[r].status, "AUTHENTICATED", 0, FALSE)
    BY <1>11, ~(0 > 0) DEF AuthCommit, Writes
  <2>3. "AUTHENTICATED" \in TransactionStatus /\ 0 \in Nat  BY DEF TransactionStatus
  <2>4. QED  BY <1>1, <1>11, <2>1, <2>2, <2>3 DEF AuthCommit
<1>12. CASE AuthInval(r)  BY <1>1, <1>12 DEF AuthInval
<1>13. CASE ProcRead(r)  BY <1>1, <1>13 DEF ProcRead
<1>14. CASE ProcStart(r)
  <2>1. snap[r].status \in TransactionStatus
    BY <1>14, SnapshotRead DEF ProcStart, TInv, Admitted, TransactionStatus
  <2>2. Writes(r, snap[r].status, "PROCESSING", 0, FALSE)
    BY <1>14, ~(0 > 0) DEF ProcStart, Writes
  <2>3. "PROCESSING" \in TransactionStatus /\ 0 \in Nat  BY DEF TransactionStatus
  <2>4. QED  BY <1>1, <1>14, <2>1, <2>2, <2>3 DEF ProcStart
<1>15. CASE ProcBank(r)  BY <1>1, <1>15 DEF ProcBank
<1>16. CASE ProcFinish(r)
  <2>1. /\ "PROCESSING" \in TransactionStatus /\ bankResult[r] \in TransactionStatus
        /\ (bankResult[r] = "SUCCESS") \in BOOLEAN /\ 0 \in Nat
    BY <1>1, <1>16 DEF ProcFinish, Admitted, TransactionStatus
  <2>2. Writes(r, "PROCESSING", bankResult[r], 0, bankResult[r] = "SUCCESS")
    BY <1>16 DEF ProcFinish, Writes
  <2>3. QED  BY <1>1, <1>16, <2>1, <2>2 DEF ProcFinish
<1>17. CASE ProcInval(r)  BY <1>1, <1>17 DEF ProcInval
<1>18. CASE ProcRelease(r)  BY <1>1, <1>18 DEF ProcRelease
<1>19. CASE ReconCommit(r)
  <2>1. snap[r].status \in TransactionStatus
    BY <1>19, SnapshotRead DEF ReconCommit, TInv, Admitted, TransactionStatus
  <2>2. Writes(r, snap[r].status, "RECONCILED", 0, FALSE)
    BY <1>19, ~(0 > 0) DEF ReconCommit, Writes
  <2>3. "RECONCILED" \in TransactionStatus /\ 0 \in Nat  BY DEF TransactionStatus
  <2>4. QED  BY <1>1, <1>19, <2>1, <2>2, <2>3 DEF ReconCommit
<1>20. CASE ReconInval(r)  BY <1>1, <1>20 DEF ReconInval
<1>21. CASE RetryLog(r)  BY <1>1, <1>21 DEF RetryLog
<1>22. CASE RetryCommit(r)
  <2>1. snap[r].retryCount + 1 \in Nat
    BY <1>22, SnapshotRead DEF RetryCommit, TInv, Admitted, TransactionStatus
  <2>2. Writes(r, "FAILED", "INITIATED", snap[r].retryCount + 1, FALSE)
    BY <1>22 DEF RetryCommit, Writes
  <2>3. {"FAILED", "INITIATED"} \subseteq TransactionStatus  BY DEF TransactionStatus
  <2>4. QED  BY <1>1, <1>22, <2>1, <2>2, <2>3 DEF RetryCommit
<1>23. CASE RetryOtp(r)  BY <1>1, <1>23 DEF RetryOtp
<1>24. CASE RetryInval(r)  BY <1>1, <1>24 DEF RetryInval
<1>25. CASE GetRead(r)  BY <1>1, <1>25 DEF GetRead
<1>26. CASE GetFill(r)  BY <1>1, <1>26 DEF GetFill
<1>27. CASE Crash(r)  BY <1>1, <1>27 DEF Crash
<1>28. CASE Fail(r)  BY <1>1, <1>28 DEF Fail
<1>29. QED
  BY <1>2, <1>3, <1>4, <1>5, <1>6, <1>7, <1>8, <1>9, <1>10, <1>11, <1>12, <1>13, <1>14, <1>15, <1>16, <1>17, <1>18, <1>19, <1>20, <1>21, <1>22, <1>23, <1>24, <1>25, <1>26, <1>27, <1>28 DEF Start, Step

\* Every write of the row and the trail is one that TransactionStore knows: the handlers
\* touch them through transitionStatus alone, with an attempt number within the limit.
\* (StatementsImplementStore, in TransactionRepoProofs, is the other half: the statements
\* of TransactionRepo keep what the handlers are written on top of.)
THEOREM ServiceUsesStore == Spec => StoreSpec
<1>1. Init => StoreInit  BY DEF Init
<1>2. ASSUME TInv, NEW r \in Req, Start(r) \/ Step(r) \/ Crash(r) \/ Fail(r)
      PROVE  [StoreNext]_<<row, audit>>
  <2> SUFFICES ASSUME NEW from \in TransactionStatus, NEW to \in TransactionStatus,
                      NEW attempt \in Nat, NEW ref \in BOOLEAN,
                      Writes(r, from, to, attempt, ref)
               PROVE  StoreNext
    BY <1>2, Effect
  <2>1. transitionStatus(from, to, attempt, ref)  BY DEF Writes
  <2>2. audit' # audit
    <3>1. Len(audit') = Len(audit) + 1
      BY <1>2, <2>1, TransitionAppends DEF TInv, TypeOK
    <3>2. Len(audit) \in Nat  BY <1>2 DEF TInv, TypeOK
    <3>3. QED  BY <3>1, <3>2
  <2>3. attempt \in 0..MaxAttempts
    <3>1. CASE attempt > 0
      <4>1. pc[r] = "retryCommit" /\ attempt = snap[r].retryCount + 1
        BY <3>1 DEF Writes
      <4>2. snap[r].retryCount < MaxAttempts /\ snap[r].retryCount \in Nat
        BY <1>2, <4>1, SnapshotRead DEF TInv, Admitted
      <4>3. QED  BY <4>1, <4>2, MaxAttemptsAssumption
    <3>2. CASE ~(attempt > 0)  BY <3>2, MaxAttemptsAssumption
    <3>3. QED  BY <3>1, <3>2
  <2>4. QED  BY <2>1, <2>2, <2>3 DEF StoreNext
<1>3. ASSUME TInv, [Next]_vars  PROVE [StoreNext]_<<row, audit>>
  <2>1. CASE Aside  BY <2>1, AsideKeeps DEF store
  <2>2. QED  BY <1>2, <1>3, <2>1, Cases
<1>4. QED  BY TypesAlways, <1>1, <1>3, PTL DEF Spec, StoreSpec

-------------------------------------------------------------------------------
(* Replaying the trail. *)

\* A set of numbers with a largest element: that is what Latest names.
LEMMA LatestIs ==
  ASSUME NEW S \in SUBSET Nat, NEW m \in S, \A j \in S : j <= m
  PROVE  Latest(S) = m
<1>1. Latest(S) \in S /\ \A j \in S : j <= Latest(S)  BY DEF Latest
<1>2. Latest(S) \in Nat /\ m \in Nat /\ Latest(S) <= m /\ m <= Latest(S)  BY <1>1
<1>3. QED  BY <1>2

\* The entries of resets, as far as they go, have a last one.
LastReset ==
  \A n \in 0..Len(audit) :
    Resets(n) # {} => \E m \in Resets(n) : \A j \in Resets(n) : j <= m

\* The row is the last version, and whatever was read or cached is some version.
ReplayInv ==
  /\ LastReset
  /\ AuditReplaysRow
  /\ NothingInvented

\* Appending an entry makes the row the new last version and keeps the older ones.
LEMMA VersionExtends ==
  ASSUME row \in Txn, audit \in Seq(Entry), LastReset, row = Version(Len(audit)),
         NEW from \in TransactionStatus, NEW to \in TransactionStatus,
         NEW attempt \in Nat, NEW ref \in BOOLEAN,
         transitionStatus(from, to, attempt, ref), ref <=> to = "SUCCESS"
  PROVE  /\ LastReset'
         /\ row' = Version(Len(audit))'
         /\ Len(audit) \in Nat /\ Len(audit') = Len(audit) + 1
         /\ \A n \in 0..Len(audit) : Version(n)' = Version(n)
<1> PICK L \in Nat : L = Len(audit)  OBVIOUS
<1>1. /\ Len(audit') = L + 1 /\ L \in Nat
      /\ \A i \in 1..L : audit'[i] = audit[i]
      /\ audit'[L + 1] = [from |-> from, to |-> to, attempt |-> attempt]
  BY TransitionAppends, SMTT(20)
<1>2. row' = [status |-> to,
              retryCount |-> IF attempt > 0 THEN attempt ELSE row.retryCount,
              bankRef |-> row.bankRef \/ ref]
  BY DEF transitionStatus, Updated
<1>3. LastReset = \A n \in 0..L :
        Resets(n) # {} => \E m \in Resets(n) : \A j \in Resets(n) : j <= m
  BY DEF LastReset
<1>4. LastReset' = \A n \in 0..L + 1 :
        Resets(n)' # {} => \E m \in Resets(n)' : \A j \in Resets(n)' : j <= m
  BY <1>1 DEF LastReset
<1>5. row = Version(L)  OBVIOUS
<1>6. ASSUME NEW n \in 0..L
      PROVE  /\ Resets(n)' = Resets(n)
             /\ Resets(n) # {} => Latest(Resets(n)) \in 1..n
             /\ Version(n)' = Version(n)
  <2>1. Resets(n)' = Resets(n)  BY <1>1 DEF Resets
  <2>2. Resets(n) # {} => Latest(Resets(n)) \in 1..n
    <3>1. Resets(n) \in SUBSET Nat /\ Resets(n) \subseteq 1..n  BY <1>1 DEF Resets
    <3>2. QED  BY <1>3, <3>1, LatestIs
  <2>3. Version(n)' =
          [status     |-> IF n = 0 THEN "INITIATED" ELSE audit'[n].to,
           retryCount |-> IF Resets(n) = {} THEN 0 ELSE audit'[Latest(Resets(n))].attempt,
           bankRef    |-> \E i \in 1..n : audit'[i].to = "SUCCESS"]
    BY <2>1 DEF Version
  <2>4. /\ n # 0 => audit'[n] = audit[n]
        /\ Resets(n) # {} => audit'[Latest(Resets(n))] = audit[Latest(Resets(n))]
        /\ \A i \in 1..n : audit'[i] = audit[i]
    BY <1>1, <2>2
  <2>5. QED  BY <2>1, <2>2, <2>3, <2>4 DEF Version
<1>7. Resets(L + 1)' = IF attempt > 0 THEN Resets(L) \cup {L + 1} ELSE Resets(L)
  <2>1. Resets(L + 1)' = {i \in 1..L + 1 : audit'[i].attempt > 0}
        /\ Resets(L) = {i \in 1..L : audit[i].attempt > 0}
    BY DEF Resets
  <2>2. 1..L + 1 = (1..L) \cup {L + 1} /\ L + 1 \notin 1..L  OBVIOUS
  <2>3. audit'[L + 1].attempt = attempt  BY <1>1
  <2>4. {i \in 1..L : audit'[i].attempt > 0} = {i \in 1..L : audit[i].attempt > 0}
    BY <1>1
  <2>5. {i \in 1..L + 1 : audit'[i].attempt > 0}
          = {i \in 1..L : audit'[i].attempt > 0} \cup (IF attempt > 0 THEN {L + 1} ELSE {})
    BY <2>2, <2>3
  <2>6. QED  BY <2>1, <2>4, <2>5
<1>8. Resets(L) \in SUBSET Nat /\ \A j \in Resets(L) : j <= L  BY <1>1 DEF Resets
<1>9. LastReset'
  <2> SUFFICES ASSUME NEW n \in 0..L + 1, Resets(n)' # {}
               PROVE  \E m \in Resets(n)' : \A j \in Resets(n)' : j <= m
    BY <1>4
  <2>1. CASE n \in 0..L  BY <2>1, <1>3, <1>6
  <2>2. CASE n = L + 1 /\ attempt > 0
    <3>1. L + 1 \in Resets(n)' /\ \A j \in Resets(n)' : j <= L + 1
      BY <2>2, <1>1, <1>7, <1>8
    <3>2. QED  BY <3>1
  <2>3. CASE n = L + 1 /\ ~(attempt > 0)
    <3>1. Resets(n)' = Resets(L) /\ L \in 0..L  BY <2>3, <1>1, <1>7
    <3>2. QED  BY <3>1, <1>3
  <2>4. QED  BY <2>1, <2>2, <2>3, <1>1
<1>10. Version(L + 1)' = row'
  <2>1. /\ Version(L).bankRef = \E i \in 1..L : audit[i].to = "SUCCESS"
        /\ Version(L).retryCount
             = IF Resets(L) = {} THEN 0 ELSE audit[Latest(Resets(L))].attempt
    BY DEF Version
  <2>2. (\E i \in 1..L + 1 : audit'[i].to = "SUCCESS") <=> row.bankRef \/ ref
    BY <1>1, <1>5, <2>1
  <2>3. (IF Resets(L + 1)' = {} THEN 0 ELSE audit'[Latest(Resets(L + 1)')].attempt)
          = IF attempt > 0 THEN attempt ELSE row.retryCount
    <3>1. CASE attempt > 0
      <4>1. Latest(Resets(L) \cup {L + 1}) = L + 1
        <5>1. /\ Resets(L) \cup {L + 1} \in SUBSET Nat
              /\ L + 1 \in Resets(L) \cup {L + 1}
              /\ \A j \in Resets(L) \cup {L + 1} : j <= L + 1
          BY <1>1, <1>8
        <5>2. QED  BY <5>1, LatestIs
      <4>2. Resets(L + 1)' = Resets(L) \cup {L + 1} /\ Resets(L + 1)' # {}
        BY <3>1, <1>7
      <4>3. Latest(Resets(L + 1)') = L + 1  BY <4>1, <4>2
      <4>4. audit'[Latest(Resets(L + 1)')].attempt = attempt  BY <4>3, <1>1
      <4>5. QED  BY <3>1, <4>2, <4>4
    <3>2. CASE ~(attempt > 0)
      <4>1. Resets(L + 1)' = Resets(L)  BY <3>2, <1>7
      <4>2. Resets(L) # {} => audit'[Latest(Resets(L))] = audit[Latest(Resets(L))]
        BY <1>1, <1>6
      <4>3. QED  BY <3>2, <4>1, <4>2, <2>1, <1>5
    <3>3. QED  BY <3>1, <3>2
  <2>4. audit'[L + 1].to = to /\ L + 1 # 0  BY <1>1
  <2>5. row.bankRef \in BOOLEAN  BY DEF Txn
  <2>6. QED  BY <1>2, <2>2, <2>3, <2>4, <2>5 DEF Version
<1>11. QED  BY <1>1, <1>6, <1>9, <1>10

\* Nothing has been read or cached yet, and the row is as created.
LEMMA ReplayInit == Init => ReplayInv
<1> SUFFICES ASSUME Init PROVE ReplayInv  OBVIOUS
<1>1. audit = <<>> /\ Len(audit) = 0  BY DEF Init, StoreInit
<1>2. \A n \in 0..Len(audit) : Resets(n) = {}  BY <1>1 DEF Resets
<1>3. Version(0) = [status |-> "INITIATED", retryCount |-> 0, bankRef |-> FALSE]
  <2>1. Resets(0) = {} /\ ~(\E i \in 1..0 : audit[i].to = "SUCCESS")  BY <1>1, <1>2
  <2>2. QED  BY <2>1 DEF Version
<1>4. AuditReplaysRow  BY <1>1, <1>3 DEF AuditReplaysRow, Init, StoreInit
<1>5. NothingInvented  BY DEF NothingInvented, Init
<1>6. QED  BY <1>2, <1>4, <1>5 DEF ReplayInv, LastReset

\* What a step caches or reads is a version that stays one.
LEMMA ReplayStep ==
  ASSUME TInv, ReplayInv, NEW r \in Req,
         /\ \/ UNCHANGED <<row, audit>>
            \/ \E from, to \in TransactionStatus, attempt \in Nat, ref \in BOOLEAN :
                  Writes(r, from, to, attempt, ref)
         /\ cache' \in {cache, NoTxn, snap[r]}
         /\ \A q \in Req : snap'[q] \in {snap[q], NoTxn, row}
  PROVE  ReplayInv'
<1>1. PICK L \in Nat : L = Len(audit)  BY DEF TInv, TypeOK
<1>2. PICK M \in Nat : /\ M = Len(audit')
                       /\ M >= L
                       /\ row' = Version(M)'
                       /\ LastReset'
                       /\ \A n \in 0..L : Version(n)' = Version(n)
  <2>1. CASE UNCHANGED <<row, audit>>
    <3>1. \A n : Version(n)' = Version(n) /\ Resets(n)' = Resets(n)
      BY <2>1 DEF Version, Resets
    <3>2. LastReset'  BY <2>1, <3>1 DEF LastReset, ReplayInv
    <3>3. row' = Version(L)'  BY <2>1, <3>1, <1>1 DEF ReplayInv, AuditReplaysRow
    <3>4. QED  BY <2>1, <3>1, <3>2, <3>3, <1>1
  <2>2. CASE \E from, to \in TransactionStatus, attempt \in Nat, ref \in BOOLEAN :
                Writes(r, from, to, attempt, ref)
    <3>1. PICK from, to \in TransactionStatus, attempt \in Nat, ref \in BOOLEAN :
                Writes(r, from, to, attempt, ref)
      BY <2>2
    <3>2. /\ LastReset'
          /\ row' = Version(Len(audit))'
          /\ Len(audit') = L + 1
          /\ \A n \in 0..L : Version(n)' = Version(n)
      BY <3>1, <1>1, VersionExtends DEF Writes, ReplayInv, AuditReplaysRow, TInv, TypeOK
    <3>3. row' = Version(L + 1)'  BY <3>2
    <3>4. QED  BY <3>2, <3>3, <1>1
  <2>3. QED  BY <2>1, <2>2
<1>3. AuditReplaysRow'  BY <1>2 DEF AuditReplaysRow
<1>4. ASSUME NEW txn, txn # NoTxn, txn = row \/ txn \in {cache} \cup {snap[q] : q \in Req}
      PROVE  \E n \in 0..M : txn = Version(n)'
  <2>1. \E n \in 0..L : txn = Version(n)
    BY <1>4, <1>1 DEF ReplayInv, AuditReplaysRow, NothingInvented
  <2>2. QED  BY <2>1, <1>2
<1>5. ASSUME NEW txn \in {cache'} \cup {snap'[q] : q \in Req}, txn # NoTxn
      PROVE  \E n \in 0..M : txn = Version(n)'
  BY <1>4, <1>5
<1>6. NothingInvented'  BY <1>5, <1>2 DEF NothingInvented
<1>7. QED  BY <1>2, <1>3, <1>6 DEF ReplayInv

\* Beside the requests only expiries touch the cache.
LEMMA ReplayAside ==
  ASSUME TInv, ReplayInv, Aside
  PROVE  ReplayInv'
<1>1. UNCHANGED <<row, audit, snap>>  BY AsideKeeps DEF store
<1>2. cache' \in {cache, NoTxn}
  BY DEF Aside, OtpExpire, CacheExpire, LockExpire, InitialOtp, vars
<1>3. \A n : Version(n)' = Version(n) /\ Resets(n)' = Resets(n)
  BY <1>1 DEF Version, Resets
<1>4. LastReset' /\ AuditReplaysRow'
  BY <1>1, <1>3 DEF ReplayInv, LastReset, AuditReplaysRow
<1>5. NothingInvented'
  BY <1>1, <1>2, <1>3 DEF ReplayInv, NothingInvented
<1>6. QED  BY <1>4, <1>5 DEF ReplayInv

\* The invariant of the replay holds with the types.
LEMMA Replayed == Spec => [](TInv /\ ReplayInv)
<1>1. TInv /\ ReplayInv /\ [Next]_vars => (TInv /\ ReplayInv)'
  BY Cases, TypeStep, TypeEnv, Effect, ReplayStep, ReplayAside
<1>2. QED  BY TypeInit, ReplayInit, <1>1, PTL DEF Spec

\* Whatever handlers race, crash or fail, the row's status, retry count and bank
\* reference are what its audit trail says.
THEOREM RowIsItsTrail == Spec => []AuditReplaysRow
<1>1. ReplayInv => AuditReplaysRow  BY DEF ReplayInv
<1>2. QED  BY Replayed, <1>1, PTL

\* What is cached and what a handler has in its hands was the row at some time, for
\* any number of readers, writers and expiries.
THEOREM OnlyOldVersions == Spec => []NothingInvented
<1>1. ReplayInv => NothingInvented  BY DEF ReplayInv
<1>2. QED  BY Replayed, <1>1, PTL

-------------------------------------------------------------------------------
(* Retries. *)

\* The attempts 1..n have left an entry each.
Traced(n) == \A k \in 1..n : \E i \in DOMAIN audit : audit[i].attempt = k

\* A retry goes by an attempt number that is traced, and has logged the next one.
Numbered(r) ==
  /\ snap[r] # NoTxn => Traced(snap[r].retryCount)
  /\ pc[r] = "retryCommit" => snap[r].retryCount + 1 \in retryLog

RetryInv == RetriesTraced /\ \A r \in Req : Numbered(r)

\* A step of a request keeps what is logged, and has logged what it commits.
LEMMA LogEffect ==
  ASSUME TInv, NEW r \in Req, Start(r) \/ Step(r) \/ Crash(r) \/ Fail(r)
  PROVE  /\ retryLog \subseteq retryLog'
         /\ \A q \in Req : pc'[q] = "retryCommit" =>
              /\ snap'[q] = snap[q]
              /\ pc[q] = "retryCommit" \/ snap[q].retryCount + 1 \in retryLog'
<1> USE DEF At, Goto, Answer, Called, store
<1>1. pc \in [Req -> Pc] /\ snap \in [Req -> Txn \cup {NoTxn}]  BY DEF TInv, TypeOK
<1>2. CASE AuthRead(r)  BY <1>1, <1>2 DEF AuthRead
<1>3. CASE ProcLock(r)  BY <1>1, <1>3 DEF ProcLock
<1>4. CASE ProcLockUnacked(r)  BY <1>1, <1>4 DEF ProcLockUnacked
<1>5. CASE ReconRead(r)  BY <1>1, <1>5 DEF ReconRead
<1>6. CASE RetryRead(r)  BY <1>1, <1>6 DEF RetryRead
<1>7. CASE GetMiss(r)  BY <1>1, <1>7 DEF GetMiss
<1>8. CASE AuthOtpGet(r)  BY <1>1, <1>8 DEF AuthOtpGet
<1>9. CASE AuthOtpDel(r)  BY <1>1, <1>9 DEF AuthOtpDel
<1>10. CASE AuthExpire(r)  BY <1>1, <1>10 DEF AuthExpire
<1>11. CASE AuthCommit(r)  BY <1>1, <1>11 DEF AuthCommit
<1>12. CASE AuthInval(r)  BY <1>1, <1>12 DEF AuthInval
<1>13. CASE ProcRead(r)  BY <1>1, <1>13 DEF ProcRead
<1>14. CASE ProcStart(r)  BY <1>1, <1>14 DEF ProcStart
<1>15. CASE ProcBank(r)  BY <1>1, <1>15 DEF ProcBank
<1>16. CASE ProcFinish(r)  BY <1>1, <1>16 DEF ProcFinish
<1>17. CASE ProcInval(r)  BY <1>1, <1>17 DEF ProcInval
<1>18. CASE ProcRelease(r)  BY <1>1, <1>18 DEF ProcRelease
<1>19. CASE ReconCommit(r)  BY <1>1, <1>19 DEF ReconCommit
<1>20. CASE ReconInval(r)  BY <1>1, <1>20 DEF ReconInval
<1>21. CASE RetryLog(r)  BY <1>1, <1>21 DEF RetryLog
<1>22. CASE RetryCommit(r)  BY <1>1, <1>22 DEF RetryCommit
<1>23. CASE RetryOtp(r)  BY <1>1, <1>23 DEF RetryOtp
<1>24. CASE RetryInval(r)  BY <1>1, <1>24 DEF RetryInval
<1>25. CASE GetRead(r)  BY <1>1, <1>25 DEF GetRead
<1>26. CASE GetFill(r)  BY <1>1, <1>26 DEF GetFill
<1>27. CASE Crash(r)  BY <1>1, <1>27 DEF Crash
<1>28. CASE Fail(r)  BY <1>1, <1>28 DEF Fail
<1>29. QED
  BY <1>2, <1>3, <1>4, <1>5, <1>6, <1>7, <1>8, <1>9, <1>10, <1>11, <1>12, <1>13, <1>14, <1>15, <1>16, <1>17, <1>18, <1>19, <1>20, <1>21, <1>22, <1>23, <1>24, <1>25, <1>26, <1>27, <1>28 DEF Start, Step

\* So it keeps the numbering.
LEMMA RetryStep ==
  ASSUME TInv, RetryInv, NEW r \in Req, Start(r) \/ Step(r) \/ Crash(r) \/ Fail(r)
  PROVE  RetryInv'
<1> DEFINE W == \E from, to \in TransactionStatus, attempt \in Nat, ref \in BOOLEAN :
                  Writes(r, from, to, attempt, ref)
<1>1. /\ row \in Txn /\ audit \in Seq(Entry) /\ row.retryCount \in Nat
      /\ snap \in [Req -> Txn \cup {NoTxn}] /\ MaxAttempts \in Nat
      /\ row # NoTxn /\ NoTxn.retryCount = 0
  BY MaxAttemptsAssumption DEF TInv, TypeOK, Txn, NoTxn, TransactionStatus
<1>2. UNCHANGED <<row, audit>> \/ W  BY Effect
<1>3. /\ \A q \in Req : snap'[q] \in {snap[q], NoTxn, row}
      /\ retryLog \subseteq retryLog'
      /\ \A q \in Req : pc'[q] = "retryCommit" =>
              /\ snap'[q] = snap[q]
              /\ pc[q] = "retryCommit" \/ snap[q].retryCount + 1 \in retryLog'
  BY Effect, LogEffect
<1>4. /\ \A n : Traced(n) => Traced(n)'
      /\ \A k \in 1..row'.retryCount : \E i \in DOMAIN audit' : audit'[i].attempt = k
      /\ row'.retryCount <= MaxAttempts
      /\ \A i \in DOMAIN audit' : audit'[i].attempt > 0 => audit'[i].attempt \in retryLog'
  <2>1. CASE UNCHANGED <<row, audit>>
    <3>1. \A n : Traced(n) => Traced(n)'  BY <2>1 DEF Traced
    <3>2. QED  BY <2>1, <3>1, <1>3 DEF RetryInv, RetriesTraced
  <2>2. CASE W
    <3>1. PICK from, to \in TransactionStatus, attempt \in Nat, ref \in BOOLEAN :
                Writes(r, from, to, attempt, ref)
      BY <2>2
    <3>2. /\ row'.retryCount = IF attempt > 0 THEN attempt ELSE row.retryCount
          /\ Len(audit') = Len(audit) + 1 /\ audit' \in Seq(Entry)
          /\ \A i \in 1..Len(audit) : audit'[i] = audit[i]
          /\ audit'[Len(audit) + 1].attempt = attempt
      <4>1. transitionStatus(from, to, attempt, ref)  BY <3>1 DEF Writes
      <4>2. row \in Txn /\ audit \in Seq(Entry)  BY <1>1
      <4>3. /\ row'.retryCount = IF attempt > 0 THEN attempt ELSE row.retryCount
            /\ Len(audit') = Len(audit) + 1 /\ audit' \in Seq(Entry)
            /\ \A i \in 1..Len(audit) : audit'[i] = audit[i]
            /\ audit'[Len(audit) + 1] = [from |-> from, to |-> to, attempt |-> attempt]
        BY <4>1, <4>2, TransitionAppends
      <4>4. QED  BY <4>3
    <3>3. /\ DOMAIN audit = 1..Len(audit) /\ DOMAIN audit' = 1..Len(audit) + 1
          /\ Len(audit) \in Nat
      BY <1>1, <3>2
    <3>4. ASSUME NEW n, Traced(n)
          PROVE  Traced(n)'
      BY <3>2, <3>3, <3>4 DEF Traced
    <3>5. CASE attempt > 0
      <4>1. pc[r] = "retryCommit" /\ attempt = snap[r].retryCount + 1
        BY <3>1, <3>5 DEF Writes
      <4>2. /\ snap[r].retryCount < MaxAttempts /\ snap[r].retryCount \in Nat
            /\ snap[r] # NoTxn
        BY <4>1, SnapshotRead DEF TInv, Admitted, NoTxn
      <4>3. Traced(snap[r].retryCount) /\ attempt \in retryLog
        BY <4>1, <4>2 DEF RetryInv, Numbered
      <4>4. ASSUME NEW k \in 1..attempt
            PROVE  \E i \in DOMAIN audit' : audit'[i].attempt = k
        <5>1. CASE k = attempt  BY <5>1, <3>2, <3>3
        <5>2. CASE k \in 1..snap[r].retryCount  BY <5>2, <4>3, <3>2, <3>3 DEF Traced
        <5>3. QED  BY <5>1, <5>2, <4>1, <4>2
      <4>5. ASSUME NEW i \in DOMAIN audit', audit'[i].attempt > 0
            PROVE  audit'[i].attempt \in retryLog'
        <5>1. CASE i = Len(audit) + 1  BY <5>1, <3>2, <4>3, <1>3
        <5>2. CASE i \in DOMAIN audit
          BY <5>2, <4>5, <3>2, <3>3, <1>3 DEF RetryInv, RetriesTraced
        <5>3. QED  BY <5>1, <5>2, <3>3
      <4>6. row'.retryCount = attempt /\ attempt <= MaxAttempts
        BY <3>2, <3>5, <4>1, <4>2, <1>1
      <4>7. QED  BY <3>4, <4>4, <4>5, <4>6
    <3>6. CASE ~(attempt > 0)
      <4>1. row'.retryCount = row.retryCount  BY <3>2, <3>6
      <4>2. \A k \in 1..row.retryCount : \E i \in DOMAIN audit' : audit'[i].attempt = k
        BY <3>2, <3>3 DEF RetryInv, RetriesTraced
      <4>3. ASSUME NEW i \in DOMAIN audit', audit'[i].attempt > 0
            PROVE  audit'[i].attempt \in retryLog'
        <5>1. i # Len(audit) + 1  BY <3>2, <3>6, <4>3
        <5>2. QED
          BY <5>1, <4>3, <3>2, <3>3, <1>3 DEF RetryInv, RetriesTraced
      <4>4. row.retryCount <= MaxAttempts  BY DEF RetryInv, RetriesTraced
      <4>5. QED  BY <3>4, <4>1, <4>2, <4>3, <4>4
    <3>7. QED  BY <3>5, <3>6
  <2>3. QED  BY <1>2, <2>1, <2>2
<1>5. RetriesTraced'  BY <1>4 DEF RetriesTraced
<1>6. ASSUME NEW q \in Req
      PROVE  Numbered(q)'
  <2>1. Traced(row.retryCount)  BY DEF RetryInv, RetriesTraced, Traced
  <2>2. ASSUME snap'[q] # NoTxn
        PROVE  \A k \in 1..snap'[q].retryCount : \E i \in DOMAIN audit' : audit'[i].attempt = k
    <3>1. CASE snap'[q] = snap[q]
      <4>1. Traced(snap[q].retryCount)  BY <2>2, <3>1 DEF RetryInv, Numbered
      <4>2. PICK n : n = snap[q].retryCount  OBVIOUS
      <4>3. Traced(n)'  BY <4>1, <4>2, <1>4
      <4>4. QED  BY <4>2, <4>3, <3>1 DEF Traced
    <3>2. CASE snap'[q] = row
      <4>1. PICK n : n = row.retryCount  OBVIOUS
      <4>2. Traced(n)'  BY <4>1, <2>1, <1>4
      <4>3. QED  BY <4>1, <4>2, <3>2 DEF Traced
    <3>3. QED  BY <2>2, <3>1, <3>2, <1>3
  <2>3. pc'[q] = "retryCommit" => snap'[q].retryCount + 1 \in retryLog'
    BY <1>3 DEF RetryInv, Numbered
  <2>4. QED  BY <2>2, <2>3 DEF Numbered, Traced
<1>7. QED  BY <1>5, <1>6 DEF RetryInv

\* Beside the requests nothing of it moves.
LEMMA RetryAside ==
  ASSUME RetryInv, Aside
  PROVE  RetryInv'
<1>1. UNCHANGED <<row, audit, retryLog, snap, pc>>  BY AsideKeeps DEF store
<1>2. QED  BY <1>1 DEF RetryInv, RetriesTraced, Numbered, Traced

\* However many retries race, crash and fail, no attempt is numbered beyond the
\* maximum or out of turn, and each is logged before its reset is committed.
THEOREM AttemptsTraced == Spec => []RetriesTraced
<1>1. Init => RetryInv
  BY MaxAttemptsAssumption DEF Init, StoreInit, RetryInv, RetriesTraced, Numbered
<1>2. TInv /\ RetryInv /\ [Next]_vars => (TInv /\ RetryInv)'
  BY Cases, TypeStep, TypeEnv, RetryStep, RetryAside
<1>3. RetryInv => RetriesTraced  BY DEF RetryInv
<1>4. QED  BY TypeInit, <1>1, <1>2, <1>3, PTL DEF Spec

-------------------------------------------------------------------------------
(* Counting. *)

\* Two subsets of a finite set that differ at most in d.
LEMMA OneMoves ==
  ASSUME NEW D, IsFiniteSet(D), NEW S \in SUBSET D, NEW T \in SUBSET D, NEW d,
         \A x \in D : x # d => (x \in S <=> x \in T)
  PROVE  /\ Cardinality(S) \in Nat /\ Cardinality(T) \in Nat
         /\ Cardinality(T) = Cardinality(S) + (IF d \in T THEN 1 ELSE 0)
                                            - (IF d \in S THEN 1 ELSE 0)
<1> DEFINE U == S \ {d}
<1>1. U = T \ {d}  OBVIOUS
<1>2. IsFiniteSet(S) /\ IsFiniteSet(T) /\ IsFiniteSet(U)  BY FS_Subset
<1>3. Cardinality(S) \in Nat /\ Cardinality(T) \in Nat /\ Cardinality(U) \in Nat
  BY <1>2, FS_CardinalityType
<1>4. Cardinality(S) = Cardinality(U) + (IF d \in S THEN 1 ELSE 0)
  <2>1. CASE d \in S
    <3>1. Cardinality(U) = Cardinality(S) - 1  BY <1>2, <2>1, FS_RemoveElement
    <3>2. QED  BY <3>1, <2>1, <1>3
  <2>2. CASE d \notin S
    <3>1. U = S  BY <2>2
    <3>2. QED  BY <3>1, <2>2, <1>3
  <2>3. QED  BY <2>1, <2>2
<1>5. Cardinality(T) = Cardinality(U) + (IF d \in T THEN 1 ELSE 0)
  <2>1. CASE d \in T
    <3>1. Cardinality(T \ {d}) = Cardinality(T) - 1  BY <1>2, <2>1, FS_RemoveElement
    <3>2. Cardinality(U) = Cardinality(T) - 1  BY <3>1, <1>1
    <3>3. QED  BY <3>2, <2>1, <1>3
  <2>2. CASE d \notin T
    <3>1. U = T  BY <2>2, <1>1
    <3>2. QED  BY <3>1, <2>2, <1>3
  <2>3. QED  BY <2>1, <2>2
<1>6. QED  BY <1>3, <1>4, <1>5

\* A transition from one status to another is written.
Wrote(from, to) ==
  /\ {from, to} \subseteq TransactionStatus
  /\ \E attempt \in Nat, ref \in BOOLEAN : transitionStatus(from, to, attempt, ref)

\* The entries that record the outcome of a debit.
Settled(to) == {i \in Entries(to) : audit[i].from = "PROCESSING"}

\* An entry counts where it belongs and nowhere else.
LEMMA EntryCounts ==
  ASSUME TInv, NEW from, NEW to, Wrote(from, to), NEW s
  PROVE  /\ Cardinality(Entries(s)) \in Nat /\ Cardinality(Settled(s)) \in Nat
         /\ Cardinality(Entries(s))' = Cardinality(Entries(s)) + (IF to = s THEN 1 ELSE 0)
         /\ Cardinality(Settled(s))' = Cardinality(Settled(s))
                + (IF to = s /\ from = "PROCESSING" THEN 1 ELSE 0)
<1>1. PICK attempt \in Nat, ref \in BOOLEAN : transitionStatus(from, to, attempt, ref)
  BY DEF Wrote
<1>2. row \in Txn /\ audit \in Seq(Entry) /\ from \in TransactionStatus
      /\ to \in TransactionStatus
  BY DEF TInv, TypeOK, Wrote
<1>3. /\ audit' \in Seq(Entry) /\ Len(audit') = Len(audit) + 1
      /\ \A i \in 1..Len(audit) : audit'[i] = audit[i]
      /\ audit'[Len(audit) + 1] = [from |-> from, to |-> to, attempt |-> attempt]
  BY <1>1, <1>2, TransitionAppends
<1>4. PICK L \in Nat : L = Len(audit)  BY <1>2
<1>5. /\ DOMAIN audit = 1..L /\ DOMAIN audit' = 1..L + 1
      /\ \A i \in 1..L : audit'[i] = audit[i]
      /\ audit'[L + 1].to = to /\ audit'[L + 1].from = from
  BY <1>2, <1>3, <1>4
<1>6. IsFiniteSet(1..L + 1)  BY FS_Interval
<1>7. /\ Entries(s) \in SUBSET (1..L + 1) /\ Entries(s)' \in SUBSET (1..L + 1)
      /\ \A i \in 1..L + 1 : i # L + 1 => (i \in Entries(s) <=> i \in Entries(s)')
      /\ L + 1 \notin Entries(s) /\ (L + 1 \in Entries(s)' <=> to = s)
  BY <1>5 DEF Entries
<1>8. /\ Settled(s) \in SUBSET (1..L + 1) /\ Settled(s)' \in SUBSET (1..L + 1)
      /\ \A i \in 1..L + 1 : i # L + 1 => (i \in Settled(s) <=> i \in Settled(s)')
      /\ L + 1 \notin Settled(s)
      /\ (L + 1 \in Settled(s)' <=> to = s /\ from = "PROCESSING")
  BY <1>5, <1>7 DEF Settled
<1>9. /\ Cardinality(Entries(s)) \in Nat
      /\ Cardinality(Entries(s)') = Cardinality(Entries(s)) + (IF to = s THEN 1 ELSE 0)
  <2>1. /\ Cardinality(Entries(s)) \in Nat
        /\ Cardinality(Entries(s)') = Cardinality(Entries(s))
             + (IF L + 1 \in Entries(s)' THEN 1 ELSE 0) - (IF L + 1 \in Entries(s) THEN 1 ELSE 0)
    BY <1>6, <1>7, OneMoves, SMTT(20)
  <2>2. QED  BY <2>1, <1>7
<1>10. /\ Cardinality(Settled(s)) \in Nat
       /\ Cardinality(Settled(s)') = Cardinality(Settled(s))
             + (IF to = s /\ from = "PROCESSING" THEN 1 ELSE 0)
  <2>1. /\ Cardinality(Settled(s)) \in Nat
        /\ Cardinality(Settled(s)') = Cardinality(Settled(s))
             + (IF L + 1 \in Settled(s)' THEN 1 ELSE 0) - (IF L + 1 \in Settled(s) THEN 1 ELSE 0)
    BY <1>6, <1>8, OneMoves
  <2>2. QED  BY <2>1, <1>8
<1>11. QED  BY <1>9, <1>10

\* The requests that are at the bank, have its acceptance in their hands, or have
\* still to announce an outcome.
AtBank         == InFlight({"procBank"})
Accepted       == {q \in InFlight({"procFinish"}) : bankResult[q] = "SUCCESS"}
Announcing(res) == {q \in InFlight({"procInval"}) : bankResult[q] = res}
Reconciling    == InFlight({"reconInval"})

\* A step of request r moves r alone.
LEMMA OthersStay ==
  ASSUME TInv, NEW r \in Req, Start(r) \/ Step(r) \/ Crash(r) \/ Fail(r)
  PROVE  \A q \in Req : q # r => pc'[q] = pc[q] /\ bankResult'[q] = bankResult[q]
<1> USE DEF At, Goto, Answer, Called
<1>1. pc \in [Req -> Pc] /\ bankResult \in [Req -> {"none", "SUCCESS", "FAILED"}]
  BY DEF TInv, TypeOK
<1>2. CASE AuthRead(r)  BY <1>1, <1>2 DEF AuthRead
<1>3. CASE ProcLock(r)  BY <1>1, <1>3 DEF ProcLock
<1>4. CASE ProcLockUnacked(r)  BY <1>1, <1>4 DEF ProcLockUnacked
<1>5. CASE ReconRead(r)  BY <1>1, <1>5 DEF ReconRead
<1>6. CASE RetryRead(r)  BY <1>1, <1>6 DEF RetryRead
<1>7. CASE GetMiss(r)  BY <1>1, <1>7 DEF GetMiss
<1>8. CASE AuthOtpGet(r)  BY <1>1, <1>8 DEF AuthOtpGet
<1>9. CASE AuthOtpDel(r)  BY <1>1, <1>9 DEF AuthOtpDel
<1>10. CASE AuthExpire(r)  BY <1>1, <1>10 DEF AuthExpire
<1>11. CASE AuthCommit(r)  BY <1>1, <1>11 DEF AuthCommit
<1>12. CASE AuthInval(r)  BY <1>1, <1>12 DEF AuthInval
<1>13. CASE ProcRead(r)  BY <1>1, <1>13 DEF ProcRead
<1>14. CASE ProcStart(r)  BY <1>1, <1>14 DEF ProcStart
<1>15. CASE ProcBank(r)  BY <1>1, <1>15 DEF ProcBank
<1>16. CASE ProcFinish(r)  BY <1>1, <1>16 DEF ProcFinish
<1>17. CASE ProcInval(r)  BY <1>1, <1>17 DEF ProcInval
<1>18. CASE ProcRelease(r)  BY <1>1, <1>18 DEF ProcRelease
<1>19. CASE ReconCommit(r)  BY <1>1, <1>19 DEF ReconCommit
<1>20. CASE ReconInval(r)  BY <1>1, <1>20 DEF ReconInval
<1>21. CASE RetryLog(r)  BY <1>1, <1>21 DEF RetryLog
<1>22. CASE RetryCommit(r)  BY <1>1, <1>22 DEF RetryCommit
<1>23. CASE RetryOtp(r)  BY <1>1, <1>23 DEF RetryOtp
<1>24. CASE RetryInval(r)  BY <1>1, <1>24 DEF RetryInval
<1>25. CASE GetRead(r)  BY <1>1, <1>25 DEF GetRead
<1>26. CASE GetFill(r)  BY <1>1, <1>26 DEF GetFill
<1>27. CASE Crash(r)  BY <1>1, <1>27 DEF Crash
<1>28. CASE Fail(r)  BY <1>1, <1>28 DEF Fail
<1>29. QED
  BY <1>2, <1>3, <1>4, <1>5, <1>6, <1>7, <1>8, <1>9, <1>10, <1>11, <1>12, <1>13, <1>14, <1>15, <1>16, <1>17, <1>18, <1>19, <1>20, <1>21, <1>22, <1>23, <1>24, <1>25, <1>26, <1>27, <1>28 DEF Start, Step

\* So the sets above change by r alone.
LEMMA RequestCounts ==
  ASSUME NEW r \in Req,
         \A q \in Req : q # r => pc'[q] = pc[q] /\ bankResult'[q] = bankResult[q]
  PROVE  /\ Cardinality(AtBank) \in Nat /\ Cardinality(Accepted) \in Nat
         /\ Cardinality(Reconciling) \in Nat
         /\ Cardinality(AtBank)' = Cardinality(AtBank)
              + (IF r \in AtBank' THEN 1 ELSE 0) - (IF r \in AtBank THEN 1 ELSE 0)
         /\ Cardinality(Accepted)' = Cardinality(Accepted)
              + (IF r \in Accepted' THEN 1 ELSE 0) - (IF r \in Accepted THEN 1 ELSE 0)
         /\ Cardinality(Reconciling)' = Cardinality(Reconciling)
              + (IF r \in Reconciling' THEN 1 ELSE 0) - (IF r \in Reconciling THEN 1 ELSE 0)
         /\ \A res \in {"SUCCESS", "FAILED"} :
              /\ Cardinality(Announcing(res)) \in Nat
              /\ Cardinality(Announcing(res))' = Cardinality(Announcing(res))
                   + (IF r \in Announcing(res)' THEN 1 ELSE 0)
                   - (IF r \in Announcing(res) THEN 1 ELSE 0)
<1> USE ReqAssumption DEF InFlight
<1>1. /\ Cardinality(AtBank) \in Nat
      /\ Cardinality(AtBank') = Cardinality(AtBank)
           + (IF r \in AtBank' THEN 1 ELSE 0) - (IF r \in AtBank THEN 1 ELSE 0)
  <2>1. /\ AtBank \in SUBSET Req /\ AtBank' \in SUBSET Req
        /\ \A q \in Req : q # r => (q \in AtBank <=> q \in AtBank')
    BY DEF AtBank
  <2>2. QED  BY <2>1, OneMoves
<1>2. /\ Cardinality(Accepted) \in Nat
      /\ Cardinality(Accepted') = Cardinality(Accepted)
           + (IF r \in Accepted' THEN 1 ELSE 0) - (IF r \in Accepted THEN 1 ELSE 0)
  <2>1. /\ Accepted \in SUBSET Req /\ Accepted' \in SUBSET Req
        /\ \A q \in Req : q # r => (q \in Accepted <=> q \in Accepted')
    BY DEF Accepted
  <2>2. QED  BY <2>1, OneMoves
<1>3. /\ Cardinality(Reconciling) \in Nat
      /\ Cardinality(Reconciling') = Cardinality(Reconciling)
           + (IF r \in Reconciling' THEN 1 ELSE 0) - (IF r \in Reconciling THEN 1 ELSE 0)
  <2>1. /\ Reconciling \in SUBSET Req /\ Reconciling' \in SUBSET Req
        /\ \A q \in Req : q # r => (q \in Reconciling <=> q \in Reconciling')
    BY DEF Reconciling
  <2>2. QED  BY <2>1, OneMoves
<1>4. ASSUME NEW res \in {"SUCCESS", "FAILED"}
      PROVE  /\ Cardinality(Announcing(res)) \in Nat
             /\ Cardinality(Announcing(res)') = Cardinality(Announcing(res))
                  + (IF r \in Announcing(res)' THEN 1 ELSE 0)
                  - (IF r \in Announcing(res) THEN 1 ELSE 0)
  <2>1. /\ Announcing(res) \in SUBSET Req /\ Announcing(res)' \in SUBSET Req
        /\ \A q \in Req : q # r => (q \in Announcing(res) <=> q \in Announcing(res)')
    BY DEF Announcing
  <2>2. QED  BY <2>1, OneMoves
<1>5. QED  BY <1>1, <1>2, <1>3, <1>4

\* Labels of requests that are somewhere in the accounts.
Booking == {"procBank", "procFinish", "procInval", "reconInval"}

\* Debits and events against the trail.
Due(e, entries, pending) ==
  LET due == dispatched[e] + Cardinality(pending) IN
  /\ due <= Cardinality(entries)
  /\ faults \subseteq {"slow"} => due = Cardinality(entries)

AccountInv ==
  /\ \A q \in Req : pc[q] = "procInval" => bankResult[q] \in {"SUCCESS", "FAILED"}
  /\ Cardinality(Entries("SUCCESS")) + Cardinality(Accepted) <= charges
  /\ charges + Cardinality(AtBank) <= Cardinality(Entries("PROCESSING"))
  /\ faults \subseteq {"slow"}
       => Cardinality(Entries("SUCCESS")) + Cardinality(Accepted) = charges
  /\ Due("PAYMENT_SUCCESS", Settled("SUCCESS"), Announcing("SUCCESS"))
  /\ Due("PAYMENT_FAILED", Settled("FAILED"), Announcing("FAILED"))
  /\ Due("PAYMENT_RECONCILED", Entries("RECONCILED"), Reconciling)

\* No entry, no count.
LEMMA SameEntries ==
  ASSUME TInv, UNCHANGED audit, NEW s
  PROVE  UNCHANGED <<Entries(s), Settled(s)>>
BY DEF Entries, Settled

\* Who is not booked before or after a step is in no set of the accounts.
LEMMA Unbooked ==
  ASSUME NEW r \in Req
  PROVE  /\ pc[r] \notin Booking
               => r \notin AtBank \cup Accepted \cup Reconciling
                          \cup Announcing("SUCCESS") \cup Announcing("FAILED")
         /\ pc'[r] \notin Booking
               => r \notin AtBank' \cup Accepted' \cup Reconciling'
                          \cup Announcing("SUCCESS")' \cup Announcing("FAILED")'
BY DEF Booking, AtBank, Accepted, Reconciling, Announcing, InFlight

\* All of them are numbers.
LEMMA CountsTyped ==
  ASSUME TInv
  PROVE  /\ \A s : Cardinality(Entries(s)) \in Nat /\ Cardinality(Settled(s)) \in Nat
         /\ \A e \in Event : dispatched[e] \in Nat
         /\ charges \in Nat
<1>1. audit \in Seq(Entry) /\ charges \in Nat /\ \A e \in Event : dispatched[e] \in Nat
  BY DEF TInv, TypeOK
<1>2. ASSUME NEW s
      PROVE  Cardinality(Entries(s)) \in Nat /\ Cardinality(Settled(s)) \in Nat
  <2>1. IsFiniteSet(1..Len(audit))  BY <1>1, FS_Interval
  <2>2. Entries(s) \in SUBSET (1..Len(audit)) /\ Settled(s) \in SUBSET (1..Len(audit))
    BY <1>1 DEF Entries, Settled
  <2>3. IsFiniteSet(Entries(s)) /\ IsFiniteSet(Settled(s))  BY <2>1, <2>2, FS_Subset
  <2>4. QED  BY <2>3, FS_CardinalityType
<1>3. QED  BY <1>1, <1>2

\* A step that books nothing keeps the accounts: a request may fall out of them
\* only by a crash or a failed call.
LEMMA QuietStep ==
  ASSUME TInv, AccountInv, NEW r \in Req,
         \A q \in Req : q # r => pc'[q] = pc[q] /\ bankResult'[q] = bankResult[q],
         pc'[r] \notin Booking,
         pc[r] \in Booking => ~(faults \subseteq {"slow"}),
         UNCHANGED <<faults, charges, dispatched>>,
         \/ UNCHANGED audit
         \/ \E from, to : /\ Wrote(from, to) /\ from # "PROCESSING"
                          /\ to \notin {"SUCCESS", "PROCESSING", "RECONCILED"}
  PROVE  AccountInv'
<1>1. \A s \in {"SUCCESS", "PROCESSING", "RECONCILED"} :
        Cardinality(Entries(s))' = Cardinality(Entries(s))
  BY SameEntries, EntryCounts
<1>2. \A s \in {"SUCCESS", "FAILED"} : Cardinality(Settled(s))' = Cardinality(Settled(s))
  BY SameEntries, EntryCounts
<1>3. /\ Cardinality(AtBank)' = Cardinality(AtBank) - (IF r \in AtBank THEN 1 ELSE 0)
      /\ Cardinality(Accepted)' = Cardinality(Accepted) - (IF r \in Accepted THEN 1 ELSE 0)
      /\ Cardinality(Reconciling)'
           = Cardinality(Reconciling) - (IF r \in Reconciling THEN 1 ELSE 0)
      /\ \A res \in {"SUCCESS", "FAILED"} :
           Cardinality(Announcing(res))'
             = Cardinality(Announcing(res)) - (IF r \in Announcing(res) THEN 1 ELSE 0)
  BY RequestCounts, Unbooked
<1>4. /\ Cardinality(AtBank) \in Nat /\ Cardinality(Accepted) \in Nat
      /\ Cardinality(Reconciling) \in Nat
      /\ \A res \in {"SUCCESS", "FAILED"} : Cardinality(Announcing(res)) \in Nat
  BY RequestCounts
<1>5. /\ r \in AtBank \cup Accepted \cup Reconciling
                  \cup Announcing("SUCCESS") \cup Announcing("FAILED")
           => ~(faults \subseteq {"slow"})
  BY Unbooked
<1>6. \A q \in Req : pc'[q] = "procInval" => bankResult'[q] \in {"SUCCESS", "FAILED"}
  BY DEF AccountInv, Booking
<1>7. /\ Cardinality(Entries("SUCCESS"))' + Cardinality(Accepted)' <= charges'
      /\ charges' + Cardinality(AtBank)' <= Cardinality(Entries("PROCESSING"))'
      /\ faults' \subseteq {"slow"}
           => Cardinality(Entries("SUCCESS"))' + Cardinality(Accepted)' = charges'
  BY <1>1, <1>3, <1>4, <1>5, CountsTyped DEF AccountInv
<1>8. /\ Due("PAYMENT_SUCCESS", Settled("SUCCESS"), Announcing("SUCCESS"))'
      /\ Due("PAYMENT_FAILED", Settled("FAILED"), Announcing("FAILED"))'
      /\ Due("PAYMENT_RECONCILED", Entries("RECONCILED"), Reconciling)'
  BY <1>1, <1>2, <1>3, <1>4, <1>5, CountsTyped DEF AccountInv, Due, Event
<1>9. QED  BY <1>6, <1>7, <1>8 DEF AccountInv

\* The steps that book: into PROCESSING, at the bank, out of it, and the events.
LEMMA BookingStep ==
  ASSUME TInv, AccountInv, NEW r \in Req, UNCHANGED faults,
         \A q \in Req : q # r => pc'[q] = pc[q] /\ bankResult'[q] = bankResult[q],
         \/ ProcStart(r) \/ ProcBank(r) \/ ProcFinish(r) \/ ProcInval(r)
         \/ ReconCommit(r) \/ ReconInval(r)
  PROVE  AccountInv'
<1> USE DEF At, Goto, Answer, store
<1>1. /\ pc \in [Req -> Pc] /\ bankResult \in [Req -> {"none", "SUCCESS", "FAILED"}]
      /\ dispatched \in [Event -> Nat] /\ charges \in Nat
  BY DEF TInv, TypeOK
<1>2. \A s : Cardinality(Entries(s)) \in Nat /\ Cardinality(Settled(s)) \in Nat
  BY CountsTyped
<1>3. /\ Cardinality(AtBank) \in Nat /\ Cardinality(Accepted) \in Nat
      /\ Cardinality(Reconciling) \in Nat
      /\ Cardinality(Announcing("SUCCESS")) \in Nat /\ Cardinality(Announcing("FAILED")) \in Nat
      /\ Cardinality(AtBank)' = Cardinality(AtBank)
              + (IF r \in AtBank' THEN 1 ELSE 0) - (IF r \in AtBank THEN 1 ELSE 0)
      /\ Cardinality(Accepted)' = Cardinality(Accepted)
              + (IF r \in Accepted' THEN 1 ELSE 0) - (IF r \in Accepted THEN 1 ELSE 0)
      /\ Cardinality(Reconciling)' = Cardinality(Reconciling)
              + (IF r \in Reconciling' THEN 1 ELSE 0) - (IF r \in Reconciling THEN 1 ELSE 0)
      /\ \A res \in {"SUCCESS", "FAILED"} :
           Cardinality(Announcing(res))' = Cardinality(Announcing(res))
                   + (IF r \in Announcing(res)' THEN 1 ELSE 0)
                   - (IF r \in Announcing(res) THEN 1 ELSE 0)
  BY RequestCounts
<1>4. /\ r \in AtBank <=> pc[r] = "procBank"
      /\ r \in AtBank' <=> pc'[r] = "procBank"
      /\ r \in Accepted <=> pc[r] = "procFinish" /\ bankResult[r] = "SUCCESS"
      /\ r \in Accepted' <=> pc'[r] = "procFinish" /\ bankResult'[r] = "SUCCESS"
      /\ r \in Reconciling <=> pc[r] = "reconInval"
      /\ r \in Reconciling' <=> pc'[r] = "reconInval"
      /\ \A res \in {"SUCCESS", "FAILED"} :
           /\ r \in Announcing(res) <=> pc[r] = "procInval" /\ bankResult[r] = res
           /\ r \in Announcing(res)' <=> pc'[r] = "procInval" /\ bankResult'[r] = res
  BY DEF AtBank, Accepted, Reconciling, Announcing, InFlight
<1>5. ASSUME NEW from, NEW to, Wrote(from, to)
      PROVE  \A s : /\ Cardinality(Entries(s))'
                         = Cardinality(Entries(s)) + (IF to = s THEN 1 ELSE 0)
                   /\ Cardinality(Settled(s))' = Cardinality(Settled(s))
                         + (IF to = s /\ from = "PROCESSING" THEN 1 ELSE 0)
  BY <1>5, EntryCounts
<1>6. UNCHANGED audit => \A s : /\ Cardinality(Entries(s))' = Cardinality(Entries(s))
                               /\ Cardinality(Settled(s))' = Cardinality(Settled(s))
  BY SameEntries
<1>7. ASSUME \A q \in Req : pc'[q] = "procInval" => bankResult'[q] \in {"SUCCESS", "FAILED"},
             Cardinality(Entries("SUCCESS"))' + Cardinality(Accepted)' <= charges',
             charges' + Cardinality(AtBank)' <= Cardinality(Entries("PROCESSING"))',
             faults \subseteq {"slow"}
               => Cardinality(Entries("SUCCESS"))' + Cardinality(Accepted)' = charges',
             Due("PAYMENT_SUCCESS", Settled("SUCCESS"), Announcing("SUCCESS"))',
             Due("PAYMENT_FAILED", Settled("FAILED"), Announcing("FAILED"))',
             Due("PAYMENT_RECONCILED", Entries("RECONCILED"), Reconciling)'
      PROVE  AccountInv'
  BY <1>7 DEF AccountInv
<1>8. CASE ProcStart(r)
  <2>1. Wrote(snap[r].status, "PROCESSING") /\ snap[r].status # "PROCESSING"
    <3>1. snap[r].status \in TransactionStatus \ {"PROCESSING"} /\ "PROCESSING" \in TransactionStatus
      BY <1>8, SnapshotRead DEF ProcStart, TInv, Admitted, TransactionStatus
    <3>2. transitionStatus(snap[r].status, "PROCESSING", 0, FALSE)  BY <1>8 DEF ProcStart
    <3>3. QED  BY <3>1, <3>2 DEF Wrote
  <2>2. \A s : /\ Cardinality(Entries(s))'
                    = Cardinality(Entries(s)) + (IF "PROCESSING" = s THEN 1 ELSE 0)
               /\ Cardinality(Settled(s))' = Cardinality(Settled(s))
    BY <1>2, <1>5, <2>1
  <2>3. /\ pc[r] = "procStart" /\ pc'[r] = "procBank" /\ charges' = charges
        /\ dispatched' = dispatched /\ bankResult' = bankResult
        /\ \A q \in Req : pc'[q] = "procInval" => pc[q] = "procInval"
    BY <1>1, <1>8 DEF ProcStart
  <2>4. \A q \in Req : pc'[q] = "procInval" => bankResult'[q] \in {"SUCCESS", "FAILED"}
    BY <2>1, <2>2, <2>3 DEF AccountInv
  <2>5. /\ Cardinality(Entries("SUCCESS"))' + Cardinality(Accepted)' <= charges'
        /\ charges' + Cardinality(AtBank)' <= Cardinality(Entries("PROCESSING"))'
        /\ faults \subseteq {"slow"}
             => Cardinality(Entries("SUCCESS"))' + Cardinality(Accepted)' = charges'
    BY <1>1, <1>2, <1>3, <1>4, <2>1, <2>2, <2>3 DEF AccountInv
  <2>6. Due("PAYMENT_SUCCESS", Settled("SUCCESS"), Announcing("SUCCESS"))'
    BY <1>1, <1>2, <1>3, <1>4, <2>1, <2>2, <2>3 DEF AccountInv, Due, Event
  <2>7. Due("PAYMENT_FAILED", Settled("FAILED"), Announcing("FAILED"))'
    BY <1>1, <1>2, <1>3, <1>4, <2>1, <2>2, <2>3 DEF AccountInv, Due, Event
  <2>8. Due("PAYMENT_RECONCILED", Entries("RECONCILED"), Reconciling)'
    BY <1>1, <1>2, <1>3, <1>4, <2>1, <2>2, <2>3 DEF AccountInv, Due, Event
  <2>9. QED  BY <2>4, <2>5, <2>6, <2>7, <2>8, <1>7
<1>9. CASE ProcBank(r)
  <2>1. \A s : /\ Cardinality(Entries(s))' = Cardinality(Entries(s))
               /\ Cardinality(Settled(s))' = Cardinality(Settled(s))
    BY <1>6, <1>9 DEF ProcBank
  <2>2. /\ pc[r] = "procBank" /\ pc'[r] = "procFinish"
        /\ charges' = charges + (IF bankResult'[r] = "SUCCESS" THEN 1 ELSE 0)
        /\ dispatched' = dispatched
        /\ \A q \in Req : pc'[q] = "procInval" => pc[q] = "procInval" /\ q # r
    BY <1>1, <1>9 DEF ProcBank
  <2>3. \A q \in Req : pc'[q] = "procInval" => bankResult'[q] \in {"SUCCESS", "FAILED"}
    BY <2>1, <2>2 DEF AccountInv
  <2>4. /\ Cardinality(Entries("SUCCESS"))' + Cardinality(Accepted)' <= charges'
        /\ charges' + Cardinality(AtBank)' <= Cardinality(Entries("PROCESSING"))'
        /\ faults \subseteq {"slow"}
             => Cardinality(Entries("SUCCESS"))' + Cardinality(Accepted)' = charges'
    BY <1>1, <1>2, <1>3, <1>4, <2>1, <2>2 DEF AccountInv
  <2>5. Due("PAYMENT_SUCCESS", Settled("SUCCESS"), Announcing("SUCCESS"))'
    BY <1>1, <1>2, <1>3, <1>4, <2>1, <2>2 DEF AccountInv, Due, Event
  <2>6. Due("PAYMENT_FAILED", Settled("FAILED"), Announcing("FAILED"))'
    BY <1>1, <1>2, <1>3, <1>4, <2>1, <2>2 DEF AccountInv, Due, Event
  <2>7. Due("PAYMENT_RECONCILED", Entries("RECONCILED"), Reconciling)'
    BY <1>1, <1>2, <1>3, <1>4, <2>1, <2>2 DEF AccountInv, Due, Event
  <2>8. QED  BY <2>3, <2>4, <2>5, <2>6, <2>7, <1>7
<1>10. CASE ProcFinish(r)
  <2>1. bankResult[r] \in {"SUCCESS", "FAILED"} /\ Wrote("PROCESSING", bankResult[r])
    <3>1. bankResult[r] \in {"SUCCESS", "FAILED"}
      BY <1>10 DEF ProcFinish, TInv, Admitted
    <3>2. {"PROCESSING", bankResult[r]} \subseteq TransactionStatus
          /\ (bankResult[r] = "SUCCESS") \in BOOLEAN
      BY <3>1 DEF TransactionStatus
    <3>3. transitionStatus("PROCESSING", bankResult[r], 0, bankResult[r] = "SUCCESS")
      BY <1>10 DEF ProcFinish
    <3>4. QED  BY <3>1, <3>2, <3>3 DEF Wrote
  <2>2. \A s : /\ Cardinality(Entries(s))'
                    = Cardinality(Entries(s)) + (IF bankResult[r] = s THEN 1 ELSE 0)
               /\ Cardinality(Settled(s))'
                    = Cardinality(Settled(s)) + (IF bankResult[r] = s THEN 1 ELSE 0)
    BY <1>5, <2>1
  <2>3. /\ pc[r] = "procFinish" /\ pc'[r] = "procInval" /\ charges' = charges
        /\ dispatched' = dispatched /\ bankResult' = bankResult
        /\ \A q \in Req : pc'[q] = "procInval" => pc[q] = "procInval" \/ q = r
    BY <1>1, <1>10 DEF ProcFinish
  <2>4. \A q \in Req : pc'[q] = "procInval" => bankResult'[q] \in {"SUCCESS", "FAILED"}
    BY <2>1, <2>2, <2>3 DEF AccountInv
  <2>5. /\ Cardinality(Entries("SUCCESS"))' + Cardinality(Accepted)' <= charges'
        /\ charges' + Cardinality(AtBank)' <= Cardinality(Entries("PROCESSING"))'
        /\ faults \subseteq {"slow"}
             => Cardinality(Entries("SUCCESS"))' + Cardinality(Accepted)' = charges'
    BY <1>1, <1>2, <1>3, <1>4, <2>1, <2>2, <2>3 DEF AccountInv
  <2>6. Due("PAYMENT_SUCCESS", Settled("SUCCESS"), Announcing("SUCCESS"))'
    BY <1>1, <1>2, <1>3, <1>4, <2>1, <2>2, <2>3 DEF AccountInv, Due, Event
  <2>7. Due("PAYMENT_FAILED", Settled("FAILED"), Announcing("FAILED"))'
    BY <1>1, <1>2, <1>3, <1>4, <2>1, <2>2, <2>3 DEF AccountInv, Due, Event
  <2>8. Due("PAYMENT_RECONCILED", Entries("RECONCILED"), Reconciling)'
    BY <1>1, <1>2, <1>3, <1>4, <2>1, <2>2, <2>3 DEF AccountInv, Due, Event
  <2>9. QED  BY <2>4, <2>5, <2>6, <2>7, <2>8, <1>7
<1>11. CASE ProcInval(r)
  <2>1. \A s : /\ Cardinality(Entries(s))' = Cardinality(Entries(s))
               /\ Cardinality(Settled(s))' = Cardinality(Settled(s))
    BY <1>6, <1>11 DEF ProcInval
  <2>2. /\ pc[r] = "procInval" /\ pc'[r] = "procRelease" /\ charges' = charges
        /\ bankResult' = bankResult /\ bankResult[r] \in {"SUCCESS", "FAILED"}
        /\ dispatched' = [dispatched EXCEPT ![IF bankResult[r] = "SUCCESS"
                               THEN "PAYMENT_SUCCESS" ELSE "PAYMENT_FAILED"] = @ + 1]
        /\ \A q \in Req : pc'[q] = "procInval" => pc[q] = "procInval"
    BY <1>1, <1>11 DEF ProcInval, dispatchWebhooks, AccountInv
  <2>3. \A q \in Req : pc'[q] = "procInval" => bankResult'[q] \in {"SUCCESS", "FAILED"}
    BY <2>1, <2>2 DEF AccountInv
  <2>4. /\ Cardinality(Entries("SUCCESS"))' + Cardinality(Accepted)' <= charges'
        /\ charges' + Cardinality(AtBank)' <= Cardinality(Entries("PROCESSING"))'
        /\ faults \subseteq {"slow"}
             => Cardinality(Entries("SUCCESS"))' + Cardinality(Accepted)' = charges'
    BY <1>1, <1>2, <1>3, <1>4, <2>1, <2>2 DEF AccountInv
  <2>5. Due("PAYMENT_SUCCESS", Settled("SUCCESS"), Announcing("SUCCESS"))'
    BY <1>1, <1>2, <1>3, <1>4, <2>1, <2>2 DEF AccountInv, Due, Event
  <2>6. Due("PAYMENT_FAILED", Settled("FAILED"), Announcing("FAILED"))'
    BY <1>1, <1>2, <1>3, <1>4, <2>1, <2>2 DEF AccountInv, Due, Event
  <2>7. Due("PAYMENT_RECONCILED", Entries("RECONCILED"), Reconciling)'
    BY <1>1, <1>2, <1>3, <1>4, <2>1, <2>2 DEF AccountInv, Due, Event
  <2>8. QED  BY <2>3, <2>4, <2>5, <2>6, <2>7, <1>7
<1>12. CASE ReconCommit(r)
  <2>1. Wrote(snap[r].status, "RECONCILED") /\ snap[r].status # "PROCESSING"
    <3>1. snap[r].status \in TransactionStatus \ {"PROCESSING"} /\ "RECONCILED" \in TransactionStatus
      BY <1>12, SnapshotRead DEF ReconCommit, TInv, Admitted, TransactionStatus
    <3>2. transitionStatus(snap[r].status, "RECONCILED", 0, FALSE)  BY <1>12 DEF ReconCommit
    <3>3. QED  BY <3>1, <3>2 DEF Wrote
  <2>2. \A s : /\ Cardinality(Entries(s))'
                    = Cardinality(Entries(s)) + (IF "RECONCILED" = s THEN 1 ELSE 0)
               /\ Cardinality(Settled(s))' = Cardinality(Settled(s))
    BY <1>2, <1>5, <2>1
  <2>3. /\ pc[r] = "reconCommit" /\ pc'[r] = "reconInval" /\ charges' = charges
        /\ dispatched' = dispatched /\ bankResult' = bankResult
        /\ \A q \in Req : pc'[q] = "procInval" => pc[q] = "procInval"
    BY <1>1, <1>12 DEF ReconCommit
  <2>4. \A q \in Req : pc'[q] = "procInval" => bankResult'[q] \in {"SUCCESS", "FAILED"}
    BY <2>1, <2>2, <2>3 DEF AccountInv
  <2>5. /\ Cardinality(Entries("SUCCESS"))' + Cardinality(Accepted)' <= charges'
        /\ charges' + Cardinality(AtBank)' <= Cardinality(Entries("PROCESSING"))'
        /\ faults \subseteq {"slow"}
             => Cardinality(Entries("SUCCESS"))' + Cardinality(Accepted)' = charges'
    BY <1>1, <1>2, <1>3, <1>4, <2>1, <2>2, <2>3 DEF AccountInv
  <2>6. Due("PAYMENT_SUCCESS", Settled("SUCCESS"), Announcing("SUCCESS"))'
    BY <1>1, <1>2, <1>3, <1>4, <2>1, <2>2, <2>3 DEF AccountInv, Due, Event
  <2>7. Due("PAYMENT_FAILED", Settled("FAILED"), Announcing("FAILED"))'
    BY <1>1, <1>2, <1>3, <1>4, <2>1, <2>2, <2>3 DEF AccountInv, Due, Event
  <2>8. Due("PAYMENT_RECONCILED", Entries("RECONCILED"), Reconciling)'
    BY <1>1, <1>2, <1>3, <1>4, <2>1, <2>2, <2>3 DEF AccountInv, Due, Event
  <2>9. QED  BY <2>4, <2>5, <2>6, <2>7, <2>8, <1>7
<1>13. CASE ReconInval(r)
  <2>1. \A s : /\ Cardinality(Entries(s))' = Cardinality(Entries(s))
               /\ Cardinality(Settled(s))' = Cardinality(Settled(s))
    BY <1>6, <1>13 DEF ReconInval
  <2>2. /\ pc[r] = "reconInval" /\ pc'[r] = "idle" /\ charges' = charges
        /\ dispatched' = [dispatched EXCEPT !["PAYMENT_RECONCILED"] = @ + 1]
        /\ \A q \in Req : pc'[q] = "procInval" => pc[q] = "procInval" /\ q # r
    BY <1>1, <1>13 DEF ReconInval, dispatchWebhooks
  <2>3. \A q \in Req : pc'[q] = "procInval" => bankResult'[q] \in {"SUCCESS", "FAILED"}
    BY <2>1, <2>2 DEF AccountInv
  <2>4. /\ Cardinality(Entries("SUCCESS"))' + Cardinality(Accepted)' <= charges'
        /\ charges' + Cardinality(AtBank)' <= Cardinality(Entries("PROCESSING"))'
        /\ faults \subseteq {"slow"}
             => Cardinality(Entries("SUCCESS"))' + Cardinality(Accepted)' = charges'
    BY <1>1, <1>2, <1>3, <1>4, <2>1, <2>2 DEF AccountInv
  <2>5. Due("PAYMENT_SUCCESS", Settled("SUCCESS"), Announcing("SUCCESS"))'
    BY <1>1, <1>2, <1>3, <1>4, <2>1, <2>2 DEF AccountInv, Due, Event
  <2>6. Due("PAYMENT_FAILED", Settled("FAILED"), Announcing("FAILED"))'
    BY <1>1, <1>2, <1>3, <1>4, <2>1, <2>2 DEF AccountInv, Due, Event
  <2>7. Due("PAYMENT_RECONCILED", Entries("RECONCILED"), Reconciling)'
    BY <1>1, <1>2, <1>3, <1>4, <2>1, <2>2 DEF AccountInv, Due, Event
  <2>8. QED  BY <2>3, <2>4, <2>5, <2>6, <2>7, <1>7
<1>14. QED  BY <1>8, <1>9, <1>10, <1>11, <1>12, <1>13

\* Every step of a request keeps the accounts.
LEMMA AccountStep ==
  ASSUME TInv, AccountInv, NEW r \in Req, UNCHANGED env,
         Start(r) \/ Step(r) \/ Crash(r) \/ Fail(r)
  PROVE  AccountInv'
<1> DEFINE Quiet ==
      /\ pc'[r] \notin Booking
      /\ pc[r] \in Booking => ~(faults \subseteq {"slow"})
      /\ UNCHANGED <<charges, dispatched>>
      /\ \/ UNCHANGED audit
         \/ \E from, to : /\ Wrote(from, to) /\ from # "PROCESSING"
                          /\ to \notin {"SUCCESS", "PROCESSING", "RECONCILED"}
<1>1. pc \in [Req -> Pc]  BY DEF TInv, TypeOK
<1>2. Quiet \/ ProcStart(r) \/ ProcBank(r) \/ ProcFinish(r) \/ ProcInval(r)
      \/ ReconCommit(r) \/ ReconInval(r)
  <2> USE DEF At, Goto, Answer, Called, Booking, store
  <2>1. CASE AuthRead(r)  BY <1>1, <2>1 DEF AuthRead
  <2>2. CASE ProcLock(r)  BY <1>1, <2>2 DEF ProcLock
  <2>3. CASE ProcLockUnacked(r)  BY <1>1, <2>3 DEF ProcLockUnacked
  <2>4. CASE ReconRead(r)  BY <1>1, <2>4 DEF ReconRead
  <2>5. CASE RetryRead(r)  BY <1>1, <2>5 DEF RetryRead
  <2>6. CASE GetMiss(r)  BY <1>1, <2>6 DEF GetMiss
  <2>7. CASE AuthOtpGet(r)  BY <1>1, <2>7 DEF AuthOtpGet
  <2>8. CASE AuthOtpDel(r)  BY <1>1, <2>8 DEF AuthOtpDel
  <2>9. CASE AuthExpire(r)
    <3>1. Wrote(snap[r].status, "FAILED") /\ snap[r].status # "PROCESSING"
      <4>1. /\ snap[r].status \in TransactionStatus \ {"PROCESSING"}
            /\ "FAILED" \in TransactionStatus
          BY <2>9, SnapshotRead DEF AuthExpire, TInv, Admitted, TransactionStatus
      <4>2. transitionStatus(snap[r].status, "FAILED", 0, FALSE)  BY <2>9 DEF AuthExpire
      <4>3. QED  BY <4>1, <4>2 DEF Wrote
    <3>2. Quiet  BY <1>1, <2>9, <3>1 DEF AuthExpire
    <3>3. QED  BY <3>2
  <2>10. CASE AuthCommit(r)
    <3>1. Wrote(snap[r].status, "AUTHENTICATED") /\ snap[r].status # "PROCESSING"
      <4>1. /\ snap[r].status \in TransactionStatus \ {"PROCESSING"}
            /\ "AUTHENTICATED" \in TransactionStatus
          BY <2>10, SnapshotRead DEF AuthCommit, TInv, Admitted, TransactionStatus
      <4>2. transitionStatus(snap[r].status, "AUTHENTICATED", 0, FALSE)  BY <2>10 DEF AuthCommit
      <4>3. QED  BY <4>1, <4>2 DEF Wrote
    <3>2. Quiet  BY <1>1, <2>10, <3>1 DEF AuthCommit
    <3>3. QED  BY <3>2
  <2>11. CASE AuthInval(r)  BY <1>1, <2>11 DEF AuthInval
  <2>12. CASE ProcRead(r)  BY <1>1, <2>12 DEF ProcRead
  <2>13. CASE ProcRelease(r)  BY <1>1, <2>13 DEF ProcRelease
  <2>14. CASE RetryLog(r)  BY <1>1, <2>14 DEF RetryLog
  <2>15. CASE RetryCommit(r)
    <3>1. Wrote("FAILED", "INITIATED")
      <4>1. /\ {"FAILED", "INITIATED"} \subseteq TransactionStatus
            /\ snap[r].retryCount + 1 \in Nat
          BY <2>15, SnapshotRead DEF RetryCommit, TInv, Admitted, TransactionStatus
      <4>2. transitionStatus("FAILED", "INITIATED", snap[r].retryCount + 1, FALSE)
          BY <2>15 DEF RetryCommit
      <4>3. QED  BY <4>1, <4>2 DEF Wrote
    <3>2. Quiet  BY <1>1, <2>15, <3>1 DEF RetryCommit
    <3>3. QED  BY <3>2
  <2>16. CASE RetryOtp(r)  BY <1>1, <2>16 DEF RetryOtp
  <2>17. CASE RetryInval(r)  BY <1>1, <2>17 DEF RetryInval
  <2>18. CASE GetRead(r)  BY <1>1, <2>18 DEF GetRead
  <2>19. CASE GetFill(r)  BY <1>1, <2>19 DEF GetFill
  <2>20. CASE Crash(r)  BY <1>1, <2>20 DEF Crash
  <2>21. CASE Fail(r)  BY <1>1, <2>21 DEF Fail
  <2>22. QED
    BY <2>1, <2>2, <2>3, <2>4, <2>5, <2>6, <2>7, <2>8, <2>9, <2>10, <2>11, <2>12, <2>13, <2>14, <2>15, <2>16, <2>17, <2>18, <2>19, <2>20, <2>21 DEF Start, Step
<1>3. CASE Quiet  BY <1>3, OthersStay, QuietStep DEF env
<1>4. QED  BY <1>2, <1>3, OthersStay, BookingStep DEF env

\* Beside the requests nothing is booked.
LEMMA AccountAside ==
  ASSUME AccountInv, Aside
  PROVE  AccountInv'
<1>1. UNCHANGED <<faults, audit, charges, dispatched, pc, bankResult>>
  BY AsideKeeps DEF store
<1>2. QED
  BY <1>1 DEF AccountInv, Due, Entries, Settled, AtBank, Accepted, Announcing,
              Reconciling, InFlight

\* At first nothing is booked.
LEMMA AccountInit == Init => AccountInv
<1> SUFFICES ASSUME Init PROVE AccountInv  OBVIOUS
<1>1. audit = <<>> /\ charges = 0 /\ dispatched = [e \in Event |-> 0]
      /\ \A q \in Req : pc[q] = "idle"
  BY DEF Init, StoreInit
<1>2. \A s : Entries(s) = {} /\ Settled(s) = {}  BY <1>1 DEF Entries, Settled
<1>3. /\ AtBank = {} /\ Accepted = {} /\ Reconciling = {}
      /\ Announcing("SUCCESS") = {} /\ Announcing("FAILED") = {}
  BY <1>1 DEF AtBank, Accepted, Reconciling, Announcing, InFlight
<1>4. Cardinality({}) = 0  BY FS_EmptySet
<1>5. dispatched["PAYMENT_SUCCESS"] = 0 /\ dispatched["PAYMENT_FAILED"] = 0
      /\ dispatched["PAYMENT_RECONCILED"] = 0
  BY <1>1 DEF Event
<1>6. /\ Due("PAYMENT_SUCCESS", Settled("SUCCESS"), Announcing("SUCCESS"))
      /\ Due("PAYMENT_FAILED", Settled("FAILED"), Announcing("FAILED"))
      /\ Due("PAYMENT_RECONCILED", Entries("RECONCILED"), Reconciling)
  <2>1. \A e \in Event : dispatched[e] = 0 => Due(e, {}, {})
    BY <1>4 DEF Due
  <2>2. {"PAYMENT_SUCCESS", "PAYMENT_FAILED", "PAYMENT_RECONCILED"} \subseteq Event
    BY DEF Event
  <2>3. /\ Settled("SUCCESS") = {} /\ Settled("FAILED") = {}
        /\ Entries("RECONCILED") = {}
    BY <1>2
  <2>4. QED  BY <1>3, <1>5, <2>1, <2>2, <2>3
<1>7. /\ Cardinality(Entries("SUCCESS")) = 0 /\ Cardinality(Entries("PROCESSING")) = 0
      /\ Cardinality(Accepted) = 0 /\ Cardinality(AtBank) = 0
  BY <1>2, <1>3, <1>4
<1>8. QED  BY <1>1, <1>6, <1>7 DEF AccountInv

\* The accounts are kept in every behaviour.
LEMMA Accounted == Spec => [](TInv /\ AccountInv)
<1>1. TInv /\ AccountInv /\ [Next]_vars => (TInv /\ AccountInv)'
  BY Cases, TypeStep, TypeEnv, AccountStep, AccountAside
<1>2. QED  BY TypeInit, AccountInit, <1>1, PTL DEF Spec

\* However many handlers race, every SUCCESS has a debit of its own and every debit
\* a PROCESSING entry; with no crash and no failed call debits and SUCCESS agree.
THEOREM DebitsAccounted == Spec => []ChargesAccounted
<1>1. ASSUME TInv, AccountInv  PROVE ChargesAccounted
  <2>1. Cardinality(AtBank) \in Nat
    <3>1. AtBank \in SUBSET Req  BY DEF AtBank, InFlight
    <3>2. QED  BY <3>1, ReqAssumption, FS_Subset, FS_CardinalityType
  <2>2. charges <= Cardinality(Entries("PROCESSING"))
    BY <1>1, <2>1, CountsTyped DEF AccountInv
  <2>3. QED  BY <1>1, <2>2 DEF AccountInv, ChargesAccounted, Accepted
<1>2. QED  BY Accounted, <1>1, PTL

\* No outcome is announced more often than it was recorded, for any number of
\* requests; with no crash and no failed call each is announced exactly once.
THEOREM AnnouncementsAccounted == Spec => []EventsAccounted
<1>1. AccountInv => EventsAccounted
  BY DEF AccountInv, EventsAccounted, Due, Settled, Announcing, Reconciling
<1>2. QED  BY Accounted, <1>1, PTL

-------------------------------------------------------------------------------
(* Orphans *)

\* A payment that is being processed has a handler that will write the bank's answer,
\* as long as no process dies and no call fails.
Settling ==
  faults \subseteq {"slow"} /\ row.status = "PROCESSING"
    => InFlight({"procBank", "procFinish"}) # {}

LEMMA SettlingStep ==
  ASSUME TInv, Settling, UNCHANGED faults, NEW r \in Req,
         Start(r) \/ Step(r) \/ Crash(r) \/ Fail(r)
  PROVE  Settling'
<1>1. /\ pc \in [Req -> Pc] /\ row \in Txn /\ r \in Req /\ Admitted(r)
      /\ bankResult \in [Req -> {"none", "SUCCESS", "FAILED"}]
  BY DEF TInv, TypeOK
<1>2. \A q \in Req \ {r} : pc'[q] = pc[q]  BY OthersStay
<1>3. ASSUME row' = row, pc[r] \notin {"procBank", "procFinish"}  PROVE Settling'
  BY <1>1, <1>2, <1>3 DEF Settling, InFlight
<1>4. ASSUME row'.status # "PROCESSING"  PROVE Settling'
  BY <1>4 DEF Settling
<1>5. CASE ProcStart(r)
  <2>1. pc'[r] = "procBank"  BY <1>1, <1>5 DEF ProcStart, Goto
  <2>2. QED  BY <2>1 DEF Settling, InFlight
<1>6. CASE ProcBank(r)
  <2>1. pc'[r] = "procFinish"  BY <1>1, <1>6 DEF ProcBank, Goto
  <2>2. QED  BY <2>1 DEF Settling, InFlight
<1>7. CASE ProcFinish(r)
  <2>1. bankResult[r] \in {"SUCCESS", "FAILED"}  BY <1>1, <1>7 DEF ProcFinish, At, Admitted
  <2>2. QED  BY <1>4, <1>7, <2>1 DEF ProcFinish, transitionStatus, Updated
<1>8. CASE AuthExpire(r) \/ AuthCommit(r) \/ ReconCommit(r) \/ RetryCommit(r)
  BY <1>4, <1>8 DEF AuthExpire, AuthCommit, ReconCommit, RetryCommit, transitionStatus, Updated
<1>9. CASE Crash(r) \/ Fail(r)  BY <1>9 DEF Crash, Fail, Settling
<1>10. CASE Start(r)
  BY <1>3, <1>10
     DEF Start, AuthRead, ProcLock, ProcLockUnacked, ReconRead, RetryRead, GetMiss, Called, store
<1>11. CASE AuthOtpGet(r) \/ AuthOtpDel(r) \/ AuthInval(r) \/ GetRead(r) \/ GetFill(r)
  BY <1>3, <1>11 DEF AuthOtpGet, AuthOtpDel, AuthInval, GetRead, GetFill, At, store
<1>12. CASE ProcRead(r) \/ ProcInval(r) \/ ProcRelease(r) \/ ReconInval(r)
  BY <1>3, <1>12 DEF ProcRead, ProcInval, ProcRelease, ReconInval, At, store
<1>13. CASE RetryLog(r) \/ RetryOtp(r) \/ RetryInval(r)
  BY <1>3, <1>13 DEF RetryLog, RetryOtp, RetryInval, At, store
<1>14. QED
  BY <1>5, <1>6, <1>7, <1>8, <1>9, <1>10, <1>11, <1>12, <1>13 DEF Step

\* Only a crash or a failed call makes an orphan in PROCESSING: without them, however many
\* handlers race and outlive the lock, somebody is about to take the payment out of
\* PROCESSING (what ProcessingSettles rests on).
THEOREM OrphanNeedsFault == Spec => []Settling
<1>1. Init => Settling  BY DEF Init, StoreInit, Settling
<1>2. TInv /\ [Next]_vars => TInv'
  BY Cases, TypeStep, TypeEnv
<1>3. ASSUME TInv, Settling, [Next]_vars  PROVE Settling'
  <2>1. CASE Aside  BY <1>3, <2>1, AsideKeeps DEF Settling, InFlight, store
  <2>2. ASSUME UNCHANGED env, NEW r \in Req, Start(r) \/ Step(r) \/ Crash(r) \/ Fail(r)
        PROVE  Settling'
    BY <1>3, <2>2, SettlingStep DEF env
  <2>3. QED  BY <1>3, <2>1, <2>2, Cases
<1>4. QED  BY TypeInit, <1>1, <1>2, <1>3, PTL DEF Spec

===============================================================================
