---------------------------- MODULE WebhooksProofs ----------------------------
(***************************************************************************)
(* Theorems about Webhooks for every set of events, hooks, workers and job *)
(* slots, every limit and any number of crashes and failed queries.        *)
(***************************************************************************)
EXTENDS Webhooks, FiniteSetTheorems, TLAPS

\* A row still PENDING has not been attempted, so whoever read it as PENDING
\* counts from zero and writes a count of one.
AttemptInv ==
  /\ \A d \in Id : /\ delivery[d].attemptCount \in {0, 1}
                   /\ delivery[d].status = "PENDING" => delivery[d].attemptCount = 0
                   /\ delivery[d].status = "DEAD" => maxRetries < 2
  /\ \A w \in Workers : \A item \in worker[w] : item.attemptCount = 0
  /\ \A j \in Jobs : job[j].at \in {"post", "update"} => job[j].attemptCount = 1

\* An event reaches a hook through its one first attempt or not at all.
ReceiptInv ==
  /\ \A e \in Events, h \in Hooks :
        dispatch[e] \in {"none", "find"} \/ h \in todo[e]
          => received[<<e, h>>] = 0 /\ first[<<e, h>>] = "none"
  /\ \A d \in Id : /\ received[d] \in {0, 1}
                   /\ first[d] = "post" => received[d] = 0

\* An HTTP answer was received, and no job has seen a 2xx.
AnswerInv ==
  /\ \A d \in Id : /\ first[d] \in {"2xx", "other"} => received[d] > 0
                   /\ delivery[d].status = "SUCCESS" => received[d] > 0
  /\ \A j \in Jobs : job[j].at = "update" => job[j].outcome # "2xx"

-------------------------------------------------------------------------------
(* Types *)

\* What an attempt writes is a row.
LEMMA AttemptedRow ==
  ASSUME NEW outcome \in Outcome, NEW count \in Nat, NEW isDead \in BOOLEAN
  PROVE  Attempted(outcome, count, isDead) \in Row
BY DEF Attempted, Row, Status, Outcome

\* A batch consists of deliveries that are PENDING and due.
LEMMA BatchPending ==
  /\ Batch \subseteq Id
  /\ \A d \in Batch : delivery[d].status = "PENDING"
BY DEF Batch, Pending

\* A row is inserted well typed, behind all others.
LEMMA NewRowType == NewRow \in Row
<1> DEFINE older == {d \in Id : delivery[d].status # "NONE"}
<1>1. IsFiniteSet(Id)  BY FiniteAssumption, FS_Product DEF Id
<1>2. Cardinality(older) \in Nat  BY <1>1, FS_Subset, FS_CardinalityType
<1>3. NewRow = [status |-> "PENDING", attemptCount |-> 0, nextRetry |-> "due",
               rank |-> Cardinality(older)]
  BY DEF NewRow
<1> HIDE DEF older
<1> QED  BY <1>2, <1>3 DEF Row, Status

\* A job is idle, at its lookup, at its request or at its update.
LEMMA JobShapes ==
  ASSUME TypeOK, NEW j \in Jobs
  PROVE  /\ job[j].at = "lookup" => job[j].id \in Id
         /\ job[j].at = "post" => job[j].id \in Id /\ job[j].attemptCount \in Nat
         /\ job[j].at = "update" => /\ job[j].id \in Id
                                    /\ job[j].attemptCount \in Nat
                                    /\ job[j].outcome \in Outcome
<1>1. job[j] \in JobType  BY DEF TypeOK
<1> QED  BY <1>1 DEF JobType, NoJob

\* The row a job writes back is a row.
LEMMA JobRowType ==
  ASSUME TypeOK, NEW j \in Jobs, job[j].at = "update"
  PROVE  JobRow(j) \in Row
<1>1. shouldRetryWebhook(job[j].attemptCount, "FAILED") \in BOOLEAN
  BY DEF shouldRetryWebhook
<1> QED  BY <1>1, JobShapes, AttemptedRow DEF JobRow

\* The initial state is well typed.
LEMMA TypeInit == Init => TypeOK
<1> SUFFICES ASSUME Init PROVE TypeOK
  OBVIOUS
<1>1. NoRow \in Row  BY DEF NoRow, Row, Status
<1>2. NoJob \in JobType  BY DEF JobType
<1> QED  BY <1>1, <1>2, NatAssumption DEF Init, TypeOK

\* Registration and dispatch keep the types.
LEMMA TypeDispatch ==
  ASSUME TypeOK,
         \/ \E h \in Hooks : Register(h)
         \/ \E e \in Events : Call(e) \/ DispatchStep(e)
  PROVE  TypeOK'
<1> USE DEF TypeOK
<1>0. NewRow \in Row  BY NewRowType
<1>1. ASSUME NEW h \in Hooks, Register(h)  PROVE TypeOK'
  BY <1>1 DEF Register, register
<1>2. ASSUME NEW e \in Events, Call(e)  PROVE TypeOK'
  BY <1>2 DEF Call
<1>3. ASSUME NEW e \in Events, FindHooks(e)  PROVE TypeOK'
  BY <1>3 DEF FindHooks
<1>4. ASSUME NEW e \in Events, DispatchDone(e)  PROVE TypeOK'
  BY <1>4 DEF DispatchDone
<1>5. ASSUME NEW e \in Events, NEW h \in Hooks, CreateDelivery(e, h)  PROVE TypeOK'
  <2>1. <<e, h>> \in Id  BY DEF Id
  <2> QED  BY <1>0, <1>5, <2>1 DEF CreateDelivery
<1> QED  BY <1>1, <1>2, <1>3, <1>4, <1>5 DEF DispatchStep

\* The first attempt and the passing of time keep the types.
LEMMA TypeFirst ==
  ASSUME TypeOK, NEW d \in Id, FirstStep(d) \/ FirstUpdateFails(d) \/ BecomeDue(d)
  PROVE  TypeOK'
<1> USE DEF TypeOK
<1>1. CASE FirstPost(d)  BY <1>1 DEF FirstPost, Outcome
<1>2. CASE FirstUpdate(d)
  <2>1. Attempted(first[d], 1, FALSE) \in Row  BY <1>2, AttemptedRow DEF FirstUpdate
  <2> QED  BY <1>2, <2>1 DEF FirstUpdate
<1>3. CASE FirstUpdateFails(d)
  <2>1. Attempted(first[d], 1, FALSE) \in Row
    BY <1>3, AttemptedRow DEF FirstUpdateFails
  <2>2. faults' \in 0..MaxFaults  BY <1>3, NatAssumption DEF FirstUpdateFails
  <2> QED  BY <1>3, <2>1, <2>2 DEF FirstUpdateFails, Outcome
<1>4. CASE BecomeDue(d)  BY <1>4 DEF BecomeDue, Row
<1> QED  BY <1>1, <1>2, <1>3, <1>4 DEF FirstStep

\* Worker runs keep the types.
LEMMA TypeWorker ==
  ASSUME TypeOK, NEW w \in Workers, WorkerStep(w)
  PROVE  TypeOK'
<1> USE DEF TypeOK
<1>1. CASE WorkerRead(w)
  <2>1. {[id |-> d, attemptCount |-> delivery[d].attemptCount] : d \in Batch}
          \subseteq Item
    BY BatchPending DEF Item, Row
  <2> QED  BY <1>1, <2>1 DEF WorkerRead
<1>2. ASSUME NEW item \in worker[w], WorkerDead(w, item)  PROVE TypeOK'
  <2>1. item \in Item  OBVIOUS
  <2>2. DeadRow(item) \in Row  BY <2>1 DEF DeadRow, Row, Status, Item
  <2> QED  BY <1>2, <2>2 DEF WorkerDead
<1>3. ASSUME NEW item \in worker[w], NEW j \in Jobs, WorkerFire(w, item, j)
      PROVE  TypeOK'
  <2>1. [at |-> "lookup", id |-> item.id] \in JobType  BY DEF JobType, Item
  <2> QED  BY <1>3, <2>1 DEF WorkerFire
<1> QED  BY <1>1, <1>2, <1>3 DEF WorkerStep

\* Jobs keep the types.
LEMMA TypeJob ==
  ASSUME TypeOK, NEW j \in Jobs, JobStep(j) \/ JobUpdateFails(j)
  PROVE  TypeOK'
<1> USE DEF TypeOK
<1>0. NoJob \in JobType  BY DEF JobType
<1>1. CASE JobLookup(j)
  <2>1. [at |-> "post", id |-> job[j].id,
         attemptCount |-> delivery[job[j].id].attemptCount + 1] \in JobType
    BY <1>1, JobShapes DEF JobLookup, JobType, Row
  <2> QED  BY <1>0, <1>1, <2>1 DEF JobLookup
<1>2. CASE JobPost(j)
  <2>1. PICK outcome \in PlaceholderAnswers :
          job' = [job EXCEPT ![j] = [at |-> "update", id |-> job[j].id,
                    attemptCount |-> job[j].attemptCount, outcome |-> outcome]]
    BY <1>2 DEF JobPost
  <2>2. [at |-> "update", id |-> job[j].id, attemptCount |-> job[j].attemptCount,
         outcome |-> outcome] \in JobType
    BY <1>2, JobShapes, PlaceholderAssumption DEF JobPost, JobType
  <2> QED  BY <1>2, <2>1, <2>2 DEF JobPost
<1>3. CASE JobUpdate(j)
  BY <1>0, <1>3, JobRowType, JobShapes DEF JobUpdate
<1>4. CASE JobUpdateFails(j)
  <2>1. [job[j] EXCEPT !.outcome = "error"] \in JobType
    <3>1. job[j] \in [at : {"update"}, id : Id, attemptCount : Nat, outcome : Outcome]
      BY <1>4 DEF JobUpdateFails, JobType, NoJob
    <3> QED  BY <3>1 DEF JobType, Outcome
  <2>2. faults' \in 0..MaxFaults  BY <1>4, NatAssumption DEF JobUpdateFails
  <2>3. delivery' \in [Id -> Row]
    BY <1>4, JobRowType, JobShapes DEF JobUpdateFails
  <2> QED  BY <1>0, <1>4, <2>1, <2>2, <2>3 DEF JobUpdateFails
<1> QED  BY <1>1, <1>2, <1>3, <1>4 DEF JobStep

\* Failed queries, crashes and idling keep the types.
LEMMA TypeFault ==
  ASSUME TypeOK, QueryFails \/ Crash \/ Quiescent \/ UNCHANGED vars
  PROVE  TypeOK'
<1> USE DEF TypeOK
<1>0. NoJob \in JobType  BY DEF JobType
<1>1. CASE QueryFails
  <2>1. faults' \in 0..MaxFaults  BY <1>1, NatAssumption DEF QueryFails
  <2>2. NewRow \in Row  BY NewRowType
  <2>3. \A w \in Workers : \A item \in worker[w] : DeadRow(item) \in Row
    BY DEF DeadRow, Row, Status, Item
  <2>4. delivery' \in [Id -> Row]
    <3>1. \/ UNCHANGED delivery
          \/ \E e \in Events : \E h \in todo[e] :
                delivery' = [delivery EXCEPT ![<<e, h>>] = NewRow]
          \/ \E w \in Workers : \E item \in worker[w] :
                delivery' = [delivery EXCEPT ![item.id] = DeadRow(item)]
      BY <1>1 DEF QueryFails
    <3>2. ASSUME NEW d, NEW new \in Row, delivery' = [delivery EXCEPT ![d] = new]
          PROVE  delivery' \in [Id -> Row]
      BY <3>2
    <3>3. CASE UNCHANGED delivery  BY <3>3
    <3>4. ASSUME NEW e \in Events, NEW h \in todo[e],
                 delivery' = [delivery EXCEPT ![<<e, h>>] = NewRow]
          PROVE  delivery' \in [Id -> Row]
      BY <2>2, <3>2, <3>4
    <3>5. ASSUME NEW w \in Workers, NEW item \in worker[w],
                 delivery' = [delivery EXCEPT ![item.id] = DeadRow(item)]
          PROVE  delivery' \in [Id -> Row]
      <4>1. DeadRow(item) \in Row  BY <2>3
      <4> QED  BY <3>2, <3>5, <4>1
    <3> QED  BY <3>1, <3>3, <3>4, <3>5
  <2>5. job' \in [Jobs -> JobType]  BY <1>0, <1>1 DEF QueryFails
  <2>6. todo' \in [Events -> SUBSET Hooks]
        /\ dispatch' \in [Events -> {"none", "find", "create", "done"}]
        /\ worker' \in [Workers -> SUBSET Item]
    BY <1>1 DEF QueryFails
  <2> QED  BY <1>1, <2>1, <2>4, <2>5, <2>6 DEF QueryFails
<1>2. CASE Crash
  <2>1. faults' \in 0..MaxFaults  BY <1>2, NatAssumption DEF Crash
  <2> QED  BY <1>0, <1>2, <2>1 DEF Crash
<1>3. CASE Quiescent \/ UNCHANGED vars  BY <1>3 DEF Quiescent, vars
<1> QED  BY <1>1, <1>2, <1>3

\* Every step keeps the types.
LEMMA TypeStep == TypeOK /\ [Next]_vars => TypeOK'
BY TypeDispatch, TypeFirst, TypeWorker, TypeJob, TypeFault DEF Next

\* Every reachable state of the sender is well typed.
THEOREM WebhookTypes == Spec => []TypeOK
BY TypeInit, TypeStep, PTL DEF Spec

-------------------------------------------------------------------------------
(* Attempts *)

\* What an attempt numbered one writes keeps AttemptInv.
LEMMA AttemptedOnce ==
  ASSUME NEW outcome \in Outcome, NEW isDead \in BOOLEAN, isDead => maxRetries < 2
  PROVE  LET new == Attempted(outcome, 1, isDead) IN
         /\ new.attemptCount = 1
         /\ new.status # "PENDING"
         /\ new.status = "DEAD" => maxRetries < 2
BY DEF Attempted

\* The same for what a job writes back.
LEMMA JobOnce ==
  ASSUME TypeOK, AttemptInv, NEW j \in Jobs, job[j].at = "update"
  PROVE  /\ JobRow(j).attemptCount = 1
         /\ JobRow(j).status # "PENDING"
         /\ JobRow(j).status = "DEAD" => maxRetries < 2
<1> DEFINE isDead == ~shouldRetryWebhook(job[j].attemptCount, "FAILED")
<1>1. job[j].attemptCount = 1  BY DEF AttemptInv
<1>2. isDead \in BOOLEAN /\ (isDead => maxRetries < 2)
  BY <1>1, NatAssumption DEF TypeOK, shouldRetryWebhook
<1>3. JobRow(j) = Attempted(job[j].outcome, 1, isDead)  BY <1>1 DEF JobRow
<1>4. job[j].outcome \in Outcome  BY JobShapes
<1> HIDE DEF isDead
<1> QED  BY <1>2, <1>3, <1>4, AttemptedOnce

\* Every step keeps AttemptInv.
LEMMA AttemptStep == TypeOK /\ AttemptInv /\ [Next]_vars => AttemptInv'
<1> SUFFICES ASSUME TypeOK, AttemptInv, [Next]_vars  PROVE AttemptInv'
  OBVIOUS
<1> USE DEF TypeOK, AttemptInv
<1>1. ASSUME NEW h \in Hooks, Register(h)  PROVE AttemptInv'
  BY <1>1 DEF Register, register
<1>2. ASSUME NEW e \in Events, Call(e) \/ FindHooks(e) \/ DispatchDone(e)
      PROVE AttemptInv'
  BY <1>2 DEF Call, FindHooks, DispatchDone
<1>3. ASSUME NEW e \in Events, NEW h \in Hooks, CreateDelivery(e, h)
      PROVE AttemptInv'
  BY <1>3 DEF CreateDelivery, NewRow
<1>4. ASSUME NEW d \in Id, FirstPost(d)  PROVE AttemptInv'
  BY <1>4 DEF FirstPost
<1>5. ASSUME NEW d \in Id, FirstUpdate(d)  PROVE AttemptInv'
  <2>1. first[d] \in Outcome  BY <1>5 DEF FirstUpdate
  <2> QED  BY <1>5, <2>1, AttemptedOnce DEF FirstUpdate
<1>6. ASSUME NEW d \in Id, FirstUpdateFails(d)  PROVE AttemptInv'
  <2>1. first[d] \in Outcome  BY <1>6 DEF FirstUpdateFails
  <2> QED  BY <1>6, <2>1, AttemptedOnce DEF FirstUpdateFails
<1>7. ASSUME NEW d \in Id, BecomeDue(d)  PROVE AttemptInv'
  BY <1>7 DEF BecomeDue, Row
<1>8. ASSUME NEW w \in Workers, WorkerRead(w)  PROVE AttemptInv'
  BY <1>8, BatchPending DEF WorkerRead
<1>9. ASSUME NEW w \in Workers, NEW item \in worker[w], WorkerDead(w, item)
      PROVE AttemptInv'
  <2>1. item.attemptCount = 0  OBVIOUS
  <2>2. maxRetries < 2
    BY <1>9, <2>1, NatAssumption DEF WorkerDead, shouldRetryWebhook
  <2> QED  BY <1>9, <2>1, <2>2 DEF WorkerDead, DeadRow
<1>10. ASSUME NEW w \in Workers, NEW item \in worker[w], NEW j \in Jobs,
              WorkerFire(w, item, j)
       PROVE AttemptInv'
  BY <1>10 DEF WorkerFire
<1>11. ASSUME NEW j \in Jobs, JobLookup(j)  PROVE AttemptInv'
  BY <1>11, BatchPending DEF JobLookup, NoJob
<1>12. ASSUME NEW j \in Jobs, JobPost(j)  PROVE AttemptInv'
  BY <1>12 DEF JobPost
<1>13. ASSUME NEW j \in Jobs, JobUpdate(j)  PROVE AttemptInv'
  BY <1>13, JobOnce DEF JobUpdate, NoJob
<1>14. ASSUME NEW j \in Jobs, JobUpdateFails(j)  PROVE AttemptInv'
  <2>1. job[j].at = "update" /\ job[j].attemptCount = 1
    BY <1>14 DEF JobUpdateFails
  <2>2. \A i \in Jobs : job'[i].at \in {"post", "update"} => job'[i].attemptCount = 1
    <3>1. job[j] \in [at : {"update"}, id : Id, attemptCount : Nat, outcome : Outcome]
      BY <2>1 DEF JobType, NoJob
    <3> QED  BY <1>14, <2>1, <3>1 DEF JobUpdateFails, NoJob
  <2> QED  BY <1>14, <2>1, <2>2, JobOnce DEF JobUpdateFails
<1>15. ASSUME QueryFails  PROVE AttemptInv'
  <2>1. \A w \in Workers : \A item \in worker[w] :
          ~shouldRetryWebhook(item.attemptCount, "PENDING")
            => DeadRow(item).attemptCount = 0 /\ DeadRow(item).status = "DEAD"
               /\ maxRetries < 2
    BY NatAssumption DEF shouldRetryWebhook, DeadRow
  <2>2. \/ UNCHANGED delivery
        \/ \E e \in Events : \E h \in todo[e] :
              delivery' = [delivery EXCEPT ![<<e, h>>] = NewRow]
        \/ \E w \in Workers : \E item \in worker[w] :
              /\ ~shouldRetryWebhook(item.attemptCount, "PENDING")
              /\ delivery' = [delivery EXCEPT ![item.id] = DeadRow(item)]
    BY <1>15 DEF QueryFails
  <2>3. \A d \in Id : /\ delivery'[d].attemptCount \in {0, 1}
                      /\ delivery'[d].status = "PENDING" => delivery'[d].attemptCount = 0
                      /\ delivery'[d].status = "DEAD" => maxRetries < 2
    <3> DEFINE Good(new) == /\ new.attemptCount \in {0, 1}
                            /\ new.status = "PENDING" => new.attemptCount = 0
                            /\ new.status = "DEAD" => maxRetries < 2
    <3>1. ASSUME NEW c, NEW new, Good(new), delivery' = [delivery EXCEPT ![c] = new]
          PROVE  \A d \in Id : Good(delivery'[d])
      BY <3>1
    <3>2. CASE UNCHANGED delivery  BY <3>2
    <3>3. ASSUME NEW e \in Events, NEW h \in todo[e],
                 delivery' = [delivery EXCEPT ![<<e, h>>] = NewRow]
          PROVE  \A d \in Id : Good(delivery'[d])
      <4>1. Good(NewRow)  BY DEF NewRow
      <4> HIDE DEF Good
      <4> QED  BY <3>1, <3>3, <4>1
    <3>4. ASSUME NEW w \in Workers, NEW item \in worker[w],
                 ~shouldRetryWebhook(item.attemptCount, "PENDING"),
                 delivery' = [delivery EXCEPT ![item.id] = DeadRow(item)]
          PROVE  \A d \in Id : Good(delivery'[d])
      <4>1. Good(DeadRow(item))  BY <2>1, <3>4
      <4> HIDE DEF Good
      <4> QED  BY <3>1, <3>4, <4>1
    <3> QED  BY <2>2, <3>2, <3>3, <3>4
  <2>4. /\ \A w \in Workers : worker'[w] \subseteq worker[w]
        /\ \A j \in Jobs : job'[j] \in {job[j], NoJob}
        /\ UNCHANGED maxRetries
    BY <1>15 DEF QueryFails
  <2> QED  BY <2>3, <2>4 DEF NoJob
<1>16. ASSUME Crash \/ Quiescent \/ UNCHANGED vars  PROVE AttemptInv'
  BY <1>16 DEF Crash, Quiescent, vars, NoJob
<1> QED
  BY <1>1, <1>2, <1>3, <1>4, <1>5, <1>6, <1>7, <1>8, <1>9, <1>10, <1>11, <1>12,
     <1>13, <1>14, <1>15, <1>16
  DEF Next, DispatchStep, FirstStep, WorkerStep, JobStep

\* With as many hooks, worker runs, jobs, crashes and failed queries as one
\* likes, no delivery is counted as attempted twice, and none is dead-lettered
\* when the limit is two or more: the retry machinery is never exercised.
THEOREM NeverAttemptedTwice == Spec => []NoSecondAttempt
<1>1. Init => AttemptInv  BY DEF Init, AttemptInv, NoRow, NoJob
<1>2. TypeOK /\ AttemptInv => NoSecondAttempt
  BY NatAssumption DEF TypeOK, AttemptInv, NoSecondAttempt
<1> QED  BY WebhookTypes, AttemptStep, <1>1, <1>2, PTL DEF Spec

-------------------------------------------------------------------------------
(* Receipts *)

\* Every step keeps ReceiptInv.
LEMMA ReceiptStep == TypeOK /\ ReceiptInv /\ [Next]_vars => ReceiptInv'
<1> SUFFICES ASSUME TypeOK, ReceiptInv, [Next]_vars  PROVE ReceiptInv'
  OBVIOUS
<1> USE DEF TypeOK, ReceiptInv
<1>0. \A e \in Events, h \in Hooks : <<e, h>> \in Id  BY DEF Id
<1>1. ASSUME NEW h \in Hooks, Register(h)  PROVE ReceiptInv'
  BY <1>1 DEF Register, register
<1>2. ASSUME NEW e \in Events, Call(e) \/ FindHooks(e) \/ DispatchDone(e)
      PROVE ReceiptInv'
  BY <1>2 DEF Call, FindHooks, DispatchDone
<1>3. ASSUME NEW e \in Events, NEW h \in Hooks, CreateDelivery(e, h)
      PROVE ReceiptInv'
  BY <1>0, <1>3 DEF CreateDelivery, Id
<1>4. ASSUME NEW d \in Id, FirstPost(d)  PROVE ReceiptInv'
  BY <1>0, <1>4 DEF FirstPost, Outcome
<1>5. ASSUME NEW d \in Id, FirstUpdate(d)  PROVE ReceiptInv'
  BY <1>0, <1>5 DEF FirstUpdate
<1>6. ASSUME NEW d \in Id, FirstUpdateFails(d)  PROVE ReceiptInv'
  <2>1. UNCHANGED <<dispatch, todo, received>> /\ first[d] # "none"
        /\ \E v \in {"none", "error"} : first' = [first EXCEPT ![d] = v]
    BY <1>6 DEF FirstUpdateFails, Outcome
  <2> QED  BY <1>0, <2>1
<1>7. ASSUME \/ \E d \in Id : BecomeDue(d)
             \/ \E w \in Workers : WorkerStep(w)
             \/ \E j \in Jobs : JobStep(j) \/ JobUpdateFails(j)
             \/ Quiescent \/ UNCHANGED vars
      PROVE ReceiptInv'
  <2>1. UNCHANGED <<dispatch, todo, first, received>>
    BY <1>7 DEF BecomeDue, WorkerStep, WorkerRead, WorkerDead, WorkerFire, JobStep,
                JobLookup, JobPost, JobUpdate, JobUpdateFails, Quiescent, vars
  <2> QED  BY <2>1
<1>8. ASSUME QueryFails  PROVE ReceiptInv'
  <2>1. UNCHANGED <<first, received>>  BY <1>8 DEF QueryFails
  <2>2. \A e \in Events, h \in Hooks :
          dispatch'[e] \in {"none", "find"} \/ h \in todo'[e]
            => dispatch[e] \in {"none", "find"} \/ h \in todo[e]
    BY <1>8 DEF QueryFails
  <2> QED  BY <2>1, <2>2
<1>9. ASSUME Crash  PROVE ReceiptInv'
  BY <1>0, <1>9 DEF Crash
<1> QED
  BY <1>1, <1>2, <1>3, <1>4, <1>5, <1>6, <1>7, <1>8, <1>9
  DEF Next, DispatchStep, FirstStep

\* The merchant gets an event at most once per hook, whatever crashes, fails or
\* overlaps: only the one first attempt is addressed to it.
THEOREM ReceivedOnce == Spec => []ReceivedAtMostOnce
<1>1. Init => ReceiptInv
  <2> SUFFICES ASSUME Init PROVE ReceiptInv
    OBVIOUS
  <2>1. \A e \in Events, h \in Hooks : <<e, h>> \in Id  BY DEF Id
  <2> QED  BY <2>1 DEF Init, ReceiptInv
<1>2. ReceiptInv => ReceivedAtMostOnce  BY DEF ReceiptInv, ReceivedAtMostOnce
<1> QED  BY WebhookTypes, ReceiptStep, <1>1, <1>2, PTL DEF Spec

\* A delivery without a first attempt in flight that has not reached the merchant
\* never will: no worker run and no job adds to what the merchant receives.
THEOREM WorkerCannotDeliver == Spec => LostForGood
<1>1. ASSUME TypeOK, [Next]_vars,
             NEW d \in Id, first[d] = "none", received[d] = 0
      PROVE  received'[d] = 0
  <2> USE DEF TypeOK
  <2>1. ASSUME NEW c \in Id, FirstPost(c)  PROVE received'[d] = 0
    BY <1>1, <2>1 DEF FirstPost
  <2>2. CASE UNCHANGED received  BY <1>1, <2>2
  <2> QED
    BY <1>1, <2>1, <2>2
    DEF Next, Register, register, Call, DispatchStep, FindHooks, CreateDelivery, DispatchDone,
        FirstStep, FirstUpdate, FirstUpdateFails, BecomeDue, WorkerStep, WorkerRead,
        WorkerDead, WorkerFire, JobStep, JobLookup, JobPost, JobUpdate,
        JobUpdateFails, QueryFails, Crash, Quiescent, vars
<1>2. TypeOK /\ [Next]_vars =>
        [\A d \in Id : delivery[d].status # "NONE" /\ first[d] = "none"
                         /\ received[d] = 0 => received'[d] = 0]_vars
  BY <1>1
<1> QED  BY WebhookTypes, <1>2, PTL DEF Spec, LostForGood

\* Every step keeps AnswerInv, provided the placeholder host never answers 2xx.
LEMMA AnswerStep ==
  ASSUME "2xx" \notin PlaceholderAnswers
  PROVE  TypeOK /\ AnswerInv /\ [Next]_vars => AnswerInv'
<1> SUFFICES ASSUME TypeOK, AnswerInv, [Next]_vars  PROVE AnswerInv'
  OBVIOUS
<1> USE DEF TypeOK, AnswerInv
<1>1. ASSUME \/ \E h \in Hooks : Register(h)
             \/ \E e \in Events : Call(e) \/ FindHooks(e) \/ DispatchDone(e)
             \/ \E w \in Workers : WorkerRead(w)
             \/ Quiescent \/ UNCHANGED vars
      PROVE AnswerInv'
  <2>1. UNCHANGED <<delivery, first, job, received>>
    BY <1>1 DEF Register, register, Call, FindHooks, DispatchDone, WorkerRead, Quiescent, vars
  <2> QED  BY <2>1
<1>2. ASSUME NEW e \in Events, NEW h \in Hooks, CreateDelivery(e, h)
      PROVE AnswerInv'
  BY <1>2 DEF CreateDelivery, NewRow
<1>3. ASSUME NEW d \in Id, FirstPost(d)  PROVE AnswerInv'
  BY <1>3 DEF FirstPost, Outcome
<1>4. ASSUME NEW d \in Id, FirstUpdate(d)  PROVE AnswerInv'
  BY <1>4 DEF FirstUpdate, Attempted
<1>5. ASSUME NEW d \in Id, FirstUpdateFails(d)  PROVE AnswerInv'
  BY <1>5 DEF FirstUpdateFails, Attempted
<1>6. ASSUME NEW d \in Id, BecomeDue(d)  PROVE AnswerInv'
  BY <1>6 DEF BecomeDue, Row
<1>7. ASSUME NEW w \in Workers, NEW item \in worker[w], WorkerDead(w, item)
      PROVE AnswerInv'
  BY <1>7 DEF WorkerDead, DeadRow
<1>8. ASSUME NEW w \in Workers, NEW item \in worker[w], NEW j \in Jobs,
             WorkerFire(w, item, j)
      PROVE AnswerInv'
  BY <1>8 DEF WorkerFire
<1>9. ASSUME NEW j \in Jobs, JobLookup(j)  PROVE AnswerInv'
  BY <1>9 DEF JobLookup, NoJob
<1>10. ASSUME NEW j \in Jobs, JobPost(j)  PROVE AnswerInv'
  BY <1>10 DEF JobPost
<1>11. ASSUME NEW j \in Jobs, JobUpdate(j)  PROVE AnswerInv'
  <2>1. JobRow(j).status # "SUCCESS"  BY <1>11 DEF JobUpdate, JobRow, Attempted
  <2> QED  BY <1>11, <2>1 DEF JobUpdate, NoJob
<1>12. ASSUME NEW j \in Jobs, JobUpdateFails(j)  PROVE AnswerInv'
  <2>1. JobRow(j).status # "SUCCESS"
    BY <1>12 DEF JobUpdateFails, JobRow, Attempted
  <2>2. job[j] \in [at : {"update"}, id : Id, attemptCount : Nat, outcome : Outcome]
    BY <1>12 DEF JobUpdateFails, JobType, NoJob
  <2>3. \A i \in Jobs : job'[i].at = "update" => job'[i].outcome # "2xx"
    BY <1>12, <2>2 DEF JobUpdateFails, NoJob
  <2> QED  BY <1>12, <2>1, <2>3 DEF JobUpdateFails
<1>13. ASSUME QueryFails  PROVE AnswerInv'
  <2>1. UNCHANGED <<first, received>>  BY <1>13 DEF QueryFails
  <2>2. \A j \in Jobs : job'[j] \in {job[j], NoJob}  BY <1>13 DEF QueryFails
  <2>3. \A d \in Id : delivery'[d].status = "SUCCESS" => delivery[d].status = "SUCCESS"
    <3>1. ASSUME NEW c, NEW new, new.status # "SUCCESS",
                 delivery' = [delivery EXCEPT ![c] = new], NEW d \in Id,
                 delivery'[d].status = "SUCCESS"
          PROVE  delivery[d].status = "SUCCESS"
      BY <3>1
    <3>2. NewRow.status # "SUCCESS"  BY DEF NewRow
    <3>3. \A item : DeadRow(item).status # "SUCCESS"  BY DEF DeadRow
    <3>4. \/ UNCHANGED delivery
          \/ \E e \in Events : \E h \in todo[e] :
                delivery' = [delivery EXCEPT ![<<e, h>>] = NewRow]
          \/ \E w \in Workers : \E item \in worker[w] :
                delivery' = [delivery EXCEPT ![item.id] = DeadRow(item)]
      BY <1>13 DEF QueryFails
    <3> QED  BY <3>1, <3>2, <3>3, <3>4
  <2> QED  BY <2>1, <2>2, <2>3 DEF NoJob
<1>14. ASSUME Crash  PROVE AnswerInv'
  BY <1>14 DEF Crash, NoJob
<1> QED
  BY <1>1, <1>2, <1>3, <1>4, <1>5, <1>6, <1>7, <1>8, <1>9, <1>10, <1>11, <1>12,
     <1>13, <1>14
  DEF Next, DispatchStep, FirstStep, WorkerStep, JobStep

\* A row says SUCCESS only of an event the merchant has received, as long as the
\* host the worker posts to instead of the merchant's never answers with a 2xx.
THEOREM SuccessIsReal ==
  ASSUME "2xx" \notin PlaceholderAnswers
  PROVE  Spec => []SuccessWasReceived
<1>1. Init => AnswerInv  BY DEF Init, AnswerInv, NoRow, NoJob
<1>2. AnswerInv => SuccessWasReceived  BY DEF AnswerInv, SuccessWasReceived
<1> QED  BY WebhookTypes, AnswerStep, <1>1, <1>2, PTL DEF Spec

-------------------------------------------------------------------------------
(* The queue of the retry worker *)

\* The deliveries that have a row.
Rows == {d \in Id : delivery[d].status # "NONE"}

\* A PENDING row is due, so the worker sees it, and no two of them tie; the row that
\* is inserted next will be behind them all.
OrderInv ==
  /\ \A d \in Id :
        /\ delivery[d].status = "NONE" => delivery[d].nextRetry = "null"
        /\ delivery[d].status = "PENDING" => /\ delivery[d].nextRetry = "due"
                                             /\ delivery[d].rank < Cardinality(Rows)
  /\ \A c, d \in Id :
        /\ delivery[c].status = "PENDING" /\ delivery[d].status = "PENDING"
        /\ delivery[c].rank = delivery[d].rank
        => c = d

\* Whoever works on a delivery works on one that has a row, and a delivery that is
\* still to be inserted has none.
HolderInv ==
  /\ \A d \in Id : first[d] # "none" => d \in Rows
  /\ \A w \in Workers : \A item \in worker[w] : item.id \in Rows
  /\ \A j \in Jobs : job[j].at # "idle" => job[j].id \in Rows
  /\ \A e \in Events : todo[e] # {} => dispatch[e] = "create"
  /\ \A e \in Events, h \in Hooks :
        dispatch[e] \in {"none", "find"} \/ h \in todo[e] => <<e, h>> \notin Rows

\* What a step does to the table: nothing, an insert at the end of the queue, or an
\* update that leaves its row out of the queue.
RowStep ==
  \/ UNCHANGED delivery
  \/ \E d \in Id \ Rows : delivery' = [delivery EXCEPT ![d] = NewRow]
  \/ \E d \in Rows : \E new \in Row :
        /\ new.status \notin {"NONE", "PENDING"}
        /\ delivery' = [delivery EXCEPT ![d] = new]

\* No attempt puts its row back into the queue.
LEMMA AttemptedLeaves ==
  ASSUME NEW outcome \in Outcome, NEW count \in Nat, NEW isDead \in BOOLEAN
  PROVE  Attempted(outcome, count, isDead).status \notin {"NONE", "PENDING"}
BY DEF Attempted

LEMMA JobLeaves ==
  ASSUME TypeOK, NEW j \in Jobs, job[j].at = "update"
  PROVE  JobRow(j).status \notin {"NONE", "PENDING"}
<1>1. shouldRetryWebhook(job[j].attemptCount, "FAILED") \in BOOLEAN
  BY DEF shouldRetryWebhook
<1> QED  BY <1>1, JobShapes, AttemptedLeaves DEF JobRow

LEMMA RowStepHolds == TypeOK /\ OrderInv /\ HolderInv /\ [Next]_vars => RowStep
<1> SUFFICES ASSUME TypeOK, OrderInv, HolderInv, [Next]_vars  PROVE RowStep
  OBVIOUS
<1> USE DEF RowStep
<1>1. \A e \in Events, h \in Hooks : h \in todo[e] => <<e, h>> \in Id \ Rows
  BY DEF HolderInv, Id
<1>2. \A w \in Workers : \A item \in worker[w] :
        item.id \in Rows /\ DeadRow(item) \in Row /\ DeadRow(item).status = "DEAD"
  BY DEF HolderInv, TypeOK, DeadRow, Row, Status, Item
<1>3. CASE UNCHANGED delivery  BY <1>3
<1>4. ASSUME NEW e \in Events, NEW h \in Hooks, CreateDelivery(e, h)  PROVE RowStep
  BY <1>1, <1>4 DEF CreateDelivery
<1>5. ASSUME NEW d \in Id, FirstUpdate(d) \/ FirstUpdateFails(d)  PROVE RowStep
  <2>1. first[d] \in Outcome /\ first[d] # "none"
    BY <1>5 DEF FirstUpdate, FirstUpdateFails, Outcome
  <2>2. Attempted(first[d], 1, FALSE) \in Row  BY <2>1, AttemptedRow
  <2>3. Attempted(first[d], 1, FALSE).status \notin {"NONE", "PENDING"}
    BY <2>1, AttemptedLeaves
  <2>4. d \in Rows  BY <2>1 DEF HolderInv
  <2> QED  BY <1>5, <2>2, <2>3, <2>4 DEF FirstUpdate, FirstUpdateFails
<1>6. ASSUME NEW d \in Id, BecomeDue(d)  PROVE RowStep
  <2> DEFINE new == [delivery[d] EXCEPT !.nextRetry = "due"]
  <2>1. delivery[d] \in Row /\ delivery[d].nextRetry = "later"
    BY <1>6 DEF BecomeDue, TypeOK
  <2>2. delivery[d].status \notin {"NONE", "PENDING"}  BY <2>1 DEF OrderInv
  <2>3. new \in Row /\ new.status = delivery[d].status  BY <2>1 DEF Row
  <2>4. delivery' = [delivery EXCEPT ![d] = new]  BY <1>6 DEF BecomeDue
  <2>5. d \in Rows  BY <2>2 DEF Rows
  <2> HIDE DEF new
  <2> QED  BY <2>2, <2>3, <2>4, <2>5
<1>7. ASSUME NEW w \in Workers, NEW item \in worker[w], WorkerDead(w, item)
      PROVE  RowStep
  BY <1>2, <1>7 DEF WorkerDead
<1>8. ASSUME NEW j \in Jobs, JobUpdate(j) \/ JobUpdateFails(j)  PROVE RowStep
  <2>1. job[j].at = "update"  BY <1>8 DEF JobUpdate, JobUpdateFails
  <2>2. JobRow(j) \in Row /\ JobRow(j).status \notin {"NONE", "PENDING"}
    BY <2>1, JobRowType, JobLeaves
  <2>3. job[j].id \in Rows  BY <2>1 DEF HolderInv
  <2> QED  BY <1>8, <2>2, <2>3 DEF JobUpdate, JobUpdateFails
<1>9. CASE QueryFails
  <2>1. \/ UNCHANGED delivery
        \/ \E e \in Events : \E h \in todo[e] :
              delivery' = [delivery EXCEPT ![<<e, h>>] = NewRow]
        \/ \E w \in Workers : \E item \in worker[w] :
              delivery' = [delivery EXCEPT ![item.id] = DeadRow(item)]
    BY <1>9 DEF QueryFails
  <2>2. \A e \in Events : todo[e] \subseteq Hooks  BY DEF TypeOK
  <2> QED  BY <1>1, <1>2, <2>1, <2>2
<1> QED
  BY <1>3, <1>4, <1>5, <1>6, <1>7, <1>8, <1>9
  DEF Next, Register, Call, DispatchStep, FindHooks, DispatchDone, FirstStep, FirstPost,
      WorkerStep, WorkerRead, WorkerFire, JobStep, JobLookup, JobPost, Crash, Quiescent, vars

\* The table grows, if at all, by the row that is inserted.
LEMMA RowsGrow ==
  ASSUME TypeOK, RowStep
  PROVE  \/ Rows' = Rows /\ \A d \in Id : delivery'[d].status = "PENDING" => delivery'[d] = delivery[d]
         \/ \E d \in Id \ Rows : /\ Rows' = Rows \cup {d}
                                 /\ Cardinality(Rows') = Cardinality(Rows) + 1
                                 /\ delivery'[d] = NewRow
                                 /\ \A c \in Id \ {d} : delivery'[c] = delivery[c]
<1>1. IsFiniteSet(Rows)
  BY FiniteAssumption, FS_Product, FS_Subset DEF Id, Rows
<1>2. CASE UNCHANGED delivery  BY <1>2 DEF Rows
<1>3. ASSUME NEW d \in Id \ Rows, delivery' = [delivery EXCEPT ![d] = NewRow]
      PROVE  /\ Rows' = Rows \cup {d}
             /\ Cardinality(Rows') = Cardinality(Rows) + 1
             /\ delivery'[d] = NewRow
             /\ \A c \in Id \ {d} : delivery'[c] = delivery[c]
  <2>1. delivery'[d] = NewRow /\ \A c \in Id \ {d} : delivery'[c] = delivery[c]
    BY <1>3 DEF TypeOK
  <2>2. NewRow.status = "PENDING"  BY DEF NewRow
  <2>3. Rows' = Rows \cup {d}  BY <2>1, <2>2 DEF Rows
  <2> QED  BY <1>1, <2>1, <2>3, FS_AddElement
<1>4. ASSUME NEW d \in Rows, NEW new \in Row, new.status \notin {"NONE", "PENDING"},
             delivery' = [delivery EXCEPT ![d] = new]
      PROVE  Rows' = Rows /\ \A c \in Id : delivery'[c].status = "PENDING" => delivery'[c] = delivery[c]
  BY <1>4 DEF Rows, TypeOK
<1> QED  BY <1>2, <1>3, <1>4 DEF RowStep

\* The order survives every step.
LEMMA OrderStep ==
  ASSUME TypeOK, TypeOK', OrderInv, RowStep
  PROVE  OrderInv'
<1>1. Cardinality(Rows) \in Nat
  BY FiniteAssumption, FS_Product, FS_Subset, FS_CardinalityType DEF Id, Rows
<1>2. \A d \in Id : delivery'[d].status = "NONE" => delivery'[d].nextRetry = "null"
  <2>1. NewRow.status = "PENDING"  BY DEF NewRow
  <2>2. ASSUME NEW d \in Id, delivery'[d].status = "NONE"  PROVE delivery'[d] = delivery[d]
    BY <2>1, <2>2 DEF RowStep, TypeOK
  <2> QED  BY <2>2 DEF OrderInv
<1>3. CASE Rows' = Rows /\ \A d \in Id : delivery'[d].status = "PENDING" => delivery'[d] = delivery[d]
  BY <1>2, <1>3 DEF OrderInv
<1>4. ASSUME NEW d \in Id \ Rows, Cardinality(Rows') = Cardinality(Rows) + 1,
             delivery'[d] = NewRow, \A c \in Id \ {d} : delivery'[c] = delivery[c]
      PROVE  OrderInv'
  <2>1. NewRow.nextRetry = "due" /\ NewRow.rank = Cardinality(Rows)  BY DEF NewRow, Rows
  <2>2. \A c \in Id : delivery[c].rank \in Nat  BY DEF TypeOK, Row
  <2>3. ASSUME NEW c \in Id, delivery'[c].status = "PENDING"
        PROVE  /\ delivery'[c].nextRetry = "due"
               /\ delivery'[c].rank < Cardinality(Rows')
               /\ c # d => delivery'[c].rank < Cardinality(Rows) /\ delivery[c].status = "PENDING"
    BY <1>1, <1>4, <2>1, <2>2, <2>3 DEF OrderInv
  <2>4. ASSUME NEW b \in Id, NEW c \in Id, delivery'[b].status = "PENDING",
               delivery'[c].status = "PENDING", delivery'[b].rank = delivery'[c].rank
        PROVE  b = c
    <3>1. CASE b # d /\ c # d  BY <1>4, <2>3, <2>4, <3>1 DEF OrderInv
    <3>2. CASE b = d /\ c # d  BY <1>1, <1>4, <2>1, <2>2, <2>3, <2>4, <3>2
    <3>3. CASE b # d /\ c = d  BY <1>1, <1>4, <2>1, <2>2, <2>3, <2>4, <3>3
    <3> QED  BY <3>1, <3>2, <3>3
  <2> QED  BY <1>2, <2>3, <2>4 DEF OrderInv
<1> QED  BY <1>3, <1>4, RowsGrow

\* Whoever starts to work on a delivery finds its row.
LEMMA HolderStep ==
  TypeOK /\ OrderInv /\ HolderInv /\ [Next]_vars => HolderInv'
<1> SUFFICES ASSUME TypeOK, OrderInv, HolderInv, [Next]_vars  PROVE HolderInv'
  OBVIOUS
<1>1. Rows \subseteq Rows'  BY RowStepHolds, RowsGrow
<1>2. ASSUME Rows' = Rows, UNCHANGED <<dispatch, todo, first, worker, job>>
      PROVE  HolderInv'
  BY <1>2 DEF HolderInv
<1>3. ASSUME UNCHANGED <<dispatch, todo>>, Rows' = Rows,
             \A d \in Id : first'[d] # "none" => d \in Rows,
             \A w \in Workers : \A item \in worker'[w] : item.id \in Rows,
             \A j \in Jobs : job'[j].at # "idle" => job'[j].id \in Rows
      PROVE  HolderInv'
  BY <1>3 DEF HolderInv
<1>4. ASSUME NEW h \in Hooks, Register(h)  PROVE HolderInv'
  BY <1>2, <1>4 DEF Register, Rows
<1>5. ASSUME NEW e \in Events, Call(e) \/ FindHooks(e) \/ DispatchDone(e)
      PROVE  HolderInv'
  <2>1. UNCHANGED <<delivery, first, worker, job>>
    BY <1>5 DEF Call, FindHooks, DispatchDone
  <2>2. Rows' = Rows  BY <2>1 DEF Rows
  <2>3. \A c \in Events : todo'[c] # {} => dispatch'[c] = "create"
    BY <1>5 DEF Call, FindHooks, DispatchDone, HolderInv, TypeOK
  <2>4. \A c \in Events, h \in Hooks :
          dispatch'[c] \in {"none", "find"} \/ h \in todo'[c]
            => dispatch[c] \in {"none", "find"} \/ h \in todo[c]
    BY <1>5 DEF Call, FindHooks, DispatchDone, TypeOK
  <2> QED  BY <2>1, <2>2, <2>3, <2>4 DEF HolderInv
<1>6. ASSUME NEW e \in Events, NEW h \in Hooks, CreateDelivery(e, h)  PROVE HolderInv'
  <2>1. /\ dispatch[e] = "create" /\ h \in todo[e] /\ UNCHANGED <<dispatch, worker, job>>
        /\ todo' = [todo EXCEPT ![e] = @ \ {h}]
        /\ delivery' = [delivery EXCEPT ![<<e, h>>] = NewRow]
        /\ first' = [first EXCEPT ![<<e, h>>] = "post"]
    BY <1>6 DEF CreateDelivery
  <2>2. <<e, h>> \in Id /\ NewRow.status = "PENDING"  BY DEF Id, NewRow
  <2>3. Rows' = Rows \cup {<<e, h>>}  BY <2>1, <2>2 DEF Rows, TypeOK
  <2>4. \A d \in Id : first'[d] # "none" => d \in Rows'
    BY <2>1, <2>3 DEF HolderInv, TypeOK
  <2>5. \A c \in Events : todo'[c] # {} => dispatch'[c] = "create"
    BY <2>1 DEF HolderInv, TypeOK
  <2>6. ASSUME NEW c \in Events, NEW k \in Hooks,
               dispatch'[c] \in {"none", "find"} \/ k \in todo'[c]
        PROVE  <<c, k>> \notin Rows'
    <3>1. dispatch[c] \in {"none", "find"} \/ k \in todo[c]  BY <2>1, <2>6 DEF TypeOK
    <3>2. <<c, k>> \notin Rows  BY <3>1 DEF HolderInv
    <3>3. <<c, k>> # <<e, h>>  BY <2>1, <2>6 DEF TypeOK
    <3> QED  BY <2>3, <3>2, <3>3
  <2> QED  BY <1>1, <2>1, <2>4, <2>5, <2>6 DEF HolderInv
<1>7. ASSUME NEW d \in Id, FirstStep(d) \/ FirstUpdateFails(d) \/ BecomeDue(d)
      PROVE  HolderInv'
  <2>1. UNCHANGED <<dispatch, todo, worker, job>>
    BY <1>7 DEF FirstStep, FirstPost, FirstUpdate, FirstUpdateFails, BecomeDue
  <2>2. \A c \in Id : first'[c] # "none" => first[c] # "none"
    BY <1>7 DEF FirstStep, FirstPost, FirstUpdate, FirstUpdateFails, BecomeDue, TypeOK, Outcome
  <2>3. \/ UNCHANGED delivery
        \/ first[d] \in Outcome /\ delivery' = [delivery EXCEPT ![d] = Attempted(first[d], 1, FALSE)]
        \/ delivery' = [delivery EXCEPT ![d].nextRetry = "due"]
    BY <1>7 DEF FirstStep, FirstPost, FirstUpdate, FirstUpdateFails, BecomeDue
  <2>4. \A c \in Rows' : c \in Rows
    <3>1. CASE first[d] \in Outcome
      <4>1. d \in Rows  BY <3>1 DEF HolderInv, Outcome
      <4>2. \A c \in Id \ {d} : delivery'[c] = delivery[c]  BY <2>3 DEF TypeOK
      <4> QED  BY <4>1, <4>2 DEF Rows
    <3>2. CASE first[d] \notin Outcome
      <4>1. UNCHANGED delivery \/ delivery' = [delivery EXCEPT ![d].nextRetry = "due"]
        BY <2>3, <3>2
      <4>2. \A c \in Id : delivery'[c].status = delivery[c].status
        BY <4>1 DEF TypeOK, Row
      <4> QED  BY <4>2 DEF Rows
    <3> QED  BY <3>1, <3>2
  <2>5. Rows' = Rows  BY <1>1, <2>4
  <2> QED  BY <1>3, <2>1, <2>2, <2>5 DEF HolderInv
<1>8. ASSUME NEW w \in Workers, WorkerStep(w)  PROVE HolderInv'
  <2>1. CASE WorkerRead(w)
    <3>1. UNCHANGED <<dispatch, todo, first, job, delivery>>  BY <2>1 DEF WorkerRead
    <3>2. Rows' = Rows  BY <3>1 DEF Rows
    <3>3. \A d \in Batch : d \in Rows  BY BatchPending DEF Rows
    <3>4. \A v \in Workers : \A item \in worker'[v] : item.id \in Rows
      BY <2>1, <3>3 DEF WorkerRead, HolderInv, TypeOK
    <3> QED  BY <1>3, <3>1, <3>2, <3>4 DEF HolderInv
  <2>2. ASSUME NEW item \in worker[w], WorkerDead(w, item)  PROVE HolderInv'
    <3>1. UNCHANGED <<dispatch, todo, first, job>> /\ worker' = [worker EXCEPT ![w] = @ \ {item}]
          /\ delivery' = [delivery EXCEPT ![item.id] = DeadRow(item)]
      BY <2>2 DEF WorkerDead
    <3>2. item.id \in Rows  BY DEF HolderInv
    <3>3. Rows' \subseteq Rows  BY <3>1, <3>2 DEF Rows, TypeOK
    <3>4. Rows' = Rows  BY <1>1, <3>3
    <3>5. \A v \in Workers : \A i \in worker'[v] : i.id \in Rows
      BY <3>1 DEF HolderInv, TypeOK
    <3> QED  BY <1>3, <3>1, <3>4, <3>5 DEF HolderInv
  <2>3. ASSUME NEW item \in worker[w], NEW j \in Jobs, WorkerFire(w, item, j)  PROVE HolderInv'
    <3>1. /\ UNCHANGED <<dispatch, todo, first, delivery>>
          /\ worker' = [worker EXCEPT ![w] = @ \ {item}]
          /\ job' = [job EXCEPT ![j] = [at |-> "lookup", id |-> item.id]]
      BY <2>3 DEF WorkerFire
    <3>2. Rows' = Rows  BY <3>1 DEF Rows
    <3>3. \A i \in Jobs : job'[i].at # "idle" => job'[i].id \in Rows
      BY <3>1 DEF HolderInv, TypeOK
    <3>4. \A v \in Workers : \A i \in worker'[v] : i.id \in Rows
      BY <3>1 DEF HolderInv, TypeOK
    <3> QED  BY <1>3, <3>1, <3>2, <3>3, <3>4 DEF HolderInv
  <2> QED  BY <1>8, <2>1, <2>2, <2>3 DEF WorkerStep
<1>9. ASSUME NEW j \in Jobs, JobStep(j) \/ JobUpdateFails(j)  PROVE HolderInv'
  <2>1. UNCHANGED <<dispatch, todo, first, worker>>
    BY <1>9 DEF JobStep, JobLookup, JobPost, JobUpdate, JobUpdateFails
  <2>2. job[j].at # "idle"
    BY <1>9 DEF JobStep, JobLookup, JobPost, JobUpdate, JobUpdateFails
  <2>3. job[j].id \in Rows  BY <2>2 DEF HolderInv
  <2>4. /\ \A i \in Jobs \ {j} : job'[i] = job[i]
        /\ job'[j].at # "idle" => job'[j].id = job[j].id
    <3>1. CASE JobLookup(j)  BY <3>1 DEF JobLookup, TypeOK, NoJob
    <3>2. CASE JobPost(j)  BY <3>2 DEF JobPost, TypeOK
    <3>3. CASE JobUpdate(j)  BY <3>3 DEF JobUpdate, TypeOK, NoJob
    <3>4. CASE JobUpdateFails(j)
      <4>1. job[j] \in [at : {"update"}, id : Id, attemptCount : Nat, outcome : Outcome]
        BY <3>4 DEF JobUpdateFails, JobType, NoJob, TypeOK
      <4> QED  BY <3>4, <4>1 DEF JobUpdateFails, TypeOK, NoJob
    <3> QED  BY <1>9, <3>1, <3>2, <3>3, <3>4 DEF JobStep
  <2>5. UNCHANGED delivery \/ delivery' = [delivery EXCEPT ![job[j].id] = JobRow(j)]
    BY <1>9 DEF JobStep, JobLookup, JobPost, JobUpdate, JobUpdateFails
  <2>6. Rows' \subseteq Rows  BY <2>3, <2>5 DEF Rows, TypeOK
  <2>7. Rows' = Rows  BY <1>1, <2>6
  <2> QED  BY <1>3, <2>1, <2>3, <2>4, <2>7 DEF HolderInv
<1>10. CASE QueryFails
  <2>1. UNCHANGED first  BY <1>10 DEF QueryFails
  <2>2. /\ \A w \in Workers : worker'[w] \subseteq worker[w]
        /\ \A j \in Jobs : job'[j] \in {job[j], NoJob}
    BY <1>10 DEF QueryFails, TypeOK
  <2>3. \A c \in Events : todo'[c] # {} => dispatch'[c] = "create"
    BY <1>10 DEF QueryFails, HolderInv, TypeOK
  <2>4. ASSUME NEW c \in Events, NEW k \in Hooks,
               dispatch'[c] \in {"none", "find"} \/ k \in todo'[c]
        PROVE  <<c, k>> \notin Rows'
    <3>1. dispatch[c] \in {"none", "find"} \/ k \in todo[c]
      BY <1>10, <2>4 DEF QueryFails, TypeOK
    <3>2. <<c, k>> \notin Rows  BY <3>1 DEF HolderInv
    <3>3. CASE \E e \in Events : \E h \in todo[e] :
                 /\ todo' = [todo EXCEPT ![e] = @ \ {h}] /\ UNCHANGED dispatch
                 /\ \/ delivery' = [delivery EXCEPT ![<<e, h>>] = NewRow]
                    \/ UNCHANGED delivery
      <4>0. PICK e \in Events : \E h \in todo[e] :
                 /\ todo' = [todo EXCEPT ![e] = @ \ {h}] /\ UNCHANGED dispatch
                 /\ \/ delivery' = [delivery EXCEPT ![<<e, h>>] = NewRow]
                    \/ UNCHANGED delivery
        BY <3>3
      <4>1. PICK h \in todo[e] :
                 /\ todo' = [todo EXCEPT ![e] = @ \ {h}] /\ UNCHANGED dispatch
                 /\ \/ delivery' = [delivery EXCEPT ![<<e, h>>] = NewRow]
                    \/ UNCHANGED delivery
        BY <4>0
      <4>2. dispatch[e] = "create"  BY DEF HolderInv
      <4>3. <<c, k>> # <<e, h>>  BY <2>4, <4>1, <4>2 DEF TypeOK
      <4>4. <<c, k>> \in Id => delivery'[<<c, k>>] = delivery[<<c, k>>]
        BY <4>1, <4>3 DEF TypeOK
      <4> QED  BY <3>2, <4>4 DEF Rows
    <3>4. CASE UNCHANGED delivery \/ \E w \in Workers : \E item \in worker[w] :
                 delivery' = [delivery EXCEPT ![item.id] = DeadRow(item)]
      <4>1. \A w \in Workers : \A item \in worker[w] : item.id \in Rows  BY DEF HolderInv
      <4>2. Rows' \subseteq Rows  BY <3>4, <4>1 DEF Rows, TypeOK
      <4> QED  BY <3>2, <4>2
    <3> QED  BY <1>10, <3>3, <3>4 DEF QueryFails
  <2> QED  BY <1>1, <2>1, <2>2, <2>3, <2>4 DEF HolderInv, NoJob
<1>11. CASE Crash
  <2>1. Rows' = Rows  BY <1>11 DEF Crash, Rows
  <2> QED  BY <1>11, <2>1 DEF Crash, HolderInv, NoJob, TypeOK
<1>12. CASE Quiescent \/ UNCHANGED vars
  BY <1>2, <1>12 DEF Quiescent, vars, Rows
<1> QED
  BY <1>4, <1>5, <1>6, <1>7, <1>8, <1>9, <1>10, <1>11, <1>12 DEF Next, DispatchStep

LEMMA QueueInit == Init => OrderInv /\ HolderInv
<1> SUFFICES ASSUME Init PROVE OrderInv /\ HolderInv
  OBVIOUS
<1>1. \A d \in Id : delivery[d].status = "NONE" /\ delivery[d].nextRetry = "null"
  BY DEF Init, NoRow
<1>2. Rows = {}  BY <1>1 DEF Rows
<1> QED  BY <1>1, <1>2 DEF Init, OrderInv, HolderInv, NoJob

LEMMA QueueAlways == Spec => [](TypeOK /\ OrderInv /\ HolderInv)
<1>1. TypeOK /\ OrderInv /\ HolderInv /\ [Next]_vars => (TypeOK /\ OrderInv /\ HolderInv)'
  BY TypeStep, RowStepHolds, OrderStep, HolderStep
<1> QED  BY TypeInit, QueueInit, <1>1, PTL DEF Spec

\* The deliveries that are to be taken up before d, and how many they are.
Ahead(d) == {c \in Pending : delivery[c].rank < delivery[d].rank}
Place(d) == Cardinality(Ahead(d))

\* The worker sees every PENDING delivery, and takes the oldest of them, as many as the
\* LIMIT allows: none of them is hidden by its due time and no read comes back empty
\* handed (getPendingDeliveries).
WorkerSeesQueue ==
  /\ \A d \in Id : delivery[d].status = "PENDING" => d \in Pending
  /\ \A c, d \in Pending : c # d => Place(c) # Place(d)
  /\ Cardinality(Batch) = IF Cardinality(Pending) <= BatchLimit THEN Cardinality(Pending)
                          ELSE BatchLimit

\* The places of the rows in the queue are 0, 1, 2, ... without a gap.
LEMMA PlacesAreOrder ==
  ASSUME TypeOK, OrderInv
  PROVE  /\ IsFiniteSet(Pending)
         /\ [d \in Pending |-> Place(d)] \in Bijection(Pending, 0..Cardinality(Pending) - 1)
<1> DEFINE n == Cardinality(Pending)
           f == [d \in Pending |-> Place(d)]
<1>1. IsFiniteSet(Pending)
  BY FiniteAssumption, FS_Product, FS_Subset DEF Id, Pending
<1>2. n \in Nat  BY <1>1, FS_CardinalityType
<1>3. \A d \in Pending : delivery[d].rank \in Nat  BY DEF Pending, TypeOK, Row
<1>4. ASSUME NEW d \in Pending
      PROVE  Place(d) \in 0..n - 1 /\ IsFiniteSet(Ahead(d))
  <2>1. Ahead(d) \in SUBSET Pending /\ d \notin Ahead(d)  BY <1>3 DEF Ahead
  <2>2. /\ IsFiniteSet(Ahead(d)) /\ Cardinality(Ahead(d)) <= n
        /\ n = Cardinality(Ahead(d)) => Pending = Ahead(d)
    BY <1>1, <2>1, FS_Subset
  <2>3. Cardinality(Ahead(d)) # n  BY <1>4, <2>1, <2>2
  <2>4. Cardinality(Ahead(d)) \in Nat  BY <2>2, FS_CardinalityType
  <2> QED  BY <1>2, <2>2, <2>3, <2>4 DEF Place
<1>5. ASSUME NEW c \in Pending, NEW d \in Pending, delivery[c].rank < delivery[d].rank
      PROVE  Place(c) < Place(d)
  <2>1. Ahead(c) \in SUBSET Ahead(d) /\ c \in Ahead(d) /\ c \notin Ahead(c)
    BY <1>3, <1>5 DEF Ahead
  <2>2. IsFiniteSet(Ahead(d))  BY <1>4
  <2>3. /\ Cardinality(Ahead(c)) <= Cardinality(Ahead(d))
        /\ Cardinality(Ahead(d)) # Cardinality(Ahead(c))
    BY <2>1, <2>2, FS_Subset
  <2>4. Place(c) \in 0..n - 1 /\ Place(d) \in 0..n - 1  BY <1>4
  <2> QED  BY <1>2, <2>3, <2>4 DEF Place
<1>6. ASSUME NEW c \in Pending, NEW d \in Pending, Place(c) = Place(d)
      PROVE  c = d
  <2>1. Place(c) \in 0..n - 1  BY <1>4
  <2>2. ~(delivery[c].rank < delivery[d].rank) /\ ~(delivery[d].rank < delivery[c].rank)
    BY <1>2, <1>5, <1>6, <2>1
  <2>3. delivery[c].rank = delivery[d].rank  BY <1>3, <2>2
  <2> QED  BY <2>3 DEF Pending, OrderInv
<1>7. f \in Injection(Pending, 0..n - 1)
  <2>1. f \in [Pending -> 0..n - 1]  BY <1>4
  <2>2. IsInjective(f)  BY <1>6 DEF IsInjective
  <2> QED  BY <2>1, <2>2 DEF Injection
<1>8. IsFiniteSet(0..n - 1) /\ Cardinality(0..n - 1) = n  BY <1>2, FS_Interval
<1>9. f \in Surjection(Pending, 0..n - 1)  BY <1>7, <1>8, FS_Injection
<1> QED  BY <1>1, <1>7, <1>9 DEF Bijection

LEMMA BatchSize ==
  ASSUME TypeOK, OrderInv
  PROVE  WorkerSeesQueue
<1> DEFINE n == Cardinality(Pending)
           f == [d \in Pending |-> Place(d)]
<1>1. IsFiniteSet(Pending) /\ f \in Bijection(Pending, 0..n - 1)  BY PlacesAreOrder
<1>2. n \in Nat /\ BatchLimit \in Nat  BY <1>1, FS_CardinalityType, NatAssumption
<1>3. /\ \A d \in Pending : Place(d) \in 0..n - 1
      /\ \A c, d \in Pending : Place(c) = Place(d) => c = d
      /\ \A i \in 0..n - 1 : \E d \in Pending : Place(d) = i
  BY <1>1 DEF Bijection, Injection, Surjection, IsInjective
<1>4. Batch = {d \in Pending : Place(d) < BatchLimit}  BY DEF Batch, Place, Ahead
<1>5. \A d \in Id : delivery[d].status = "PENDING" => d \in Pending  BY DEF OrderInv, Pending
<1>6. CASE n <= BatchLimit
  <2>1. Batch = Pending  BY <1>2, <1>3, <1>4, <1>6
  <2> QED  BY <1>3, <1>5, <1>6, <2>1 DEF WorkerSeesQueue
<1>7. CASE n > BatchLimit
  <2> DEFINE g == [d \in Batch |-> Place(d)]
  <2>1. g \in [Batch -> 0..BatchLimit - 1]  BY <1>2, <1>3, <1>4
  <2>2. IsInjective(g)  BY <1>3, <1>4 DEF IsInjective
  <2>3. \A i \in 0..BatchLimit - 1 : \E d \in Batch : g[d] = i
    <3> TAKE i \in 0..BatchLimit - 1
    <3>1. i \in 0..n - 1 /\ i < BatchLimit  BY <1>2, <1>7
    <3>2. PICK d \in Pending : Place(d) = i  BY <1>3, <3>1
    <3> QED  BY <1>4, <3>1, <3>2
  <2>4. ExistsBijection(Batch, 0..BatchLimit - 1)
    BY <2>1, <2>2, <2>3 DEF ExistsBijection, Bijection, Injection, Surjection
  <2>5. IsFiniteSet(Batch)  BY <1>1, <1>4, FS_Subset
  <2>6. Cardinality(0..BatchLimit - 1) = Cardinality(Batch)
    BY <2>4, <2>5, FS_Bijection
  <2>7. Cardinality(Batch) = BatchLimit  BY <1>2, <2>6, FS_Interval
  <2> QED  BY <1>2, <1>3, <1>5, <1>7, <2>7 DEF WorkerSeesQueue
<1> QED  BY <1>2, <1>6, <1>7

\* The retry worker reads exactly the oldest PENDING deliveries, whatever was inserted,
\* rewritten or lost in between.
THEOREM WorkerReadsOldest == Spec => []WorkerSeesQueue
<1>1. TypeOK /\ OrderInv => WorkerSeesQueue  BY BatchSize
<1> QED  BY QueueAlways, <1>1, PTL

\* No delivery is overtaken in the queue: as long as it is PENDING it only moves
\* forward, so that the LIMIT cannot keep it from the worker for good.
NotOvertaken ==
  [][\A d \in Id :
       delivery[d].status = "PENDING" /\ delivery'[d].status = "PENDING"
         => Place(d)' <= Place(d)]_vars

THEOREM QueueMovesForward == Spec => NotOvertaken
<1>1. ASSUME TypeOK, OrderInv, HolderInv, [Next]_vars, NEW d \in Id,
             delivery[d].status = "PENDING", delivery'[d].status = "PENDING"
      PROVE  Place(d)' <= Place(d)
  <2>1. RowStep  BY <1>1, RowStepHolds
  <2>2. d \in Rows  BY <1>1 DEF Rows
  <2>3. Cardinality(Rows) \in Nat
    BY FiniteAssumption, FS_Product, FS_Subset, FS_CardinalityType DEF Id, Rows
  <2>4. /\ delivery[d].rank < Cardinality(Rows)
        /\ \A c \in Id : delivery[c].rank \in Nat
    BY <1>1 DEF OrderInv, TypeOK, Row
  <2>5. NewRow.rank = Cardinality(Rows)  BY DEF NewRow, Rows
  <2>6. delivery'[d] = delivery[d]
    <3>1. CASE \A c \in Id : delivery'[c].status = "PENDING" => delivery'[c] = delivery[c]
      BY <1>1, <3>1
    <3>2. ASSUME NEW e \in Id \ Rows, \A c \in Id \ {e} : delivery'[c] = delivery[c]
          PROVE  delivery'[d] = delivery[d]
      BY <2>2, <3>2
    <3> QED  BY <1>1, <2>1, <3>1, <3>2, RowsGrow
  <2>7. ASSUME NEW c \in Id, delivery'[c].status = "PENDING",
               delivery'[c].rank < delivery[d].rank
        PROVE  delivery'[c] = delivery[c]
    <3>1. CASE \A b \in Id : delivery'[b].status = "PENDING" => delivery'[b] = delivery[b]
      BY <2>7, <3>1
    <3>2. ASSUME NEW e \in Id \ Rows, delivery'[e] = NewRow,
                 \A b \in Id \ {e} : delivery'[b] = delivery[b]
          PROVE  delivery'[c] = delivery[c]
      BY <2>3, <2>4, <2>5, <2>7, <3>2
    <3> QED  BY <1>1, <2>1, <3>1, <3>2, RowsGrow
  <2>8. Ahead(d)' \in SUBSET Ahead(d)
    BY <2>6, <2>7 DEF Ahead, Pending
  <2>9. IsFiniteSet(Ahead(d))
    BY FiniteAssumption, FS_Product, FS_Subset DEF Id, Ahead, Pending
  <2> QED  BY <2>8, <2>9, FS_Subset DEF Place
<1>2. TypeOK /\ OrderInv /\ HolderInv /\ [Next]_vars =>
        [\A d \in Id : delivery[d].status = "PENDING" /\ delivery'[d].status = "PENDING"
                         => Place(d)' <= Place(d)]_vars
  BY <1>1
<1> QED  BY QueueAlways, <1>2, PTL DEF Spec, NotOvertaken

-------------------------------------------------------------------------------
(* What becomes of a failed delivery *)

\* A failed delivery whose attempt is over, and that nobody read before it failed.
Abandoned(d) ==
  /\ delivery[d].status = "FAILED" /\ first[d] = "none"
  /\ \A w \in Workers : \A item \in worker[w] : item.id # d
  /\ \A j \in Jobs : job[j].at \in {"post", "update"} => job[j].id # d

\* It stays as it is, FAILED after one attempt: it becomes due, and no worker run looks
\* for it ("Exponential backoff, dead-letter after 5 attempts" does not happen).
AbandonedForGood ==
  [][\A d \in Id : Abandoned(d) =>
        Abandoned(d)' /\ delivery'[d].attemptCount = delivery[d].attemptCount]_vars

\* A failed delivery is lost for the worker, with any number of runs, jobs, crashes and
\* failed queries: why the finding_webhook_retry run finds a behaviour at all.
THEOREM FailedIsForGood == Spec => AbandonedForGood
<1>1. ASSUME TypeOK, OrderInv, HolderInv, [Next]_vars, NEW d \in Id, Abandoned(d)
      PROVE  Abandoned(d)' /\ delivery'[d].attemptCount = delivery[d].attemptCount
  <2>1. /\ delivery[d].status = "FAILED" /\ first[d] = "none" /\ d \in Rows
        /\ \A w \in Workers : \A item \in worker[w] : item.id # d
        /\ \A j \in Jobs : job[j].at \in {"post", "update"} => job[j].id # d
        /\ d \notin Batch
    BY <1>1, BatchPending DEF Abandoned, Rows
  <2>2. ASSUME delivery'[d] = delivery[d], first'[d] = "none",
               \A w \in Workers : \A item \in worker'[w] : item \in worker[w] \/ item.id \in Batch,
               \A j \in Jobs : job'[j].at \in {"post", "update"} =>
                  \/ job[j].at \in {"post", "update"} /\ job'[j].id = job[j].id
                  \/ job'[j].id \in Batch
        PROVE  Abandoned(d)' /\ delivery'[d].attemptCount = delivery[d].attemptCount
    <3>1. \A w \in Workers : \A item \in worker'[w] : item.id # d  BY <2>1, <2>2
    <3>2. \A j \in Jobs : job'[j].at \in {"post", "update"} => job'[j].id # d  BY <2>1, <2>2
    <3> QED  BY <2>1, <2>2, <3>1, <3>2 DEF Abandoned
  <2>3. ASSUME UNCHANGED <<delivery, first, worker, job>>
        PROVE  Abandoned(d)' /\ delivery'[d].attemptCount = delivery[d].attemptCount
    BY <1>1, <2>3 DEF Abandoned
  <2>4. CASE \/ \E h \in Hooks : Register(h)
             \/ \E e \in Events : Call(e) \/ FindHooks(e) \/ DispatchDone(e)
             \/ Quiescent \/ UNCHANGED vars
    BY <2>3, <2>4 DEF Register, Call, FindHooks, DispatchDone, Quiescent, vars
  <2>5. ASSUME NEW e \in Events, NEW h \in Hooks, CreateDelivery(e, h)
        PROVE  Abandoned(d)' /\ delivery'[d].attemptCount = delivery[d].attemptCount
    <3>1. <<e, h>> # d  BY <1>1, <2>1, <2>5 DEF CreateDelivery, HolderInv
    <3>2. delivery'[d] = delivery[d] /\ first'[d] = first[d] /\ UNCHANGED <<worker, job>>
      BY <1>1, <2>5, <3>1 DEF CreateDelivery, TypeOK
    <3> QED  BY <2>1, <2>2, <3>2
  <2>6. ASSUME NEW c \in Id, FirstStep(c) \/ FirstUpdateFails(c)
        PROVE  Abandoned(d)' /\ delivery'[d].attemptCount = delivery[d].attemptCount
    <3>1. c # d
      BY <2>1, <2>6 DEF FirstStep, FirstPost, FirstUpdate, FirstUpdateFails, Outcome
    <3>2. delivery'[d] = delivery[d] /\ first'[d] = first[d] /\ UNCHANGED <<worker, job>>
      BY <1>1, <2>6, <3>1
         DEF FirstStep, FirstPost, FirstUpdate, FirstUpdateFails, TypeOK
    <3> QED  BY <2>1, <2>2, <3>2
  <2>7. ASSUME NEW c \in Id, BecomeDue(c)
        PROVE  Abandoned(d)' /\ delivery'[d].attemptCount = delivery[d].attemptCount
    <3>1. /\ delivery'[d].status = delivery[d].status
          /\ delivery'[d].attemptCount = delivery[d].attemptCount
      BY <1>1, <2>7 DEF BecomeDue, TypeOK, Row
    <3> QED  BY <1>1, <2>7, <3>1 DEF BecomeDue, Abandoned
  <2>8. ASSUME NEW w \in Workers, WorkerStep(w)
        PROVE  Abandoned(d)' /\ delivery'[d].attemptCount = delivery[d].attemptCount
    <3>1. CASE WorkerRead(w)
      <4>1. \A v \in Workers : \A item \in worker'[v] : item \in worker[v] \/ item.id \in Batch
        BY <1>1, <3>1 DEF WorkerRead, TypeOK
      <4>2. UNCHANGED <<delivery, first, job>>  BY <3>1 DEF WorkerRead
      <4> QED  BY <2>1, <2>2, <4>1, <4>2
    <3>2. ASSUME NEW item \in worker[w], WorkerDead(w, item)
          PROVE  Abandoned(d)' /\ delivery'[d].attemptCount = delivery[d].attemptCount
      <4>1. item.id # d  BY <2>1
      <4>2. delivery'[d] = delivery[d] /\ UNCHANGED <<first, job>>
        BY <1>1, <3>2, <4>1 DEF WorkerDead, TypeOK
      <4>3. \A v \in Workers : worker'[v] \subseteq worker[v]
        BY <1>1, <3>2 DEF WorkerDead, TypeOK
      <4> QED  BY <2>1, <2>2, <4>2, <4>3
    <3>3. ASSUME NEW item \in worker[w], NEW j \in Jobs, WorkerFire(w, item, j)
          PROVE  Abandoned(d)' /\ delivery'[d].attemptCount = delivery[d].attemptCount
      <4>1. UNCHANGED <<delivery, first>>  BY <3>3 DEF WorkerFire
      <4>2. \A v \in Workers : worker'[v] \subseteq worker[v]
        BY <1>1, <3>3 DEF WorkerFire, TypeOK
      <4>3. \A i \in Jobs : job'[i].at \in {"post", "update"} => job'[i] = job[i]
        BY <1>1, <3>3 DEF WorkerFire, TypeOK
      <4> QED  BY <2>1, <2>2, <4>1, <4>2, <4>3
    <3> QED  BY <2>8, <3>1, <3>2, <3>3 DEF WorkerStep
  <2>9. ASSUME NEW j \in Jobs, JobStep(j) \/ JobUpdateFails(j)
        PROVE  Abandoned(d)' /\ delivery'[d].attemptCount = delivery[d].attemptCount
    <3>1. UNCHANGED <<first, worker>>
      BY <2>9 DEF JobStep, JobLookup, JobPost, JobUpdate, JobUpdateFails
    <3>2. delivery'[d] = delivery[d]
      <4>1. UNCHANGED delivery
            \/ (job[j].at = "update" /\ delivery' = [delivery EXCEPT ![job[j].id] = JobRow(j)])
        BY <2>9 DEF JobStep, JobLookup, JobPost, JobUpdate, JobUpdateFails
      <4> QED  BY <1>1, <2>1, <4>1 DEF TypeOK
    <3>3. /\ \A i \in Jobs \ {j} : job'[i] = job[i]
          /\ job'[j].at \in {"post", "update"} =>
                \/ job[j].at \in {"post", "update"} /\ job'[j].id = job[j].id
                \/ job'[j].id \in Batch
      <4>1. CASE JobLookup(j)  BY <1>1, <4>1 DEF JobLookup, TypeOK, NoJob
      <4>2. CASE JobPost(j)  BY <1>1, <4>2 DEF JobPost, TypeOK
      <4>3. CASE JobUpdate(j)  BY <1>1, <4>3 DEF JobUpdate, TypeOK, NoJob
      <4>4. CASE JobUpdateFails(j)
        <5>1. job[j] \in [at : {"update"}, id : Id, attemptCount : Nat, outcome : Outcome]
          BY <1>1, <4>4 DEF JobUpdateFails, JobType, NoJob, TypeOK
        <5> QED  BY <1>1, <4>4, <5>1 DEF JobUpdateFails, TypeOK, NoJob
      <4> QED  BY <2>9, <4>1, <4>2, <4>3, <4>4 DEF JobStep
    <3> QED  BY <2>1, <2>2, <3>1, <3>2, <3>3
  <2>10. CASE QueryFails
    <3>1. UNCHANGED first  BY <2>10 DEF QueryFails
    <3>2. /\ \A w \in Workers : worker'[w] \subseteq worker[w]
          /\ \A j \in Jobs : job'[j] \in {job[j], NoJob}
      BY <1>1, <2>10 DEF QueryFails, TypeOK
    <3>3. delivery'[d] = delivery[d]
      <4>1. \/ UNCHANGED delivery
            \/ \E e \in Events : \E h \in todo[e] :
                  delivery' = [delivery EXCEPT ![<<e, h>>] = NewRow]
            \/ \E w \in Workers : \E item \in worker[w] :
                  delivery' = [delivery EXCEPT ![item.id] = DeadRow(item)]
        BY <2>10 DEF QueryFails
      <4>2. \A e \in Events : \A h \in todo[e] : <<e, h>> # d
        BY <1>1, <2>1 DEF HolderInv, TypeOK
      <4> QED  BY <1>1, <2>1, <4>1, <4>2 DEF TypeOK
    <3> QED  BY <2>1, <2>2, <3>1, <3>2, <3>3 DEF NoJob
  <2>11. CASE Crash
    <3>1. /\ UNCHANGED delivery /\ first'[d] = "none"
          /\ \A w \in Workers : worker'[w] = {}
          /\ \A j \in Jobs : job'[j] = NoJob
      BY <2>11 DEF Crash
    <3>2. \A w \in Workers : \A item \in worker'[w] : item \in worker[w]  BY <3>1
    <3>3. \A j \in Jobs : job'[j].at \notin {"post", "update"}  BY <3>1 DEF NoJob
    <3> QED  BY <2>1, <2>2, <3>1, <3>2, <3>3
  <2> QED
    BY <1>1, <2>4, <2>5, <2>6, <2>7, <2>8, <2>9, <2>10, <2>11 DEF Next, DispatchStep
<1>2. TypeOK /\ OrderInv /\ HolderInv /\ [Next]_vars =>
        [\A d \in Id : Abandoned(d) =>
           Abandoned(d)' /\ delivery'[d].attemptCount = delivery[d].attemptCount]_vars
  BY <1>1
<1> QED  BY QueueAlways, <1>2, PTL DEF Spec, AbandonedForGood

===============================================================================
