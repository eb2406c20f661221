------------------------------- MODULE Webhooks -------------------------------
(***************************************************************************)
(* Webhook delivery for one merchant: dispatchWebhooks and its first       *)
(* delivery attempts, and the retry worker (src/infrastructure/webhook/    *)
(* WebhookSender.ts) over the webhook_deliveries table (WebhookRepo.ts).   *)
(*                                                                         *)
(* Dispatches, first attempts and worker jobs are promises nobody awaits:  *)
(* they interleave freely and are lost when the process dies.  Times are   *)
(* abstracted to whether next_retry_at is due, later or NULL.              *)
(***************************************************************************)
EXTENDS Naturals, FiniteSets

CONSTANTS
  Events,        \* the announcements the payment service makes, one call each
  Hooks,         \* webhook registrations the merchant may make
  Workers,       \* overlapping runs of the worker: its timer, POST /webhooks/retry
  Jobs,          \* bound: deliverWebhook calls in flight at a time
  RetryLimits,   \* the values of config.webhook.maxRetries to consider
  BatchLimit,    \* LIMIT of getPendingDeliveries
  PlaceholderAnswers,  \* what a POST to http://placeholder can come to
  MaxFaults      \* bound: crashes and failed queries in one behaviour

Outcome == {"2xx", "other", "error"}

ASSUME NatAssumption ==
         RetryLimits \subseteq Nat /\ BatchLimit \in Nat /\ MaxFaults \in Nat
ASSUME FiniteAssumption == IsFiniteSet(Events) /\ IsFiniteSet(Hooks)
ASSUME PlaceholderAssumption == PlaceholderAnswers \subseteq Outcome

VARIABLES
  maxRetries, \* config.webhook.maxRetries, the same for every process
  subs,       \* webhook_registrations: the events each hook listens to
  dispatch,   \* per event, how far its dispatchWebhooks call is
  todo,       \* per event, hooks whose delivery row is still to be inserted
  delivery,   \* webhook_deliveries, by event and hook
  first,      \* per delivery, the attemptDelivery call in flight
  worker,     \* per worker run, the batch rows it has still to go through
  job,        \* per slot, the deliverWebhook call in flight
  received,   \* how often the merchant's endpoint got the event
  faults      \* crashes and failed queries so far

vars == <<maxRetries, subs, dispatch, todo, delivery, first, worker, job, received, faults>>

-------------------------------------------------------------------------------
Id     == Events \X Hooks
Status == {"NONE", "PENDING", "SUCCESS", "FAILED", "DEAD"}
Row    == [status : Status, attemptCount : Nat, nextRetry : {"due", "later", "null"},
           rank : Nat]  \* place of a PENDING row in the order of next_retry_at
Item   == [id : Id, attemptCount : Nat]

NoRow   == [status |-> "NONE", attemptCount |-> 0, nextRetry |-> "null", rank |-> 0]
NewRow  == [status |-> "PENDING", attemptCount |-> 0, nextRetry |-> "due",
            rank |-> Cardinality({d \in Id : delivery[d].status # "NONE"})]
NoJob   == [at |-> "idle"]
JobType == {NoJob} \cup [at : {"lookup"}, id : Id]
             \cup [at : {"post"}, id : Id, attemptCount : Nat]
             \cup [at : {"update"}, id : Id, attemptCount : Nat, outcome : Outcome]

TypeOK ==
  /\ maxRetries \in RetryLimits
  /\ subs \in [Hooks -> SUBSET Events]
  /\ dispatch \in [Events -> {"none", "find", "create", "done"}]
  /\ todo \in [Events -> SUBSET Hooks]
  /\ delivery \in [Id -> Row]
  /\ first \in [Id -> {"none", "post"} \cup Outcome]
  /\ worker \in [Workers -> SUBSET Item]
  /\ job \in [Jobs -> JobType]
  /\ received \in [Id -> Nat]
  /\ faults \in 0..MaxFaults

Init ==
  /\ maxRetries \in RetryLimits
  /\ subs = [h \in Hooks |-> {}]
  /\ dispatch = [e \in Events |-> "none"]
  /\ todo = [e \in Events |-> {}]
  /\ delivery = [d \in Id |-> NoRow]
  /\ first = [d \in Id |-> "none"]
  /\ worker = [w \in Workers |-> {}]
  /\ job = [j \in Jobs |-> NoJob]
  /\ received = [d \in Id |-> 0]
  /\ faults = 0

-------------------------------------------------------------------------------
(* Registration and dispatch *)

\* WebhookRepo.register inserts what it is given, all events by default.
register(h, evs) == subs' = [subs EXCEPT ![h] = evs]

\* POST /webhooks/register does not look at the names of the events; a hook that
\* listens to nothing yet is unregistered.
Register(h) ==
  /\ subs[h] = {}
  /\ \E evs \in SUBSET Events \ {{}} : register(h, evs)
  /\ UNCHANGED <<maxRetries, dispatch, todo, delivery, first, worker, job,
                 received, faults>>

Call(e) ==
  /\ dispatch[e] = "none"
  /\ dispatch' = [dispatch EXCEPT ![e] = "find"]
  /\ UNCHANGED <<maxRetries, subs, todo, delivery, first, worker, job,
                 received, faults>>

\* findByMerchantId, then the filter on the subscribed events.
FindHooks(e) ==
  /\ dispatch[e] = "find"
  /\ dispatch' = [dispatch EXCEPT ![e] = "create"]
  /\ todo' = [todo EXCEPT ![e] = {h \in Hooks : e \in subs[h]}]
  /\ UNCHANGED <<maxRetries, subs, delivery, first, worker, job, received,
                 faults>>

\* Fault-seeded: the row is inserted without a due time.
CreateDelivery_notDue(e, h) ==
  /\ dispatch[e] = "create" /\ h \in todo[e]
  /\ todo' = [todo EXCEPT ![e] = @ \ {h}]
  /\ delivery' = [delivery EXCEPT ![<<e, h>>] = [NewRow EXCEPT !.nextRetry = "null"]]
  /\ first' = [first EXCEPT ![<<e, h>>] = "post"]
  /\ UNCHANGED <<maxRetries, subs, dispatch, worker, job, received, faults>>

\* createDelivery inserts the row, PENDING and due at once by the columns'
\* defaults; attemptDelivery is then started and not awaited.
CreateDelivery(e, h) ==
  /\ dispatch[e] = "create" /\ h \in todo[e]
  /\ todo' = [todo EXCEPT ![e] = @ \ {h}]
  /\ delivery' = [delivery EXCEPT ![<<e, h>>] = NewRow]
  /\ first' = [first EXCEPT ![<<e, h>>] = "post"]
  /\ UNCHANGED <<maxRetries, subs, dispatch, worker, job, received, faults>>

\* Promise.allSettled over the inserts.
DispatchDone(e) ==
  /\ dispatch[e] = "create" /\ todo[e] = {}
  /\ dispatch' = [dispatch EXCEPT ![e] = "done"]
  /\ UNCHANGED <<maxRetries, subs, todo, delivery, first, worker, job,
                 received, faults>>

-------------------------------------------------------------------------------
(* attemptDelivery, the first attempt *)

\* Any HTTP answer means the merchant got the event; on a timeout or a broken
\* connection it may or may not have.
FirstPost(d) ==
  /\ first[d] = "post"
  /\ \E outcome \in Outcome, got \in BOOLEAN :
        /\ outcome # "error" => got
        /\ first' = [first EXCEPT ![d] = outcome]
        /\ received' = [received EXCEPT ![d] = IF got THEN @ + 1 ELSE @]
  /\ UNCHANGED <<maxRetries, subs, dispatch, todo, delivery, worker, job,
                 faults>>

\* Fault-seeded: any HTTP answer counts as a success.
Attempted_anyAnswer(outcome, count, isDead) ==
  [status       |-> IF outcome # "error" THEN "SUCCESS"
                    ELSE IF isDead THEN "DEAD" ELSE "FAILED",
   attemptCount |-> count,
   nextRetry    |-> IF outcome # "error" \/ isDead THEN "null" ELSE "later",
   rank         |-> 0]

\* Fault-seeded: undefined is written as it is, without ?? null.
Attempted_undefined(outcome, count, isDead) ==
  [status       |-> IF outcome = "2xx" THEN "SUCCESS"
                    ELSE IF outcome = "error" /\ isDead THEN "DEAD" ELSE "FAILED",
   attemptCount |-> count,
   nextRetry    |-> IF outcome = "2xx" \/ (outcome = "error" /\ isDead)
                    THEN "undefined" ELSE "later",
   rank         |-> 0]

\* What an attempt with this outcome leaves in the row.
Attempted(outcome, count, isDead) ==
  [status       |-> IF outcome = "2xx" THEN "SUCCESS"
                    ELSE IF outcome = "error" /\ isDead THEN "DEAD" ELSE "FAILED",
   attemptCount |-> count,
   nextRetry    |-> IF outcome = "2xx" \/ (outcome = "error" /\ isDead)
                    THEN "null" ELSE "later",
   rank         |-> 0]

FirstUpdate(d) ==
  /\ first[d] \in Outcome
  /\ delivery' = [delivery EXCEPT ![d] = Attempted(first[d], 1, FALSE)]
  /\ first' = [first EXCEPT ![d] = "none"]
  /\ UNCHANGED <<maxRetries, subs, dispatch, todo, worker, job, received,
                 faults>>

\* The update inside the try block rejects, applied or not, and the catch block
\* writes the row again as an error; a rejected update in the catch block is the
\* end of the attempt.
FirstUpdateFails(d) ==
  /\ faults < MaxFaults /\ faults' = faults + 1
  /\ first[d] \in Outcome
  /\ first' = [first EXCEPT ![d] = IF @ = "error" THEN "none" ELSE "error"]
  /\ \/ delivery' = [delivery EXCEPT ![d] = Attempted(first[d], 1, FALSE)]
     \/ UNCHANGED delivery
  /\ UNCHANGED <<maxRetries, subs, dispatch, todo, worker, job, received>>

-------------------------------------------------------------------------------
(* The retry worker *)

\* The WHERE clause of getPendingDeliveries.
Pending == {d \in Id : delivery[d].status = "PENDING" /\ delivery[d].nextRetry = "due"}

\* ORDER BY next_retry_at ASC LIMIT: a PENDING row keeps the due time it was
\* inserted with.  Its DEFAULT NOW() is when the INSERT starts, its place here when the
\* row is there: an INSERT that overtakes another one in flight is taken to start later.
Batch ==
  {d \in Pending :
     Cardinality({c \in Pending : delivery[c].rank < delivery[d].rank}) < BatchLimit}

shouldRetryWebhook(attemptCount, status) ==
  status \notin {"SUCCESS", "DEAD"} /\ attemptCount < maxRetries

\* processWebhookRetries reads its batch.
WorkerRead(w) ==
  /\ worker[w] = {} /\ Pending # {}
  /\ worker' = [worker EXCEPT ![w] =
                  {[id |-> d, attemptCount |-> delivery[d].attemptCount] : d \in Batch}]
  /\ UNCHANGED <<maxRetries, subs, dispatch, todo, delivery, first, job,
                 received, faults>>

DeadRow(item) ==
  [status |-> "DEAD", attemptCount |-> item.attemptCount, nextRetry |-> "null",
   rank |-> 0]

\* Fault-seeded: the row is passed over, not written as DEAD.
WorkerDead_skips(w, item) ==
  /\ item \in worker[w]
  /\ ~shouldRetryWebhook(item.attemptCount, "PENDING")
  /\ worker' = [worker EXCEPT ![w] = @ \ {item}]
  /\ UNCHANGED <<maxRetries, subs, dispatch, todo, delivery, first, job,
                 received, faults>>

\* Every row of a batch was read as PENDING.
WorkerDead(w, item) ==
  /\ item \in worker[w]
  /\ ~shouldRetryWebhook(item.attemptCount, "PENDING")
  /\ delivery' = [delivery EXCEPT ![item.id] = DeadRow(item)]
  /\ worker' = [worker EXCEPT ![w] = @ \ {item}]
  /\ UNCHANGED <<maxRetries, subs, dispatch, todo, first, job, received,
                 faults>>

\* deliverWebhook is called and not awaited; it runs to its first query.
WorkerFire(w, item, j) ==
  /\ item \in worker[w]
  /\ shouldRetryWebhook(item.attemptCount, "PENDING")
  /\ job[j] = NoJob
  /\ job' = [job EXCEPT ![j] = [at |-> "lookup", id |-> item.id]]
  /\ worker' = [worker EXCEPT ![w] = @ \ {item}]
  /\ UNCHANGED <<maxRetries, subs, dispatch, todo, delivery, first, received,
                 faults>>

\* deliverWebhook looks its row up among the pending ones again.
JobLookup(j) ==
  /\ job[j].at = "lookup"
  /\ job' = [job EXCEPT ![j] =
               IF @.id \in Batch
               THEN [at |-> "post", id |-> @.id,
                     attemptCount |-> delivery[@.id].attemptCount + 1]
               ELSE NoJob]
  /\ UNCHANGED <<maxRetries, subs, dispatch, todo, delivery, first, worker,
                 received, faults>>

\* Fault-seeded: the job posts to the hook's own URL.
JobPost_realUrl(j) ==
  /\ job[j].at = "post"
  /\ \E outcome \in PlaceholderAnswers :
        job' = [job EXCEPT ![j] = [at |-> "update", id |-> @.id,
                                   attemptCount |-> @.attemptCount, outcome |-> outcome]]
  /\ received' = [received EXCEPT ![job[j].id] = @ + 1]
  /\ UNCHANGED <<maxRetries, subs, dispatch, todo, delivery, first, worker,
                 faults>>

\* The request goes to http://placeholder, not to the merchant.
JobPost(j) ==
  /\ job[j].at = "post"
  /\ \E outcome \in PlaceholderAnswers :
        job' = [job EXCEPT ![j] = [at |-> "update", id |-> @.id,
                                   attemptCount |-> @.attemptCount, outcome |-> outcome]]
  /\ UNCHANGED <<maxRetries, subs, dispatch, todo, delivery, first, worker,
                 received, faults>>

\* The row as deliverWebhook writes it back.
JobRow(j) ==
  Attempted(job[j].outcome, job[j].attemptCount,
            ~shouldRetryWebhook(job[j].attemptCount, "FAILED"))

JobUpdate(j) ==
  /\ job[j].at = "update"
  /\ delivery' = [delivery EXCEPT ![job[j].id] = JobRow(j)]
  /\ job' = [job EXCEPT ![j] = NoJob]
  /\ UNCHANGED <<maxRetries, subs, dispatch, todo, first, worker, received,
                 faults>>

\* Fault-seeded: the catch block counts the attempt again.
JobUpdateFails_counts(j) ==
  /\ faults < MaxFaults /\ faults' = faults + 1
  /\ job[j].at = "update"
  /\ job' = [job EXCEPT ![j] = IF @.outcome = "error" THEN NoJob
                               ELSE [@ EXCEPT !.outcome = "error", !.attemptCount = @ + 1]]
  /\ delivery' = [delivery EXCEPT ![job[j].id] = JobRow(j)]
  /\ UNCHANGED <<maxRetries, subs, dispatch, todo, first, worker, received>>

\* As FirstUpdateFails.
JobUpdateFails(j) ==
  /\ faults < MaxFaults /\ faults' = faults + 1
  /\ job[j].at = "update"
  /\ job' = [job EXCEPT ![j] = IF @.outcome = "error" THEN NoJob
                               ELSE [@ EXCEPT !.outcome = "error"]]
  /\ \/ delivery' = [delivery EXCEPT ![job[j].id] = JobRow(j)]
     \/ UNCHANGED delivery
  /\ UNCHANGED <<maxRetries, subs, dispatch, todo, first, worker, received>>

-------------------------------------------------------------------------------
(* Time and crashes *)

\* The backoff computed by computeNextRetryAt is over.
BecomeDue(d) ==
  /\ delivery[d].nextRetry = "later"
  /\ delivery' = [delivery EXCEPT ![d].nextRetry = "due"]
  /\ UNCHANGED <<maxRetries, subs, dispatch, todo, first, worker, job,
                 received, faults>>

\* A query rejects and its error is only logged: the hooks are not looked up; a
\* row is not inserted, or is and nobody knows; the worker drops the rest of its
\* batch over an update, applied or not; a job gives up at its lookup.
QueryFails ==
  /\ faults < MaxFaults /\ faults' = faults + 1
  /\ \/ \E e \in Events :
          /\ dispatch[e] = "find"
          /\ dispatch' = [dispatch EXCEPT ![e] = "done"]
          /\ UNCHANGED <<todo, delivery, worker, job>>
     \/ \E e \in Events : \E h \in todo[e] :
          /\ todo' = [todo EXCEPT ![e] = @ \ {h}]
          /\ \/ delivery' = [delivery EXCEPT ![<<e, h>>] = NewRow]
             \/ UNCHANGED delivery
          /\ UNCHANGED <<dispatch, worker, job>>
     \/ \E w \in Workers : \E item \in worker[w] :
          /\ ~shouldRetryWebhook(item.attemptCount, "PENDING")
          /\ worker' = [worker EXCEPT ![w] = {}]
          /\ \/ delivery' = [delivery EXCEPT ![item.id] = DeadRow(item)]
             \/ UNCHANGED delivery
          /\ UNCHANGED <<dispatch, todo, job>>
     \/ \E j \in Jobs :
          /\ job[j].at = "lookup"
          /\ job' = [job EXCEPT ![j] = NoJob]
          /\ UNCHANGED <<dispatch, todo, delivery, worker>>
  /\ UNCHANGED <<maxRetries, subs, first, received>>

\* The process dies with every dispatch, attempt, worker run and job in it.
Crash ==
  /\ faults < MaxFaults /\ faults' = faults + 1
  /\ dispatch' = [e \in Events |-> IF dispatch[e] = "none" THEN "none" ELSE "done"]
  /\ todo' = [e \in Events |-> {}]
  /\ first' = [d \in Id |-> "none"]
  /\ worker' = [w \in Workers |-> {}]
  /\ job' = [j \in Jobs |-> NoJob]
  /\ UNCHANGED <<maxRetries, subs, delivery, received>>

\* Nothing in flight and nothing due: the sender waits.
Quiescent ==
  /\ \A e \in Events : dispatch[e] = "done"
  /\ \A d \in Id : first[d] = "none"
  /\ \A w \in Workers : worker[w] = {}
  /\ \A j \in Jobs : job[j] = NoJob
  /\ UNCHANGED vars

DispatchStep(e) == FindHooks(e) \/ DispatchDone(e) \/ \E h \in Hooks : CreateDelivery(e, h)
FirstStep(d)    == FirstPost(d) \/ FirstUpdate(d)
WorkerStep(w)   == \/ WorkerRead(w)
                   \/ \E item \in worker[w] :
                        WorkerDead(w, item) \/ \E j \in Jobs : WorkerFire(w, item, j)
JobStep(j)      == JobLookup(j) \/ JobPost(j) \/ JobUpdate(j)

Next ==
  \/ \E h \in Hooks : Register(h)
  \/ \E e \in Events : Call(e) \/ DispatchStep(e)
  \/ \E d \in Id : FirstStep(d) \/ FirstUpdateFails(d) \/ BecomeDue(d)
  \/ \E w \in Workers : WorkerStep(w)
  \/ \E j \in Jobs : JobStep(j) \/ JobUpdateFails(j)
  \/ QueryFails
  \/ Crash
  \/ Quiescent

Spec == Init /\ [][Next]_vars

\* Queries and HTTP requests settle (the requests have a timeout), time passes,
\* and the worker's timer keeps firing.
FairSpec ==
  /\ Spec
  /\ \A e \in Events : WF_vars(DispatchStep(e))
  /\ \A d \in Id : WF_vars(FirstStep(d)) /\ WF_vars(BecomeDue(d))
  /\ \A w \in Workers : WF_vars(WorkerStep(w))
  /\ \A j \in Jobs : WF_vars(JobStep(j))

-------------------------------------------------------------------------------
(* Properties *)

\* However the first attempt, the worker runs and crashes interleave, no delivery
\* is ever counted as attempted twice, and with a limit of two attempts or more
\* none is ever dead-lettered: the backoff and the limit are never exercised.
NoSecondAttempt ==
  \A d \in Id : /\ delivery[d].attemptCount <= 1
                /\ maxRetries >= 2 => delivery[d].status # "DEAD"

\* The merchant gets an event at most once per hook, crashes, overlapping worker
\* runs and rewritten rows included.
ReceivedAtMostOnce == \A d \in Id : received[d] <= 1

\* A row marked SUCCESS names an event the merchant got (when the placeholder
\* host does not answer with a 2xx).
SuccessWasReceived ==
  \A d \in Id : delivery[d].status = "SUCCESS" => received[d] > 0

\* How far the finding about RetryIsDelivery goes: a delivery whose first attempt is
\* gone without reaching the merchant never reaches it.
LostForGood ==
  [][\A d \in Id :
       delivery[d].status # "NONE" /\ first[d] = "none" /\ received[d] = 0
         => received'[d] = 0]_vars

\* No delivery stays PENDING: the first attempt or, after a crash, the worker
\* takes it out of that state.
PendingSettles ==
  \A d \in Id : delivery[d].status = "PENDING" ~> delivery[d].status # "PENDING"

-------------------------------------------------------------------------------
(* What the repository says of webhooks and the code does not do. *)

\* "Exponential backoff, dead-letter after 5 attempts": a failed delivery is tried
\* again until it succeeds or is dead-lettered.
FailedIsRetried ==
  \A d \in Id : delivery[d].status = "FAILED" ~> delivery[d].status \in {"SUCCESS", "DEAD"}

\* "Webhook delivery failure: exponential backoff": a retry is an attempt to deliver,
\* so that the answer the worker gets to its POST is the merchant's.
RetryIsDelivery ==
  \A j \in Jobs : job[j].at = "update" /\ job[j].outcome # "error"
                   => received[job[j].id] > 0

===============================================================================
