# Verification of the mini payment gateway

TLA+ models of the payment gateway in this repository (TypeScript, Express,
Postgres, Redis), the TLC runs that check them on small instances, and TLAPS
proofs of what matters most for every instance. File and line references are
relative to the repository root.

## 1. The system

| Component | State it keeps | Operations |
|---|---|---|
| Payment service `src/services/PaymentService.ts` | none of its own; locals of each call in flight | initiatePayment, authenticateUser, processPayment, reconcileTransaction, retryPayment, getTransaction |
| Transition table `src/domain/StateMachine.ts` | none (pure) | validateTransition, canTransition, backoff, shouldRetryWebhook, simulated bank |
| Transaction repository `src/infrastructure/db/TransactionRepo.ts` | `transactions`, `transaction_state_audit`, `retry_logs` | create, finders, transitionStatus, getAuditLog, logRetry |
| Postgres access `src/infrastructure/db/postgres.ts` | the `pool` variable, pg-pool's clients and queue; on the server a session per client, its transaction and the row lock | getPool, withTransaction, query, closePool |
| Redis client `src/infrastructure/cache/RedisClient.ts` | `otp:<id>` (300 s), `lock:process:<id>` (30 s), `txn:<id>` (300 s), `idem:<key>` (24 h) | OTPStore, DistributedLock, TransactionCache, IdempotencyCache, closeRedis |
| Idempotency middleware `src/api/middleware/` | `idem:<key>` | lookup, replay, cache the answer after it is sent |
| Webhook sender `src/infrastructure/webhook/WebhookSender.ts` | promises in flight | dispatchWebhooks, attemptDelivery, processWebhookRetries, deliverWebhook |
| Webhook repository `src/infrastructure/db/WebhookRepo.ts` | `webhook_registrations`, `webhook_deliveries` | register, findByMerchantId, createDelivery, updateDelivery, getPendingDeliveries |
| Routes, error handler, domain errors | none | which operation a request reaches, which status it is answered |
| Application `src/app.ts` | the process itself, the worker's timer | start, shutdown |
| Migrations `db/migrate.ts`, `db/migrations/` | the schema, `schema_migrations` | migrate |

**How they interact.** A route calls one service operation. An operation is a
chain of awaited calls to the repository and to Redis; between any two of them
every other request, on this or another process, may run. Only
`transitionStatus` is atomic: on a client of the pool it locks the row, updates
it and inserts the audit entry in one database transaction. After an outcome is
committed the service calls `dispatchWebhooks` without awaiting it; the sender
inserts one delivery row per subscribed hook and starts a first HTTP attempt,
again without awaiting it. Every 30 s (and on `POST /webhooks/retry`) the worker
reads the rows that are due and starts jobs that look their row up again. The
error handler turns what an operation throws into the status a client goes by.

**What is hard here.**

- A status is validated on an unlocked read and written, under the row lock but
  without another look, several awaits later.
- The OTP's "consume" is two Redis commands; initiatePayment stores its OTP after
  the row is there for everyone; the process lock expires on its own and is
  released unconditionally; the cache is invalidated after the write, by some
  writers only.
- A crash or a failed call can fall between any two steps: after PROCESSING,
  after the debit, after the outcome but before the event, after the INSERT but
  before the OTP, while a COMMIT is under way. Shutdown does not wait for
  requests, so a deploy is a crash.
- Writers hold a client of the pool while they wait for the row lock, so the pool
  can be full of calls that wait for each other; a client must come back clean.
- Deliveries are written by a first attempt and by any number of worker jobs,
  none of which awaits the others.
- One idempotency key is written by two components with different bodies.
- Two runs of the migrations read one ledger before either has written it.

`PROJECT.json` lists each of these hazards at its line, with the properties that
speak of it.

**What correct means, per component.**

- *Payment*: the audit trail explains the row; entries are moves of the table;
  debits, SUCCESS entries and announced events agree; retries stay below the
  maximum; nothing terminal or orphaned is touched; a payment leaves PROCESSING.
- *Lock*: one holder; always freed. *OTP*: used once. *Cache*: the row, or nothing.
- *Repository*: a transition happens as a whole or not at all and its caller
  knows which; clients come back clean; every call and every shutdown ends.
- *Webhooks*: at most one receipt, SUCCESS means received, PENDING ends, FAILED is
  retried, and a retry reaches the merchant (of these the last two do not hold).
- *Idempotency*: one transaction, one OTP, one answer per key.
- *Checkout, all of it together*: one charge, the code in hand is the one that
  verifies, and a client that keeps trying gets its payment to the end.
- *Migrations*: the ledger is the schema, without gaps; every run ends; the first
  run on the documented setup succeeds (which it does not).

## 2. Modules

| Module | What it is |
|---|---|
| `StateMachine` | The transition table, its validators and the fractional backoff; no state. |
| `TransactionStore` | Abstract specification of the repository: row and trail change in one step. |
| `TransactionRepo` | transitionStatus statement by statement over the pool, the sessions, the row lock and the process; implements `TransactionStore`. |
| `PaymentLifecycle` | Abstract specification of one payment: moves of the table, one debit, bounded numbered retries, a trail. |
| `PaymentService` | On `TransactionStore`: five operations of several concurrent requests on one transaction, cut at every await, with OTP, lock, cache, bank, retry log and events. |
| `InitiatePayment` | The idempotency middleware, the route and initiatePayment under one key. |
| `Checkout` | `InitiatePayment` and `PaymentService` composed by the routes and the error handler, with a client that goes by its answers and OTPs told apart. |
| `Webhooks` | Registration, dispatch, first attempts and the retry worker for one merchant. |
| `Migrations` | Overlapping and repeated runs of migrate.ts. |
| `*Proofs` | TLAPS theorems about the module in the name; of `PaymentService`: `PaymentServiceProofs` (types, trail, lock), on it `PaymentAccountingProofs` (counting, the store), on it `PaymentSerialProofs` (calls that do not overlap, or only readers that do: refinement, OTP, cache). `CheckoutProofs` extends `InitiatePaymentProofs` and instantiates `PaymentSerialProofs` for its service. |
| `MC*` | TLC instances (one definition of inputs; the other constants are in the `.cfg` files). |

Definitions marked "Fault-seeded" are what the code would be with a plausible
mistake in it. No specification uses them; each shows that a property notices.

### PaymentService

One action runs from one await to the next; `pc[r]` names the await a request
stands at, `snap[r]` is its `txn` local, `bankResult[r]` its bank answer.
A request that is refused at its first step changes nothing and is a stutter.

| Code | Actions |
|---|---|
| authenticateUser 96-146 | AuthRead, AuthOtpGet, AuthOtpDel, AuthExpire, AuthCommit, AuthInval |
| processPayment 151-219 | ProcLock, ProcLockUnacked, ProcRead, ProcStart, ProcBank, ProcFinish, ProcInval, ProcRelease (the finally clause) |
| reconcileTransaction 224-254 | ReconRead, ReconCommit, ReconInval |
| retryPayment 275-332 | RetryRead, RetryLog, RetryCommit, RetryOtp, RetryInval |
| getTransaction 259-270 | GetMiss, GetRead, GetFill |
| the end of initiatePayment 69-75 | InitialOtp |
| Redis TTLs | OtpExpire, CacheExpire, LockExpire |
| crash, rejected call | Crash, Fail |

`faults` is chosen initially and never changes, so that one run covers several
sets of faults. Until `initiating` is FALSE, initiatePayment may still store the
first OTP, whatever has happened to the transaction since.

Abstractions: the bank reference is "present or not"; `failure_reason`,
timestamps and metadata are left out (no operation decides on them); the OTP is
"a hash is stored", and whether the client's code matches is a choice (`Checkout`
tells the codes apart); an event is counted when `dispatchWebhooks` is called,
what becomes of it is in `Webhooks`. A call that fails after it took effect is
`Fail` at the next label; for the lock, which is taken outside the try block, it
is `ProcLockUnacked`. A process that dies in a COMMIT which the server goes on with
counts as being at its label until the server is done: the step, if it is executed,
and then `Crash`. `RetryLog` may refuse, because `delay_ms` is an INTEGER
column and the delay is a jittered fraction unless it is capped: with the default
limits the refusal is what nearly always happens, with `RETRY_MAX_DELAY_MS` at or
below the base delay it never does.

### TransactionRepo

One action is one statement as the server executes it; `pc[c]` names the
statement a call has sent, `tx[k]` is the transaction of session k as the server
sees it, `owner` the session with the row lock, `waiting` pg-pool's queue.

| Code | Actions |
|---|---|
| postgres.ts getPool, pg-pool | Connect, Grant, GrantTimeout |
| withTransaction 28-42 | Begin, Commit, StatementFails, Rollback, Release |
| transitionStatus 97-159 | Lock, Update, Insert |
| query 45-59 | Read |
| app.ts shutdown, closePool, closeRedis | Shutdown, PoolEnded, RedisClosed, Exit |
| app.ts start | Restart |
| kill, lost connection, server | ConnectionLost, SessionEnds |

pg emits `error` on a client whose connection is lost. The pool listens for it on
idle clients only, so a loss inside withTransaction ends the process: that is why
`ConnectionLost` is a crash. A process that dies with its COMMIT under way leaves
an orphaned session that commits or aborts (`SessionEnds`), and its successor
waits for the row lock. Each call happens once. Its `from` is a status the row has or
has had when it is made (`Connect`): the service read it several awaits earlier.
`Shutdown` is taken again by a second signal: it ends a pool that a late call has
made anew, and finds nothing to wait for in one that is being ended or is gone. A
call whose wait times out leaves pg-pool's queue at whatever place it has there, and
the queue of a pool that was ended is gone. Two clients are as good as any two, so
`Grant` takes one free session.

### InitiatePayment

Answers are abstracted to their kind: `full` (with OTP), `bare` (201 without
one), `raw` (the transaction object replayed from the cache), `400`, `500`,
`lost`. The middleware's cache write runs after the answer has been sent. Only
the lines that touch shared state are steps. The key's 24 h TTL is assumed to
outlast a request: what a request in flight finds under the key was written
after it had found the key missing, so the key expires only between requests.

### Checkout

The tries of `InitiatePayment` and the handlers of `PaymentService` (`Svc`, an
INSTANCE whose `initiating` and `otp` are functions of the tries and of the
stored code) are joined by what a client does and is told.

| Code | Actions |
|---|---|
| payment.routes.ts `/initiate` | Initiate, Try, TryBreaks, HearTry |
| the other payment routes: accepted, or refused before anything changes | Authenticate, Process, Reconcile, Retry, Look |
| handlers, and the answer they come to | Serve with `Answers`, ServeBreaks |
| the COMMIT a dead process has left with the server | OrphanEnds |
| errorHandler.ts, DomainErrors.ts | `httpStatus`, `Refused`, ServeBreaks |
| TTLs | IdemExpires, OtpExpires, CacheExpires, LockExpires |
| the client (environment) | Abandon, Hear, Rest |

OTP number 1 is issued by initiatePayment, number n+1 by the n-th retry; `stored`
is the number under `otp:<id>`. The client makes one call at a time, acts on the
status it was told last (the cache may have told it an old one), looks it up
whenever it likes, enters a code once, and, if it is not `patient`, stops waiting
for an initiate and tries again while the first is still running. It takes the
transaction's id from a "raw" replay, where it is called `id`, although the API
documents `transactionId`: otherwise a lost first answer would be the end.

`orphan` is a call whose process died in a COMMIT that the server goes on with. The
client is told "lost", may read the row and call again; the orphan's COMMIT lands
later, or is aborted (`OrphanEnds`), and until then whoever else wants to write the
row waits for its lock (`WritePcs`). So an authenticate may validate INITIATED, wait
behind an orphaned authenticate, and write over its AUTHENTICATED. What is assumed:
an orphaned COMMIT is over before the process lock of its call expires (30 s), there
is one of them at a time, and single statements and Redis commands under way at a
death, as well as the COMMIT of a try's INSERT, have been executed or not by then.
Which idle slot takes a call is of no matter (`Sends` chooses).

### Webhooks

`delivery` is the table by event and hook, `first` the first attempt of each
row, `worker` the batch each worker run has left, `job` the `deliverWebhook`
calls in flight. Times are reduced to "due, later, NULL". `received` counts what
the merchant's endpoint has seen; an HTTP error or timeout may or may not have
reached it. `rank` is the place of a PENDING row in the order of `next_retry_at`:
a PENDING row keeps the due time it was inserted with, so the batch is the oldest
`BatchLimit` rows. The due time is DEFAULT NOW(), the start of the inserting
transaction, and the model's order is that of the commits: two INSERTs that overlap
may stand the other way round in the database, which changes who is read first and
nothing else. `maxRetries` is a variable that never changes, so that one run
covers several configurations. The placeholder host the
worker posts to is external: what it may answer is the CONSTANT
`PlaceholderAnswers`, and in the passing run it answers or not, but never with a 2xx.
Failed queries follow the code: inside the try block a failed update
is followed by the catch block's update (`FirstUpdateFails`, `JobUpdateFails`),
elsewhere the error is logged and the rest is dropped (`QueryFails`).

### Migrations

One action is one statement of migrate.ts (Start, CreateTable, Select, Begin,
Apply, Record, Commit, Rollback), with failing statements, runs that die and the
server that notices. `schema[f]` counts how often file f was committed;
`Repeatable` are the files whose statements succeed a second time (IF NOT
EXISTS). Catalog locks and the primary key of `schema_migrations` keep a second
session waiting until the first has ended (`Blocked`). `mounted` is the database
docker-compose has initialised: it mounts the migration files where Postgres runs
them once, without a ledger.

## 3. Runs

| Run | Question | Bounds |
|---|---|---|
| payments_races | What can no race, crash, failed call or expiry break? Is the lock a lock, and always freed; do debits, trail and events agree; does PROCESSING end? | 2 requests, 1 retry, new writing calls until 4 audit entries, faults {slow} and {crash, error}, fairness |
| payments_serial | When calls do not overlap: is the promised lifecycle implemented, an OTP used once, the cached row the row, and what is RECONCILED or orphaned never moved? | 1 request, 3 retries, 12 entries, no fault and all faults |
| repo_statements | Is transitionStatus one step, does its caller know what happened, do calls and shutdowns end? | 3 writers and 1 reader, a pool of 2, 3 sessions, 1 failed statement or lost connection, 1 or 2 signals, a restart, fairness |
| checkout | Does one payment survive it all together: one transaction, one charge, the right code, an end? | 2 tries, 2 slots, 1 retry, 1 failure anywhere, patient and impatient clients, delays that are fractions, fairness |
| webhooks | What can first attempts, two overlapping worker runs, crashes and failed queries not break, and does a delivery always leave PENDING, behind an older one and a batch limit too? | 1 event, 2 hooks, 2 workers, 1 job, batch of 1, limits 0 and 5, 1 fault, fairness |
| migrations | Do overlapping, failing and dying runs keep the ledger true, and end? | 3 runners, 2 files (one repeatable), 4 runs, 2 faults, empty and mounted database, fairness |

Why the bounds suffice.

- Every race in the service is between two calls (each handler reads once and
  writes once or twice), so two requests reach all of them; a slot is used again
  and again, so sequences are bounded only by the trail. Four entries hold a whole
  attempt up to its FAILED and the reset; calls that are in flight then still
  finish. Without overlap, in payments_serial, twelve hold three resets.
- Three writers on a pool of two: both clients taken by calls that wait for one
  another, and a third behind them. Three sessions: one of them may be an orphan
  while both clients are in use.
- In `checkout` a second try is what a client that got nothing, or gave up, sends,
  and a second slot takes the call it makes while an orphaned COMMIT is pending;
  there is at most one of those, and one call besides. With two failures instead of
  one the safety properties pass too. `BaseDelay` and `MaxDelay` are chosen like the
  shipped limits, so that a first retry is delayed by a fraction and may be refused
  (see below), or happen to be accepted: both are in the run.
- Two hooks show that deliveries do not disturb each other and make the batch
  limit bite; two workers read the same row and race to give it to the job. Two jobs
  at once and two faults are beyond a run with fairness; the theorems about
  `Webhooks` cover any number of either. A retry limit of 0 is the only one under
  which the worker itself dead-letters: a PENDING row never counts an attempt
  (NeverAttemptedTwice).
- Two migration runs overlap in pairs, the third finds what they left; one file
  that can be repeated and one that cannot are the two kinds there are.
- Two signals are all a shutdown can tell apart: the first one and a repeated one.

Bounds are named: `MaxAudit` (no new writing call once the trail is that long;
calls in flight finish), `MaxFaults`, `MaxFailures`, `MaxSignals`, `MaxRuns`,
`Jobs`. `MaxAttempts`, `BaseDelay`, `MaxDelay`, `RetryLimits`, `BatchLimit` and
`PoolMax` are the program's own limits. Deadlock is checked everywhere but in
repo_statements, whose calls happen once, so that the system comes to rest.

### Disagreements with the repository's words

Each is a run that TLC must find violated.

| Run | Said | What happens |
|---|---|---|
| finding_stale_transition | invalid jumps are rejected (README.md:433) | a handler admitted earlier writes over any status |
| finding_otp_reuse | atomic GET+DEL, consumed once (README.md:431) | two calls authenticate with one OTP |
| finding_webhook_retry | backoff and dead letter after 5 attempts (README.md:435) | FAILED is never looked at again |
| finding_webhook_placeholder | exponential backoff on delivery failure (README.md:435), 'http://placeholder', "Will be replaced with actual URL" (WebhookSender.ts:69) | the worker posts to `http://placeholder`: whatever it gets an answer from is not the merchant |
| finding_migrate_mounted | docker-compose up, then `npm run migrate`: "All migrations applied successfully" (README.md:83-94) | docker-compose has applied the files itself, unrecorded, and the first run fails on the first CREATE TYPE |
| finding_initiate_replay | duplicates get identical responses (README.md:35) | the replay has another shape and no OTP |

Other disagreements met while modelling, which no run is spent on:

- The process lock lives 30 s whatever its holder does, is released
  unconditionally, and is not looked at again: a handler slower than that (allowed
  by "slow") lets a second one debit the payment too, although the
  lock "prevents duplicate processing" (PaymentService.ts:154).
- With the default limits (1000 ms, at most 30000) a retry the service has
  accepted answers 500, because its delay is a fraction (`RetryLog`), although the
  test expects 200 (tests/fullPaymentFlow.test.ts:189). `checkout` runs with such
  limits, and `Ended` admits the FAILED payment that stays so.
- "Current transaction status" (README.md:303): PROCESSING, and the FAILED of an
  expired OTP, do not invalidate the cached transaction, and a reader may cache an
  older row after a writer's invalidation.
- The worker "picks up FAILED deliveries" (WebhookSender.ts:179): it picks up
  PENDING ones, also while their first attempt is in flight, and then writes
  FAILED over the SUCCESS of that attempt.
- The route says "OTP sent to payer" (payment.routes.ts:77) also when it returns
  a row another request has created without storing an OTP yet, or ever.

### Fairness

Weak fairness unless said otherwise, always on what the program or the server
does by itself and never on faults.

- `PaymentService!FairSpec`: the steps of a call in flight (an awaited call
  resolves or rejects, and Node then runs the continuation) and the lock's TTL. No
  fairness on clients and on the other TTLs.
- `Webhooks!FairSpec`: the same for dispatches, first attempts, jobs (axios has a
  timeout) and worker runs (a timer that keeps firing), and the passing of time.
- `TransactionRepo!FairSpec`: some call's statement that the server can execute is
  answered, or its wait for a client times out; the server notices a client that
  is gone; shutdown goes on. Nobody is bound to call, to signal or to restart.
- `Migrations!FairSpec`: a statement that is not kept waiting is answered, and
  again the server notices.
- `Checkout!CheckoutFairSpec`: handlers run to their end, the server executes or
  aborts an orphaned COMMIT, the cache entry and the lock expire, and, as an
  assumption on the client and not on the code, it sends,
  hears and looks again and again, and acts when it can again and again (strong
  fairness: looking the status up for ever is not paying).

## 4. What is proved

For all values of the constants, within the assumptions the modules name (finite
sets of requests, slots, hooks and sessions, natural-number limits, known operations
and faults, requests told apart). Every invariant and every safety property of a
passing run is among them; the theorems that no run states follow from
others, or were tried with TLC on instances like the runs' before they were proved.

| Theorem | Statement | Argument |
|---|---|---|
| *PaymentServiceProofs* | | |
| TypeCorrect | `Spec => []TypeOK` | `TInv`: a request past its read holds a real transaction in `snap`, one past the bank an answer in `bankResult`; TypeOK alone is not inductive because a step writes what a local holds. |
| TrailLegal | `Spec => []AuditEntriesLegal` | `TrailInv`: each admitted handler's `snap` is a status the payment held (`Sourced`), and a handler between PROCESSING and its outcome has a PROCESSING entry behind it. The current status is never needed for this. |
| LockExcludes | `Spec => []OneProcessor` | `LockInv`: unless handlers are slow, the lock is set while a handler is inside and only one is; acknowledgements lost on the way leave it set with nobody inside. |
| OrphanForever | `Spec => FrozenForGood` | From the type invariant: no start is enabled on the row, no admitted writer exists. |
| *PaymentAccountingProofs* | any number of requests | |
| RowIsItsTrail, OnlyOldVersions | `Spec => []AuditReplaysRow`, `[]NothingInvented` | `ReplayInv`: the row is the version of the whole trail, and what is cached or held is a version of a part of it; `Version(n)` does not change when entries are appended. |
| AttemptsTraced | `Spec => []RetriesTraced` | `RetryInv`: what a retry has in `snap` is a count that was traced, and from `retryLog` on the number after it is in the log (`Numbered`). |
| DebitsAccounted, AnnouncementsAccounted | `Spec => []ChargesAccounted`, `[]EventsAccounted` | `AccountInv`: counts of entries and of handlers by the label they stand at, one step moving one of each; PROCESSING entries outnumber debits by the handlers at the bank. |
| ServiceUsesStore | `Spec => TransactionStore!Spec` | The handlers touch row and trail through transitionStatus only, with an attempt number within the limit, because `TInv` knows what a retry has validated (`Admitted`). |
| OrphanNeedsFault | `Spec => []Settling`: without crashes and failed calls a PROCESSING payment has a handler at the bank or about to record its answer | Inductive with `TInv`: whoever leaves the bank's labels writes the status, whatever it then was. |
| *PaymentSerialProofs* | any number of slots; no two calls in flight at once that may change the payment (`[]OneWriter`), or no two at all (`[]NoOverlap`) | |
| OneWriterImplementsLifecycle | `Spec /\ []OneWriter => ImplementsLifecycle` | `SerialInv`: the `snap` of an admitted handler is the row itself (`Current`), so each write is a move of the table and each debit is taken in PROCESSING; a reader's step touches nothing of this (`ReaderStep`). |
| OneWriterTellsAll | `Spec /\ []OneWriter => [](DebitDecides /\ TrailIsWalk /\ TrailBounded)`: one debit at most, which the status shows; the trail is a walk from INITIATED to the status, of at most 4 * (MaxAttempts + 1) entries, and TLC finds walks of that length | `WalkInv`, on the lifecycle's moves: each deepens the walk by one, and a reset, which costs a retry, pays for four. |
| OneWriterSpendsOtpOnce | `Spec /\ []OneWriter => []OtpConsumedOnce` | `OtpInv`: AUTHENTICATED entries and codes that may still make one (`Codes`: stored, being consumed, about to be issued) do not exceed the codes issued. |
| NoOverlapKeepsCacheTrue | `Spec /\ []NoOverlap => []CacheCoherentBetweenCalls` | `CacheInv`: without faults the cached row is the row unless a handler that will invalidate it is under way, or the last entry is that of an expired OTP. With a reader that overlaps it is false: it may cache what it read before the write. |
| SerialImplementsLifecycle, OtpSpentOnce, CacheTrueBetweenCalls | the same for `Spec` with one request slot, as in payments_serial | With one slot no two calls overlap. |
| *TransactionRepoProofs* | | |
| RepoTypes | `Spec => []TypeOK` | `Queue`: who stands in the queue waits, once each; a timed-out call leaves it by position, so no call is handed two clients. |
| StatementsImplementStore | `Spec => ImplementsStore` | `RInv`: from FOR UPDATE to the end of its transaction a session owns the row lock and what it has drafted is made of the row as it still is (`Staged`); so is what an orphaned COMMIT will commit (`Left`). |
| ConnectionsClean | `Spec => []PoolClean` | `RInv`: clients are exclusive to the call that has them; a session neither in use nor orphaned has no transaction. |
| OutcomesKnown | `Spec => []OutcomeKnown` | `RInv`: who has committed is on the log once (`Logged`). |
| LockNotHeldByWaiter | `Spec => []LockHolderRuns`: who owns the row lock is an orphaned session or a call whose next statement waits for nothing | `RInv`: the lock is taken with a client in hand, by the last statement that waits. |
| *CheckoutProofs* | | |
| CheckoutInitiates | `CheckoutSpec => InitiatePayment!Spec` | Every step is a step of a try, the expiry of the key, or leaves both alone: the theorems about `InitiatePayment` hold of `Checkout`. |
| CheckoutServes | `CheckoutSpec => ImplementsService` | The first OTP is stored, once and possibly late, by the one creator (`IInv`), which is what `PaymentService` assumes: its theorems hold behind the routes. |
| CheckoutChargesOnce | `CheckoutSpec => []ChargedOnce` | `ChargedInv`: in flight is only the slot the client waits for, and a dead call's COMMIT (`OneCall`); a handler reaches the bank only when no other COMMIT is left with the server, and none arises before its outcome (`AtBank`); so a status validated allows the debit although an orphan may still write (`Going`), and no row that leads to another debit follows one (`Money`). |
| CheckoutCodeWorks | `CheckoutSpec => []HeldCodeVerifies` | `HeldInv`: a patient client's tries run one at a time and only before it has a code (`Trying`), a code is held only between its issue and its use, with the row INITIATED (`Holding`), and the answer to a retry is about the code just stored (`Serving`, `Fresh`); the COMMIT of a dead call lands only while no code is held. |
| CheckoutTypes | `CheckoutSpec => []CheckoutTypeOK` | The service's types through CheckoutServes; a code number is one more than a retry count, which is within the limit. |
| CheckoutKeepsPromises | `CheckoutSpec => []ServicePromises`: all that PaymentAccountingProofs and TrailLegal say of overlapping calls | The theorems of `PaymentService` itself, instantiated as CheckoutServes says. |
| CheckoutImplementsLifecycle, CheckoutTellsAll, CheckoutSpendsOtpOnce | `CheckoutSpec /\ []SettledFirst =>` ImplementsLifecycle, `[](DebitDecides /\ TrailIsWalk /\ TrailBounded)`, `[]OtpConsumedOnce`, where `SettledFirst` says that an orphaned COMMIT is executed or aborted before a call that may change the payment is under way | A client that waits for its answers has one call in flight besides an orphan (`OneCall`), so SettledFirst gives `[]OneWriter`. Without it they are false, as TLC shows: a dead authenticate's COMMIT lands under the next authenticate, whose entry then starts from INITIATED too. |
| CheckoutLivesOn | `"crash" \notin Faults`: `CheckoutSpec => ImplementsLifecycle` | Only a death leaves an orphan (`NoDeathNoOrphan`): whatever else fails, the proviso holds of itself. |
| CheckoutKeepsCacheTrue, CheckoutFreezes | NoOverlapKeepsCacheTrue and OrphanForever, of `CheckoutSpec` without a proviso | The first is about runs without faults, the second about any calls. |
| *InitiatePaymentProofs* | | |
| OneTransaction, OneOtp, NoOtpCached | `Spec => []` OneTransactionPerKey, OtpHandedOutOnce, CacheHoldsNoOtp | `IInv`: one creator at most, and only with a row; while it is about to answer or to cache the answer, the service's own entry holds the key, which can expire only between requests. |
| *WebhooksProofs* | | |
| WebhookTypes | `Spec => []TypeOK` | Jobs and batches name rows that exist. |
| NeverAttemptedTwice | `Spec => []NoSecondAttempt` | `AttemptInv`: a PENDING row has no attempts, so a batch item counts 0 and a job writes 1; NoSecondAttempt alone says nothing of the copies workers and jobs hold. |
| ReceivedOnce | `Spec => []ReceivedAtMostOnce` | `ReceiptInv`: a first attempt about to post, or still to be made, has not been received. |
| WorkerCannotDeliver | `Spec => LostForGood`: how far finding_webhook_placeholder goes | Only the first attempt's request adds to what is received. |
| SuccessIsReal | `"2xx" \notin PlaceholderAnswers`: `Spec => []SuccessWasReceived` | `AnswerInv`: an answer in hand was received, and no job holds a 2xx. |
| WorkerReadsOldest | `Spec => []WorkerSeesQueue`: PENDING rows are due, have places of their own, and a batch is the oldest `BatchLimit` of them, no fewer | `OrderInv`: ranks of PENDING rows differ and are below the number of rows; the places of the queue are a bijection to 0, 1, 2, ... |
| QueueMovesForward | `Spec => NotOvertaken`: the place of a PENDING row never grows | `RowStep`: a step inserts at the end of the queue or takes a row out of it. |
| FailedIsForGood | `Spec => AbandonedForGood`: a FAILED row whose attempt is over, and which no worker run or job has in hand, stays so | `HolderInv`, and the batch is made of PENDING rows: what finding_webhook_retry rests on, for every limit. |
| *MigrationsProofs* | | |
| TypeCorrect, LedgerTrue, LedgerPrefix | `Spec => []` TypeOK, LedgerIsSchema, LedgerIsPrefix | `MInv`: what an open transaction has applied and recorded follows from where its run stands (`Draft`), no two sessions have recorded one file, and the files before a run's are in the ledger (`Progress`). |
| MountedStays | `Spec => []MountedIsNeverMigrated`: how far finding_migrate_mounted goes, for any number of runs | A file that cannot be repeated is applied only where `schema` does not have it, which LedgerIsSchema excludes on a mounted database. |
| RunnersNeverDeadlock | `Spec => []NoDeadlock`: who is kept waiting waits for a transaction that moves, or for one that waits for one that moves | Waiting for a catalog lock is waiting for an applier of the same file, waiting for the ledger's key for a recorder, which waits for nobody. |

How the pieces fit: `TransactionRepo` implements `TransactionStore`
(StatementsImplementStore), and `PaymentService` changes the row by steps of
`TransactionStore` only (ServiceUsesStore); `PaymentService` is proved about for any
number of overlapping calls, and as long as only readers overlap it implements
`PaymentLifecycle`; `Checkout` shows that the routes and initiatePayment are the
environment `PaymentService` assumes, and that one client's calls overlap with nothing
but the COMMIT of a dead one. If that is settled first, or nothing dies, the whole of it
holds of a payment from its first initiate to its end; if it lands late, one debit, the
accounts and the code in hand still do, and a gapless trail does not. Nothing
proved depends on `MaxAudit` or on another bound of the runs having some value.

Model-checked only: liveness (LockReleased, ProcessingSettles, PendingSettles,
CallsEnd, ShutdownEnds, RunsEnd, CheckoutEnds), which the prover cannot express;
the refinements are therefore about initial states and steps, and the abstract
specifications state no liveness. Safety facts that four of them rest on are
proved: OrphanNeedsFault (somebody is there to settle), WorkerReadsOldest and
QueueMovesForward (the limit hides no delivery for good), LockNotHeldByWaiter and
RunnersNeverDeadlock (nobody waits in a circle). That the step which is then
possible is taken is what fairness adds and what only TLC checks.

## 5. Not modelled

- The order in which getAuditLog lists entries: `created_at` is the BEGIN time of
  a transaction, so two that wait for one row lock can be listed the wrong way
  round. Only what is shown is affected; the models keep commit order.
- Routes that only read and are read by nobody who acts on it: GET
  `/:id/audit`, GET `/merchant/:id`, the health check.
- The wording of answers and logs, HMAC signatures, CORS, request ids, body
  validation beyond "refused", configuration parsing: none changes state.
- `computeBackoffDelay` as a number: it is random; what matters of it is whether
  it may be a fraction and that a due time lies later. `getValidNextStates`,
  `isTerminalState`, `OTPStore.get` and `IdempotencyCache.delete` have no caller,
  the table `idempotency_keys` no statement.
- The Haskell counterpart of the state machine, which nothing runs, `dist/`, which
  is compiled from `src/`, and `node_modules/`.
- The Redis connection beyond failing calls, and Postgres beyond one row, one
  ledger and their locks.

## 6. What could come next

1. Webhooks composed with the service, so that an event is followed from the
   commit to the merchant; today EventsAccounted ends where `Webhooks` begins.
2. Clients that overlap on one payment in `Checkout`: the service's races are in
   payments_races, but not what two clients would be told.
3. Several transactions over one pool: CallsEnd is about calls on one row.
4. OneWriter once more weakened: a call that is refused without having written, and
   an authenticate that finds the wrong code, are harmless too.
