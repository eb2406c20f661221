---------------------------- MODULE InitiatePayment ----------------------------
(***************************************************************************)
(* POST /payments/initiate under one Idempotency-Key: the idempotency      *)
(* middleware, the route and PaymentService.initiatePayment, for a client  *)
(* that sends the same key several times, at once or one after the other.  *)
(*                                                                         *)
(* An answer is abstracted to its kind:                                    *)
(*   "full"  201 from the route, with transactionId and simulatedOtp       *)
(*   "bare"  201 from the route, with transactionId, without an OTP        *)
(*   "raw"   201 replayed from the cache: the transaction itself, whose    *)
(*           id is not called transactionId, without an OTP                *)
(*   "400"   validation error;  "500"  anything else                       *)
(*   "lost"  no answer: the process died or the request hangs              *)
(***************************************************************************)
EXTENDS Naturals, FiniteSets

CONSTANTS
  Req,     \* the requests carrying the key
  Faults   \* "crash": a request's process dies; "error": an awaited call
           \* rejects; "ttl": the cached answer expires (24 h)

ASSUME FaultsAssumption == Faults \subseteq {"crash", "error", "ttl"}

VARIABLES
  idem,        \* idem:<key>, the kind of the cached answer or "none"
  rows,        \* transactions rows with this idempotency_key
  otpIssued,   \* a hash was stored for the transaction
  pc,          \* where each request stands
  reply,       \* what each request was answered
  cacheWrite   \* the answer each request's patched res.json is still caching

vars == <<idem, rows, otpIssued, pc, reply, cacheWrite>>

-------------------------------------------------------------------------------
Reply == {"full", "bare", "raw", "400", "500", "lost"}

TypeOK ==
  /\ idem \in {"none", "full", "bare", "raw", "400"}
  /\ rows \in Nat
  /\ otpIssued \in BOOLEAN
  /\ pc \in [Req -> {"new", "svcGet", "find", "create", "storeOtp", "svcSet",
                     "audit", "done"}]
  /\ reply \in [Req -> Reply \cup {"none"}]
  /\ cacheWrite \in [Req -> {"none", "full", "bare", "400"}]

Init ==
  /\ idem = "none" /\ rows = 0 /\ otpIssued = FALSE
  /\ pc = [r \in Req |-> "new"]
  /\ reply = [r \in Req |-> "none"]
  /\ cacheWrite = [r \in Req |-> "none"]

-------------------------------------------------------------------------------
Goto(r, label) == pc' = [pc EXCEPT ![r] = label] /\ UNCHANGED <<reply, cacheWrite>>

\* Fault-seeded: 500s are cached too.
AnswerUncached_cached(r, kind) ==
  /\ pc' = [pc EXCEPT ![r] = "done"]
  /\ reply' = [reply EXCEPT ![r] = kind]
  /\ cacheWrite' = [cacheWrite EXCEPT ![r] = IF kind = "500" THEN kind ELSE @]

\* Answered without going through the patched res.json, or with a 500.
AnswerUncached(r, kind) ==
  /\ pc' = [pc EXCEPT ![r] = "done"]
  /\ reply' = [reply EXCEPT ![r] = kind]
  /\ UNCHANGED cacheWrite

\* The patched res.json sends the answer and starts to cache it.
Answer(r, kind) ==
  /\ pc' = [pc EXCEPT ![r] = "done"]
  /\ reply' = [reply EXCEPT ![r] = kind]
  /\ cacheWrite' = [cacheWrite EXCEPT ![r] = kind]

\* Fault-seeded: SET without NX.
setIfAbsent_overwrites(kind) == idem' = kind

\* IdempotencyCache.setIfAbsent: SET NX.
setIfAbsent(kind) == idem' = IF idem = "none" THEN kind ELSE idem

\* The middleware replays a cached answer as it is; otherwise the body is
\* validated, reading nothing shared, and a bad one is answered 400.
Middleware(r) ==
  /\ pc[r] = "new"
  /\ IF idem # "none" THEN AnswerUncached(r, idem)
     ELSE Answer(r, "400") \/ Goto(r, "svcGet")
  /\ UNCHANGED <<idem, rows, otpIssued>>

\* initiatePayment looks the key up again and takes what it finds for a
\* Transaction: on any cached body but the raw one the route finds no metadata
\* to read simulatedOtp from, and throws.
SvcGet(r) ==
  /\ pc[r] = "svcGet"
  /\ CASE idem = "none" -> Goto(r, "find")
       [] idem = "raw"  -> Answer(r, "bare")
       [] OTHER         -> AnswerUncached(r, "500")
  /\ UNCHANGED <<idem, rows, otpIssued>>

\* findByIdempotencyKey: "after Redis TTL".
Find(r) ==
  /\ pc[r] = "find"
  /\ IF rows > 0 THEN Answer(r, "bare") ELSE Goto(r, "create")
  /\ UNCHANGED <<idem, rows, otpIssued>>

\* Fault-seeded: no UNIQUE constraint on idempotency_key.
Create_noUnique(r) ==
  /\ pc[r] = "create"
  /\ rows' = rows + 1 /\ Goto(r, "storeOtp")
  /\ UNCHANGED <<idem, otpIssued>>

\* The INSERT; the UNIQUE constraint turns a second one into an unknown error.
Create(r) ==
  /\ pc[r] = "create"
  /\ IF rows = 0 THEN rows' = 1 /\ Goto(r, "storeOtp")
     ELSE AnswerUncached(r, "500") /\ UNCHANGED rows
  /\ UNCHANGED <<idem, otpIssued>>

\* Fault-seeded: the OTP is returned but not stored.
StoreOtp_skips(r) ==
  /\ pc[r] = "storeOtp"
  /\ Goto(r, "svcSet")
  /\ UNCHANGED <<idem, rows, otpIssued>>

StoreOtp(r) ==
  /\ pc[r] = "storeOtp"
  /\ otpIssued' = TRUE
  /\ Goto(r, "svcSet")
  /\ UNCHANGED <<idem, rows>>

\* The service caches the bare transaction before the route has built its answer.
SvcSet(r) ==
  /\ pc[r] = "svcSet"
  /\ setIfAbsent("raw")
  /\ Goto(r, "audit")
  /\ UNCHANGED <<rows, otpIssued>>

\* getAuditLog only reads; then the route answers.
Audit(r) ==
  /\ pc[r] = "audit"
  /\ Answer(r, "full")
  /\ UNCHANGED <<idem, rows, otpIssued>>

\* The SET that the patched res.json started and did not wait for.
CacheWrite(r) ==
  /\ cacheWrite[r] # "none"
  /\ setIfAbsent(cacheWrite[r])
  /\ cacheWrite' = [cacheWrite EXCEPT ![r] = "none"]
  /\ UNCHANGED <<rows, otpIssued, pc, reply>>

-------------------------------------------------------------------------------
\* The TTL is 24 h.  A request past the middleware found no key there, so what
\* the key holds while that request is in flight is younger than the request,
\* and a request, its cache write included, takes far less than 24 h.
IdemExpire ==
  /\ "ttl" \in Faults
  /\ idem # "none"
  /\ \A r \in Req : pc[r] \in {"new", "done"} /\ cacheWrite[r] = "none"
  /\ idem' = "none"
  /\ UNCHANGED <<rows, otpIssued, pc, reply, cacheWrite>>

Crash(r) ==
  /\ "crash" \in Faults
  /\ pc[r] # "new"
  /\ pc[r] # "done" \/ cacheWrite[r] # "none"
  /\ pc' = [pc EXCEPT ![r] = "done"]
  /\ reply' = [reply EXCEPT ![r] = IF @ = "none" THEN "lost" ELSE @]
  /\ cacheWrite' = [cacheWrite EXCEPT ![r] = "none"]
  /\ UNCHANGED <<idem, rows, otpIssued>>

\* An awaited call rejects.  In the route next(error) answers 500; in the
\* middleware nothing catches it and the request hangs; in the cache write the
\* failure is only logged.
Fail(r) ==
  /\ "error" \in Faults
  /\ CASE pc[r] = "new"  -> AnswerUncached(r, "lost")
       [] pc[r] = "done" -> /\ cacheWrite[r] # "none"
                            /\ cacheWrite' = [cacheWrite EXCEPT ![r] = "none"]
                            /\ UNCHANGED <<pc, reply>>
       [] OTHER          -> AnswerUncached(r, "500")
  /\ UNCHANGED <<idem, rows, otpIssued>>

\* Every request is answered.
Done ==
  /\ \A r \in Req : pc[r] = "done" /\ cacheWrite[r] = "none"
  /\ UNCHANGED vars

Next ==
  \/ \E r \in Req : \/ Middleware(r) \/ SvcGet(r) \/ Find(r) \/ Create(r)
                    \/ StoreOtp(r) \/ SvcSet(r) \/ Audit(r) \/ CacheWrite(r)
                    \/ Crash(r) \/ Fail(r)
  \/ IdemExpire
  \/ Done

Spec == Init /\ [][Next]_vars

-------------------------------------------------------------------------------
(* Properties *)

\* However a client repeats, overlaps or resumes its request, with the cached
\* answer expired or never written, one key makes one transaction, and every 201
\* is about a transaction that exists.
OneTransactionPerKey ==
  /\ rows <= 1
  /\ \A r \in Req : reply[r] \in {"full", "bare", "raw"} => rows = 1

\* The OTP is handed out once: only the request that created the transaction
\* answers with it, and only after it was stored.
OtpHandedOutOnce ==
  LET full == {r \in Req : reply[r] = "full"} IN
  /\ Cardinality(full) <= 1
  /\ full # {} => otpIssued

\* The OTP never gets into the cache, whatever fails, expires or overtakes: the
\* service's own entry is there before the route's answer, which carries the OTP,
\* is written.  And what is replayed as a 201 is about a transaction that exists.
CacheHoldsNoOtp ==
  /\ idem # "full"
  /\ idem \in {"raw", "bare"} => rows = 1

-------------------------------------------------------------------------------
(* What the repository says of it and the code does not do. *)

\* "Duplicate requests return identical responses": all requests that are answered
\* 201 get the same answer.
IdenticalResponses ==
  \A r, q \in Req : {reply[r], reply[q]} \subseteq {"full", "bare", "raw"}
                      => reply[r] = reply[q]

===============================================================================
