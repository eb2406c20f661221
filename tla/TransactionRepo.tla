---------------------------- MODULE TransactionRepo ----------------------------
(***************************************************************************)
(* transitionStatus of src/infrastructure/db/TransactionRepo.ts statement  *)
(* by statement, over withTransaction, query and the client pool of        *)
(* postgres.ts and the shutdown of app.ts: several calls on one            *)
(* transactions row, the sessions Postgres keeps for the pool's clients,   *)
(* failing statements, lost connections, a process that is killed or told  *)
(* to stop, and its successor.                                             *)
(*                                                                         *)
(* A call sends one statement at a time and awaits its answer; one action  *)
(* is one statement as the server executes it.                             *)
(***************************************************************************)
EXTENDS TransactionStore, FiniteSets

CONSTANTS
  Writers,    \* calls of transitionStatus
  Readers,    \* calls of query, queryOne or getPool().query: one statement each
  Writes,     \* what each writer asks for: [Writers -> from, to, attempt, ref]
  Sessions,   \* Postgres sessions
  NoSession,  \* none of them
  PoolMax,    \* config.db.pool.max
  MaxFaults,  \* bound on failing statements and lost connections
  MaxSignals  \* bound on SIGTERM and SIGINT

Calls == Writers \cup Readers
Write == [from : TransactionStatus, to : TransactionStatus,
          attempt : 0..MaxAttempts, ref : BOOLEAN]

ASSUME CallsAssumption    == Writers \cap Readers = {}
ASSUME WritesAssumption   == Writes \in [Writers -> Write]
ASSUME SessionsAssumption == IsFiniteSet(Sessions) /\ NoSession \notin Sessions
ASSUME PoolAssumption     == PoolMax \in Nat /\ MaxFaults \in Nat /\ MaxSignals \in Nat

NoRow == [status |-> "NONE", retryCount |-> 0, bankRef |-> FALSE]

VARIABLES
  log,      \* the call behind each entry of audit
  pc,       \* where each call stands
  client,   \* the session of the client each call has checked out
  waiting,  \* the queue of the pool: calls that wait for a client
  tx,       \* per session: its open transaction, as the server sees it
  owner,    \* the session that holds the row lock
  orphan,   \* sessions whose process is gone, with the COMMIT it had sent or not
  proc,     \* the server process: "up", "stopping" (signalled) or "down"
  pool,     \* the pool variable: "open", "ending" or "none" (null)
  settled,  \* promises of shutdown's allSettled that have settled
  budget    \* faults and signals left

conn  == <<pc, client, waiting>>
sys   == <<proc, pool, settled>>
store == <<row, audit, log>>
vars  == <<row, audit, log, pc, client, waiting, tx, owner, orphan, proc, pool,
           settled, budget>>

\* A session's transaction: the row as it has updated it, the entries it inserted.
NoTx == [state |-> "none", row |-> NoRow, entries |-> <<>>]
Tx   == [state : {"none", "open", "failed"}, row : Txn \cup {NoRow}, entries : Seq(Writers)]

TxPcs    == {"begin", "lock", "update", "insert", "commit"}
HoldPcs  == TxPcs \cup {"rollback", "committed", "rolledBack", "read"}
FinalPcs == {"answered", "rejected", "gone"}
Pc       == {"todo", "queued"} \cup HoldPcs \cup FinalPcs

-------------------------------------------------------------------------------
\* Besides the types: a call has a client exactly while it uses one, and the pool's
\* queue lists calls that wait, each once.
TypeOK ==
  /\ row \in Txn
  /\ audit \in Seq(Entry)
  /\ log \in Seq(Writers)
  /\ pc \in [Calls -> Pc]
  /\ client \in [Calls -> Sessions \cup {NoSession}]
  /\ \A c \in Calls : client[c] # NoSession <=> pc[c] \in HoldPcs
  /\ waiting \in Seq(Calls)
  /\ \A i \in DOMAIN waiting : pc[waiting[i]] = "queued"
  /\ \A i, j \in DOMAIN waiting : waiting[i] = waiting[j] => i = j
  /\ tx \in [Sessions -> Tx]
  /\ owner \in Sessions \cup {NoSession}
  /\ orphan \in [Sessions -> {"no", "open", "committing"}]
  /\ proc \in {"up", "stopping", "down"}
  /\ pool \in {"open", "ending", "none"}
  /\ settled \subseteq {"pool", "redis"}
  /\ budget \in [faults : 0..MaxFaults, signals : 0..MaxSignals]

Init ==
  /\ StoreInit /\ log = <<>>
  /\ pc = [c \in Calls |-> "todo"]
  /\ client = [c \in Calls |-> NoSession]
  /\ waiting = <<>>
  /\ tx = [k \in Sessions |-> NoTx]
  /\ owner = NoSession
  /\ orphan = [k \in Sessions |-> "no"]
  /\ proc = "up" /\ pool = "open" /\ settled = {}
  /\ budget = [faults |-> MaxFaults, signals |-> MaxSignals]

At(c, label)   == pc[c] = label
Goto(c, label) == pc' = [pc EXCEPT ![c] = label]

\* Sessions of clients that are checked out, and sessions a client can have.
Held == {client[c] : c \in Calls} \ {NoSession}
Free == {k \in Sessions : k \notin Held /\ orphan[k] = "no"}

\* What the server does at the end of session k's transaction: the row lock is
\* freed, and after a COMMIT (of a transaction no statement of which failed) the
\* updated row and the inserted entries are there for everyone.
EndTx(k) ==
  /\ tx' = [tx EXCEPT ![k] = NoTx]
  /\ owner' = IF owner = k THEN NoSession ELSE owner

CommitTx(k) ==
  /\ EndTx(k)
  /\ IF tx[k].state = "open" /\ tx[k].row # NoRow
     THEN /\ row' = tx[k].row
          /\ log' = log \o tx[k].entries
          /\ audit' = audit \o [i \in DOMAIN tx[k].entries |->
                         LET w == Writes[tx[k].entries[i]]
                         IN [from |-> w.from, to |-> w.to, attempt |-> w.attempt]]
     ELSE UNCHANGED store

AbortTx(k) == EndTx(k) /\ UNCHANGED store

-------------------------------------------------------------------------------
(* Checking out a client *)

\* A handler calls transitionStatus or query.  A writer has read the status its
\* transition starts from some time ago.  getPool makes a pool if there is none; a pool that
\* is being ended refuses.
Connect(c) ==
  /\ At(c, "todo") /\ proc # "down"
  /\ c \in Writers =>
       Writes[c].from \in {"INITIATED"} \cup {audit[i].to : i \in DOMAIN audit}
  /\ IF pool = "ending"
     THEN Goto(c, "rejected") /\ UNCHANGED <<waiting, pool>>
     ELSE /\ Goto(c, "queued")
          /\ waiting' = Append(waiting, c)
          /\ pool' = "open"
  /\ UNCHANGED <<store, client, tx, owner, orphan, proc, settled, budget>>

\* pg-pool hands a client, idle or new, to the call at the head of its queue; one
\* that is being ended serves its queue no more.  Which client is of no matter, as
\* PoolClean shows.
Grant(c) ==
  /\ At(c, "queued")
  /\ waiting # <<>> /\ c = Head(waiting) /\ pool = "open"
  /\ Cardinality(Held) < PoolMax /\ Free # {}
  /\ client' = [client EXCEPT ![c] = CHOOSE k \in Free : TRUE]
  /\ waiting' = Tail(waiting)
  /\ Goto(c, IF c \in Writers THEN "begin" ELSE "read")
  /\ UNCHANGED <<store, tx, owner, orphan, sys, budget>>

\* connectionTimeoutMillis is over, or a new connection was refused.  All that is
\* left to a call in the queue of a pool that has ended.
GrantTimeout(c) ==
  /\ At(c, "queued")
  /\ \/ \E i \in DOMAIN waiting :
           /\ waiting[i] = c
           /\ waiting' = SubSeq(waiting, 1, i - 1) \o SubSeq(waiting, i + 1, Len(waiting))
     \/ (\A i \in DOMAIN waiting : waiting[i] # c) /\ UNCHANGED waiting
  /\ Goto(c, "rejected")
  /\ UNCHANGED <<store, client, tx, owner, orphan, sys, budget>>

-------------------------------------------------------------------------------
(* withTransaction around the callback of transitionStatus *)

\* BEGIN in a transaction that is already open is a warning.
Begin(c) ==
  /\ At(c, "begin")
  /\ tx[client[c]].state # "failed"
  /\ tx' = [tx EXCEPT ![client[c]].state = "open"]
  /\ Goto(c, "lock")
  /\ UNCHANGED <<store, client, waiting, owner, orphan, sys, budget>>

\* SELECT ... FOR UPDATE waits as long as another session holds the row lock.
Lock(c) ==
  /\ At(c, "lock")
  /\ tx[client[c]].state = "open"
  /\ owner \in {NoSession, client[c]}
  /\ owner' = client[c]
  /\ Goto(c, "update")
  /\ UNCHANGED <<store, client, waiting, tx, orphan, sys, budget>>

\* The UPDATE sees the row as it is committed, or as this transaction made it.
Update(c) ==
  LET k == client[c]
      seen == IF tx[k].row = NoRow THEN row ELSE tx[k].row
  IN /\ At(c, "update")
     /\ tx[k].state = "open"
     /\ tx' = [tx EXCEPT ![k].row =
                  Updated(seen, Writes[c].to, Writes[c].attempt, Writes[c].ref)]
     /\ Goto(c, "insert")
     /\ UNCHANGED <<store, client, waiting, owner, orphan, sys, budget>>

\* Fault-seeded: the entry is inserted through query, in a transaction of its own.
Insert_throughPool(c) ==
  /\ At(c, "insert")
  /\ log' = Append(log, c)
  /\ audit' = Append(audit, [from |-> Writes[c].from, to |-> Writes[c].to,
                             attempt |-> Writes[c].attempt])
  /\ Goto(c, "commit")
  /\ UNCHANGED <<row, client, waiting, tx, owner, orphan, sys, budget>>

Insert(c) ==
  /\ At(c, "insert")
  /\ tx[client[c]].state = "open"
  /\ tx' = [tx EXCEPT ![client[c]].entries = Append(@, c)]
  /\ Goto(c, "commit")
  /\ UNCHANGED <<store, client, waiting, owner, orphan, sys, budget>>

\* The server executes the COMMIT.
Commit(c) ==
  /\ At(c, "commit")
  /\ CommitTx(client[c])
  /\ Goto(c, "committed")
  /\ UNCHANGED <<client, waiting, orphan, sys, budget>>

\* Fault-seeded: the callback swallows the error of its statement.
StatementFails_swallowed(c) ==
  /\ pc[c] \in TxPcs
  /\ budget.faults > 0
  /\ budget' = [budget EXCEPT !.faults = @ - 1]
  /\ Goto(c, "commit")
  /\ tx' = [tx EXCEPT ![client[c]].state = "failed"]
  /\ UNCHANGED <<store, client, waiting, owner, orphan, sys>>

\* A statement is refused and aborts the transaction, which keeps its locks until
\* the ROLLBACK; a failing COMMIT ends it.  In an aborted transaction every
\* statement is refused.
StatementFails(c) ==
  /\ pc[c] \in TxPcs
  /\ \/ /\ budget.faults > 0
        /\ budget' = [budget EXCEPT !.faults = @ - 1]
     \/ /\ tx[client[c]].state = "failed"
        /\ UNCHANGED budget
  /\ Goto(c, "rollback")
  /\ CASE pc[c] = "begin"  -> UNCHANGED <<tx, owner>>
       [] pc[c] = "commit" -> EndTx(client[c])
       [] OTHER -> /\ tx' = [tx EXCEPT ![client[c]].state = "failed"]
                   /\ UNCHANGED owner
  /\ UNCHANGED <<store, client, waiting, orphan, sys>>

\* Fault-seeded: the catch block rethrows without ROLLBACK.
Rollback_skipped(c) ==
  /\ At(c, "rollback")
  /\ Goto(c, "rolledBack")
  /\ UNCHANGED <<store, client, waiting, tx, owner, orphan, sys, budget>>

Rollback(c) ==
  /\ At(c, "rollback")
  /\ AbortTx(client[c])
  /\ Goto(c, "rolledBack")
  /\ UNCHANGED <<client, waiting, orphan, sys, budget>>

\* Fault-seeded: the client is released after a COMMIT only.
Release_onCommit(c) ==
  /\ pc[c] \in {"committed", "rolledBack"}
  /\ Goto(c, IF pc[c] = "committed" THEN "answered" ELSE "rejected")
  /\ IF pc[c] = "committed" THEN client' = [client EXCEPT ![c] = NoSession]
     ELSE UNCHANGED client
  /\ UNCHANGED <<store, waiting, tx, owner, orphan, sys, budget>>

\* The finally clause; the call returns or throws.
Release(c) ==
  /\ pc[c] \in {"committed", "rolledBack"}
  /\ Goto(c, IF pc[c] = "committed" THEN "answered" ELSE "rejected")
  /\ client' = [client EXCEPT ![c] = NoSession]
  /\ UNCHANGED <<store, waiting, tx, owner, orphan, sys, budget>>

\* pool.query releases its client itself, and handles its loss.
Read(c) ==
  /\ At(c, "read")
  /\ \/ Goto(c, "answered") /\ UNCHANGED budget
     \/ /\ budget.faults > 0
        /\ budget' = [budget EXCEPT !.faults = @ - 1]
        /\ Goto(c, "rejected")
  /\ client' = [client EXCEPT ![c] = NoSession]
  /\ UNCHANGED <<store, waiting, tx, owner, orphan, sys>>

-------------------------------------------------------------------------------
(* The process and its sessions *)

\* The process ends: its calls are gone, the server still has its transactions.
Die ==
  /\ proc' = "down" /\ pool' = "none" /\ settled' = {}
  /\ pc' = [c \in Calls |-> IF pc[c] \in {"todo"} \cup FinalPcs THEN pc[c] ELSE "gone"]
  /\ client' = [c \in Calls |-> NoSession]
  /\ waiting' = <<>>
  /\ orphan' = [k \in Sessions |->
       IF tx[k].state = "none" THEN orphan[k]
       ELSE IF \E c \in Calls : client[c] = k /\ At(c, "commit") THEN "committing"
       ELSE IF k \in Held THEN "open" ELSE orphan[k]]
  /\ UNCHANGED <<store, tx, owner>>

\* A connection is lost while withTransaction has its client: pg emits an 'error'
\* event that no listener of the code takes, and an unhandled one ends the process.
\* A kill does the same at any other time.
ConnectionLost ==
  /\ proc # "down"
  /\ budget.faults > 0
  /\ budget' = [budget EXCEPT !.faults = @ - 1]
  /\ Die

\* The server notices that the client of k is gone; a COMMIT that was under way
\* may have been executed.
SessionEnds(k) ==
  /\ orphan[k] # "no"
  /\ AbortTx(k) \/ (orphan[k] = "committing" /\ CommitTx(k))
  /\ orphan' = [orphan EXCEPT ![k] = "no"]
  /\ UNCHANGED <<conn, sys, budget>>

\* start() queries the database before it listens.
Restart ==
  /\ proc = "down"
  /\ proc' = "up" /\ pool' = "open"
  /\ UNCHANGED <<store, conn, tx, owner, orphan, settled, budget>>

\* shutdown: closePool ends the pool if there is one, and rejects if that is under
\* way already; closeRedis is started beside it.
Shutdown ==
  /\ proc # "down"
  /\ budget.signals > 0
  /\ budget' = [budget EXCEPT !.signals = @ - 1]
  /\ proc' = "stopping"
  /\ IF pool = "open" THEN pool' = "ending" /\ UNCHANGED settled
     ELSE settled' = settled \cup {"pool"} /\ UNCHANGED pool
  /\ UNCHANGED <<store, conn, tx, owner, orphan>>

\* pool.end resolves once every client that was checked out has come back; the next
\* pool has a queue of its own.
PoolEnded ==
  /\ pool = "ending"
  /\ Held = {}
  /\ pool' = "none"
  /\ waiting' = <<>>
  /\ settled' = settled \cup {"pool"}
  /\ UNCHANGED <<store, pc, client, tx, owner, orphan, proc, budget>>

RedisClosed ==
  /\ proc = "stopping"
  /\ "redis" \notin settled
  /\ settled' = settled \cup {"redis"}
  /\ UNCHANGED <<store, conn, tx, owner, orphan, proc, pool, budget>>

\* process.exit(0), whatever the server is doing for someone.
Exit ==
  /\ settled = {"pool", "redis"}
  /\ Die
  /\ UNCHANGED budget

-------------------------------------------------------------------------------
\* The steps of a call that has been made.
CallStep(c) ==
  \/ Grant(c) \/ GrantTimeout(c)
  \/ c \in Readers /\ Read(c)
  \/ /\ c \in Writers
     /\ \/ Begin(c) \/ Lock(c) \/ Update(c) \/ Insert(c) \/ Commit(c)
        \/ StatementFails(c) \/ Rollback(c) \/ Release(c)

Next ==
  \/ \E c \in Calls : Connect(c) \/ CallStep(c)
  \/ \E k \in Sessions : SessionEnds(k)
  \/ ConnectionLost \/ Restart \/ Shutdown \/ PoolEnded \/ RedisClosed \/ Exit

Spec == Init /\ [][Next]_vars

\* A queued call gets a client or times out and a statement that can be executed
\* is answered, the server notices a lost client, and shutdown goes on: calls are
\* made once each here, so that some of them goes on is enough.  Nobody is bound to
\* call, to send a signal or to restart the process.
FairSpec ==
  /\ Spec
  /\ WF_vars(\E c \in Calls : CallStep(c))
  /\ WF_vars(\E k \in Sessions : SessionEnds(k))
  /\ WF_vars(PoolEnded \/ RedisClosed \/ Exit)

-------------------------------------------------------------------------------
(* Properties *)

\* The statements implement the single step that PaymentService takes a transition
\* for: no failing statement, lost connection, kill, shutdown or waiting writer
\* ever shows a status without its audit entry or makes an update of an older row.
ImplementsStore == StoreSpec

\* A session whose client is not in use has no transaction open and does not hold
\* the row lock, and no two calls share a client: whatever ends a transaction, the
\* next caller of the pool finds a clean connection (withTransaction).
PoolClean ==
  /\ \A k \in Free : tx[k] = NoTx /\ owner # k
  /\ \A c, d \in Calls : client[c] = client[d] /\ client[c] # NoSession => c = d

\* A call that returned has written its entry, once, and one that threw has left
\* nothing: only calls whose process is gone leave their outcome open.  It is what
\* lets the service answer a 500 without asking the database again.
OutcomeKnown ==
  \A c \in Writers :
    LET n == Cardinality({i \in DOMAIN log : log[i] = c})
    IN /\ n <= 1
       /\ pc[c] \in {"committed", "answered"} => n = 1
       /\ pc[c] \notin {"committed", "answered", "gone"} => n = 0

\* Every call is answered or its process is gone: writers that hold every client
\* while they wait for one row lock do not block each other for good, not even
\* behind the lock of a process that is gone.
CallsEnd == []<>(\A c \in Calls : pc[c] \in FinalPcs \cup {"todo"})

\* A process told to stop does: no queued call, waiting writer or second signal
\* keeps shutdown from its exit.
ShutdownEnds == proc = "stopping" ~> proc # "stopping"

===============================================================================
