------------------------------ MODULE Migrations ------------------------------
(***************************************************************************)
(* db/migrate.ts: npm run migrate, started by several people or containers *)
(* at once and again after a failure, over the schema_migrations table.    *)
(* docker-compose.yml mounts db/migrations where Postgres runs every file  *)
(* of it on a fresh database, so that the schema may be there already.     *)
(*                                                                         *)
(* One action is one statement as the server executes it.                  *)
(***************************************************************************)
EXTENDS Naturals

CONSTANTS
  Runners,     \* processes that run migrate()
  FileCount,   \* the .sql files, numbered in the order of .sort()
  Repeatable,  \* files whose statements succeed on a schema that has them
  MaxRuns,     \* bound: runs started
  MaxFaults    \* bound: statements that fail and processes that die

Files == 1..FileCount

ASSUME FilesAssumption  == FileCount \in Nat /\ Repeatable \subseteq Files
ASSUME BoundsAssumption == MaxRuns \in Nat /\ MaxFaults \in Nat

VARIABLES
  mounted,  \* the database was initialised by docker-compose
  schema,   \* how often each file's statements are in the committed schema
  ledger,   \* the versions in schema_migrations
  pc,       \* where each runner stands
  file,     \* the file each runner is at in its loop, FileCount + 1 after the last
  work,     \* what each session's open transaction has done
  runs,     \* runs started
  faults    \* failed statements and dead processes

vars == <<mounted, schema, ledger, pc, file, work, runs, faults>>

-------------------------------------------------------------------------------
TxPcs == {"begin", "apply", "record", "commit", "rollback"}
Ended == {"idle", "done", "failed"}
Pc    == {"create", "select", "gone", "goneCommitting"} \cup TxPcs \cup Ended

\* Besides the types: the loop is left after the last file.
TypeOK ==
  /\ mounted \in BOOLEAN
  /\ schema \in [Files -> Nat]
  /\ ledger \subseteq Files
  /\ pc \in [Runners -> Pc]
  /\ file \in [Runners -> 1..FileCount + 1]
  /\ \A r \in Runners : pc[r] \in TxPcs \cup {"select", "goneCommitting"} => file[r] \in Files
  /\ work \in [Runners -> SUBSET {"applied", "recorded"}]
  /\ runs \in 0..MaxRuns
  /\ faults \in 0..MaxFaults

Init ==
  /\ mounted \in BOOLEAN
  /\ schema = [f \in Files |-> IF mounted THEN 1 ELSE 0]
  /\ ledger = {}
  /\ pc = [r \in Runners |-> "idle"]
  /\ file = [r \in Runners |-> 1]
  /\ work = [r \in Runners |-> {}]
  /\ runs = 0 /\ faults = 0

At(r, label)   == pc[r] = label
Goto(r, label) == pc' = [pc EXCEPT ![r] = label]

\* The end of the loop's body.
NextFile(r) ==
  /\ file' = [file EXCEPT ![r] = @ + 1]
  /\ Goto(r, IF file[r] = FileCount THEN "done" ELSE "select")

\* Another session has done this to the same file and has not ended: the server
\* keeps a statement that does it too waiting.
Blocked(r, what) == \E q \in Runners \ {r} : file[q] = file[r] /\ what \in work[q]

-------------------------------------------------------------------------------
\* npm run migrate: pool.connect.
Start(r) ==
  /\ pc[r] \in Ended
  /\ runs < MaxRuns /\ runs' = runs + 1
  /\ Goto(r, "create")
  /\ file' = [file EXCEPT ![r] = 1]
  /\ UNCHANGED <<mounted, schema, ledger, work, faults>>

\* CREATE TABLE IF NOT EXISTS schema_migrations, and the directory is read.
CreateTable(r) ==
  /\ At(r, "create")
  /\ Goto(r, IF FileCount = 0 THEN "done" ELSE "select")
  /\ UNCHANGED <<mounted, schema, ledger, file, work, runs, faults>>

\* Fault-seeded: continue goes past the end of the list.
Select_pastEnd(r) ==
  /\ At(r, "select")
  /\ IF file[r] \in ledger
     THEN file' = [file EXCEPT ![r] = @ + 1] /\ UNCHANGED pc
     ELSE Goto(r, "begin") /\ UNCHANGED file
  /\ UNCHANGED <<mounted, schema, ledger, work, runs, faults>>

\* A file that is already applied is passed over.
Select(r) ==
  /\ At(r, "select")
  /\ IF file[r] \in ledger THEN NextFile(r)
     ELSE Goto(r, "begin") /\ UNCHANGED file
  /\ UNCHANGED <<mounted, schema, ledger, work, runs, faults>>

Begin(r) ==
  /\ At(r, "begin")
  /\ Goto(r, "apply")
  /\ UNCHANGED <<mounted, schema, ledger, file, work, runs, faults>>

\* The statements of the file; CREATE TYPE and its like refuse what exists.
Apply(r) ==
  /\ At(r, "apply")
  /\ \/ /\ file[r] \in Repeatable \/ (~Blocked(r, "applied") /\ schema[file[r]] = 0)
        /\ Goto(r, "record")
        /\ work' = [work EXCEPT ![r] = {"applied"}]
     \/ /\ file[r] \notin Repeatable /\ schema[file[r]] > 0
        /\ Goto(r, "rollback")
        /\ UNCHANGED work
  /\ UNCHANGED <<mounted, schema, ledger, file, runs, faults>>

\* Fault-seeded: the version is recorded with ON CONFLICT DO NOTHING.
Record_onConflict(r) ==
  /\ At(r, "record")
  /\ Goto(r, "commit") /\ work' = [work EXCEPT ![r] = @ \cup {"recorded"}]
  /\ UNCHANGED <<mounted, schema, ledger, file, runs, faults>>

\* INSERT INTO schema_migrations: version is its primary key.
Record(r) ==
  /\ At(r, "record")
  /\ ~Blocked(r, "recorded")
  /\ IF file[r] \in ledger THEN Goto(r, "rollback") /\ UNCHANGED work
     ELSE Goto(r, "commit") /\ work' = [work EXCEPT ![r] = @ \cup {"recorded"}]
  /\ UNCHANGED <<mounted, schema, ledger, file, runs, faults>>

\* What the server does when it executes r's COMMIT.
Committed(r) ==
  /\ schema' = [schema EXCEPT ![file[r]] = @ + 1]
  /\ ledger' = ledger \cup {file[r]}
  /\ work' = [work EXCEPT ![r] = {}]

Commit(r) ==
  /\ At(r, "commit")
  /\ Committed(r)
  /\ NextFile(r)
  /\ UNCHANGED <<mounted, runs, faults>>

\* Fault-seeded: the catch block goes on with the next file.
Rollback_continues(r) ==
  /\ At(r, "rollback")
  /\ work' = [work EXCEPT ![r] = {}]
  /\ NextFile(r)
  /\ UNCHANGED <<mounted, schema, ledger, runs, faults>>

\* Fault-seeded: the catch block rethrows without ROLLBACK and nothing closes the
\* connection.
Rollback_skipped(r) ==
  /\ At(r, "rollback")
  /\ Goto(r, "failed")
  /\ UNCHANGED <<mounted, schema, ledger, file, work, runs, faults>>

\* ROLLBACK, executed or failing, then throw, pool.end and process.exit(1): the
\* transaction is over either way.
Rollback(r) ==
  /\ At(r, "rollback")
  /\ work' = [work EXCEPT ![r] = {}]
  /\ Goto(r, "failed")
  /\ UNCHANGED <<mounted, schema, ledger, file, runs, faults>>

-------------------------------------------------------------------------------
\* A statement fails: before BEGIN has succeeded the run ends, after it the catch
\* block is next.
Fails(r) ==
  /\ faults < MaxFaults /\ faults' = faults + 1
  /\ pc[r] \in {"create", "select", "begin", "apply", "record", "commit"}
  /\ Goto(r, IF pc[r] \in {"create", "select", "begin"} THEN "failed" ELSE "rollback")
  /\ UNCHANGED <<mounted, schema, ledger, file, work, runs>>

\* The process dies; the server still has its transaction.
Dies(r) ==
  /\ faults < MaxFaults /\ faults' = faults + 1
  /\ pc[r] \notin Ended \cup {"gone", "goneCommitting"}
  /\ Goto(r, IF At(r, "commit") THEN "goneCommitting" ELSE "gone")
  /\ UNCHANGED <<mounted, schema, ledger, file, work, runs>>

\* The server notices; a COMMIT that was under way may have been executed.
SessionEnds(r) ==
  /\ pc[r] \in {"gone", "goneCommitting"}
  /\ Goto(r, "failed")
  /\ \/ work' = [work EXCEPT ![r] = {}] /\ UNCHANGED <<schema, ledger>>
     \/ At(r, "goneCommitting") /\ Committed(r)
  /\ UNCHANGED <<mounted, file, runs, faults>>

\* The statements of a run, and the end of a session.
Step(r) ==
  \/ CreateTable(r) \/ Select(r) \/ Begin(r) \/ Apply(r) \/ Record(r) \/ Commit(r)
  \/ Rollback(r) \/ SessionEnds(r)

Quiescent == (\A r \in Runners : pc[r] \in Ended) /\ UNCHANGED vars

Next ==
  \/ \E r \in Runners : Start(r) \/ Step(r) \/ Fails(r) \/ Dies(r)
  \/ Quiescent

Spec == Init /\ [][Next]_vars

\* A statement that is not kept waiting is answered, and the server notices that a
\* client is gone.
FairSpec == Spec /\ \A r \in Runners : WF_vars(Step(r))

-------------------------------------------------------------------------------
(* Properties *)

\* schema_migrations tells the truth: a version is in it exactly when its file's
\* statements were committed by a run, and they were once, however runs overlap,
\* fail and die in the middle of a COMMIT.
LedgerIsSchema ==
  \A f \in Files :
    schema[f] = (IF mounted THEN 1 ELSE 0) + (IF f \in ledger THEN 1 ELSE 0)

\* Files are applied in their order without a gap, and a run that reports success
\* left none out: "run in order" (001_initial_schema.sql) for any number of runs.
LedgerIsPrefix ==
  /\ \A f \in ledger : 1..f \subseteq ledger
  /\ \A r \in Runners : At(r, "done") => ledger = Files

\* How far the finding about MigrateSucceeds goes: on a database docker-compose
\* initialised no run at all gets past the first file that cannot be repeated.
MountedIsNeverMigrated ==
  mounted => ledger \cap (Files \ Repeatable) = {}

\* Every run ends: one that waits for another's transaction gets its turn, also
\* when the other's process has died.
RunsEnd == \A r \in Runners : pc[r] = "create" ~> pc[r] \in Ended

-------------------------------------------------------------------------------
(* What the repository says of the migrations and the code does not do. *)

\* docker-compose up, then npm run migrate, "All migrations applied successfully": the
\* first run, with nothing failing and nobody else running, ends well.
MigrateSucceeds ==
  runs = 1 /\ faults = 0 => \A r \in Runners : ~At(r, "failed")

===============================================================================
