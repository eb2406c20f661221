--------------------------- MODULE MigrationsProofs ---------------------------
(***************************************************************************)
(* Theorems about Migrations for any number of runners, files, runs and    *)
(* faults.                                                                 *)
(***************************************************************************)
EXTENDS Migrations, TLAPS

\* In the loop: the files before the current one are in the ledger.
LoopPcs == TxPcs \cup {"select", "goneCommitting"}

\* What runner r's transaction has done where r stands; a version it inserted is
\* not in the ledger, and no other transaction has inserted it.
Draft(r) ==
  /\ pc[r] \in {"create", "select", "begin", "apply"} \cup Ended => work[r] = {}
  /\ pc[r] \in {"commit", "goneCommitting"} => "recorded" \in work[r]
  /\ "recorded" \in work[r] =>
        /\ file[r] \notin ledger
        /\ \A q \in Runners \ {r} : file[q] = file[r] => "recorded" \notin work[q]

\* Where runner r's loop has got to.
Progress(r) ==
  /\ pc[r] = "create" => file[r] = 1
  /\ pc[r] \in LoopPcs => \A f \in Files : f < file[r] => f \in ledger
  /\ pc[r] = "done" => \A f \in Files : f \in ledger
  /\ mounted /\ pc[r] \in {"record", "commit", "goneCommitting"} => file[r] \in Repeatable

\* The ledger, as LedgerIsPrefix and MountedIsNeverMigrated see it.
Ledger ==
  /\ \A f \in ledger, g \in Files : g < f => g \in ledger
  /\ mounted => \A f \in ledger : f \in Repeatable

MInv ==
  /\ TypeOK
  /\ LedgerIsSchema
  /\ Ledger
  /\ \A r \in Runners : Draft(r) /\ Progress(r)

-------------------------------------------------------------------------------
\* A step that commits nothing: every other runner is left as it was.
LEMMA DraftStep ==
  ASSUME MInv, NEW r \in Runners, NEW label \in Pc,
         NEW f \in 1..FileCount + 1, NEW w \in SUBSET {"applied", "recorded"},
         UNCHANGED <<mounted, schema, ledger>>,
         pc' = [pc EXCEPT ![r] = label], file' = [file EXCEPT ![r] = f],
         work' = [work EXCEPT ![r] = w],
         runs' \in 0..MaxRuns, faults' \in 0..MaxFaults,
         label \in LoopPcs => f \in Files,
         "recorded" \in w => /\ f \notin ledger
                             /\ \A q \in Runners \ {r} : file[q] = f => "recorded" \notin work[q],
         label \in {"create", "select", "begin", "apply"} \cup Ended => w = {},
         label \in {"commit", "goneCommitting"} => "recorded" \in w,
         label = "create" => f = 1,
         label \in LoopPcs => \A g \in Files : g < f => g \in ledger,
         label = "done" => \A g \in Files : g \in ledger,
         mounted /\ label \in {"record", "commit", "goneCommitting"} => f \in Repeatable
  PROVE  MInv'
<1>1. /\ pc \in [Runners -> Pc] /\ file \in [Runners -> 1..FileCount + 1]
      /\ work \in [Runners -> SUBSET {"applied", "recorded"}]
  BY DEF MInv, TypeOK
<1>2. /\ pc'[r] = label /\ file'[r] = f /\ work'[r] = w
      /\ \A q \in Runners \ {r} : pc'[q] = pc[q] /\ file'[q] = file[q] /\ work'[q] = work[q]
  BY <1>1
<1>3. TypeOK'
  <2>1. /\ pc' \in [Runners -> Pc] /\ file' \in [Runners -> 1..FileCount + 1]
        /\ work' \in [Runners -> SUBSET {"applied", "recorded"}]
    BY <1>1
  <2>2. \A q \in Runners : pc'[q] \in TxPcs \cup {"select", "goneCommitting"} => file'[q] \in Files
    BY <1>2 DEF MInv, TypeOK, LoopPcs, Files
  <2>3. QED  BY <2>1, <2>2 DEF MInv, TypeOK
<1>4. LedgerIsSchema' /\ Ledger'  BY DEF MInv, LedgerIsSchema, Ledger
<1>5. Draft(r)' /\ Progress(r)'
  <2>1. /\ label \in {"create", "select", "begin", "apply"} \cup Ended => w = {}
        /\ "recorded" \in w => /\ f \notin ledger'
                               /\ \A p \in Runners \ {r} :
                                    file'[p] = f => "recorded" \notin work'[p]
    BY <1>2
  <2>2. Draft(r)'  BY <1>2, <2>1 DEF Draft
  <2>3. Progress(r)'  BY <1>2 DEF Progress
  <2>4. QED  BY <2>2, <2>3
<1>6. ASSUME NEW q \in Runners, q # r
      PROVE  Draft(q)' /\ Progress(q)'
  <2>1. Draft(q) /\ Progress(q)  BY DEF MInv
  <2>2. "recorded" \in work[q] /\ f = file[q] => "recorded" \notin w
    BY <1>6
  <2>3. Draft(q)'
    BY <1>2, <1>6, <2>1, <2>2 DEF Draft
  <2>4. Progress(q)'
    BY <1>2, <1>6, <2>1 DEF Progress
  <2>5. QED  BY <2>3, <2>4
<1>7. QED  BY <1>3, <1>4, <1>5, <1>6 DEF MInv

\* A COMMIT puts one version and one application of its file into the database.
LEMMA CommitStep ==
  ASSUME MInv, NEW r \in Runners, NEW label \in {"select", "done", "failed"},
         NEW f \in 1..FileCount + 1,
         pc[r] \in {"commit", "goneCommitting"}, Committed(r),
         pc' = [pc EXCEPT ![r] = label], file' = [file EXCEPT ![r] = f],
         UNCHANGED <<mounted, runs, faults>>,
         label = "select" => f = file[r] + 1 /\ f \in Files,
         label = "done" => file[r] = FileCount
  PROVE  MInv'
<1>1. /\ pc \in [Runners -> Pc] /\ file \in [Runners -> 1..FileCount + 1]
      /\ work \in [Runners -> SUBSET {"applied", "recorded"}]
      /\ schema \in [Files -> Nat] /\ ledger \subseteq Files
      /\ file[r] \in Files /\ FileCount \in Nat /\ Files = 1..FileCount
      /\ label \in Pc
  BY FilesAssumption DEF MInv, TypeOK, Files, Pc, Ended
<1>2. /\ pc'[r] = label /\ file'[r] = f /\ work'[r] = {}
      /\ \A q \in Runners \ {r} : pc'[q] = pc[q] /\ file'[q] = file[q] /\ work'[q] = work[q]
  BY <1>1 DEF Committed
<1>3. /\ ledger' = ledger \cup {file[r]} /\ file[r] \notin ledger
      /\ \A q \in Runners \ {r} : file[q] = file[r] => "recorded" \notin work[q]
      /\ \A g \in Files : g < file[r] => g \in ledger
      /\ mounted => file[r] \in Repeatable
  BY DEF MInv, Draft, Progress, Committed, LoopPcs, TxPcs
<1>4. TypeOK'
  <2>1. /\ pc' \in [Runners -> Pc] /\ file' \in [Runners -> 1..FileCount + 1]
        /\ work' \in [Runners -> SUBSET {"applied", "recorded"}]
        /\ schema' \in [Files -> Nat] /\ ledger' \subseteq Files
    <3>1. pc' \in [Runners -> Pc] /\ file' \in [Runners -> 1..FileCount + 1]
      BY <1>1
    <3>2. work' \in [Runners -> SUBSET {"applied", "recorded"}]
      BY <1>1 DEF Committed
    <3>3. schema' \in [Files -> Nat]
      BY <1>1 DEF Committed
    <3>4. QED  BY <1>1, <1>3, <3>1, <3>2, <3>3
  <2>2. ASSUME NEW q \in Runners, pc'[q] \in TxPcs \cup {"select", "goneCommitting"}
        PROVE  file'[q] \in Files
    <3>1. CASE q = r
      BY <1>2, <2>2, <3>1 DEF TxPcs
    <3>2. CASE q # r
      BY <1>2, <2>2, <3>2 DEF MInv, TypeOK
    <3>3. QED  BY <3>1, <3>2
  <2>3. QED  BY <2>1, <2>2 DEF MInv, TypeOK
<1>5. LedgerIsSchema'
  <2>1. \A g \in Files : schema[g] = (IF mounted THEN 1 ELSE 0) + (IF g \in ledger THEN 1 ELSE 0)
    BY DEF MInv, LedgerIsSchema
  <2>2. schema' = [schema EXCEPT ![file[r]] = @ + 1]  BY DEF Committed
  <2>3. ASSUME NEW g \in Files
        PROVE  schema'[g] = (IF mounted THEN 1 ELSE 0) + (IF g \in ledger' THEN 1 ELSE 0)
    <3>1. CASE g = file[r]
      <4>1. schema'[g] = schema[g] + 1 /\ g \notin ledger /\ g \in ledger'
        BY <1>1, <1>3, <2>2, <3>1
      <4>2. QED  BY <2>1, <4>1
    <3>2. CASE g # file[r]
      <4>1. schema'[g] = schema[g] /\ (g \in ledger <=> g \in ledger')
        BY <1>1, <1>3, <2>2, <3>2
      <4>2. QED  BY <2>1, <4>1
    <3>3. QED  BY <3>1, <3>2
  <2>4. QED  BY <2>3 DEF LedgerIsSchema
<1>6. Ledger'
  BY <1>1, <1>3 DEF MInv, Ledger
<1>7. ASSUME NEW q \in Runners
      PROVE  Draft(q)' /\ Progress(q)'
  <2>1. CASE q = r
    <3>1. Draft(q)'  BY <1>2, <2>1 DEF Draft
    <3>2. Progress(q)'  BY <1>1, <1>2, <1>3, <2>1 DEF Progress, LoopPcs, TxPcs
    <3>3. QED  BY <3>1, <3>2
  <2>2. CASE q # r
    <3>1. Draft(q) /\ Progress(q)  BY DEF MInv
    <3>2. Draft(q)'  BY <1>2, <1>3, <2>2, <3>1 DEF Draft
    <3>3. Progress(q)'  BY <1>2, <1>3, <2>2, <3>1 DEF Progress
    <3>4. QED  BY <3>2, <3>3
  <2>3. QED  BY <2>1, <2>2
<1>8. QED  BY <1>4, <1>5, <1>6, <1>7 DEF MInv

LEMMA MInit == Init => MInv
<1> SUFFICES ASSUME Init PROVE MInv
  OBVIOUS
<1>1. TypeOK
  BY FilesAssumption, BoundsAssumption DEF Init, TypeOK, Pc, Ended, TxPcs, Files
<1>2. LedgerIsSchema  BY DEF Init, LedgerIsSchema
<1>3. Ledger  BY DEF Init, Ledger
<1>4. \A r \in Runners : Draft(r) /\ Progress(r)
  BY DEF Init, Draft, Progress, LoopPcs, TxPcs
<1>5. QED  BY <1>1, <1>2, <1>3, <1>4 DEF MInv

LEMMA MStep == MInv /\ [Next]_vars => MInv'
<1> SUFFICES ASSUME MInv, [Next]_vars PROVE MInv'
  OBVIOUS
<1> USE DEF At, Goto
<1>1. /\ pc \in [Runners -> Pc] /\ file \in [Runners -> 1..FileCount + 1]
      /\ work \in [Runners -> SUBSET {"applied", "recorded"}]
      /\ runs \in 0..MaxRuns /\ faults \in 0..MaxFaults /\ MaxRuns \in Nat /\ MaxFaults \in Nat
      /\ schema \in [Files -> Nat]
      /\ FileCount \in Nat /\ Files = 1..FileCount
  BY FilesAssumption, BoundsAssumption DEF MInv, TypeOK, Files
<1>2. \A r \in Runners : pc[r] \in LoopPcs => file[r] \in Files
  BY DEF MInv, TypeOK, LoopPcs
<1> USE DEF Pc, LoopPcs, TxPcs, Ended
<1>3. ASSUME NEW r \in Runners, Start(r)
      PROVE  MInv'
  <2>1. 1 \in 1..FileCount + 1 /\ {} \in SUBSET {"applied", "recorded"} /\ "create" \in Pc
    BY <1>1
  <2>2. work[r] = {}  BY <1>3 DEF MInv, Draft, Start
  <2>3. work' = [work EXCEPT ![r] = {}]  BY <1>1, <1>3, <2>2 DEF Start
  <2>4. runs' \in 0..MaxRuns  BY <1>1, <1>3 DEF Start
  <2>5. QED  BY <1>1, <1>3, <2>1, <2>3, <2>4, DraftStep DEF Start
<1>4. ASSUME NEW r \in Runners, CreateTable(r)
      PROVE  MInv'
  <2>1. PICK label \in {"done", "select"} :
           /\ pc' = [pc EXCEPT ![r] = label]
           /\ FileCount = 0 <=> label = "done"
    BY <1>4 DEF CreateTable
  <2>2. work[r] = {}  BY <1>4 DEF MInv, Draft, CreateTable
  <2>3. file[r] = 1 /\ work' = [work EXCEPT ![r] = {}] /\ file' = [file EXCEPT ![r] = 1]
    BY <1>1, <1>4, <2>2 DEF MInv, Progress, CreateTable
  <2>4. UNCHANGED <<mounted, schema, ledger, runs, faults>>
    BY <1>4 DEF CreateTable
  <2>5. /\ 1 \in 1..FileCount + 1 /\ label \in Pc
        /\ label \in LoopPcs => 1 \in Files
        /\ \A g \in Files : ~(g < 1)
        /\ label = "done" => \A g \in Files : g \in ledger
    BY <1>1, <2>1
  <2>6. label \notin {"create", "commit", "goneCommitting", "record"}  BY <2>1
  <2>7. QED  BY <1>1, <2>1, <2>3, <2>4, <2>5, <2>6, DraftStep
<1>5. ASSUME NEW r \in Runners, Select(r)
      PROVE  MInv'
  <2>1. /\ pc[r] = "select" /\ file[r] \in Files /\ work' = [work EXCEPT ![r] = {}]
        /\ UNCHANGED <<mounted, schema, ledger, runs, faults>>
        /\ \A g \in Files : g < file[r] => g \in ledger
    BY <1>1, <1>2, <1>5 DEF MInv, Draft, Progress, Select
  <2>2. CASE file[r] \in ledger
    <3>1. PICK label \in {"done", "select"} :
             /\ pc' = [pc EXCEPT ![r] = label]
             /\ file[r] = FileCount <=> label = "done"
      BY <1>5, <2>2 DEF Select, NextFile
    <3>2. file' = [file EXCEPT ![r] = file[r] + 1] /\ file[r] + 1 \in 1..FileCount + 1
      BY <1>1, <1>5, <2>1, <2>2 DEF Select, NextFile
    <3>3. \A g \in Files : g < file[r] + 1 => g \in ledger
      BY <1>1, <2>1, <2>2
    <3>4. /\ label \in Pc /\ label \notin {"create", "commit", "goneCommitting", "record"}
          /\ label \in LoopPcs => file[r] + 1 \in Files
          /\ label = "done" => \A g \in Files : g \in ledger
      BY <1>1, <2>1, <3>1, <3>3
    <3>5. QED  BY <1>1, <2>1, <3>1, <3>2, <3>3, <3>4, DraftStep
  <2>3. CASE file[r] \notin ledger
    <3>1. pc' = [pc EXCEPT ![r] = "begin"] /\ file' = [file EXCEPT ![r] = file[r]]
      BY <1>1, <1>5, <2>3 DEF Select
    <3>2. QED  BY <1>1, <2>1, <3>1, DraftStep
  <2>4. QED  BY <2>2, <2>3
<1>6. ASSUME NEW r \in Runners, Begin(r)
      PROVE  MInv'
  <2>1. /\ pc[r] = "begin" /\ pc' = [pc EXCEPT ![r] = "apply"]
        /\ file' = [file EXCEPT ![r] = file[r]] /\ work' = [work EXCEPT ![r] = {}]
        /\ UNCHANGED <<mounted, schema, ledger, runs, faults>>
    BY <1>1, <1>6 DEF MInv, Draft, Begin
  <2>2. \A g \in Files : g < file[r] => g \in ledger  BY <2>1 DEF MInv, Progress
  <2>3. QED  BY <1>1, <1>2, <2>1, <2>2, DraftStep
<1>7. ASSUME NEW r \in Runners, Apply(r)
      PROVE  MInv'
  <2>1. /\ pc[r] = "apply" /\ work[r] = {} /\ file' = [file EXCEPT ![r] = file[r]]
        /\ UNCHANGED <<mounted, schema, ledger, runs, faults>>
        /\ \A g \in Files : g < file[r] => g \in ledger
    BY <1>1, <1>7 DEF MInv, Draft, Progress, Apply
  <2>2. CASE pc' = [pc EXCEPT ![r] = "record"]
    <3>1. work' = [work EXCEPT ![r] = {"applied"}]
          /\ (file[r] \in Repeatable \/ schema[file[r]] = 0)
      BY <1>1, <1>7, <2>1, <2>2 DEF Apply
    <3>2. mounted => file[r] \in Repeatable
      <4>1. file[r] \in Files  BY <1>1, <1>2, <2>1
      <4>2. schema[file[r]] = (IF mounted THEN 1 ELSE 0) + (IF file[r] \in ledger THEN 1 ELSE 0)
        BY <4>1 DEF MInv, LedgerIsSchema
      <4>3. mounted => schema[file[r]] # 0  BY <4>2
      <4>4. QED  BY <3>1, <4>3
    <3>3. {"applied"} \in SUBSET {"applied", "recorded"} /\ "recorded" \notin {"applied"}
      OBVIOUS
    <3>4. QED  BY <1>1, <1>2, <2>1, <2>2, <3>1, <3>2, <3>3, DraftStep
  <2>3. CASE pc' = [pc EXCEPT ![r] = "rollback"]
    <3>1. work' = [work EXCEPT ![r] = {}]
      BY <1>1, <1>7, <2>1, <2>3 DEF Apply
    <3>2. QED  BY <1>1, <1>2, <2>1, <2>3, <3>1, DraftStep
  <2>4. QED  BY <1>7, <2>2, <2>3 DEF Apply
<1>8. ASSUME NEW r \in Runners, Record(r)
      PROVE  MInv'
  <2>1. /\ pc[r] = "record" /\ file' = [file EXCEPT ![r] = file[r]]
        /\ UNCHANGED <<mounted, schema, ledger, runs, faults>>
        /\ \A g \in Files : g < file[r] => g \in ledger
        /\ \A q \in Runners \ {r} : file[q] = file[r] => "recorded" \notin work[q]
        /\ mounted => file[r] \in Repeatable
    BY <1>1, <1>8 DEF MInv, Draft, Progress, Record, Blocked
  <2>2. CASE file[r] \in ledger
    <3>1. pc' = [pc EXCEPT ![r] = "rollback"] /\ work' = [work EXCEPT ![r] = work[r]]
      BY <1>1, <1>8, <2>2 DEF Record
    <3>2. "recorded" \notin work[r]  BY <2>2 DEF MInv, Draft
    <3>3. QED  BY <1>1, <1>2, <2>1, <3>1, <3>2, DraftStep
  <2>3. CASE file[r] \notin ledger
    <3> DEFINE w == work[r] \cup {"recorded"}
    <3>1. pc' = [pc EXCEPT ![r] = "commit"] /\ work' = [work EXCEPT ![r] = w]
      BY <1>1, <1>8, <2>3 DEF Record
    <3>2. w \in SUBSET {"applied", "recorded"} /\ "recorded" \in w  BY <1>1
    <3> HIDE DEF w
    <3>3. QED  BY <1>1, <1>2, <2>1, <2>3, <3>1, <3>2, DraftStep
  <2>4. QED  BY <2>2, <2>3
<1>9. ASSUME NEW r \in Runners, Commit(r)
      PROVE  MInv'
  <2>1. pc[r] = "commit" /\ file[r] \in Files  BY <1>2, <1>9 DEF Commit
  <2>2. PICK label \in {"done", "select"} :
           /\ pc' = [pc EXCEPT ![r] = label]
           /\ file[r] = FileCount <=> label = "done"
    BY <1>9 DEF Commit, NextFile
  <2>3. /\ file' = [file EXCEPT ![r] = file[r] + 1] /\ file[r] + 1 \in 1..FileCount + 1
        /\ label = "select" => file[r] + 1 \in Files
        /\ Committed(r) /\ UNCHANGED <<mounted, runs, faults>>
    BY <1>1, <1>9, <2>1, <2>2 DEF Commit, NextFile
  <2>4. QED  BY <2>1, <2>2, <2>3, CommitStep
<1>10. ASSUME NEW r \in Runners, Rollback(r)
       PROVE  MInv'
  <2>1. /\ pc' = [pc EXCEPT ![r] = "failed"] /\ file' = [file EXCEPT ![r] = file[r]]
        /\ work' = [work EXCEPT ![r] = {}]
        /\ UNCHANGED <<mounted, schema, ledger, runs, faults>>
    BY <1>1, <1>10 DEF Rollback
  <2>2. QED  BY <1>1, <2>1, DraftStep
<1>11. ASSUME NEW r \in Runners, Fails(r)
       PROVE  MInv'
  <2>1. /\ file' = [file EXCEPT ![r] = file[r]] /\ work' = [work EXCEPT ![r] = work[r]]
        /\ UNCHANGED <<mounted, schema, ledger, runs>> /\ faults' \in 0..MaxFaults
    BY <1>1, <1>11 DEF Fails
  <2>2. Draft(r) /\ Progress(r)  BY DEF MInv
  <2>3. CASE pc[r] \in {"create", "select", "begin"}
    <3>1. pc' = [pc EXCEPT ![r] = "failed"] /\ work[r] = {}
      BY <1>11, <2>2, <2>3 DEF Fails, Draft
    <3>2. QED  BY <1>1, <2>1, <3>1, DraftStep
  <2>4. CASE pc[r] \in {"apply", "record", "commit"}
    <3>1. pc' = [pc EXCEPT ![r] = "rollback"]  BY <1>11, <2>4 DEF Fails
    <3>2. /\ \A g \in Files : g < file[r] => g \in ledger
          /\ "recorded" \in work[r] =>
                /\ file[r] \notin ledger
                /\ \A q \in Runners \ {r} : file[q] = file[r] => "recorded" \notin work[q]
      BY <2>2, <2>4 DEF Draft, Progress
    <3>3. QED  BY <1>1, <1>2, <2>1, <2>4, <3>1, <3>2, DraftStep
  <2>5. QED  BY <1>11, <2>3, <2>4 DEF Fails
<1>12. ASSUME NEW r \in Runners, Dies(r)
       PROVE  MInv'
  <2>1. /\ file' = [file EXCEPT ![r] = file[r]] /\ work' = [work EXCEPT ![r] = work[r]]
        /\ UNCHANGED <<mounted, schema, ledger, runs>> /\ faults' \in 0..MaxFaults
    BY <1>1, <1>12 DEF Dies
  <2>2. Draft(r) /\ Progress(r)  BY DEF MInv
  <2>3. "recorded" \in work[r] =>
          /\ file[r] \notin ledger
          /\ \A q \in Runners \ {r} : file[q] = file[r] => "recorded" \notin work[q]
    BY <2>2 DEF Draft
  <2>4. CASE pc[r] = "commit"
    <3>1. pc' = [pc EXCEPT ![r] = "goneCommitting"]  BY <1>12, <2>4 DEF Dies
    <3>2. /\ \A g \in Files : g < file[r] => g \in ledger
          /\ "recorded" \in work[r] /\ (mounted => file[r] \in Repeatable)
      BY <2>2, <2>4 DEF Draft, Progress
    <3>3. QED  BY <1>1, <1>2, <2>1, <2>3, <2>4, <3>1, <3>2, DraftStep
  <2>5. CASE pc[r] # "commit"
    <3>1. pc' = [pc EXCEPT ![r] = "gone"]  BY <1>12, <2>5 DEF Dies
    <3>2. QED  BY <1>1, <2>1, <2>3, <3>1, DraftStep
  <2>6. QED  BY <2>4, <2>5
<1>13. ASSUME NEW r \in Runners, SessionEnds(r)
       PROVE  MInv'
  <2>1. /\ pc' = [pc EXCEPT ![r] = "failed"] /\ file' = [file EXCEPT ![r] = file[r]]
        /\ UNCHANGED <<mounted, runs, faults>>
    BY <1>1, <1>13 DEF SessionEnds
  <2>2. CASE work' = [work EXCEPT ![r] = {}] /\ UNCHANGED <<schema, ledger>>
    BY <1>1, <2>1, <2>2, DraftStep
  <2>3. CASE pc[r] = "goneCommitting" /\ Committed(r)
    BY <1>1, <2>1, <2>3, CommitStep
  <2>4. QED  BY <1>13, <2>2, <2>3 DEF SessionEnds
<1>14. CASE UNCHANGED vars
  BY <1>14 DEF vars, MInv, TypeOK, LedgerIsSchema, Ledger, Draft, Progress
<1>15. QED
  BY <1>3, <1>4, <1>5, <1>6, <1>7, <1>8, <1>9, <1>10, <1>11, <1>12, <1>13, <1>14
     DEF Next, Step, Quiescent

LEMMA MAlways == Spec => []MInv
BY MInit, MStep, PTL DEF Spec

-------------------------------------------------------------------------------
(* Theorems. *)

\* Every variable keeps its type, and no run goes past its last file.
THEOREM TypeCorrect == Spec => []TypeOK
<1>1. MInv => TypeOK  BY DEF MInv
<1>2. QED  BY MAlways, <1>1, PTL

\* schema_migrations says what was applied, and each file was applied once.
THEOREM LedgerTrue == Spec => []LedgerIsSchema
<1>1. MInv => LedgerIsSchema  BY DEF MInv
<1>2. QED  BY MAlways, <1>1, PTL

\* Files are applied in order, and a run that reports success left none out.
THEOREM LedgerPrefix == Spec => []LedgerIsPrefix
<1>1. MInv => LedgerIsPrefix
  <2> SUFFICES ASSUME MInv PROVE LedgerIsPrefix
    OBVIOUS
  <2>1. Files = 1..FileCount /\ FileCount \in Nat /\ ledger \subseteq Files
    BY FilesAssumption DEF MInv, TypeOK, Files
  <2>2. \A f \in ledger : 1..f \subseteq ledger
    BY <2>1 DEF MInv, Ledger
  <2>3. \A r \in Runners : At(r, "done") => ledger = Files
    BY <2>1 DEF MInv, Progress, At
  <2>4. QED  BY <2>2, <2>3 DEF LedgerIsPrefix
<1>2. QED  BY MAlways, <1>1, PTL

\* A database docker-compose initialised is never migrated.
THEOREM MountedStays == Spec => []MountedIsNeverMigrated
<1>1. MInv => MountedIsNeverMigrated  BY DEF MInv, Ledger, MountedIsNeverMigrated
<1>2. QED  BY MAlways, <1>1, PTL

-------------------------------------------------------------------------------
(* Waiting *)

\* The server keeps runner r's statement waiting for another transaction.
Waits(r) ==
  \/ /\ At(r, "apply") /\ Blocked(r, "applied")
     /\ file[r] \notin Repeatable /\ schema[file[r]] = 0
  \/ At(r, "record") /\ Blocked(r, "recorded")

\* A transaction that others may wait for, and that waits for none itself: its next
\* statement, or the end of its session, is answered.
Moves(r) ==
  /\ pc[r] \in {"record", "commit", "rollback", "gone", "goneCommitting"}
  /\ ~Waits(r)

\* No runners wait for each other in a circle: whoever waits, waits for a transaction
\* that moves, or for one that waits for a transaction that moves.
NoDeadlock ==
  \A r \in Runners : Waits(r) =>
    \E q \in Runners \ {r} :
      /\ file[q] = file[r]
      /\ Moves(q) \/ (Waits(q) /\ \E p \in Runners \ {q} : file[p] = file[q] /\ Moves(p))

\* Any number of runs that overlap, fail and die never block one another for good: what
\* RunsEnd rests on.
THEOREM RunnersNeverDeadlock == Spec => []NoDeadlock
<1>1. ASSUME MInv  PROVE NoDeadlock
  <2>1. ASSUME NEW q \in Runners, work[q] # {}
        PROVE  pc[q] \in {"record", "commit", "rollback", "gone", "goneCommitting"}
    BY <1>1, <2>1 DEF MInv, Draft, TypeOK, Pc, TxPcs, Ended
  <2>2. ASSUME NEW q \in Runners, "recorded" \in work[q]  PROVE Moves(q)
    <3>1. pc[q] \in {"record", "commit", "rollback", "gone", "goneCommitting"}
      BY <2>1, <2>2
    <3>2. ~Blocked(q, "recorded")
      BY <1>1, <2>2 DEF MInv, Draft, Blocked
    <3> QED  BY <3>1, <3>2 DEF Moves, Waits, At
  <2>3. ASSUME NEW r \in Runners, Blocked(r, "recorded")
        PROVE  \E q \in Runners \ {r} : file[q] = file[r] /\ Moves(q)
    BY <2>2, <2>3 DEF Blocked
  <2>4. ASSUME NEW r \in Runners, Blocked(r, "applied")
        PROVE  \E q \in Runners \ {r} : file[q] = file[r] /\ (Moves(q) \/ (Waits(q) /\ Blocked(q, "recorded")))
    <3>1. PICK q \in Runners \ {r} : file[q] = file[r] /\ "applied" \in work[q]
      BY <2>4 DEF Blocked
    <3>2. pc[q] \in {"record", "commit", "rollback", "gone", "goneCommitting"}
      BY <2>1, <3>1
    <3>3. Moves(q) \/ (Waits(q) /\ Blocked(q, "recorded"))
      BY <3>2 DEF Moves, Waits, At
    <3> QED  BY <3>1, <3>3
  <2> QED  BY <2>3, <2>4 DEF NoDeadlock, Waits
<1> QED  BY MAlways, <1>1, PTL

===============================================================================
