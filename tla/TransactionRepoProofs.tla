------------------------- MODULE TransactionRepoProofs -------------------------
(***************************************************************************)
(* Theorems about TransactionRepo for every set of calls, sessions and     *)
(* transitions, every pool size and every number of faults.                *)
(***************************************************************************)
EXTENDS TransactionRepo, SequenceTheorems, FiniteSetTheorems, TLAPS

(* The inductive invariant. *)

\* The types the argument needs (all of TypeOK but the queue and the process, of
\* which see Queue and Process).
Types ==
  /\ row \in Txn
  /\ audit \in Seq(Entry)
  /\ log \in Seq(Writers)
  /\ pc \in [Calls -> Pc]
  /\ client \in [Calls -> Sessions \cup {NoSession}]
  /\ tx \in [Sessions -> Tx]
  /\ owner \in Sessions \cup {NoSession}
  /\ orphan \in [Sessions -> {"no", "open", "committing"}]

\* A call has a client exactly while it uses one, shares it with no other call and
\* not with a process that is gone; only writers open transactions.
Exclusive ==
  /\ \A c \in Calls : client[c] # NoSession <=> pc[c] \in HoldPcs
  /\ \A c, d \in Calls : client[c] = client[d] /\ client[c] # NoSession => c = d
  /\ \A c \in Calls : client[c] # NoSession => orphan[client[c]] = "no"
  /\ \A c \in Calls : pc[c] \in HoldPcs \ {"read"} => c \in Writers

Clean(k) == tx[k] = NoTx /\ owner # k

\* What session k has of call c's transaction after its UPDATE and its INSERT.
Opened       == [state |-> "open", row |-> NoRow, entries |-> <<>>]
After(c)     == Updated(row, Writes[c].to, Writes[c].attempt, Writes[c].ref)
Draft(c, es) == [state |-> "open", row |-> After(c), entries |-> es]

\* The transaction of a call is what its last statement made it, and from the
\* SELECT ... FOR UPDATE to its end the session holds the row lock, so that the
\* row it updated is still the committed one.
Staged(c) ==
  /\ pc[c] \in {"begin", "committed", "rolledBack", "read"} => Clean(client[c])
  /\ pc[c] = "lock" => tx[client[c]] = Opened /\ owner # client[c]
  /\ pc[c] = "update" => tx[client[c]] = Opened /\ owner = client[c]
  /\ pc[c] = "insert" => tx[client[c]] = Draft(c, <<>>) /\ owner = client[c]
  /\ pc[c] = "commit" => tx[client[c]] = Draft(c, <<c>>) /\ owner = client[c]
  /\ pc[c] = "rollback" /\ tx[client[c]].state = "none" => Clean(client[c])

\* So is the transaction a dead process was about to commit; what is not in use
\* is clean.
Left(k) ==
  /\ orphan[k] = "committing" =>
        \E c \in Writers : /\ pc[c] = "gone"
                           /\ tx[k] = Draft(c, <<c>>) /\ owner = k
                           /\ \A i \in 1..Len(log) : log[i] # c
  /\ orphan[k] = "no" /\ (\A c \in Calls : client[c] # k) => Clean(k)

\* Who is on the log.
Logged ==
  /\ \A i, j \in 1..Len(log) : log[i] = log[j] => i = j
  /\ \A c \in Writers :
       /\ pc[c] \in {"committed", "answered"} => \E i \in 1..Len(log) : log[i] = c
       /\ pc[c] \notin {"committed", "answered", "gone"}
             => \A i \in 1..Len(log) : log[i] # c

RInv ==
  /\ Types
  /\ Exclusive
  /\ \A c \in Calls : Staged(c)
  /\ \A k \in Sessions : Left(k)
  /\ Logged

-------------------------------------------------------------------------------
(* The end of a transaction. *)

\* An updated row is a row.
LEMMA AfterIsRow ==
  ASSUME row \in Txn, NEW c \in Writers
  PROVE  /\ After(c) \in Txn
         /\ After(c) # NoRow
         /\ Writes[c] \in Write
         /\ [from |-> Writes[c].from, to |-> Writes[c].to,
             attempt |-> Writes[c].attempt] \in Entry
<1>1. /\ Writes[c] \in Write /\ Writes[c].to \in TransactionStatus
      /\ Writes[c].from \in TransactionStatus
      /\ Writes[c].attempt \in Nat /\ Writes[c].ref \in BOOLEAN
  BY WritesAssumption, MaxAttemptsAssumption DEF Write
<1>2. After(c) \in Txn  BY <1>1 DEF After, Updated, Txn
<1>3. After(c).status \in TransactionStatus  BY <1>1 DEF After, Updated
<1>4. After(c) # NoRow  BY <1>3 DEF NoRow, TransactionStatus
<1>5. QED  BY <1>1, <1>2, <1>4 DEF Entry

\* Committing the transaction of call c is the step the store promises, and puts c
\* on the log.
LEMMA CommitIsTransition ==
  ASSUME row \in Txn, log \in Seq(Writers), audit \in Seq(Entry),
         NEW c \in Writers, NEW k \in Sessions,
         tx[k] = Draft(c, <<c>>), CommitTx(k)
  PROVE  /\ row' = After(c) /\ row' \in Txn
         /\ log' = Append(log, c)
         /\ audit' \in Seq(Entry)
         /\ StoreNext
<1> DEFINE w == Writes[c]
           e == [from |-> w.from, to |-> w.to, attempt |-> w.attempt]
           E(i) == [from |-> Writes[<<c>>[i]].from, to |-> Writes[<<c>>[i]].to,
                    attempt |-> Writes[<<c>>[i]].attempt]
<1>1. After(c) \in Txn /\ After(c) # NoRow /\ w \in Write /\ e \in Entry
  BY AfterIsRow
<1>2. /\ tx[k].state = "open" /\ tx[k].row = After(c) /\ tx[k].entries = <<c>>
  BY DEF Draft
<1>3. /\ row' = After(c)
      /\ log' = log \o <<c>>
      /\ audit' = audit \o [i \in DOMAIN <<c>> |-> E(i)]
  BY <1>1, <1>2 DEF CommitTx
<1>4. [i \in DOMAIN <<c>> |-> E(i)] = <<e>>
  OBVIOUS
<1>5. log' = Append(log, c)  BY <1>3
<1>6. audit' = Append(audit, e)  BY <1>1, <1>3, <1>4
<1>7. audit' # audit /\ audit' \in Seq(Entry)
  <2> HIDE DEF e
  <2>1. Len(audit') = Len(audit) + 1 /\ audit' \in Seq(Entry)  BY <1>1, <1>6
  <2>2. QED  BY <2>1
<1>8. transitionStatus(w.from, w.to, w.attempt, w.ref)
  BY <1>3, <1>6 DEF transitionStatus, After
<1>9. StoreNext  BY <1>1, <1>7, <1>8 DEF StoreNext, Write
<1>10. QED  BY <1>1, <1>3, <1>5, <1>7, <1>9

-------------------------------------------------------------------------------
(* The invariant is kept. *)

\* A call that moves on within its transaction disturbs no other call: it writes
\* only its own session, and the row lock only if no other session has it.
LEMMA StepInPlace ==
  ASSUME RInv, NEW c \in Writers, NEW k \in Sessions, NEW X \in Tx, NEW label \in HoldPcs,
         client[c] = k, pc' = [pc EXCEPT ![c] = label], tx' = [tx EXCEPT ![k] = X],
         UNCHANGED <<store, client, orphan>>,
         owner' = owner \/ (owner \in {NoSession, k} /\ owner' \in {NoSession, k}),
         pc[c] # "committed", label \notin {"committed", "read"}, Staged(c)'
  PROVE  RInv'
<1>1. /\ pc \in [Calls -> Pc] /\ client \in [Calls -> Sessions \cup {NoSession}]
      /\ tx \in [Sessions -> Tx] /\ owner \in Sessions \cup {NoSession}
      /\ orphan \in [Sessions -> {"no", "open", "committing"}]
      /\ NoSession \notin Sessions /\ c \in Calls /\ label \in Pc
      /\ row' = row /\ log' = log /\ audit' = audit
  BY SessionsAssumption DEF RInv, Types, Calls, Pc, store
<1>2. \A d \in Calls : d # c => pc'[d] = pc[d] /\ (client[d] # NoSession => client[d] # k)
  BY <1>1 DEF RInv, Exclusive
<1>3. Types'  BY <1>1 DEF RInv, Types
<1>4. pc[c] \in HoldPcs /\ pc'[c] = label /\ orphan[k] = "no" /\ client' = client
  BY <1>1 DEF RInv, Exclusive
<1>5. Exclusive'  BY <1>1, <1>2, <1>4 DEF RInv, Exclusive
<1>6. ASSUME NEW d \in Calls, d # c
      PROVE  Staged(d)'
  <2>1. pc'[d] = pc[d] /\ client'[d] = client[d] /\ After(d)' = After(d)
    BY <1>1, <1>2, <1>4, <1>6 DEF After
  <2>2. CASE pc[d] \notin HoldPcs
    BY <2>1, <2>2 DEF Staged, HoldPcs, TxPcs
  <2>3. CASE pc[d] \in HoldPcs
    <3>1. client[d] # NoSession /\ client[d] # k  BY <1>2, <1>6, <2>3 DEF RInv, Exclusive
    <3>2. client[d] \in Sessions  BY <1>1, <3>1
    <3>3. tx'[client[d]] = tx[client[d]]  BY <1>1, <3>1, <3>2
    <3>4. owner' = client[d] <=> owner = client[d]  BY <3>1
    <3>5. Staged(d)  BY DEF RInv
    <3>6. QED
      BY <2>1, <3>1, <3>3, <3>4, <3>5 DEF Staged, Clean, Draft
  <2>4. QED  BY <2>2, <2>3
<1>7. \A d \in Calls : Staged(d)'  BY <1>6
<1>8. ASSUME NEW j \in Sessions
      PROVE  Left(j)'
  <2>1. CASE j = k
    BY <1>1, <1>4, <2>1 DEF Left
  <2>2. CASE j # k
    <3>1. tx'[j] = tx[j] /\ (owner' = j <=> owner = j)  BY <1>1, <2>2
    <3>2. \A d \in Writers : pc[d] = "gone" => pc'[d] = "gone" /\ After(d)' = After(d)
      BY <1>1, <1>2, <1>4 DEF After, Calls, HoldPcs, TxPcs
    <3>3. Left(j)  BY DEF RInv
    <3>4. orphan' = orphan /\ client' = client /\ log' = log  BY <1>1
    <3>5. ASSUME orphan'[j] = "committing"
          PROVE  \E d \in Writers : /\ pc'[d] = "gone"
                                    /\ tx'[j] = Draft(d, <<d>>)' /\ owner' = j
                                    /\ \A i \in 1..Len(log') : log'[i] # d
      <4>1. PICK d \in Writers : /\ pc[d] = "gone"
                                 /\ tx[j] = Draft(d, <<d>>) /\ owner = j
                                 /\ \A i \in 1..Len(log) : log[i] # d
        BY <3>3, <3>4, <3>5 DEF Left
      <4>2. Draft(d, <<d>>)' = Draft(d, <<d>>)  BY <3>2, <4>1 DEF Draft
      <4>3. QED  BY <3>1, <3>2, <3>4, <4>1, <4>2
    <3>6. orphan'[j] = "no" /\ (\A d \in Calls : client'[d] # j) => Clean(j)'
      BY <3>1, <3>3, <3>4 DEF Left, Clean
    <3>7. QED  BY <3>5, <3>6 DEF Left
  <2>3. QED  BY <2>1, <2>2
<1>9. Logged'
  BY <1>1, <1>2, <1>4 DEF RInv, Logged, Calls, HoldPcs, TxPcs
<1>10. QED  BY <1>3, <1>5, <1>7, <1>8, <1>9 DEF RInv

\* A call that gets a clean client, gives one back, or does without, disturbs no
\* other call either.
LEMMA ClientStep ==
  ASSUME RInv, NEW c \in Calls, NEW x \in Sessions \cup {NoSession}, NEW label \in Pc,
         pc' = [pc EXCEPT ![c] = label], client' = [client EXCEPT ![c] = x],
         UNCHANGED <<store, tx, owner, orphan>>,
         \/ /\ x = NoSession /\ label \notin HoldPcs
            /\ client[c] # NoSession => Clean(client[c])
         \/ /\ x # NoSession /\ client[c] = NoSession
            /\ label = "read" \/ (label = "begin" /\ c \in Writers)
            /\ orphan[x] = "no" /\ \A d \in Calls : client[d] # x,
         c \in Writers => \/ pc[c] = "committed" /\ label = "answered"
                          \/ /\ pc[c] \notin {"committed", "answered", "gone"}
                             /\ label \notin {"committed", "answered"}
  PROVE  RInv'
<1>1. /\ pc \in [Calls -> Pc] /\ client \in [Calls -> Sessions \cup {NoSession}]
      /\ NoSession \notin Sessions
      /\ row' = row /\ log' = log /\ audit' = audit
      /\ tx' = tx /\ owner' = owner /\ orphan' = orphan
  BY SessionsAssumption DEF RInv, Types, store
<1>2. /\ pc'[c] = label /\ client'[c] = x
      /\ \A d \in Calls : d # c => pc'[d] = pc[d] /\ client'[d] = client[d]
  BY <1>1
<1>3. Types'  BY <1>1 DEF RInv, Types
<1>4. Exclusive'
  BY <1>1, <1>2 DEF RInv, Exclusive, HoldPcs, TxPcs
<1>5. ASSUME NEW d \in Calls
      PROVE  Staged(d)'
  <2>1. After(d)' = After(d)  BY <1>1 DEF After
  <2>2. CASE d # c
    BY <1>1, <1>2, <2>1, <2>2 DEF RInv, Staged, Clean, Draft
  <2>3. CASE d = c /\ x = NoSession
    BY <1>2, <2>3 DEF Staged, HoldPcs, TxPcs
  <2>4. CASE d = c /\ x # NoSession
    <3>1. Clean(x)  BY <1>1, <2>4 DEF RInv, Left
    <3>2. QED  BY <1>1, <1>2, <2>4, <3>1 DEF Staged, Clean
  <2>5. QED  BY <2>2, <2>3, <2>4
<1>6. ASSUME NEW j \in Sessions
      PROVE  Left(j)'
  <2>1. \A d \in Writers : pc[d] = "gone" => pc'[d] = "gone" /\ After(d)' = After(d)
    BY <1>1, <1>2 DEF After, Calls
  <2>2. Left(j)  BY DEF RInv
  <2>3. (\A d \in Calls : client'[d] # j) => (\A d \in Calls : client[d] # j) \/ Clean(j)
    BY <1>1, <1>2
  <2>4. ASSUME orphan[j] = "committing"
        PROVE  \E d \in Writers : /\ pc'[d] = "gone"
                                  /\ tx'[j] = Draft(d, <<d>>)' /\ owner' = j
                                  /\ \A i \in 1..Len(log') : log'[i] # d
    <3>1. PICK d \in Writers : /\ pc[d] = "gone"
                               /\ tx[j] = Draft(d, <<d>>) /\ owner = j
                               /\ \A i \in 1..Len(log) : log[i] # d
      BY <2>2, <2>4 DEF Left
    <3>2. Draft(d, <<d>>)' = Draft(d, <<d>>)  BY <2>1, <3>1 DEF Draft
    <3>3. QED  BY <1>1, <2>1, <3>1, <3>2
  <2>5. orphan[j] = "no" /\ (\A d \in Calls : client'[d] # j) => Clean(j)'
    BY <1>1, <2>2, <2>3 DEF Left, Clean
  <2>6. QED  BY <1>1, <2>4, <2>5 DEF Left
<1>7. Logged'
  BY <1>1, <1>2 DEF RInv, Logged, Calls
<1>8. QED  BY <1>3, <1>4, <1>5, <1>6, <1>7 DEF RInv

\* So every step of a call other than its COMMIT keeps the invariant and leaves the
\* store alone.
LEMMA CallStepKeeps ==
  ASSUME RInv, NEW c \in Calls, Connect(c) \/ CallStep(c), ~Commit(c)
  PROVE  RInv' /\ UNCHANGED <<row, audit>>
<1> USE DEF At, Goto
<1> DEFINE k == client[c]
<1>1. /\ pc \in [Calls -> Pc] /\ client \in [Calls -> Sessions \cup {NoSession}]
      /\ tx \in [Sessions -> Tx] /\ owner \in Sessions \cup {NoSession}
      /\ row \in Txn /\ NoSession \notin Sessions /\ Staged(c)
      /\ k = NoSession <=> pc[c] \notin HoldPcs
  BY SessionsAssumption DEF RInv, Types, Exclusive
<1>2. ASSUME pc[c] \in HoldPcs \ {"read"}
      PROVE  k \in Sessions /\ c \in Writers /\ tx[k] \in Tx
  BY <1>1, <1>2 DEF RInv, Exclusive
<1>3. CASE Connect(c)
  <2>1. PICK label \in {"queued", "rejected"} : pc' = [pc EXCEPT ![c] = label]
    BY <1>3 DEF Connect
  <2>2. pc[c] = "todo" /\ k = NoSession /\ client' = [client EXCEPT ![c] = NoSession]
        /\ UNCHANGED <<store, tx, owner, orphan>>
    BY <1>1, <1>3 DEF Connect, HoldPcs, TxPcs
  <2>3. label \in Pc /\ label \notin HoldPcs  BY DEF Pc, HoldPcs, TxPcs, FinalPcs
  <2>4. QED  BY <2>1, <2>2, <2>3, ClientStep DEF store
<1>4. CASE Grant(c)
  <2>1. PICK x \in Free : client' = [client EXCEPT ![c] = x]  BY <1>4 DEF Grant
  <2>2. x \in Sessions /\ orphan[x] = "no" /\ \A d \in Calls : client[d] # x
    BY <1>1, <2>1 DEF Free, Held
  <2>3. PICK label \in {"begin", "read"} :
          /\ pc' = [pc EXCEPT ![c] = label]
          /\ label = "read" <=> c \notin Writers
    BY <1>4 DEF Grant
  <2>4. pc[c] = "queued" /\ k = NoSession /\ UNCHANGED <<store, tx, owner, orphan>>
    BY <1>1, <1>4 DEF Grant, HoldPcs, TxPcs
  <2>5. label \in Pc  BY DEF Pc, HoldPcs, TxPcs
  <2>6. QED  BY <1>1, <2>1, <2>2, <2>3, <2>4, <2>5, ClientStep DEF store
<1>5. CASE GrantTimeout(c)
  <2>1. /\ pc' = [pc EXCEPT ![c] = "rejected"] /\ pc[c] = "queued" /\ k = NoSession
        /\ client' = [client EXCEPT ![c] = NoSession]
        /\ UNCHANGED <<store, tx, owner, orphan>>
    BY <1>1, <1>5 DEF GrantTimeout, HoldPcs, TxPcs
  <2>2. "rejected" \in Pc /\ "rejected" \notin HoldPcs  BY DEF Pc, HoldPcs, TxPcs, FinalPcs
  <2>3. QED  BY <2>1, <2>2, ClientStep DEF store
<1>6. CASE c \in Readers /\ Read(c)
  <2>1. PICK label \in {"answered", "rejected"} : pc' = [pc EXCEPT ![c] = label]
    BY <1>6 DEF Read
  <2>2. /\ pc[c] = "read" /\ client' = [client EXCEPT ![c] = NoSession]
        /\ UNCHANGED <<store, tx, owner, orphan>> /\ Clean(k)
    BY <1>1, <1>6 DEF Read, Staged
  <2>3. label \in Pc /\ label \notin HoldPcs  BY DEF Pc, HoldPcs, TxPcs, FinalPcs
  <2>4. c \notin Writers  BY <1>6, CallsAssumption
  <2>5. QED  BY <2>1, <2>2, <2>3, <2>4, ClientStep DEF store
<1>7. CASE c \in Writers /\ Begin(c)
  <2>1. pc[c] = "begin" /\ tx[k] = NoTx /\ owner # k /\ k \in Sessions
    BY <1>1, <1>2, <1>7 DEF Begin, Staged, Clean, HoldPcs, TxPcs
  <2>2. /\ Opened \in Tx /\ tx' = [tx EXCEPT ![k] = Opened]
        /\ pc' = [pc EXCEPT ![c] = "lock"] /\ UNCHANGED <<store, client, owner, orphan>>
    <3>1. Opened \in Tx  BY DEF Opened, Tx
    <3>2. [tx[k] EXCEPT !.state = "open"] = Opened  BY <2>1 DEF Opened, NoTx
    <3>3. tx' = [tx EXCEPT ![k] = [tx[k] EXCEPT !.state = "open"]]  BY <1>7 DEF Begin
    <3>4. QED  BY <1>7, <3>1, <3>2, <3>3 DEF Begin
  <2>3. Staged(c)'  BY <1>1, <2>1, <2>2 DEF Staged
  <2>4. "lock" \in HoldPcs  BY DEF HoldPcs, TxPcs
  <2>5. QED  BY <1>7, <2>1, <2>2, <2>3, <2>4, StepInPlace DEF store
<1>8. CASE c \in Writers /\ Lock(c)
  <2>1. pc[c] = "lock" /\ tx[k] = Opened /\ k \in Sessions /\ tx[k] \in Tx
    BY <1>1, <1>2, <1>8 DEF Lock, Staged, HoldPcs, TxPcs
  <2>2. /\ tx' = [tx EXCEPT ![k] = tx[k]] /\ owner \in {NoSession, k} /\ owner' = k
        /\ pc' = [pc EXCEPT ![c] = "update"] /\ UNCHANGED <<store, client, orphan>>
    BY <1>1, <1>8, <2>1 DEF Lock
  <2>3. Staged(c)'  BY <1>1, <2>1, <2>2 DEF Staged
  <2>4. "update" \in HoldPcs  BY DEF HoldPcs, TxPcs
  <2>5. QED  BY <1>8, <2>1, <2>2, <2>3, <2>4, StepInPlace DEF store
<1>9. CASE c \in Writers /\ Update(c)
  <2>1. pc[c] = "update" /\ tx[k] = Opened /\ owner = k /\ k \in Sessions
    BY <1>1, <1>2, <1>9 DEF Update, Staged, HoldPcs, TxPcs
  <2>2. After(c) \in Txn  BY <1>1, <1>9, AfterIsRow
  <2>3. tx' = [tx EXCEPT ![k] = [tx[k] EXCEPT !.row = After(c)]]
    BY <1>9, <2>1 DEF Update, Opened, After
  <2>4. /\ Draft(c, <<>>) \in Tx /\ tx' = [tx EXCEPT ![k] = Draft(c, <<>>)]
        /\ pc' = [pc EXCEPT ![c] = "insert"] /\ UNCHANGED <<store, client, owner, orphan>>
    <3>1. Draft(c, <<>>) \in Tx  BY <2>2 DEF Draft, Tx
    <3>2. [tx[k] EXCEPT !.row = After(c)] = Draft(c, <<>>)  BY <2>1 DEF Opened, Draft
    <3>3. QED  BY <1>9, <2>3, <3>1, <3>2 DEF Update
  <2>5. Draft(c, <<>>)' = Draft(c, <<>>)  BY <2>4 DEF Draft, After, store
  <2>6. Staged(c)'  BY <1>1, <2>1, <2>4, <2>5 DEF Staged
  <2>7. "insert" \in HoldPcs  BY DEF HoldPcs, TxPcs
  <2>8. QED  BY <1>9, <2>1, <2>4, <2>6, <2>7, StepInPlace DEF store
<1>10. CASE c \in Writers /\ Insert(c)
  <2>1. pc[c] = "insert" /\ tx[k] = Draft(c, <<>>) /\ owner = k /\ k \in Sessions
    BY <1>1, <1>2, <1>10 DEF Insert, Staged, HoldPcs, TxPcs
  <2>2. After(c) \in Txn  BY <1>1, <1>10, AfterIsRow
  <2>3. /\ Draft(c, <<c>>) \in Tx /\ tx' = [tx EXCEPT ![k] = Draft(c, <<c>>)]
        /\ pc' = [pc EXCEPT ![c] = "commit"] /\ UNCHANGED <<store, client, owner, orphan>>
    <3>1. Draft(c, <<c>>) \in Tx  BY <1>10, <2>2 DEF Draft, Tx
    <3>2. [tx[k] EXCEPT !.entries = Append(tx[k].entries, c)] = Draft(c, <<c>>)
      <4> HIDE DEF k
      <4>1. tx[k].entries = <<>>  BY <2>1 DEF Draft
      <4>2. Append(tx[k].entries, c) = <<c>>  BY <4>1
      <4>3. QED  BY <2>1, <4>2 DEF Draft
    <3>3. tx' = [tx EXCEPT ![k] = [tx[k] EXCEPT !.entries = Append(tx[k].entries, c)]]
      BY <1>10 DEF Insert
    <3>4. QED  BY <1>10, <3>1, <3>2, <3>3 DEF Insert
  <2>4. Draft(c, <<c>>)' = Draft(c, <<c>>)  BY <2>3 DEF Draft, After, store
  <2>5. Staged(c)'  BY <1>1, <2>1, <2>3, <2>4 DEF Staged
  <2>6. "commit" \in HoldPcs  BY DEF HoldPcs, TxPcs
  <2>7. QED  BY <1>10, <2>1, <2>3, <2>5, <2>6, StepInPlace DEF store
<1>11. CASE c \in Writers /\ StatementFails(c)
  <2>1. /\ pc[c] \in TxPcs /\ k \in Sessions /\ tx[k] \in Tx /\ pc' = [pc EXCEPT ![c] = "rollback"]
        /\ UNCHANGED <<store, client, orphan>>
    BY <1>2, <1>11 DEF StatementFails, HoldPcs, TxPcs
  <2>2. \E X \in Tx : tx' = [tx EXCEPT ![k] = X]
    <3>1. CASE pc[c] = "begin"
      BY <1>1, <1>11, <2>1, <3>1 DEF StatementFails
    <3>2. CASE pc[c] = "commit"
      <4>1. NoTx \in Tx  BY DEF NoTx, Tx
      <4>2. QED  BY <1>11, <3>2, <4>1 DEF StatementFails, EndTx
    <3>3. CASE pc[c] \notin {"begin", "commit"}
      <4> DEFINE X == [tx[k] EXCEPT !.state = "failed"]
      <4>1. X \in Tx  BY <2>1 DEF Tx
      <4>2. tx' = [tx EXCEPT ![k] = X]  BY <1>11, <2>1, <3>3 DEF StatementFails, TxPcs
      <4>3. QED  BY <4>1, <4>2
    <3>4. QED  BY <3>1, <3>2, <3>3
  <2>3. owner' = owner \/ (owner \in {NoSession, k} /\ owner' \in {NoSession, k})
    BY <1>11, <2>1 DEF StatementFails, EndTx, TxPcs
  <2>4. Staged(c)'
    <3>1. ASSUME tx'[k].state = "none"
          PROVE  Clean(k)'
      <4>1. CASE pc[c] = "begin"
        BY <1>1, <1>11, <4>1 DEF StatementFails, Staged, Clean
      <4>2. CASE pc[c] = "commit"
        BY <1>1, <1>11, <2>1, <4>2 DEF StatementFails, EndTx, Clean
      <4>3. CASE pc[c] \notin {"begin", "commit"}
        <5> DEFINE X == [tx[k] EXCEPT !.state = "failed"]
        <5>1. tx' = [tx EXCEPT ![k] = X]  BY <1>11, <2>1, <4>3 DEF StatementFails, TxPcs
        <5>2. tx'[k].state = "failed"  BY <1>1, <2>1, <5>1 DEF Tx
        <5>3. QED  BY <3>1, <5>2
      <4>4. QED  BY <4>1, <4>2, <4>3
    <3>2. QED  BY <1>1, <2>1, <3>1 DEF Staged, Clean
  <2>5. "rollback" \in HoldPcs /\ pc[c] # "committed"  BY <2>1 DEF HoldPcs, TxPcs
  <2>6. QED  BY <1>11, <2>1, <2>2, <2>3, <2>4, <2>5, StepInPlace DEF store
<1>12. CASE c \in Writers /\ Rollback(c)
  <2>1. /\ pc[c] = "rollback" /\ k \in Sessions /\ pc' = [pc EXCEPT ![c] = "rolledBack"]
        /\ UNCHANGED <<store, client, orphan>>
        /\ tx' = [tx EXCEPT ![k] = NoTx] /\ owner' = IF owner = k THEN NoSession ELSE owner
    BY <1>2, <1>12 DEF Rollback, AbortTx, EndTx, HoldPcs, TxPcs
  <2>2. NoTx \in Tx /\ "rolledBack" \in HoldPcs  BY DEF NoTx, Tx, HoldPcs, TxPcs
  <2>3. Staged(c)'  BY <1>1, <2>1 DEF Staged, Clean
  <2>4. owner' = owner \/ (owner \in {NoSession, k} /\ owner' \in {NoSession, k})
    BY <2>1
  <2>5. QED  BY <1>12, <2>1, <2>2, <2>3, <2>4, StepInPlace DEF store
<1>13. CASE c \in Writers /\ Release(c)
  <2>1. PICK label \in {"answered", "rejected"} :
          /\ pc' = [pc EXCEPT ![c] = label]
          /\ label = "answered" <=> pc[c] = "committed"
    BY <1>13 DEF Release
  <2>2. /\ pc[c] \in {"committed", "rolledBack"} /\ Clean(k)
        /\ client' = [client EXCEPT ![c] = NoSession]
        /\ UNCHANGED <<store, tx, owner, orphan>>
    BY <1>1, <1>13 DEF Release, Staged
  <2>3. label \in Pc /\ label \notin HoldPcs  BY DEF Pc, HoldPcs, TxPcs, FinalPcs
  <2>4. QED  BY <2>1, <2>2, <2>3, ClientStep DEF store
<1>14. QED
  BY <1>3, <1>4, <1>5, <1>6, <1>7, <1>8, <1>9, <1>10, <1>11, <1>12, <1>13 DEF CallStep

\* A COMMIT, of a call or of a process that is gone: the row changes under nobody,
\* because the session that commits holds the row lock.
LEMMA CommitKeeps ==
  ASSUME RInv, NEW c \in Writers, NEW k \in Sessions,
         tx[k] = Draft(c, <<c>>), owner = k, CommitTx(k), UNCHANGED client,
         \A i \in 1..Len(log) : log[i] # c,
         \/ /\ client[c] = k /\ UNCHANGED orphan
            /\ pc' = [pc EXCEPT ![c] = "committed"]
         \/ /\ orphan[k] = "committing" /\ orphan' = [orphan EXCEPT ![k] = "no"]
            /\ pc[c] = "gone" /\ UNCHANGED pc
  PROVE  RInv' /\ StoreNext
<1>1. /\ pc \in [Calls -> Pc] /\ client \in [Calls -> Sessions \cup {NoSession}]
      /\ tx \in [Sessions -> Tx] /\ row \in Txn
      /\ orphan \in [Sessions -> {"no", "open", "committing"}]
      /\ log \in Seq(Writers) /\ audit \in Seq(Entry)
      /\ NoSession \notin Sessions /\ c \in Calls
  BY SessionsAssumption DEF RInv, Types, Calls
<1>2. /\ row' = After(c) /\ row' \in Txn
      /\ log' = Append(log, c)
      /\ audit' \in Seq(Entry)
      /\ StoreNext
  BY <1>1, CommitIsTransition
<1>3. tx' = [tx EXCEPT ![k] = NoTx] /\ owner' = NoSession /\ client' = client
  BY DEF CommitTx, EndTx
<1>4. NoTx \in Tx /\ "committed" \in Pc /\ "committed" \in HoldPcs
  BY DEF NoTx, Tx, Pc, HoldPcs, TxPcs
<1>5. Types'
  <2>1. pc' \in [Calls -> Pc] /\ orphan' \in [Sessions -> {"no", "open", "committing"}]
    BY <1>1, <1>4
  <2>2. log' \in Seq(Writers) /\ tx' \in [Sessions -> Tx]
    BY <1>1, <1>2, <1>3, <1>4
  <2>3. QED  BY <1>1, <1>2, <1>3, <2>1, <2>2 DEF Types
<1>6. \A d \in Calls : d # c => pc'[d] = pc[d] /\ client[d] # k
  BY <1>1 DEF RInv, Exclusive
<1>7. (client[c] = k /\ pc[c] \in HoldPcs /\ pc'[c] = "committed")
      \/ (client[c] # k /\ pc[c] = "gone" /\ pc'[c] = "gone" /\ orphan[k] = "committing")
  BY <1>1 DEF RInv, Exclusive
<1>8. \A j \in Sessions : j # k => tx'[j] = tx[j] /\ orphan'[j] = orphan[j]
  BY <1>1, <1>3
<1>9. tx'[k] = NoTx /\ orphan'[k] = "no"  BY <1>1, <1>3 DEF RInv, Exclusive
<1>10. Exclusive'
  <2>1. \A d \in Calls : client[d] # NoSession <=> pc'[d] \in HoldPcs
    BY <1>1, <1>4, <1>6, <1>7 DEF RInv, Exclusive, HoldPcs, TxPcs
  <2>2. \A d \in Calls : client[d] # NoSession => orphan'[client[d]] = "no"
    BY <1>1, <1>8, <1>9 DEF RInv, Exclusive
  <2>3. \A d \in Calls : pc'[d] \in HoldPcs \ {"read"} => d \in Writers
    BY <1>6 DEF RInv, Exclusive
  <2>4. QED  BY <1>3, <2>1, <2>2, <2>3 DEF RInv, Exclusive
<1>11. ASSUME NEW d \in Calls
       PROVE  Staged(d)'
  <2>1. CASE d = c
    <3>1. CASE client[c] = k /\ pc'[c] = "committed"
      BY <1>1, <1>3, <1>9, <2>1, <3>1 DEF Staged, Clean
    <3>2. CASE pc'[c] = "gone"
      BY <2>1, <3>2 DEF Staged
    <3>3. QED  BY <1>7, <3>1, <3>2
  <2>2. CASE d # c /\ pc[d] \notin HoldPcs
    BY <1>6, <2>2 DEF Staged, HoldPcs, TxPcs
  <2>3. CASE d # c /\ pc[d] \in HoldPcs
    <3>1. client[d] \in Sessions /\ client[d] # k
      BY <1>1, <1>6, <2>3 DEF RInv, Exclusive
    <3>2. pc[d] \notin {"update", "insert", "commit"}
      BY <3>1 DEF RInv, Staged
    <3>3. Staged(d) /\ tx'[client[d]] = tx[client[d]] /\ pc'[d] = pc[d] /\ client'[d] = client[d]
      BY <1>3, <1>6, <1>8, <2>3, <3>1 DEF RInv
    <3>4. QED  BY <1>1, <1>3, <3>1, <3>2, <3>3 DEF Staged, Clean
  <2>4. QED  BY <2>1, <2>2, <2>3
<1>12. ASSUME NEW j \in Sessions
       PROVE  Left(j)'
  <2>1. CASE j = k
    BY <1>1, <1>3, <1>9, <2>1 DEF Left, Clean
  <2>2. CASE j # k
    <3>1. Left(j)  BY DEF RInv
    <3>2. orphan[j] # "committing"  BY <2>2, <3>1 DEF Left
    <3>3. QED  BY <1>1, <1>3, <1>8, <2>2, <3>1, <3>2 DEF Left, Clean
  <2>3. QED  BY <2>1, <2>2
<1>13. Logged'
  <2>1. /\ Len(log') = Len(log) + 1 /\ Len(log) \in Nat
        /\ \A i \in 1..Len(log) : log'[i] = log[i]
        /\ log'[Len(log) + 1] = c
    BY <1>1, <1>2
  <2>2. \A i, j \in 1..Len(log') : log'[i] = log'[j] => i = j
    BY <2>1 DEF RInv, Logged
  <2>3. ASSUME NEW d \in Writers
        PROVE  /\ pc'[d] \in {"committed", "answered"} => \E i \in 1..Len(log') : log'[i] = d
               /\ pc'[d] \notin {"committed", "answered", "gone"}
                     => \A i \in 1..Len(log') : log'[i] # d
    <3>1. CASE d = c
      BY <1>7, <2>1, <3>1
    <3>2. CASE d # c
      <4>1. pc'[d] = pc[d]  BY <1>6, <3>2 DEF Calls
      <4>2. QED  BY <2>1, <3>2, <4>1 DEF RInv, Logged
    <3>3. QED  BY <3>1, <3>2
  <2>4. QED  BY <2>2, <2>3 DEF Logged
<1>14. QED  BY <1>2, <1>5, <1>10, <1>11, <1>12, <1>13 DEF RInv

\* The server ends the transaction of a process that is gone.
LEMMA SessionEndsKeeps ==
  ASSUME RInv, NEW k \in Sessions, SessionEnds(k)
  PROVE  RInv' /\ (StoreNext \/ UNCHANGED <<row, audit>>)
<1>1. /\ client \in [Calls -> Sessions \cup {NoSession}] /\ tx \in [Sessions -> Tx]
      /\ owner \in Sessions \cup {NoSession} /\ NoSession \notin Sessions
      /\ orphan \in [Sessions -> {"no", "open", "committing"}]
  BY SessionsAssumption DEF RInv, Types
<1>2. /\ orphan[k] # "no" /\ orphan' = [orphan EXCEPT ![k] = "no"]
      /\ pc' = pc /\ client' = client
  BY DEF SessionEnds, conn
<1>3. \A d \in Calls : client[d] # k  BY <1>1, <1>2 DEF RInv, Exclusive
<1>4. CASE orphan[k] = "committing" /\ CommitTx(k)
  <2>1. PICK c \in Writers : /\ pc[c] = "gone"
                             /\ tx[k] = Draft(c, <<c>>) /\ owner = k
                             /\ \A i \in 1..Len(log) : log[i] # c
    BY <1>4 DEF RInv, Left
  <2>2. QED  BY <1>2, <1>4, <2>1, CommitKeeps
<1>5. CASE AbortTx(k)
  <2>1. /\ row' = row /\ audit' = audit /\ log' = log
        /\ tx' = [tx EXCEPT ![k] = NoTx]
        /\ owner' = IF owner = k THEN NoSession ELSE owner
    BY <1>5 DEF AbortTx, EndTx, store
  <2>2. NoTx \in Tx  BY DEF NoTx, Tx
  <2>3. Types'  BY <1>1, <1>2, <2>1, <2>2 DEF RInv, Types
  <2>4. Exclusive'  BY <1>1, <1>2, <1>3 DEF RInv, Exclusive
  <2>5. ASSUME NEW d \in Calls
        PROVE  Staged(d)'
    <3>1. CASE pc[d] \notin HoldPcs
      BY <1>2, <3>1 DEF Staged, HoldPcs, TxPcs
    <3>2. CASE pc[d] \in HoldPcs
      <4>1. client[d] \in Sessions /\ client[d] # k
        BY <1>1, <1>3, <3>2 DEF RInv, Exclusive
      <4>2. tx'[client[d]] = tx[client[d]] /\ (owner' = client[d] <=> owner = client[d])
        BY <1>1, <2>1, <4>1
      <4>3. After(d)' = After(d) /\ Staged(d)  BY <2>1 DEF RInv, After
      <4>4. QED  BY <1>2, <4>2, <4>3 DEF Staged, Clean, Draft
    <3>3. QED  BY <3>1, <3>2
  <2>6. ASSUME NEW j \in Sessions
        PROVE  Left(j)'
    <3>1. CASE j = k
      BY <1>1, <1>2, <2>1, <3>1 DEF Left, Clean
    <3>2. CASE j # k
      <4>1. tx'[j] = tx[j] /\ orphan'[j] = orphan[j] /\ (owner' = j <=> owner = j)
        BY <1>1, <1>2, <2>1, <3>2
      <4>2. Left(j)  BY DEF RInv
      <4>3. \A d \in Writers : After(d)' = After(d)  BY <2>1 DEF After
      <4>4. QED  BY <1>2, <2>1, <4>1, <4>2, <4>3 DEF Left, Clean, Draft
    <3>3. QED  BY <3>1, <3>2
  <2>7. Logged'  BY <1>2, <2>1 DEF RInv, Logged
  <2>8. QED  BY <2>1, <2>3, <2>4, <2>5, <2>6, <2>7 DEF RInv
<1>6. QED  BY <1>4, <1>5 DEF SessionEnds

\* The end of the process leaves its sessions as they are: one whose COMMIT was
\* under way has the whole transition in its transaction.
LEMMA DieKeeps ==
  ASSUME RInv, Die
  PROVE  RInv' /\ UNCHANGED <<row, audit>>
<1>1. /\ pc \in [Calls -> Pc] /\ client \in [Calls -> Sessions \cup {NoSession}]
      /\ tx \in [Sessions -> Tx]
      /\ orphan \in [Sessions -> {"no", "open", "committing"}]
      /\ NoSession \notin Sessions
  BY SessionsAssumption DEF RInv, Types
<1>2. /\ row' = row /\ audit' = audit /\ log' = log /\ tx' = tx /\ owner' = owner
      /\ client' = [c \in Calls |-> NoSession]
      /\ pc' = [c \in Calls |-> IF pc[c] \in {"todo"} \cup FinalPcs THEN pc[c] ELSE "gone"]
  BY DEF Die, store
<1>3. \A c \in Calls : /\ client'[c] = NoSession
                       /\ pc'[c] \in Pc /\ pc'[c] \notin HoldPcs
                       /\ pc'[c] = pc[c] \/ pc'[c] = "gone"
  BY <1>1, <1>2 DEF Pc, HoldPcs, TxPcs, FinalPcs
<1>4. orphan' = [k \in Sessions |->
         IF tx[k].state = "none" THEN orphan[k]
         ELSE IF \E c \in Calls : client[c] = k /\ pc[c] = "commit" THEN "committing"
         ELSE IF k \in Held THEN "open" ELSE orphan[k]]
  BY DEF Die, At
<1>5. orphan' \in [Sessions -> {"no", "open", "committing"}]  BY <1>1, <1>4
<1>6. Types'
  <2>1. pc' \in [Calls -> Pc] /\ client' \in [Calls -> Sessions \cup {NoSession}]
    BY <1>2, <1>3
  <2>2. QED  BY <1>2, <1>5, <2>1 DEF RInv, Types
<1>7. Exclusive'  BY <1>3 DEF Exclusive
<1>8. ASSUME NEW c \in Calls
      PROVE  Staged(c)'
  BY <1>3 DEF Staged, HoldPcs, TxPcs
<1>9. ASSUME NEW k \in Sessions
      PROVE  Left(k)'
  <2>1. Left(k) /\ \A c \in Calls : Staged(c)  BY DEF RInv
  <2>2. ASSUME orphan'[k] = "committing"
        PROVE  \E c \in Writers : /\ pc'[c] = "gone"
                                  /\ tx'[k] = Draft(c, <<c>>)' /\ owner' = k
                                  /\ \A i \in 1..Len(log') : log'[i] # c
    <3>1. \A c \in Writers : Draft(c, <<c>>)' = Draft(c, <<c>>)
      BY <1>2 DEF Draft, After
    <3>2. CASE orphan[k] = "committing"
      <4>1. PICK c \in Writers : /\ pc[c] = "gone"
                                 /\ tx[k] = Draft(c, <<c>>) /\ owner = k
                                 /\ \A i \in 1..Len(log) : log[i] # c
        BY <2>1, <3>2 DEF Left
      <4>2. pc'[c] = "gone"  BY <1>3, <4>1 DEF Calls
      <4>3. QED  BY <1>2, <3>1, <4>1, <4>2
    <3>3. CASE orphan[k] # "committing"
      <4>1. PICK c \in Calls : client[c] = k /\ pc[c] = "commit"
        BY <1>4, <2>2, <3>3
      <4>2. c \in Writers  BY <4>1 DEF RInv, Exclusive, HoldPcs, TxPcs
      <4>3. tx[k] = Draft(c, <<c>>) /\ owner = k  BY <2>1, <4>1 DEF Staged
      <4>4. \A i \in 1..Len(log) : log[i] # c  BY <4>1, <4>2 DEF RInv, Logged
      <4>5. pc'[c] = "gone"  BY <1>2, <4>1 DEF FinalPcs
      <4>6. QED  BY <1>2, <3>1, <4>2, <4>3, <4>4, <4>5
    <3>4. QED  BY <3>2, <3>3
  <2>3. ASSUME orphan'[k] = "no"
        PROVE  Clean(k)
    <3>1. orphan[k] = "no" /\ (tx[k].state = "none" \/ k \notin Held)
      BY <1>1, <1>4, <2>3
    <3>2. CASE \A c \in Calls : client[c] # k
      BY <2>1, <3>1, <3>2 DEF Left
    <3>3. CASE \E c \in Calls : client[c] = k
      <4>1. PICK c \in Calls : client[c] = k  BY <3>3
      <4>2. tx[k].state = "none"  BY <1>1, <3>1, <4>1 DEF Held
      <4>3. pc[c] \in HoldPcs /\ Staged(c)  BY <1>1, <2>1, <4>1 DEF RInv, Exclusive
      <4>4. pc[c] \in {"begin", "committed", "rolledBack", "read", "rollback"}
        BY <4>1, <4>2, <4>3 DEF Staged, Opened, Draft, HoldPcs, TxPcs
      <4>5. QED  BY <4>1, <4>2, <4>3, <4>4 DEF Staged
    <3>4. QED  BY <3>2, <3>3
  <2>4. QED  BY <1>2, <2>2, <2>3 DEF Left, Clean
<1>10. Logged'
  BY <1>2, <1>3 DEF RInv, Logged, Calls, FinalPcs
<1>11. QED  BY <1>2, <1>6, <1>7, <1>8, <1>9, <1>10 DEF RInv

LEMMA RInit == Init => RInv
<1> SUFFICES ASSUME Init PROVE RInv
  OBVIOUS
<1>1. /\ row = [status |-> "INITIATED", retryCount |-> 0, bankRef |-> FALSE]
      /\ audit = <<>> /\ log = <<>>
      /\ pc = [c \in Calls |-> "todo"] /\ client = [c \in Calls |-> NoSession]
      /\ tx = [k \in Sessions |-> NoTx] /\ owner = NoSession
      /\ orphan = [k \in Sessions |-> "no"] /\ NoSession \notin Sessions
  BY SessionsAssumption DEF Init, StoreInit
<1>2. NoTx \in Tx /\ "todo" \in Pc /\ "todo" \notin HoldPcs
  BY DEF NoTx, Tx, Pc, HoldPcs, TxPcs
<1>3. Types  BY <1>1, <1>2 DEF Types, Txn, TransactionStatus
<1>4. Exclusive  BY <1>1, <1>2 DEF Exclusive
<1>5. \A c \in Calls : Staged(c)  BY <1>1 DEF Staged
<1>6. \A k \in Sessions : Left(k)  BY <1>1 DEF Left, Clean
<1>7. Logged  BY <1>1 DEF Logged, Calls
<1>8. QED  BY <1>3, <1>4, <1>5, <1>6, <1>7 DEF RInv

LEMMA RStep == RInv /\ [Next]_vars => RInv' /\ [StoreNext]_<<row, audit>>
<1> SUFFICES ASSUME RInv, [Next]_vars
             PROVE  RInv' /\ [StoreNext]_<<row, audit>>
  OBVIOUS
<1>1. CASE \E c \in Calls : Connect(c) \/ CallStep(c)
  <2>1. PICK c \in Calls : Connect(c) \/ CallStep(c)  BY <1>1
  <2>2. CASE ~Commit(c)
    BY <2>1, <2>2, CallStepKeeps
  <2>3. CASE Commit(c)
    <3>1. /\ pc[c] = "commit" /\ CommitTx(client[c]) /\ UNCHANGED <<client, orphan>>
          /\ pc' = [pc EXCEPT ![c] = "committed"]
      BY <2>3 DEF Commit, At, Goto
    <3>2. c \in Writers /\ client[c] \in Sessions
      BY <3>1 DEF RInv, Types, Exclusive, HoldPcs, TxPcs
    <3>3. tx[client[c]] = Draft(c, <<c>>) /\ owner = client[c]
      BY <3>1 DEF RInv, Staged
    <3>4. \A i \in 1..Len(log) : log[i] # c  BY <3>1, <3>2 DEF RInv, Logged
    <3>5. QED  BY <3>1, <3>2, <3>3, <3>4, CommitKeeps
  <2>4. QED  BY <2>2, <2>3
<1>2. CASE \E k \in Sessions : SessionEnds(k)
  BY <1>2, SessionEndsKeeps
<1>3. CASE ConnectionLost \/ Exit
  <2>1. Die  BY <1>3 DEF ConnectionLost, Exit
  <2>2. QED  BY <2>1, DieKeeps
<1>4. CASE Restart \/ Shutdown \/ PoolEnded \/ RedisClosed \/ UNCHANGED vars
  <2>1. UNCHANGED <<row, audit, log, pc, client, tx, owner, orphan>>
    BY <1>4 DEF Restart, Shutdown, PoolEnded, RedisClosed, vars, store, conn
  <2>2. Types' /\ Exclusive' /\ Logged'  BY <2>1 DEF RInv, Types, Exclusive, Logged
  <2>3. \A c \in Calls : Staged(c)'
    BY <2>1 DEF RInv, Staged, Clean, Draft, After
  <2>4. \A k \in Sessions : Left(k)'
    BY <2>1 DEF RInv, Left, Clean, Draft, After
  <2>5. QED  BY <2>1, <2>2, <2>3, <2>4 DEF RInv
<1>5. QED  BY <1>1, <1>2, <1>3, <1>4 DEF Next

LEMMA RAlways == Spec => []RInv
<1>1. RInv /\ [Next]_vars => RInv'  BY RStep
<1>2. QED  BY RInit, <1>1, PTL DEF Spec

-------------------------------------------------------------------------------
(* The queue of the pool and the process. *)

Queue ==
  /\ waiting \in Seq(Calls)
  /\ \A i \in DOMAIN waiting : pc[waiting[i]] = "queued"
  /\ \A i, j \in DOMAIN waiting : waiting[i] = waiting[j] => i = j

Process ==
  /\ proc \in {"up", "stopping", "down"}
  /\ pool \in {"open", "ending", "none"}
  /\ settled \subseteq {"pool", "redis"}
  /\ budget \in [faults : 0..MaxFaults, signals : 0..MaxSignals]

\* Where the elements of a sequence are once the i-th is taken out.
LEMMA Concatenated ==
  ASSUME NEW S, NEW a \in Seq(S), NEW b \in Seq(S), NEW n \in Nat, NEW i \in 1..n,
         Len(a) = i - 1, Len(b) = n - i
  PROVE  /\ (a \o b) \in Seq(S) /\ Len(a \o b) = n - 1
         /\ \A m \in 1..(n - 1) : (a \o b)[m] = IF m < i THEN a[m] ELSE b[m - i + 1]
<1>1. /\ (a \o b) \in Seq(S) /\ Len(a \o b) = Len(a) + Len(b)
      /\ \A m \in 1..(Len(a) + Len(b)) :
            (a \o b)[m] = IF m <= Len(a) THEN a[m] ELSE b[m - Len(a)]
  BY ConcatProperties
<1>2. QED  BY <1>1

LEMMA TakenOut ==
  ASSUME NEW S, NEW s \in Seq(S), NEW i \in 1..Len(s)
  PROVE  LET t == SubSeq(s, 1, i - 1) \o SubSeq(s, i + 1, Len(s))
         IN /\ t \in Seq(S) /\ Len(t) = Len(s) - 1
            /\ \A m \in 1..(Len(s) - 1) : t[m] = IF m < i THEN s[m] ELSE s[m + 1]
<1> DEFINE a == SubSeq(s, 1, i - 1)
           b == SubSeq(s, i + 1, Len(s))
<1>1. a \in Seq(S) /\ Len(a) = i - 1 /\ \A m \in 1..(i - 1) : a[m] = s[m]
  BY SubSeqProperties
<1>2. b \in Seq(S) /\ Len(b) = Len(s) - i /\ \A m \in 1..(Len(s) - i) : b[m] = s[i + m]
  BY SubSeqProperties
<1> HIDE DEF a, b
<1>3. /\ (a \o b) \in Seq(S) /\ Len(a \o b) = Len(s) - 1
      /\ \A m \in 1..(Len(s) - 1) : (a \o b)[m] = IF m < i THEN a[m] ELSE b[m - i + 1]
  BY <1>1, <1>2, Concatenated, Len(s) \in Nat
<1>4. \A m \in 1..(Len(s) - 1) : (a \o b)[m] = IF m < i THEN s[m] ELSE s[m + 1]
  BY <1>1, <1>2, <1>3
<1>5. QED  BY <1>3, <1>4 DEF a, b

\* What is left of a sequence of distinct elements without its i-th is one, and has
\* no element but the others.
LEMMA WithoutOne ==
  ASSUME NEW S, NEW s \in Seq(S), NEW i \in 1..Len(s),
         \A m, n \in DOMAIN s : s[m] = s[n] => m = n
  PROVE  LET t == SubSeq(s, 1, i - 1) \o SubSeq(s, i + 1, Len(s))
         IN /\ t \in Seq(S)
            /\ \A m \in DOMAIN t : \E n \in DOMAIN s : n # i /\ t[m] = s[n]
            /\ \A m, n \in DOMAIN t : t[m] = t[n] => m = n
<1> DEFINE at(m) == IF m < i THEN m ELSE m + 1
           t == SubSeq(s, 1, i - 1) \o SubSeq(s, i + 1, Len(s))
<1>1. /\ t \in Seq(S) /\ Len(t) = Len(s) - 1
      /\ \A m \in 1..(Len(s) - 1) : t[m] = s[at(m)]
  <2>1. /\ t \in Seq(S) /\ Len(t) = Len(s) - 1
        /\ \A m \in 1..(Len(s) - 1) : t[m] = IF m < i THEN s[m] ELSE s[m + 1]
    BY TakenOut, Zenon
  <2> HIDE DEF t
  <2>2. QED  BY <2>1
<1> HIDE DEF t
<1>2. /\ Len(s) \in Nat /\ DOMAIN s = 1..Len(s) /\ DOMAIN t = 1..(Len(s) - 1)
      /\ \A m \in DOMAIN t : t[m] = s[at(m)]
  BY <1>1
<1>3. \A m \in DOMAIN t : at(m) \in DOMAIN s /\ at(m) # i  BY <1>2
<1>4. \A m, n \in DOMAIN t : at(m) = at(n) => m = n  BY <1>2
<1> HIDE DEF at
<1>5. /\ \A m \in DOMAIN t : \E n \in DOMAIN s : n # i /\ t[m] = s[n]
      /\ \A m, n \in DOMAIN t : t[m] = t[n] => m = n
  BY <1>2, <1>3, <1>4
<1>6. QED  BY <1>1, <1>5, Zenon DEF t

\* A call that does not wait, or waits no more, and moves on leaves the queue right if
\* it is not in it; so do calls that wait and are in no queue.
LEMMA QueueKept ==
  ASSUME Queue, NEW c \in Calls, NEW label, \A i \in DOMAIN waiting : waiting[i] # c,
         pc \in [Calls -> Pc], pc' = [pc EXCEPT ![c] = label], waiting' = waiting
  PROVE  Queue'
<1>1. \A d \in Calls : d # c => pc'[d] = pc[d]  OBVIOUS
<1>2. \A i \in DOMAIN waiting : waiting[i] \in Calls  BY DEF Queue
<1>3. QED  BY <1>1, <1>2 DEF Queue

LEMMA QueueStep == RInv /\ Queue /\ [Next]_vars => Queue'
<1> SUFFICES ASSUME RInv, Queue, [Next]_vars
             PROVE  Queue'
  OBVIOUS
<1>1. pc \in [Calls -> Pc]  BY DEF RInv, Types
<1>2. ASSUME NEW c \in Calls, Connect(c) \/ CallStep(c)
      PROVE  Queue'
  <2>1. CASE pc[c] # "queued" /\ UNCHANGED waiting
    <3>1. \A i \in DOMAIN waiting : waiting[i] # c  BY <2>1 DEF Queue
    <3>2. PICK label : pc' = [pc EXCEPT ![c] = label]
      BY <1>2, <2>1 DEF Goto, At, Connect, CallStep, Grant, GrantTimeout, Read, Begin, Lock,
         Update, Insert, Commit, StatementFails, Rollback, Release
    <3>3. QED  BY <1>1, <2>1, <3>1, <3>2, QueueKept
  <2>2. CASE Connect(c) /\ pool # "ending"
    <3>1. /\ pc[c] = "todo" /\ pc' = [pc EXCEPT ![c] = "queued"]
          /\ waiting' = Append(waiting, c)
      BY <2>2 DEF Connect, At, Goto
    <3>2. \A i \in DOMAIN waiting : waiting[i] # c  BY <3>1 DEF Queue
    <3>3. /\ waiting' \in Seq(Calls) /\ Len(waiting) \in Nat
          /\ DOMAIN waiting = 1..Len(waiting) /\ DOMAIN waiting' = 1..(Len(waiting) + 1)
          /\ \A i \in 1..Len(waiting) : waiting'[i] = waiting[i]
          /\ waiting'[Len(waiting) + 1] = c
      BY <3>1 DEF Queue
    <3>4. \A d \in Calls : pc'[d] = IF d = c THEN "queued" ELSE pc[d]  BY <1>1, <3>1
    <3>5. \A i \in DOMAIN waiting' : i = Len(waiting) + 1 \/ i \in DOMAIN waiting
      BY <3>3
    <3>6. \A i \in DOMAIN waiting' : pc'[waiting'[i]] = "queued"
      BY <3>3, <3>4, <3>5 DEF Queue
    <3>7. \A i, j \in DOMAIN waiting' : waiting'[i] = waiting'[j] => i = j
      BY <3>2, <3>3, <3>5 DEF Queue
    <3>8. QED  BY <3>3, <3>6, <3>7 DEF Queue
  <2>3. CASE Grant(c)
    <3>1. PICK label : /\ pc' = [pc EXCEPT ![c] = label] /\ waiting # <<>>
                       /\ c = Head(waiting) /\ waiting' = Tail(waiting)
      BY <2>3 DEF Grant, Goto
    <3>2. /\ Len(waiting) \in Nat \ {0} /\ DOMAIN waiting = 1..Len(waiting)
          /\ waiting' \in Seq(Calls) /\ DOMAIN waiting' = 1..(Len(waiting) - 1)
          /\ \A i \in 1..(Len(waiting) - 1) : waiting'[i] = waiting[i + 1]
          /\ waiting[1] = c
      BY <3>1 DEF Queue
    <3>3. \A i \in DOMAIN waiting' : /\ i + 1 \in DOMAIN waiting /\ i + 1 # 1
                                    /\ waiting'[i] = waiting[i + 1]
      BY <3>2
    <3>4. \A i \in DOMAIN waiting' : waiting'[i] # c  BY <3>2, <3>3 DEF Queue
    <3>5. \A d \in Calls : d # c => pc'[d] = pc[d]  BY <1>1, <3>1
    <3>6. \A i \in DOMAIN waiting' : pc'[waiting'[i]] = "queued"
      BY <3>2, <3>3, <3>4, <3>5 DEF Queue
    <3>7. \A i, j \in DOMAIN waiting' : waiting'[i] = waiting'[j] => i + 1 = j + 1
      BY <3>3 DEF Queue
    <3>8. \A i, j \in DOMAIN waiting' : waiting'[i] = waiting'[j] => i = j
      BY <3>2, <3>7
    <3>9. QED  BY <3>2, <3>6, <3>8 DEF Queue
  <2>4. CASE GrantTimeout(c)
    <3>1. pc' = [pc EXCEPT ![c] = "rejected"]  BY <2>4 DEF GrantTimeout, Goto
    <3>2. CASE (\A i \in DOMAIN waiting : waiting[i] # c) /\ UNCHANGED waiting
      BY <1>1, <3>1, <3>2, QueueKept
    <3>3. CASE \E i \in DOMAIN waiting :
                 /\ waiting[i] = c
                 /\ waiting' = SubSeq(waiting, 1, i - 1) \o SubSeq(waiting, i + 1, Len(waiting))
      <4>1. PICK i \in DOMAIN waiting :
                 /\ waiting[i] = c
                 /\ waiting' = SubSeq(waiting, 1, i - 1) \o SubSeq(waiting, i + 1, Len(waiting))
        BY <3>3
      <4>2. waiting \in Seq(Calls) /\ i \in 1..Len(waiting)  BY DEF Queue
      <4>3. \A m, n \in DOMAIN waiting : waiting[m] = waiting[n] => m = n  BY DEF Queue
      <4>4. /\ waiting' \in Seq(Calls)
            /\ \A m \in DOMAIN waiting' : \E n \in DOMAIN waiting : n # i /\ waiting'[m] = waiting[n]
            /\ \A m, n \in DOMAIN waiting' : waiting'[m] = waiting'[n] => m = n
        <5> DEFINE t == SubSeq(waiting, 1, i - 1) \o SubSeq(waiting, i + 1, Len(waiting))
        <5>1. /\ t \in Seq(Calls)
              /\ \A m \in DOMAIN t : \E n \in DOMAIN waiting : n # i /\ t[m] = waiting[n]
              /\ \A m, n \in DOMAIN t : t[m] = t[n] => m = n
          BY <4>2, <4>3, WithoutOne, Zenon
        <5>2. waiting' = t  BY <4>1
        <5> HIDE DEF t
        <5>3. QED  BY <5>1, <5>2
      <4>5. \A m \in DOMAIN waiting' : waiting'[m] # c /\ pc[waiting'[m]] = "queued"
        <5>1. \A n \in DOMAIN waiting : n # i => waiting[n] # c /\ pc[waiting[n]] = "queued"
          BY <4>1 DEF Queue
        <5>2. QED  BY <4>4, <5>1
      <4>6. \A d \in Calls : d # c => pc'[d] = pc[d]  BY <1>1, <3>1
      <4>7. \A m \in DOMAIN waiting' : waiting'[m] \in Calls  BY <4>4
      <4>8. \A m \in DOMAIN waiting' : pc'[waiting'[m]] = "queued"
        BY <4>5, <4>6, <4>7
      <4>9. QED  BY <4>4, <4>8 DEF Queue
    <3>4. QED  BY <2>4, <3>2, <3>3 DEF GrantTimeout
  <2>5. QED
    BY <1>2, <2>1, <2>2, <2>3, <2>4 DEF At, Connect, CallStep, Read, Begin, Lock, Update,
       Insert, Commit, StatementFails, Rollback, Release, TxPcs
<1>3. CASE ConnectionLost \/ Exit \/ PoolEnded
  <2>1. waiting' = <<>>  BY <1>3 DEF ConnectionLost, Exit, Die, PoolEnded
  <2>2. QED  BY <2>1 DEF Queue
<1>4. CASE (\E k \in Sessions : SessionEnds(k)) \/ Restart \/ Shutdown \/ RedisClosed
           \/ UNCHANGED vars
  <2>1. UNCHANGED <<waiting, pc>>
    BY <1>4 DEF SessionEnds, Restart, Shutdown, RedisClosed, vars, conn
  <2>2. QED  BY <2>1 DEF Queue
<1>5. QED  BY <1>2, <1>3, <1>4 DEF Next

LEMMA ProcessStep == Process /\ [Next]_vars => Process'
<1> SUFFICES ASSUME Process, [Next]_vars
             PROVE  Process'
  OBVIOUS
<1> DEFINE Fault  == budget.faults > 0 /\ budget' = [budget EXCEPT !.faults = @ - 1]
           Signal == budget.signals > 0 /\ budget' = [budget EXCEPT !.signals = @ - 1]
<1>1. Fault \/ Signal \/ UNCHANGED budget
         => budget' \in [faults : 0..MaxFaults, signals : 0..MaxSignals]
  BY PoolAssumption DEF Process
<1>2. CASE \E c \in Calls : Connect(c) \/ CallStep(c)
  <2>1. PICK c \in Calls : Connect(c) \/ CallStep(c)  BY <1>2
  <2>2. Fault \/ UNCHANGED budget
    BY <2>1 DEF Connect, CallStep, Grant, GrantTimeout, Read, Begin, Lock, Update, Insert,
       Commit, StatementFails, Rollback, Release
  <2>3. UNCHANGED <<proc, settled>> /\ (pool' = "open" \/ UNCHANGED pool)
    BY <2>1 DEF Connect, CallStep, Grant, GrantTimeout, Read, Begin, Lock, Update, Insert,
       Commit, StatementFails, Rollback, Release, sys
  <2>4. QED  BY <1>1, <2>2, <2>3 DEF Process
<1>3. CASE ConnectionLost \/ Exit
  BY <1>1, <1>3 DEF ConnectionLost, Exit, Die, Process
<1>4. CASE (\E k \in Sessions : SessionEnds(k)) \/ Restart \/ Shutdown \/ PoolEnded
           \/ RedisClosed \/ UNCHANGED vars
  <2>1. Signal \/ UNCHANGED budget
    BY <1>4 DEF SessionEnds, Restart, Shutdown, PoolEnded, RedisClosed, vars
  <2>2. /\ proc' \in {proc, "up", "stopping"} /\ pool' \in {pool, "open", "ending", "none"}
        /\ settled' \subseteq settled \cup {"pool", "redis"}
    BY <1>4 DEF SessionEnds, Restart, Shutdown, PoolEnded, RedisClosed, vars, sys
  <2>3. QED  BY <1>1, <2>1, <2>2 DEF Process
<1>5. QED  BY <1>2, <1>3, <1>4 DEF Next

-------------------------------------------------------------------------------
(* Theorems. *)

\* Every variable has its type, a call has a client exactly while it uses one, and the
\* queue lists calls that wait, each once: a call that timed out is not handed a client
\* later, and none is handed two (connect of pg-pool, as withTransaction uses it).
THEOREM RepoTypes == Spec => []TypeOK
<1>1. Init => Queue /\ Process
  BY PoolAssumption DEF Init, Queue, Process
<1>2. RInv /\ Queue /\ Process /\ [Next]_vars => Queue' /\ Process'
  BY QueueStep, ProcessStep
<1>3. RInv /\ Queue /\ Process => TypeOK
  BY DEF RInv, Types, Exclusive, Queue, Process, TypeOK
<1>4. QED  BY RAlways, <1>1, <1>2, <1>3, PTL DEF Spec

\* The statements of transitionStatus implement the one step PaymentService takes
\* it for (transitionStatus, withTransaction).
THEOREM StatementsImplementStore == Spec => ImplementsStore
<1>1. Init => StoreInit  BY DEF Init
<1>2. RInv /\ [Next]_vars => [StoreNext]_<<row, audit>>  BY RStep
<1>3. QED  BY RAlways, <1>1, <1>2, PTL DEF Spec, ImplementsStore, StoreSpec

\* No call is handed a connection with a transaction or a row lock on it, or one
\* that another call uses (withTransaction).
THEOREM ConnectionsClean == Spec => []PoolClean
<1>1. RInv => PoolClean
  <2> SUFFICES ASSUME RInv PROVE PoolClean
    OBVIOUS
  <2>1. ASSUME NEW k \in Free
        PROVE  tx[k] = NoTx /\ owner # k
    <3>1. k \in Sessions /\ orphan[k] = "no" /\ \A c \in Calls : client[c] # k
      BY SessionsAssumption DEF Free, Held
    <3>2. QED  BY <3>1 DEF RInv, Left, Clean
  <2>2. QED  BY <2>1 DEF PoolClean, RInv, Exclusive
<1>2. QED  BY RAlways, <1>1, PTL

\* What keeps writers that wait for one row from waiting for ever: the lock is held by
\* a session whose process is gone, which the server ends, or by a call past its
\* SELECT ... FOR UPDATE, which waits neither for the lock nor for a client and whose
\* statements nobody can hold up.
LockHolderRuns ==
  \A k \in Sessions : owner = k =>
     \/ orphan[k] # "no"
     \/ \E c \in Writers : /\ client[c] = k
                           /\ \/ pc[c] \in {"update", "insert", "commit"} /\ tx[k].state = "open"
                              \/ pc[c] = "rollback"

\* Writers do not block each other over the row lock and the pool's clients, however
\* many they are and however few the clients: the safety half of CallsEnd
\* (transitionStatus, withTransaction).
THEOREM LockNotHeldByWaiter == Spec => []LockHolderRuns
<1>1. RInv => LockHolderRuns
  <2> SUFFICES ASSUME RInv, NEW k \in Sessions, owner = k, orphan[k] = "no"
               PROVE  \E c \in Writers :
                        /\ client[c] = k
                        /\ \/ pc[c] \in {"update", "insert", "commit"} /\ tx[k].state = "open"
                           \/ pc[c] = "rollback"
    BY DEF LockHolderRuns
  <2>1. ~Clean(k) /\ Left(k)  BY DEF Clean, RInv
  <2>2. PICK c \in Calls : client[c] = k  BY <2>1 DEF Left
  <2>3. pc[c] \in HoldPcs /\ Staged(c)
    BY <2>2, SessionsAssumption DEF RInv, Exclusive
  <2>4. pc[c] \in {"update", "insert", "commit", "rollback"}
    BY <2>1, <2>2, <2>3 DEF Staged, HoldPcs, TxPcs
  <2>5. c \in Writers  BY <2>3, <2>4 DEF RInv, Exclusive
  <2>6. pc[c] # "rollback" => tx[k].state = "open"
    BY <2>2, <2>3, <2>4 DEF Staged, Opened, Draft
  <2>7. QED  BY <2>2, <2>4, <2>5, <2>6
<1>2. QED  BY RAlways, <1>1, PTL

\* What a call returned or threw says whether its transition is in the database.
THEOREM OutcomesKnown == Spec => []OutcomeKnown
<1>1. RInv => OutcomeKnown
  <2> SUFFICES ASSUME RInv, NEW c \in Writers
               PROVE  LET n == Cardinality({i \in DOMAIN log : log[i] = c})
                      IN /\ n <= 1
                         /\ pc[c] \in {"committed", "answered"} => n = 1
                         /\ pc[c] \notin {"committed", "answered", "gone"} => n = 0
    BY DEF OutcomeKnown
  <2> DEFINE S == {i \in DOMAIN log : log[i] = c}
  <2>1. DOMAIN log = 1..Len(log)  BY DEF RInv, Types
  <2>2. CASE S = {}
    <3>1. Cardinality(S) = 0  BY <2>2, FS_EmptySet
    <3>2. pc[c] \notin {"committed", "answered"}  BY <2>1, <2>2 DEF RInv, Logged
    <3>3. QED  BY <3>1, <3>2
  <2>3. CASE S # {}
    <3>1. PICK i \in S : TRUE  BY <2>3
    <3>2. S = {i}  BY <2>1, <3>1 DEF RInv, Logged
    <3>3. Cardinality(S) = 1  BY <3>2, FS_Singleton
    <3>4. ~(pc[c] \notin {"committed", "answered", "gone"})
      BY <2>1, <3>1 DEF RInv, Logged
    <3>5. QED  BY <3>3, <3>4
  <2>4. QED  BY <2>2, <2>3
<1>2. QED  BY RAlways, <1>1, PTL

===============================================================================
