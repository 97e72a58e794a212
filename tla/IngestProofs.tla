---------------------------- MODULE IngestProofs ----------------------------
(***************************************************************************)
(* Proofs about Ingest, for every set of operations with any headers,      *)
(* forked logs included, and every buffer size.                            *)
(*                                                                         *)
(* The properties are about committed rows, but inserts are validated      *)
(* against the rows of an open transaction while prefixes of the log are   *)
(* deleted.  The inductive invariant therefore speaks about both, says     *)
(* that the entry which was read is still the latest one when it is used,  *)
(* and that an operation which is about to prune the log, or was pruned,   *)
(* is never above the log's height.  A prune point which is about to prune *)
(* the log is still in it, or was pruned and everything else in the log is *)
(* above it: this is why pruning tears no chain.                           *)
(***************************************************************************)
EXTENDS Ingest, SequenceTheorems, TLAPS

Rows == log \union tx.new

Linked(o, rows) ==
    \/ seqNum[o] = 0
    \/ \E p \in rows : pruneFlag[p] /\ seqNum[p] = seqNum[o]
    \/ backlink[o] \in rows /\ seqNum[backlink[o]] + 1 = seqNum[o]

TxOpen == tx.pop \/ tx.todo # <<>> \/ tx.new # {}

IndInv ==
    /\ TypeOK
    /\ \A o \in log : Linked(o, log)
    /\ \A o \in Rows : Linked(o, Rows)
    /\ \A a, b \in Rows : seqNum[a] = seqNum[b] => a = b \/ pruneFlag[a] \/ pruneFlag[b]
    /\ TxOpen => IsLatest(tx.latest, Rows)
    /\ tx.prune => \A k \in DOMAIN tx.todo : pruneFlag[tx.todo[k]]
    /\ tx.pop => ~tx.prune
    /\ \A o \in pruning : pruneFlag[o]
    /\ \A o \in pruning : \E q \in log : seqNum[o] <= seqNum[q]
    /\ \A o \in deleted : \E q \in log : seqNum[o] < seqNum[q]
    /\ pruning \subseteq log \union deleted
    /\ \A o \in Rows : \A d \in deleted : pruneFlag[o] \/ seqNum[d] < seqNum[o]

LEMMA InitIndInv == Init => IndInv
BY NoOpAssumption DEF Init, IndInv, TypeOK, Rows, Linked, TxOpen, IsLatest, NoTx, Tx

\* No rows are touched when a transaction starts or is rolled back.
LEMMA DuplicateIndInv ==
  ASSUME IndInv, NEW o \in Op, IngestDuplicate(o)
  PROVE  IndInv'
<1>1. UNCHANGED <<log, tx, buffer, deleted>> /\ o \in log
      /\ pruning' = pruning \union {q \in {o} : pruneFlag[q]}
  BY DEF IngestDuplicate
<1>2. \A p \in pruning' : \E q \in log : seqNum[p] <= seqNum[q]
  BY <1>1, HeaderAssumption DEF IndInv
<1> QED BY <1>1, <1>2 DEF IndInv, TypeOK, Rows, Linked, TxOpen, IsLatest

\* What a new transaction has in common with every other one.
LEMMA BeginIndInv ==
  ASSUME IndInv, UNCHANGED <<log, pruning, deleted>>, tx = NoTx,
         NEW todo \in Seq(Op), NEW prune \in BOOLEAN, NEW latest \in Op \union {NoOp},
         NEW pop \in BOOLEAN, NEW next \in Op \union {NoOp},
         IsLatest(latest, log), tx' = Tx(todo, prune, latest, pop, next),
         prune => \A k \in DOMAIN todo : pruneFlag[todo[k]], pop => ~prune,
         buffer' \in Seq(Op)
  PROVE  IndInv'
<1>1. Rows = log /\ Rows' = log
  BY DEF Rows, NoTx, Tx
<1>2. TypeOK'
  BY DEF IndInv, TypeOK, Tx
<1>3. /\ tx'.latest = latest /\ tx'.prune = prune /\ tx'.todo = todo /\ tx'.pop = pop
  BY DEF Tx
<1> QED BY <1>1, <1>2, <1>3 DEF IndInv, Linked, IsLatest

LEMMA InOrderIndInv ==
  ASSUME IndInv, NEW o \in Op, IngestInOrder(o)
  PROVE  IndInv'
<1>1. PICK latest \in Op \union {NoOp} :
        IsLatest(latest, log) /\ tx' = Tx(<<o>>, pruneFlag[o], latest, FALSE, NoOp)
  BY Zenon DEF IngestInOrder
<1>2. UNCHANGED <<log, buffer, pruning, deleted>> /\ tx = NoTx /\ buffer' \in Seq(Op)
  BY DEF IngestInOrder, MayBegin, IndInv, TypeOK
<1>3. <<o>> \in Seq(Op) /\ pruneFlag[o] \in BOOLEAN /\ \A k \in DOMAIN <<o>> : <<o>>[k] = o
  BY HeaderAssumption
<1>4. pruneFlag[o] => \A k \in DOMAIN <<o>> : pruneFlag[<<o>>[k]]
  BY <1>3
<1> QED BY Zenon, <1>1, <1>2, <1>3, <1>4, BeginIndInv

LEMMA PushType ==
  ASSUME NEW ring \in Seq(Op), NEW o \in Op
  PROVE  Push(ring, o) \in Seq(Op)
<1> DEFINE rest == IF Len(ring) >= Capacity /\ ring # <<>> THEN Front(ring) ELSE ring
           same == {k \in DOMAIN rest : backlink[rest[k]] = backlink[o]}
<1>1. rest \in Seq(Op)
  BY SubSeqProperties DEF Front
<1>2. [k \in DOMAIN rest |-> IF k \in same THEN o ELSE rest[k]] \in Seq(Op)
  BY <1>1
<1>3. Append(rest, o) \in Seq(Op)
  BY <1>1
<1> QED BY <1>2, <1>3 DEF Push

LEMMA BufferedIndInv ==
  ASSUME IndInv, NEW o \in Op, IngestBuffered(o)
  PROVE  IndInv'
<1>1. PICK latest \in Op \union {NoOp} :
        IsLatest(latest, log) /\ tx' = Tx(<<>>, FALSE, latest, TRUE, PopFrom(latest))
  BY Zenon DEF IngestBuffered
<1>2. UNCHANGED <<log, pruning, deleted>> /\ tx = NoTx /\ buffer' = Push(buffer, o)
  BY DEF IngestBuffered, MayBegin
<1>3. buffer' \in Seq(Op)
  BY <1>2, PushType DEF IndInv, TypeOK
<1>4. PopFrom(latest) \in Op \union {NoOp}
  BY HeaderAssumption DEF PopFrom
<1>5. <<>> \in Seq(Op)
  OBVIOUS
<1>6. FALSE => \A k \in DOMAIN <<>> : pruneFlag[<<>>[k]]
  OBVIOUS
<1> QED BY Zenon, <1>1, <1>2, <1>3, <1>4, <1>5, <1>6, BeginIndInv

LEMMA PopIndInv ==
  ASSUME IndInv, NEW k \in DOMAIN buffer, Pop(k)
  PROVE  IndInv'
<1>1. /\ UNCHANGED <<log, pruning, deleted>>
      /\ tx' = [tx EXCEPT !.todo = Append(@, buffer[k]), !.next = buffer[k]]
      /\ buffer' = RemoveAt(buffer, k)
      /\ tx.pop
  BY DEF Pop
<1>2. buffer \in Seq(Op) /\ buffer[k] \in Op /\ k \in 1 .. Len(buffer) /\ Len(buffer) \in Nat
  BY DEF IndInv, TypeOK
<1>3. buffer' \in Seq(Op)
  <2>1. SubSeq(buffer, 1, k - 1) \in Seq(Op)
    BY <1>2, SubSeqProperties
  <2>2. SubSeq(buffer, k + 1, Len(buffer)) \in Seq(Op)
    BY <1>2, SubSeqProperties
  <2> QED BY <1>1, <2>1, <2>2, ConcatProperties DEF RemoveAt
<1>4. TypeOK'
  <2>1. tx.todo \in Seq(Op)
    BY DEF IndInv, TypeOK
  <2>2. Append(tx.todo, buffer[k]) \in Seq(Op)
    BY <1>2, <2>1, AppendProperties
  <2>3. tx' \in [todo : Seq(Op), prune : BOOLEAN, latest : Op \union {NoOp}, new : SUBSET Op,
                 pop : BOOLEAN, next : Op \union {NoOp}]
    BY Zenon, <1>1, <1>2, <2>2 DEF IndInv, TypeOK
  <2> QED BY <1>1, <1>3, <2>3 DEF IndInv, TypeOK
<1>5. UNCHANGED <<tx.prune, tx.latest, tx.new, tx.pop>>
  BY Zenon, <1>1 DEF IndInv, TypeOK
<1>6. ~tx.prune
  BY <1>1 DEF IndInv
<1> QED BY <1>1, <1>4, <1>5, <1>6 DEF IndInv, Rows, Linked, TxOpen, IsLatest

\* The transaction ends without a commit.
LEMMA RollbackIndInv ==
  ASSUME IndInv, UNCHANGED <<log, buffer, pruning, deleted>>, tx' = NoTx
  PROVE  IndInv'
<1>1. Rows' = log
  BY DEF Rows, NoTx, Tx
<1>2. TypeOK' /\ ~TxOpen' /\ ~tx'.prune /\ ~tx'.pop
  BY DEF IndInv, TypeOK, NoTx, Tx, TxOpen
<1>3. log \subseteq Rows
  BY DEF Rows
<1> QED BY <1>1, <1>2, <1>3 DEF IndInv, Linked

LEMMA PopEndsIndInv ==
  ASSUME IndInv, PopEnds
  PROVE  IndInv'
<1>1. CASE tx.todo = <<>>
  BY <1>1, RollbackIndInv DEF PopEnds
<1>2. CASE tx.todo # <<>>
  <2>1. UNCHANGED <<log, buffer, pruning, deleted>> /\ tx' = [tx EXCEPT !.pop = FALSE] /\ tx.pop
    BY <1>2 DEF PopEnds
  <2>2. UNCHANGED <<tx.prune, tx.latest, tx.new, tx.todo>> /\ tx'.pop = FALSE
    BY <2>1 DEF IndInv, TypeOK
  <2>3. TypeOK'
    BY Zenon, <2>1 DEF IndInv, TypeOK
  <2> QED BY <2>1, <2>2, <2>3 DEF IndInv, Rows, Linked, TxOpen, IsLatest
<1> QED BY <1>1, <1>2

\* A validated operation continues the log, or it may prune it, or it is the
\* first one of an empty log.
LEMMA InsertCases ==
  ASSUME IndInv, tx.todo # <<>>, NEW o \in Op, o = Head(tx.todo),
         ValidPrunableBacklink(tx.latest, o, tx.prune)
  PROVE  \/ pruneFlag[o]
         \/ Rows = {} /\ seqNum[o] = 0
         \/ /\ tx.latest \in Rows /\ backlink[o] = tx.latest
            /\ seqNum[o] = seqNum[tx.latest] + 1
            /\ \A q \in Rows : seqNum[q] < seqNum[o]
<1>1. IsLatest(tx.latest, Rows) /\ Rows \subseteq Op
  BY DEF IndInv, TxOpen, TypeOK, Rows
<1>2. tx.prune => pruneFlag[o]
  BY DEF IndInv, TypeOK
<1>3. ASSUME ValidBacklink(tx.latest, o)
      PROVE  /\ tx.latest \in Rows /\ backlink[o] = tx.latest
             /\ seqNum[o] = seqNum[tx.latest] + 1
             /\ \A q \in Rows : seqNum[q] < seqNum[o]
  BY <1>1, <1>3, HeaderAssumption DEF ValidBacklink, IsLatest
<1>4. ASSUME tx.latest = NoOp PROVE Rows = {}
  BY <1>1, <1>4, NoOpAssumption DEF IsLatest
<1>5. CASE seqNum[o] > 0
  BY <1>2, <1>3, <1>5 DEF ValidPrunableBacklink
<1>6. CASE ~(seqNum[o] > 0)
  <2>1. seqNum[o] = 0
    BY <1>6, HeaderAssumption
  <2> QED BY <1>3, <1>4, <1>6, <2>1 DEF ValidPrunableBacklink
<1> QED BY <1>5, <1>6

LEMMA InsertIndInv ==
  ASSUME IndInv, Insert
  PROVE  IndInv'
<1> DEFINE o == Head(tx.todo)
           latest == IF tx.latest = NoOp \/ seqNum[tx.latest] < seqNum[o] THEN o ELSE tx.latest
<1>1. /\ UNCHANGED <<log, buffer, pruning, deleted>>
      /\ tx.todo # <<>> /\ ~tx.pop
      /\ ValidPrunableBacklink(tx.latest, o, tx.prune)
      /\ tx' = [tx EXCEPT !.todo = Tail(@), !.new = @ \union {o}, !.latest = latest]
  BY DEF Insert, Row
<1>2. o \in Op /\ Tail(tx.todo) \in Seq(Op) /\ tx.todo \in Seq(Op)
  BY <1>1 DEF IndInv, TypeOK
<1>3. TypeOK'
  BY Zenon, <1>1, <1>2 DEF IndInv, TypeOK
<1>4. /\ tx'.todo = Tail(tx.todo) /\ tx'.new = tx.new \union {o} /\ tx'.latest = latest
      /\ UNCHANGED <<tx.prune, tx.pop>>
  BY <1>1 DEF IndInv, TypeOK
<1>5. Rows' = Rows \union {o} /\ Rows \subseteq Op
  BY <1>1, <1>4 DEF Rows, IndInv, TypeOK
<1>6. \/ pruneFlag[o]
      \/ Rows = {} /\ seqNum[o] = 0
      \/ /\ tx.latest \in Rows /\ backlink[o] = tx.latest
         /\ seqNum[o] = seqNum[tx.latest] + 1
         /\ \A q \in Rows : seqNum[q] < seqNum[o]
  BY <1>1, <1>2, InsertCases
<1> HIDE DEF o, latest
<1>7. \A q \in Rows' : Linked(q, Rows')
  <2>1. \A q \in Rows : Linked(q, Rows)
    BY DEF IndInv
  <2>2. \A q \in Rows : Linked(q, Rows')
    BY <1>5, <2>1 DEF Linked
  <2>3. Linked(o, Rows')
    BY <1>5, <1>6 DEF Linked
  <2> QED BY <1>5, <2>2, <2>3
<1>8. \A a, b \in Rows' : seqNum[a] = seqNum[b] => a = b \/ pruneFlag[a] \/ pruneFlag[b]
  <2>1. \A q \in Rows : seqNum[q] = seqNum[o] => pruneFlag[o]
    BY SMTT(30), <1>2, <1>5, <1>6, HeaderAssumption
  <2> QED BY <1>5, <2>1 DEF IndInv
<1>9. IsLatest(latest, Rows')
  <2>1. IsLatest(tx.latest, Rows)
    BY <1>1 DEF IndInv, TxOpen
  <2>2. CASE tx.latest = NoOp
    BY SMTT(30), <1>2, <1>5, <2>1, <2>2, NoOpAssumption, HeaderAssumption DEF IsLatest, latest
  <2>3. CASE tx.latest # NoOp
    BY SMTT(30), <1>2, <1>5, <2>1, <2>3, HeaderAssumption DEF IsLatest, latest
  <2> QED BY <2>2, <2>3
<1>10. tx'.prune => \A k \in DOMAIN tx'.todo : pruneFlag[tx'.todo[k]]
  <2>1. \A k \in DOMAIN Tail(tx.todo) :
           k + 1 \in DOMAIN tx.todo /\ Tail(tx.todo)[k] = tx.todo[k + 1]
    BY <1>1, <1>2
  <2> QED BY <1>4, <2>1 DEF IndInv
<1>11. \A q \in Rows' : \A d \in deleted : pruneFlag[q] \/ seqNum[d] < seqNum[q]
  <2>1. ASSUME NEW d \in deleted PROVE pruneFlag[o] \/ seqNum[d] < seqNum[o]
    <3>1. PICK q \in log : seqNum[d] < seqNum[q]
      BY <2>1 DEF IndInv
    <3>2. q \in Rows /\ d \in Op
      BY DEF Rows, IndInv, TypeOK
    <3> QED BY SMTT(30), <1>2, <1>5, <1>6, <3>1, <3>2, HeaderAssumption
  <2> QED BY <1>5, <2>1 DEF IndInv
<1> QED BY SMTT(30), <1>1, <1>3, <1>4, <1>7, <1>8, <1>9, <1>10, <1>11 DEF IndInv, Linked, IsLatest

LEMMA CommitIndInv ==
  ASSUME IndInv, Commit
  PROVE  IndInv'
<1>1. /\ UNCHANGED <<buffer, deleted>>
      /\ log' = Rows
      /\ pruning' = pruning \union {o \in tx.new : pruneFlag[o]}
      /\ tx' = NoTx
  BY DEF Commit, Rows
<1>2. Rows' = Rows /\ log \subseteq Rows /\ tx.new \subseteq Rows /\ Rows \subseteq Op
  BY <1>1 DEF Rows, NoTx, Tx, IndInv, TypeOK
<1>3. TypeOK' /\ ~TxOpen' /\ ~tx'.prune /\ ~tx'.pop
  BY <1>1, <1>2 DEF IndInv, TypeOK, NoTx, Tx, TxOpen
<1>4. \A o \in pruning' : \E q \in log' : seqNum[o] <= seqNum[q]
  <2>1. \A o \in tx.new : seqNum[o] <= seqNum[o]
    BY <1>2, HeaderAssumption
  <2> QED BY <1>1, <1>2, <2>1 DEF IndInv
<1>5. \A o \in deleted' : \E q \in log' : seqNum[o] < seqNum[q]
  BY <1>1, <1>2 DEF IndInv
<1> QED BY SMTT(30), <1>1, <1>2, <1>3, <1>4, <1>5 DEF IndInv, Linked

\* Pruning never removes the log's latest entry.
LEMMA PruneKeepsHeight ==
  ASSUME IndInv, NEW o \in Op, Prune(o)
  PROVE  \A p \in log : \E q \in log' : seqNum[p] <= seqNum[q]
<1>1. log' = {q \in log : seqNum[q] >= seqNum[o]} /\ log \subseteq Op /\ o \in pruning
  BY DEF Prune, PruneEntries, IndInv, TypeOK
<1>2. PICK w \in log : seqNum[o] <= seqNum[w]
  BY <1>1 DEF IndInv
<1>3. w \in log'
  BY <1>1, <1>2, HeaderAssumption
<1> SUFFICES ASSUME NEW p \in log
             PROVE  \E q \in log' : seqNum[p] <= seqNum[q]
  OBVIOUS
<1>4. CASE seqNum[p] >= seqNum[o]
  BY <1>1, <1>4, HeaderAssumption
<1>5. CASE ~(seqNum[p] >= seqNum[o])
  BY SMTT(30), <1>1, <1>2, <1>3, <1>5, HeaderAssumption
<1> QED BY <1>4, <1>5

LEMMA PruneIndInv ==
  ASSUME IndInv, NEW o \in Op, Prune(o)
  PROVE  IndInv'
<1>1. /\ UNCHANGED <<tx, buffer>> /\ tx.new = {}
      /\ log' = {q \in log : seqNum[q] >= seqNum[o]}
      /\ deleted' = deleted \union (log \ log')
      /\ pruning' = pruning \ {o} /\ o \in pruning
  BY DEF Prune, PruneEntries
<1>2. Rows = log /\ Rows' = log' /\ log \subseteq Op /\ deleted \subseteq Op /\ pruning \subseteq Op
  BY <1>1 DEF Rows, IndInv, TypeOK
<1>3. TypeOK'
  BY <1>1, <1>2 DEF IndInv, TypeOK
<1>4. \A p \in log : \E q \in log' : seqNum[p] <= seqNum[q]
  BY PruneKeepsHeight
<1>5. \A q \in log' : Linked(q, log')
  <2> SUFFICES ASSUME NEW q \in log', seqNum[q] # 0,
                      ~\E p \in log' : pruneFlag[p] /\ seqNum[p] = seqNum[q]
               PROVE  backlink[q] \in log' /\ seqNum[backlink[q]] + 1 = seqNum[q]
    BY DEF Linked
  <2>1. q \in log /\ seqNum[q] >= seqNum[o] /\ ~pruneFlag[q] /\ q \in Op
    BY <1>1, <1>2
  <2>2. ~\E p \in log : pruneFlag[p] /\ seqNum[p] = seqNum[q]
    BY <1>1, <2>1
  <2>3. backlink[q] \in log /\ seqNum[backlink[q]] + 1 = seqNum[q]
    BY <2>1, <2>2 DEF IndInv, Linked
  <2>4. seqNum[q] # seqNum[o]
    <3>1. pruneFlag[o] /\ o \in log \union deleted
      BY <1>1 DEF IndInv
    <3>2. CASE o \in log
      BY <2>2, <3>1, <3>2
    <3>3. CASE o \in deleted
      <4>1. seqNum[o] < seqNum[q]
        BY <1>2, <2>1, <3>3 DEF IndInv
      <4> QED BY <2>1, <4>1, HeaderAssumption
    <3> QED BY <3>1, <3>2, <3>3
  <2> QED BY SMTT(30), <1>1, <1>2, <2>1, <2>3, <2>4, HeaderAssumption
<1>6. \A p \in pruning' : \E q \in log' : seqNum[p] <= seqNum[q]
  <2> SUFFICES ASSUME NEW p \in pruning'
               PROVE  \E q \in log' : seqNum[p] <= seqNum[q]
    OBVIOUS
  <2>1. PICK w \in log : seqNum[p] <= seqNum[w]
    BY <1>1 DEF IndInv
  <2>2. PICK q \in log' : seqNum[w] <= seqNum[q]
    BY <1>4
  <2> QED BY SMTT(30), <1>1, <1>2, <2>1, <2>2, HeaderAssumption
<1>7. \A p \in deleted' : \E q \in log' : seqNum[p] < seqNum[q]
  <2> SUFFICES ASSUME NEW p \in deleted'
               PROVE  \E q \in log' : seqNum[p] < seqNum[q]
    OBVIOUS
  <2>1. CASE p \in deleted
    <3>1. PICK w \in log : seqNum[p] < seqNum[w]
      BY <2>1 DEF IndInv
    <3>2. PICK q \in log' : seqNum[w] <= seqNum[q]
      BY <1>4
    <3> QED BY SMTT(30), <1>1, <1>2, <2>1, <3>1, <3>2, HeaderAssumption
  <2>2. CASE p \in log \ log'
    <3>1. PICK w \in log : seqNum[o] <= seqNum[w]
      BY <1>1 DEF IndInv
    <3> QED BY SMTT(30), <1>1, <1>2, <2>2, <3>1, HeaderAssumption
  <2> QED BY <1>1, <2>1, <2>2
<1>8. \A q \in Rows' : \A d \in deleted' : pruneFlag[q] \/ seqNum[d] < seqNum[q]
  <2>1. \A q \in log' : \A d \in log \ log' : seqNum[d] < seqNum[q]
    BY SMTT(30), <1>1, <1>2, HeaderAssumption
  <2> QED BY <1>1, <1>2, <2>1 DEF IndInv
<1>9. TxOpen' => IsLatest(tx.latest, log')
  <2> SUFFICES ASSUME TxOpen PROVE IsLatest(tx.latest, log')
    BY <1>1 DEF TxOpen
  <2>1. IsLatest(tx.latest, log)
    BY <1>2 DEF IndInv
  <2>2. PICK w \in log : seqNum[o] <= seqNum[w]
    BY <1>1 DEF IndInv
  <2> QED BY SMTT(30), <1>1, <1>2, <2>1, <2>2, HeaderAssumption DEF IsLatest
<1>10. \A a, b \in Rows' : seqNum[a] = seqNum[b] => a = b \/ pruneFlag[a] \/ pruneFlag[b]
  BY <1>1, <1>2 DEF IndInv
<1>11. pruning' \subseteq log' \union deleted'
  BY <1>1 DEF IndInv
<1> QED BY SMTT(30), <1>1, <1>2, <1>3, <1>5, <1>6, <1>7, <1>8, <1>9, <1>10, <1>11 DEF IndInv

LEMMA NextIndInv == IndInv /\ [Next]_vars => IndInv'
<1> SUFFICES ASSUME IndInv, [Next]_vars
             PROVE  IndInv'
  OBVIOUS
<1>1. CASE \E o \in Op : IngestDuplicate(o) \/ IngestInOrder(o) \/ IngestBuffered(o)
  BY <1>1, DuplicateIndInv, InOrderIndInv, BufferedIndInv
<1>2. CASE \E k \in DOMAIN buffer : Pop(k)
  BY <1>2, PopIndInv
<1>3. CASE PopEnds
  BY <1>3, PopEndsIndInv
<1>4. CASE Insert
  BY <1>4, InsertIndInv
<1>5. CASE InsertFails
  BY SMTT(30), <1>5, RollbackIndInv DEF InsertFails
<1>6. CASE Commit
  BY <1>6, CommitIndInv
<1>7. CASE \E o \in Op : Prune(o)
  BY SMTT(30), <1>7, PruneIndInv
<1>8. CASE UNCHANGED vars
  BY <1>8 DEF vars, IndInv, TypeOK, Rows, Linked, TxOpen, IsLatest
<1> QED BY SMTT(30), <1>1, <1>2, <1>3, <1>4, <1>5, <1>6, <1>7, <1>8 DEF Next

LEMMA IndInvAlways == Spec => []IndInv
BY InitIndInv, NextIndInv, PTL DEF Spec

-----------------------------------------------------------------------------
(* The results.                                                            *)

\* The tables, the open transaction and the buffer are well-typed.
THEOREM TypeCorrect == Spec => []TypeOK
<1>1. IndInv => TypeOK
  BY DEF IndInv
<1> QED BY <1>1, IndInvAlways, PTL

\* ingest_operation and prune_entries keep the chain of backlinks intact: an
\* operation is never stored without its predecessor, except at a prune point
\* and next to one; whatever the authors publish, forks included.
THEOREM LogStaysChained == Spec => []ChainIntact
<1>1. IndInv => ChainIntact
  BY SMTT(30) DEF IndInv, ChainIntact, Linked, PrunePointAt
<1> QED BY <1>1, IndInvAlways, PTL

\* validate_prunable_backlink keeps forks out of the log, except for the ones
\* which are made of prune points.
THEOREM LogForksAtPrunePoints == Spec => []ForksAtPrunePoints
<1>1. IndInv => ForksAtPrunePoints
  BY SMTT(30) DEF IndInv, ForksAtPrunePoints, Rows
<1> QED BY <1>1, IndInvAlways, PTL

\* Operations which were deleted by prune_entries are rejected when they are
\* ingested again, unless they have a prune flag themselves.
THEOREM PrunedNeverReturns == Spec => []PrunedStaysPruned
<1>1. IndInv => PrunedStaysPruned
  BY SMTT(30), HeaderAssumption DEF IndInv, PrunedStaysPruned, Rows, TypeOK
<1> QED BY <1>1, IndInvAlways, PTL

\* prune_entries never lowers the height of a log, however late it runs.
THEOREM HeightNeverDecreases == Spec => HeightGrows
<1>1. IndInv /\ [Next]_vars => [\A o \in log : \E q \in log' : seqNum[o] <= seqNum[q]]_vars
  <2> SUFFICES ASSUME IndInv, Next
               PROVE  \A o \in log : \E q \in log' : seqNum[o] <= seqNum[q]
    OBVIOUS
  <2>1. CASE \E o \in Op : Prune(o)
    BY <2>1, PruneKeepsHeight
  <2>2. CASE ~\E o \in Op : Prune(o)
    <3>1. log \subseteq log' /\ log \subseteq Op
      BY Zenon, <2>2 DEF Next, IngestDuplicate, IngestInOrder, IngestBuffered, Pop, PopEnds,
                  Insert, InsertFails, Commit, IndInv, TypeOK
    <3> QED BY SMTT(30), <3>1, HeaderAssumption
  <2> QED BY <2>1, <2>2
<1> QED BY <1>1, IndInvAlways, PTL DEF Spec, HeightGrows

=============================================================================
