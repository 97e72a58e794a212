------------------------------- MODULE Ingest -------------------------------
(***************************************************************************)
(* Ingesting operations into an append-only log and pruning it             *)
(* (p2panda-stream, p2panda-core, p2panda-store).                          *)
(*                                                                         *)
(* Several pipelines write to the same log: an ingest runs in a write      *)
(* transaction, one at a time, but the deletion of a pruned prefix is a    *)
(* query of its own.  It may run long after the operation with the prune   *)
(* flag was inserted, and between the read and the write of somebody       *)
(* else's transaction.  Operations arrive in any order and repeatedly.     *)
(*                                                                         *)
(* One log of one author: logs share no rows, and the keys of the          *)
(* out-of-order buffer contain hashes of operations of one log.            *)
(***************************************************************************)
EXTENDS Integers, Sequences, FiniteSets, SequencesExt

CONSTANTS
    Op,         \* the operations
    NoOp,       \* no operation
    seqNum,     \* header fields: sequence number, ..
    backlink,   \* .. hash of the previous operation or NoOp, ..
    pruneFlag,  \* .. and whether the log may be pruned before the operation
    Capacity    \* size of the out-of-order buffer

ASSUME NoOpAssumption == NoOp \notin Op
ASSUME HeaderAssumption ==
    /\ seqNum \in [Op -> Nat]
    /\ backlink \in [Op -> Op \union {NoOp}]
    /\ pruneFlag \in [Op -> BOOLEAN]
ASSUME CapacityAssumption == Capacity \in Nat \ {0}

VARIABLES
    log,        \* rows of operations_v1
    tx,         \* the open transaction: its operation and what was read
    buffer,     \* ChainRing: operations in insertion order
    pruning,    \* operations on their way to the log prune processor
    deleted     \* history: operations which were pruned at least once

vars == <<log, tx, buffer, pruning, deleted>>

-----------------------------------------------------------------------------
(* Validation.                                                             *)

\* validate_header: no backlink exactly at the beginning of the log.
ValidHeader(o) == (backlink[o] = NoOp) <=> (seqNum[o] = 0)

\* validate_backlink
ValidBacklink(past, o) ==
    /\ past # NoOp
    /\ seqNum[past] + 1 = seqNum[o]
    /\ backlink[o] = past

\* Mutant: a first operation is always accepted.
ValidPrunableBacklinkRestart(past, o, prune) ==
    (seqNum[o] > 0 /\ ~prune) => ValidBacklink(past, o)

\* Mutant: an operation which does not connect is accepted on an empty log.
ValidPrunableBacklinkEmpty(past, o, prune) ==
    past = NoOp \/ (seqNum[o] > 0 /\ prune) \/ ValidBacklink(past, o)

\* validate_prunable_backlink
ValidPrunableBacklink(past, o, prune) ==
    IF seqNum[o] > 0
    THEN prune \/ ValidBacklink(past, o)
    ELSE past = NoOp \/ ValidBacklink(past, o)

-----------------------------------------------------------------------------
(* The log store.                                                          *)

\* get_latest_entry: any row with the highest sequence number.
IsLatest(o, rows) ==
    \/ rows = {} /\ o = NoOp
    \/ o \in rows /\ \A q \in rows : seqNum[q] <= seqNum[o]

\* Mutant: the last entry before the operation is kept.
PruneEntriesOffByOne(rows, until) == {o \in rows : seqNum[o] >= until - 1}

\* prune_entries
PruneEntries(rows, until) == {o \in rows : seqNum[o] >= until}

-----------------------------------------------------------------------------
(* The out-of-order buffer.                                                *)

\* push: evict when full; an item with the same key is replaced in place.
Push(ring, o) ==
    LET full == Len(ring) >= Capacity
        rest == IF full /\ ring # <<>> THEN Front(ring) ELSE ring
        same == {k \in DOMAIN rest : backlink[rest[k]] = backlink[o]}
    IN  IF same = {} THEN Append(rest, o)
        ELSE [k \in DOMAIN rest |-> IF k \in same THEN o ELSE rest[k]]

\* OooBuffer::process, for an operation which has to be buffered: the chain is
\* looked up from the backlink of the log's latest operation.
PopFrom(latest) == IF latest = NoOp THEN NoOp ELSE backlink[latest]

\* saturating_sub_signed(1)
Before(n) == IF n = 0 THEN 0 ELSE n - 1

OooResult(o, latest) ==
    IF pruneFlag[o] THEN "InOrder"
    ELSE IF latest = NoOp THEN "Buffer"
    ELSE IF seqNum[o] < seqNum[latest] THEN "Outdated"
    ELSE IF seqNum[latest] = Before(seqNum[o]) THEN "InOrder"
    ELSE "Buffer"

-----------------------------------------------------------------------------
\* A transaction: operations to insert, the prune flag it was called with, the
\* latest entry, rows written so far, and for the loop of pop_from whether it
\* still runs and which backlink it looks for.
Tx(todo, prune, latest, pop, next) ==
    [todo |-> todo, prune |-> prune, latest |-> latest, new |-> {}, pop |-> pop, next |-> next]

NoTx == Tx(<<>>, FALSE, NoOp, FALSE, NoOp)

Init ==
    /\ log = {}
    /\ tx = NoTx
    /\ buffer = <<>>
    /\ pruning = {}
    /\ deleted = {}

\* Only one transaction is open at a time, the others wait in begin.
MayBegin(o) == tx = NoTx /\ ValidHeader(o)

\* AlreadyExists: nothing is written, the event moves on in its pipeline.
IngestDuplicate(o) ==
    /\ MayBegin(o)
    /\ o \in log
    /\ pruning' = pruning \union {q \in {o} : pruneFlag[q]}
    /\ UNCHANGED <<log, tx, buffer, deleted>>

\* The operation is in-order, or the caller passes no buffer: validate it next.
IngestInOrder(o) ==
    /\ MayBegin(o)
    /\ o \notin log
    /\ \E latest \in Op \union {NoOp}, ooo \in BOOLEAN :
          /\ IsLatest(latest, log)
          /\ ooo => OooResult(o, latest) = "InOrder"
          /\ tx' = Tx(<<o>>, pruneFlag[o], latest, FALSE, NoOp)
    /\ UNCHANGED <<log, buffer, pruning, deleted>>

\* The operation goes to the buffer, ..
IngestBuffered(o) ==
    /\ MayBegin(o)
    /\ o \notin log
    /\ \E latest \in Op \union {NoOp} :
          /\ IsLatest(latest, log)
          /\ OooResult(o, latest) = "Buffer"
          /\ tx' = Tx(<<>>, FALSE, latest, TRUE, PopFrom(latest))
    /\ buffer' = Push(buffer, o)
    /\ UNCHANGED <<log, pruning, deleted>>

\* .. and everything which is in-order now leaves it: one round of pop_from.
Pop(k) ==
    /\ tx.pop
    /\ backlink[buffer[k]] = tx.next
    /\ tx' = [tx EXCEPT !.todo = Append(@, buffer[k]), !.next = buffer[k]]
    /\ buffer' = RemoveAt(buffer, k)
    /\ UNCHANGED <<log, pruning, deleted>>

\* The chain ends here; when it is empty the operation stays out-of-order.
PopEnds ==
    /\ tx.pop
    /\ \A k \in DOMAIN buffer : backlink[buffer[k]] # tx.next
    /\ tx' = IF tx.todo = <<>> THEN NoTx ELSE [tx EXCEPT !.pop = FALSE]
    /\ UNCHANGED <<log, buffer, pruning, deleted>>

\* insert_operation writes one row.
Row(o) == o

\* One round of check_log_and_insert.
Insert ==
    LET o == Head(tx.todo)
    IN  /\ tx.todo # <<>> /\ ~tx.pop
        /\ ValidPrunableBacklink(tx.latest, o, tx.prune)
        /\ tx' = [tx EXCEPT !.todo = Tail(@), !.new = @ \union {Row(o)},
                            !.latest = IF @ = NoOp \/ seqNum[@] < seqNum[o] THEN o ELSE @]
        /\ UNCHANGED <<log, buffer, pruning, deleted>>

\* .. or the log's integrity is violated: everything is rolled back.
InsertFails ==
    /\ tx.todo # <<>> /\ ~tx.pop
    /\ ~ValidPrunableBacklink(tx.latest, Head(tx.todo), tx.prune)
    /\ tx' = NoTx
    /\ UNCHANGED <<log, buffer, pruning, deleted>>

Commit ==
    /\ tx.todo = <<>>
    /\ tx.new # {}
    /\ log' = log \union tx.new
    /\ pruning' = pruning \union {o \in tx.new : pruneFlag[o]}
    /\ tx' = NoTx
    /\ UNCHANGED <<buffer, deleted>>

\* The log prune processor; it waits while a transaction has written.
Prune(o) ==
    /\ o \in pruning
    /\ tx.new = {}
    /\ log' = PruneEntries(log, seqNum[o])
    /\ deleted' = deleted \union (log \ log')
    /\ pruning' = pruning \ {o}
    /\ UNCHANGED <<tx, buffer>>

Next ==
    \/ \E o \in Op : IngestDuplicate(o) \/ IngestInOrder(o) \/ IngestBuffered(o)
    \/ \E k \in DOMAIN buffer : Pop(k)
    \/ PopEnds
    \/ Insert
    \/ InsertFails
    \/ Commit
    \/ \E o \in Op : Prune(o)

\* An open transaction and the pipelines behind it make progress.
Fairness ==
    /\ WF_vars((\E k \in DOMAIN buffer : Pop(k)) \/ PopEnds)
    /\ WF_vars(Insert \/ InsertFails \/ Commit)
    /\ \A o \in Op : WF_vars(Prune(o))

Spec == Init /\ [][Next]_vars

FairSpec == Spec /\ Fairness

-----------------------------------------------------------------------------
TypeOK ==
    /\ log \subseteq Op
    /\ tx \in [todo : Seq(Op), prune : BOOLEAN, latest : Op \union {NoOp}, new : SUBSET Op,
              pop : BOOLEAN, next : Op \union {NoOp}]
    /\ buffer \in Seq(Op)
    /\ pruning \subseteq Op
    /\ deleted \subseteq Op

\* The log has a prune point with this sequence number.
PrunePointAt(n) == \E p \in log : pruneFlag[p] /\ seqNum[p] = n

\* An operation without prune flag is never in the log without the operation
\* it links back to: whatever is ingested, buffered, rolled back and pruned
\* between the check of the latest entry and the insert.  The one exception is
\* a log which its author forked with a prune point, which is accepted next to
\* another operation: pruning before it deletes the predecessor of both.
ChainIntact ==
    \A o \in log : seqNum[o] = 0 \/ backlink[o] \in log \/ PrunePointAt(seqNum[o])

\* The log forks at prune points only: two operations without prune flag never
\* have the same sequence number.
ForksAtPrunePoints ==
    \A a, b \in log : seqNum[a] = seqNum[b] => a = b \/ pruneFlag[a] \/ pruneFlag[b]

\* The height of the log never decreases, also when it is pruned with an
\* operation which itself was pruned in the meantime: what peers learned about
\* the height of a log stays true.
HeightGrows ==
    [][\A o \in log : \E q \in log' : seqNum[o] <= seqNum[q]]_vars

\* What was pruned does not come back when it is received again (operations
\* with a prune flag excepted: they are accepted at any time).
PrunedStaysPruned ==
    \A o \in log \intersect deleted : pruneFlag[o]

\* "garbage collection will automatically occur and eventually data will be
\* removed": everything before an operation with a prune flag is gone at some
\* point and does not come back, except for other prune points, which are
\* accepted at any time.
EventuallyCollected ==
    \A p \in {o \in Op : pruneFlag[o]} :
        p \in log ~> [](\A o \in log : seqNum[o] >= seqNum[p] \/ pruneFlag[o])

=============================================================================
