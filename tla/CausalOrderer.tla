--------------------------- MODULE CausalOrderer ----------------------------
(***************************************************************************)
(* The dependency orderer of p2panda-stream on top of its SQLite tables in *)
(* p2panda-store.                                                          *)
(*                                                                         *)
(* CausalOrderer::process runs inside one write transaction and behind a   *)
(* mutex, but it is a recursive walk over rows which the walk itself       *)
(* deletes, driven by the arbitrary iteration order of a HashSet.  The     *)
(* recursion is modelled with an explicit stack: one step per dependent    *)
(* which is visited, one step per call which returns.                      *)
(*                                                                         *)
(* An item is an operation hash, so its dependency list is part of its     *)
(* content and never changes; the set_digest column, a hash of child and   *)
(* list, is then determined by the child and is left out of the rows.      *)
(***************************************************************************)
EXTENDS Integers, Sequences, FiniteSets, FiniteSetsExt, Functions

CONSTANTS
    ID,         \* the items
    Graphs,     \* dependency lists the items may declare
    MaxIndex    \* bound: no process call once this queue index is in use

ASSUME IDAssumption == IsFiniteSet(ID)
ASSUME GraphsAssumption == Graphs \subseteq [ID -> Seq(ID)]
ASSUME MaxIndexAssumption == MaxIndex \in Nat

VARIABLES
    dependencies,   \* dependencies[i]: the list which item i declares
    readyIndex,     \* orderer_ready_v1.queue_index, 0 when there is no row
    inQueue,        \* orderer_ready_v1.in_queue
    pending,        \* orderer_pending_v1: rows <<id, child_id, parent_id>>
    stack,          \* active process_pending calls, innermost last
    submitted,      \* history: items which were passed to process
    taken           \* history: items which next returned at least once

tables == <<readyIndex, inQueue, pending>>
vars == <<dependencies, readyIndex, inQueue, pending, stack, submitted, taken>>

-----------------------------------------------------------------------------
(* The store's queries.                                                    *)

Parents(i) == Range(dependencies[i])

Ready == {i \in ID : readyIndex[i] > 0}

\* Mutant: one ready dependency is enough.
ReadyQueryAny(elements, length) == length = 0 \/ elements \intersect Ready # {}

\* SELECT COUNT(id) .. WHERE id IN (list), compared with the list's length.
\* A list is given by its elements and its length.
ReadyQuery(elements, length) == Cardinality(elements \intersect Ready) = length

LastIndex == Max({readyIndex[i] : i \in ID} \union {0})

RowsOf(child) == {row \in pending : row[2] = child}

\* The pending items below key, each with the list of the parent_id columns of
\* all of its rows.
GetNextPending(key) ==
    {[child |-> c,
      parents |-> {row[3] : row \in RowsOf(c)},
      length |-> Cardinality(RowsOf(c))] :
        c \in {row[2] : row \in {r \in pending : r[1] = key}}}

-----------------------------------------------------------------------------
(* The store's updates.                                                    *)

\* Insert the item at the end of the queue; an item which left the queue is
\* queued again, one which still waits there stays where it is.
MarkReady(i) ==
    /\ readyIndex' = IF i \in inQueue THEN readyIndex
                     ELSE [readyIndex EXCEPT ![i] = LastIndex + 1]
    /\ inQueue' = inQueue \union {i}

\* One set of rows for every dependency which is not ready.
MarkPending(i) ==
    pending' = pending \union ((Parents(i) \ Ready) \X {i} \X Parents(i))

RemovePending(key) ==
    pending' = {row \in pending : row[1] # key}

\* Mutant: freed items are not followed.
CallNothing(frames, key) == frames

\* A call of process_pending returns at once when nothing waits for the key.
Call(frames, key) ==
    IF GetNextPending(key) = {} THEN frames
    ELSE Append(frames, [key |-> key, dependents |-> GetNextPending(key)])

-----------------------------------------------------------------------------
Init ==
    /\ dependencies \in Graphs
    /\ readyIndex = [i \in ID |-> 0]
    /\ inQueue = {}
    /\ pending = {}
    /\ stack = <<>>
    /\ submitted = {}
    /\ taken = {}

\* CausalOrderer::process, up to the loop of the first process_pending.
Process(i) ==
    /\ stack = <<>>
    /\ LastIndex < MaxIndex
    /\ submitted' = submitted \union {i}
    /\ \/ /\ ~ReadyQuery(Parents(i), Len(dependencies[i]))
          /\ MarkPending(i)
          /\ UNCHANGED <<readyIndex, inQueue, stack>>
       \/ /\ ReadyQuery(Parents(i), Len(dependencies[i]))
          /\ MarkReady(i)
          /\ stack' = Call(stack, i)
          /\ UNCHANGED pending
    /\ UNCHANGED <<dependencies, taken>>

\* One iteration of the loop of process_pending: the dependent was read when
\* the call started, its dependencies are looked up now.
VisitDependent(d) ==
    LET n == Len(stack)
        rest == [stack EXCEPT ![n].dependents = @ \ {d}]
    IN  /\ d \in stack[n].dependents
        /\ \/ /\ ~ReadyQuery(d.parents, d.length)
              /\ stack' = rest
              /\ UNCHANGED <<readyIndex, inQueue>>
           \/ /\ ReadyQuery(d.parents, d.length)
              /\ MarkReady(d.child)
              /\ stack' = Call(rest, d.child)
        /\ UNCHANGED <<dependencies, pending, submitted, taken>>

Visit ==
    /\ stack # <<>>
    /\ \E d \in stack[Len(stack)].dependents : VisitDependent(d)

\* The loop is done: delete the rows which wait for the key and return.
Return ==
    LET n == Len(stack)
    IN  /\ stack # <<>>
        /\ stack[n].dependents = {}
        /\ RemovePending(stack[n].key)
        /\ stack' = SubSeq(stack, 1, n - 1)
        /\ UNCHANGED <<dependencies, readyIndex, inQueue, submitted, taken>>

\* Mutant: the highest index first.
TakeLastReady(i) ==
    /\ stack = <<>>
    /\ i \in inQueue
    /\ \A j \in inQueue : readyIndex[i] >= readyIndex[j]
    /\ inQueue' = inQueue \ {i}
    /\ taken' = taken \union {i}
    /\ UNCHANGED <<dependencies, readyIndex, pending, stack, submitted>>

\* CausalOrderer::next, the queue's front: the lowest index in the queue.
TakeNextReady(i) ==
    /\ stack = <<>>
    /\ i \in inQueue
    /\ \A j \in inQueue : readyIndex[i] <= readyIndex[j]
    /\ inQueue' = inQueue \ {i}
    /\ taken' = taken \union {i}
    /\ UNCHANGED <<dependencies, readyIndex, pending, stack, submitted>>

Next ==
    \/ \E i \in ID : Process(i)
    \/ Visit
    \/ Return
    \/ \E i \in ID : TakeNextReady(i)

Spec == Init /\ [][Next]_vars

-----------------------------------------------------------------------------
Dependent == [child : ID, parents : SUBSET ID, length : Nat]

TypeOK ==
    /\ dependencies \in [ID -> Seq(ID)]
    /\ readyIndex \in [ID -> Nat]
    /\ inQueue \subseteq ID
    /\ pending \subseteq ID \X ID \X ID
    /\ stack \in Seq([key : ID, dependents : SUBSET Dependent])
    /\ submitted \subseteq ID
    /\ taken \subseteq ID

\* No item is in the ready table before everything it depends on is, at any
\* moment of the walk: process and process_pending call mark_ready only after
\* the store confirmed the dependencies, from lists which other calls of the
\* walk may have made stale.
DependenciesMet ==
    \A i \in Ready : Parents(i) \subseteq Ready

\* The queue never hands out an item (for the first time) before its
\* dependencies: next takes the lowest queue_index, and re-processing moves
\* items to the end of the queue while their dependents still wait in it.
TakenInOrder ==
    \A i \in taken : Parents(i) \subseteq taken

\* Between calls no row of the pending table waits for an item which is ready:
\* remove_pending is called for every item which became ready during a walk.
NoStaleRows ==
    stack = <<>> => \A row \in pending : row[1] \notin Ready

\* Between calls every submitted item whose dependencies are ready is ready as
\* well: process_pending moves a pending item to the queue when the last of its
\* dependencies is processed.
NothingSwallowed ==
    stack = <<>> => \A i \in submitted : Parents(i) \subseteq Ready => i \in Ready

\* What an item depends on, directly or through others: the smallest set which
\* contains its dependencies and theirs.
Ancestors(i) ==
    {j \in ID : \A S \in SUBSET ID :
        Parents(i) \subseteq S /\ (\A k \in S : Parents(k) \subseteq S) => j \in S}

\* No list names an item twice, and no dependency of an item is also reached
\* through another one.
IsReduced ==
    \A i \in ID :
        /\ Cardinality(Parents(i)) = Len(dependencies[i])
        /\ \A p, q \in Parents(i) : p \notin Ancestors(q)

\* Between calls of process no submitted item whose dependencies are ready is
\* left pending, as long as no dependency of an item is also reached through
\* another one: process_pending moves every item which an arrival completes.
NothingSwallowedIfReduced == IsReduced => NothingSwallowed

\* Handing out items in this order is what a partial order promises.
Abstract ==
    INSTANCE PartialOrder WITH
        parents <- [i \in ID |-> Parents(i)], arrived <- submitted, delivered <- taken

OrdersPartially == Abstract!Spec

-----------------------------------------------------------------------------
(* The inductive invariant.  DependenciesMet and TakenInOrder are not       *)
(* inductive: the walk works on lists which it read from the pending table  *)
(* earlier.  Rows and lists always name all dependencies of the waiting     *)
(* item, with at least as many list entries as there are dependencies, so   *)
(* that a successful count means all of them are ready; and the queue's     *)
(* indices respect the dependencies among items which were never taken.     *)

\* n is the highest queue index in use.
IsLast(n) ==
    /\ \A i \in ID : readyIndex[i] <= n
    /\ n = 0 \/ \E i \in ID : readyIndex[i] = n

\* Every row comes with the rows for all other dependencies of its child.
RowsComplete ==
    \A row \in pending :
        /\ row[2] \in submitted
        /\ row[3] \in Parents(row[2])
        /\ \A p \in Parents(row[2]) : <<row[1], row[2], p>> \in pending

\* A dependent of an active call still names all of its dependencies.
ListComplete(d) ==
    /\ d.child \in submitted
    /\ d.parents = Parents(d.child)
    /\ Cardinality(d.parents) <= d.length

ListsComplete ==
    \A n \in DOMAIN stack : \A d \in stack[n].dependents : ListComplete(d)

\* What the queue and its history have to do with the ready table.
QueueConsistent ==
    /\ inQueue \subseteq Ready
    /\ taken \subseteq Ready
    /\ Ready \subseteq inQueue \union taken
    /\ Ready \subseteq submitted

\* Items which were never taken are queued behind their dependencies.
QueueOrdered ==
    \A i \in Ready \ taken : \A p \in Parents(i) \ taken : readyIndex[p] < readyIndex[i]

IndInv ==
    /\ TypeOK
    /\ \E n \in Nat : IsLast(n)
    /\ RowsComplete
    /\ ListsComplete
    /\ QueueConsistent
    /\ DependenciesMet
    /\ QueueOrdered
    /\ TakenInOrder

(* What the walk leaves behind.  Rows of an item which became ready stay    *)
(* until the call for it returns, and every call was made from one for a    *)
(* dependency, so the calls on the stack are ancestors of each other.       *)

\* An item waits for its dependencies.
RowsWait ==
    /\ \A row \in pending : row[1] \in Parents(row[2])
    /\ \A i \in submitted \ Ready : \A p \in Parents(i) \ Ready : <<p, i, p>> \in pending

\* Rows which wait for a ready item belong to an active call.
RowsAreVisited ==
    \A row \in pending : row[1] \in Ready => \E n \in DOMAIN stack : stack[n].key = row[1]

\* Calls are made for ready items, each from the call for an ancestor.
CallsAreNested ==
    \A n \in DOMAIN stack :
        /\ stack[n].key \in Ready
        /\ \A m \in DOMAIN stack : m < n => stack[m].key \in Ancestors(stack[n].key)
        /\ \A d \in stack[n].dependents : stack[n].key \in Parents(d.child)

\* An item whose last dependency became ready is yet to be visited, with a list
\* which counts every dependency once.
CompleteIsVisited ==
    \A i \in submitted \ Ready :
        Parents(i) \subseteq Ready =>
            \E n \in DOMAIN stack : \E d \in stack[n].dependents :
                d.child = i /\ d.length = Cardinality(Parents(i))

WalkInv ==
    /\ RowsWait
    /\ RowsAreVisited
    /\ CallsAreNested
    /\ IsReduced => CompleteIsVisited

=============================================================================
