------------------------ MODULE CausalOrdererProofs -------------------------
(***************************************************************************)
(* Proofs about CausalOrderer, for every set of items and every dependency *)
(* graph (cycles and repeated dependencies included).                      *)
(*                                                                         *)
(* IndInv and WalkInv of CausalOrderer are the strengthenings: IndInv is    *)
(* what a successful count and the order of the queue rest on, WalkInv      *)
(* follows the rows of the pending table while the recursion runs.          *)
(***************************************************************************)
EXTENDS CausalOrderer, FiniteSetTheorems, TLAPS

-----------------------------------------------------------------------------
(* Finite sets and counting.                                               *)

\* The pending table is finite.
LEMMA RowsFinite == IsFiniteSet(ID \X ID \X ID)
<1> DEFINE f == [x \in (ID \X ID) \X ID |-> <<x[1][1], x[1][2], x[2]>>]
<1>1. IsFiniteSet((ID \X ID) \X ID)
  BY Zenon, IDAssumption, FS_Product
<1>2. f \in [(ID \X ID) \X ID -> ID \X ID \X ID]
  OBVIOUS
<1>3. \A r \in ID \X ID \X ID : \E x \in (ID \X ID) \X ID : f[x] = r
  <2> TAKE r \in ID \X ID \X ID
  <2> WITNESS << <<r[1], r[2]>>, r[3]>> \in (ID \X ID) \X ID
  <2> QED OBVIOUS
<1>4. f \in Surjection((ID \X ID) \X ID, ID \X ID \X ID)
  BY Zenon, <1>2, <1>3 DEF Surjection
<1> QED BY <1>1, <1>4, FS_Surjection

\* The length of a list bounds the number of items it names.
LEMMA ListLength ==
  ASSUME NEW s \in Seq(ID)
  PROVE  Range(s) \subseteq ID /\ Cardinality(Range(s)) <= Len(s)
<1>1. s \in [1..Len(s) -> ID] /\ Len(s) \in Nat
  OBVIOUS
<1>2. s \in Surjection(1..Len(s), Range(s))
  BY <1>1 DEF Range, Surjection
<1>3. ExistsSurjection(1..Len(s), Range(s))
  BY <1>2 DEF ExistsSurjection
<1> QED BY <1>1, <1>3, FS_SurjCardinalityBound DEF Range

\* If the query counts as many ready items as a list has entries, and the list
\* has an entry for each of its items, then all of its items are ready.
LEMMA CountMeansReady ==
  ASSUME NEW S \in SUBSET ID, NEW n, Cardinality(S) <= n, n \in Nat, ReadyQuery(S, n)
  PROVE  S \subseteq Ready
<1>1. IsFiniteSet(S)
  BY IDAssumption, FS_Subset
<1>2. S \intersect Ready \in SUBSET S
  OBVIOUS
<1>3. Cardinality(S \intersect Ready) <= Cardinality(S)
  BY <1>1, <1>2, FS_Subset
<1>4. Cardinality(S) \in Nat
  BY <1>1, FS_CardinalityType
<1>5. Cardinality(S) = Cardinality(S \intersect Ready)
  BY <1>3, <1>4 DEF ReadyQuery
<1>6. S = S \intersect Ready
  BY <1>1, <1>2, <1>5, FS_Subset
<1> QED BY <1>6

\* LastIndex is the number which IsLast describes.
LEMMA LastIndexIsLast ==
  ASSUME TypeOK, NEW n \in Nat, IsLast(n)
  PROVE  LastIndex = n
<1> DEFINE S == {readyIndex[i] : i \in ID} \union {0}
<1>1. S \subseteq Nat
  BY DEF TypeOK
<1>2. n \in S /\ \A y \in S : n >= y
  BY DEF IsLast, TypeOK
<1>3. \A x \in S : (\A y \in S : x >= y) => x = n
  BY <1>1, <1>2
<1>4. Max(S) = n
  BY <1>2, <1>3 DEF Max
<1> QED BY <1>4 DEF LastIndex

\* What get_next_pending returns is well-formed and names all dependencies.
LEMMA NextPendingComplete ==
  ASSUME TypeOK, RowsComplete, NEW key \in ID
  PROVE  /\ GetNextPending(key) \subseteq Dependent
         /\ \A d \in GetNextPending(key) : ListComplete(d)
<1> SUFFICES ASSUME NEW row \in pending, row[1] = key,
                    NEW d, d = [child |-> row[2],
                                parents |-> {r[3] : r \in RowsOf(row[2])},
                                length |-> Cardinality(RowsOf(row[2]))]
             PROVE  d \in Dependent /\ ListComplete(d)
  BY DEF GetNextPending
<1> DEFINE c == row[2]
           P == {r[3] : r \in RowsOf(c)}
           f == [r \in RowsOf(c) |-> r[3]]
<1>1. c \in ID /\ P \subseteq ID /\ pending \subseteq ID \X ID \X ID
  BY DEF TypeOK, RowsOf
<1>2. IsFiniteSet(RowsOf(c))
  BY <1>1, RowsFinite, FS_Subset DEF RowsOf
<1>3. Cardinality(RowsOf(c)) \in Nat
  BY <1>2, FS_CardinalityType
<1>4. f \in Surjection(RowsOf(c), P)
  BY DEF Surjection
<1>5. Cardinality(P) <= Cardinality(RowsOf(c))
  BY <1>2, <1>4, FS_Surjection
<1>6. P = Parents(c)
  <2>1. P \subseteq Parents(c)
    BY DEF RowsComplete, RowsOf
  <2>2. ASSUME NEW p \in Parents(c) PROVE p \in P
    <3>1. <<row[1], c, p>> \in pending
      BY DEF RowsComplete
    <3>2. <<row[1], c, p>> \in RowsOf(c)
      BY <3>1 DEF RowsOf
    <3> QED BY <3>2
  <2> QED BY <2>1, <2>2
<1>7. c \in submitted
  BY DEF RowsComplete
<1>8. d \in Dependent
  BY <1>1, <1>3 DEF Dependent
<1>9. ListComplete(d)
  BY <1>5, <1>6, <1>7 DEF ListComplete
<1> QED BY <1>8, <1>9

Frame == [key : ID, dependents : SUBSET Dependent]

\* Calling process_pending keeps the stack well-formed.
LEMMA CallComplete ==
  ASSUME TypeOK, RowsComplete, NEW key \in ID, NEW frames \in Seq(Frame),
         \A n \in DOMAIN frames : \A d \in frames[n].dependents : ListComplete(d)
  PROVE  /\ Call(frames, key) \in Seq(Frame)
         /\ \A n \in DOMAIN Call(frames, key) :
                \A d \in Call(frames, key)[n].dependents : ListComplete(d)
<1> DEFINE top == [key |-> key, dependents |-> GetNextPending(key)]
<1>1. top \in Frame
  BY NextPendingComplete DEF Frame
<1>2. CASE GetNextPending(key) = {}
  BY <1>2 DEF Call
<1>3. CASE GetNextPending(key) # {}
  <2>1. Call(frames, key) = Append(frames, top)
    BY <1>3 DEF Call
  <2>2. Append(frames, top) \in Seq(Frame)
    BY <1>1
  <2>3. ASSUME NEW n \in DOMAIN Append(frames, top),
               NEW d \in Append(frames, top)[n].dependents
        PROVE  ListComplete(d)
    <3>1. CASE n \in DOMAIN frames
      <4>1. Append(frames, top)[n] = frames[n]
        BY <1>1, <3>1
      <4> QED BY <4>1, <3>1
    <3>2. CASE n \notin DOMAIN frames
      <4>1. Append(frames, top)[n] = top
        BY <1>1, <3>2
      <4> QED BY <4>1, NextPendingComplete
    <3> QED BY <3>1, <3>2
  <2> QED BY <2>1, <2>2, <2>3
<1> QED BY <1>2, <1>3

\* Marking an item as ready, once its dependencies are, keeps the ready table,
\* the queue and the order of its indices consistent.
LEMMA MarkReadyConsistent ==
  ASSUME TypeOK, \E n \in Nat : IsLast(n), QueueConsistent, DependenciesMet, QueueOrdered,
         NEW i \in ID, MarkReady(i), Parents(i) \subseteq Ready,
         i \in submitted', submitted \subseteq submitted', UNCHANGED <<dependencies, taken>>
  PROVE  /\ readyIndex' \in [ID -> Nat] /\ inQueue' \subseteq ID
         /\ (\E n \in Nat : IsLast(n))'
         /\ QueueConsistent'
         /\ DependenciesMet'
         /\ QueueOrdered'
<1>1. PICK n \in Nat : IsLast(n)
  OBVIOUS
<1>2. LastIndex = n
  BY <1>1, LastIndexIsLast
<1>3. \A j \in ID : Parents(j)' = Parents(j)
  BY DEF Parents
<1>4. CASE i \in inQueue
  <2>1. readyIndex' = readyIndex /\ inQueue' = inQueue
    BY <1>4 DEF MarkReady
  <2>2. Ready' = Ready
    BY <2>1 DEF Ready
  <2> QED
    BY Zenon, <1>1, <1>3, <2>1, <2>2 DEF IsLast, QueueConsistent, DependenciesMet, QueueOrdered,
       TypeOK, Ready
<1>5. CASE i \notin inQueue
  <2>1. readyIndex' = [readyIndex EXCEPT ![i] = n + 1] /\ inQueue' = inQueue \union {i}
    BY <1>2, <1>5 DEF MarkReady
  <2>2. readyIndex' \in [ID -> Nat] /\ inQueue' \subseteq ID
    BY <2>1 DEF TypeOK
  <2>3. readyIndex'[i] = n + 1 /\ \A j \in ID \ {i} : readyIndex'[j] = readyIndex[j]
    BY <2>1 DEF TypeOK
  <2>4. Ready' = Ready \union {i}
    BY <2>2, <2>3 DEF Ready, TypeOK
  <2>5. (\E m \in Nat : IsLast(m))'
    <3>1. \A j \in ID : readyIndex[j] <= n /\ readyIndex[j] \in Nat
      BY <1>1 DEF IsLast, TypeOK
    <3>2. \A j \in ID : readyIndex'[j] <= n + 1
      BY <2>3, <3>1
    <3>3. IsLast(n + 1)'
      BY <2>3, <3>2 DEF IsLast
    <3> QED BY <3>3
  <2>6. QueueConsistent'
    BY <2>1, <2>4 DEF QueueConsistent
  <2>7. DependenciesMet'
    BY <1>3, <2>4 DEF DependenciesMet, Ready
  <2>8. QueueOrdered'
    <3> SUFFICES ASSUME NEW j \in (Ready \ taken)', NEW p \in (Parents(j) \ taken)'
                 PROVE  readyIndex'[p] < readyIndex'[j]
      BY DEF QueueOrdered
    <3>1. j \in ID /\ j \notin taken /\ p \in Parents(j) /\ p \notin taken
      BY <1>3 DEF Ready
    <3>2. CASE j = i
      <4>1. p \in Ready /\ p \in ID
        BY <3>1, <3>2 DEF Ready
      <4>2. i \notin Ready
        BY <1>5, <3>1, <3>2 DEF QueueConsistent
      <4>3. readyIndex'[p] = readyIndex[p] /\ readyIndex[p] <= n
        BY <1>1, <2>3, <4>1, <4>2 DEF IsLast
      <4> QED BY <2>3, <3>2, <4>1, <4>3 DEF TypeOK
    <3>3. CASE j # i
      <4>1. j \in Ready
        BY <2>4, <3>3
      <4>2. p \in Ready /\ p \in ID
        BY <3>1, <4>1 DEF DependenciesMet, Ready
      <4>3. p # i
        BY <1>5, <3>1, <4>2 DEF QueueConsistent
      <4>4. readyIndex[p] < readyIndex[j]
        BY <3>1, <4>1 DEF QueueOrdered
      <4> QED BY <2>3, <3>1, <3>3, <4>2, <4>3, <4>4
    <3> QED BY <3>2, <3>3
  <2> QED BY <2>2, <2>5, <2>6, <2>7, <2>8
<1> QED BY <1>4, <1>5

-----------------------------------------------------------------------------
(* The inductive invariant.                                                *)

LEMMA InitIndInv == Init => IndInv
<1> SUFFICES ASSUME Init PROVE IndInv
  OBVIOUS
<1>1. TypeOK
  BY GraphsAssumption DEF Init, TypeOK
<1>2. Ready = {}
  BY DEF Init, Ready
<1>3. \E n \in Nat : IsLast(n)
  <2>1. IsLast(0)
    BY DEF Init, IsLast
  <2> QED BY <2>1
<1> QED
  BY <1>1, <1>2, <1>3 DEF Init, IndInv, RowsComplete, ListsComplete, QueueConsistent,
     DependenciesMet, QueueOrdered, TakenInOrder
\* One call of process: either the item waits, with rows for all of its
\* dependencies, or it is marked as ready and the walk starts.
LEMMA ProcessIndInv ==
  ASSUME IndInv, NEW i \in ID, Process(i)
  PROVE  IndInv'
<1> USE DEF IndInv
<1>1. /\ UNCHANGED <<dependencies, taken>>
      /\ submitted' = submitted \union {i}
      /\ \A j \in ID : Parents(j)' = Parents(j)
  BY DEF Process, Parents
<1>2. Parents(i) \subseteq ID /\ Cardinality(Parents(i)) <= Len(dependencies[i])
  BY ListLength DEF Parents, TypeOK
<1>3. CASE ~ReadyQuery(Parents(i), Len(dependencies[i]))
  <2>1. UNCHANGED <<readyIndex, inQueue, stack>> /\ MarkPending(i)
    BY <1>3 DEF Process
  <2>2. TypeOK'
    BY <1>1, <1>2, <2>1 DEF TypeOK, MarkPending
  <2>3. RowsComplete'
    <3> SUFFICES ASSUME NEW row \in pending'
                 PROVE  /\ row[2] \in submitted'
                        /\ row[3] \in Parents(row[2])'
                        /\ \A p \in Parents(row[2])' : <<row[1], row[2], p>> \in pending'
      BY DEF RowsComplete
    <3>1. CASE row \in pending
      BY <1>1, <2>1, <3>1 DEF RowsComplete, MarkPending, TypeOK
    <3>2. CASE row \in (Parents(i) \ Ready) \X {i} \X Parents(i)
      BY <1>1, <2>1, <3>2 DEF MarkPending
    <3> QED BY <2>1, <3>1, <3>2 DEF MarkPending
  <2>4. ListsComplete'
    <3>1. stack = <<>> /\ stack' = <<>>
      BY <2>1 DEF Process
    <3> QED BY <3>1 DEF ListsComplete
  <2>5. Ready' = Ready
    BY <2>1 DEF Ready
  <2>6. (\E n \in Nat : IsLast(n))'
    BY <2>1 DEF IsLast
  <2>7. QueueConsistent'
    BY <1>1, <2>1, <2>5 DEF QueueConsistent
  <2>8. DependenciesMet' /\ QueueOrdered'
    BY <1>1, <2>1, <2>5 DEF DependenciesMet, QueueOrdered, Ready
  <2>9. TakenInOrder'
    BY <1>1 DEF TakenInOrder, TypeOK
  <2> QED BY <2>2, <2>3, <2>4, <2>6, <2>7, <2>8, <2>9
<1>4. CASE ReadyQuery(Parents(i), Len(dependencies[i]))
  <2>1. MarkReady(i) /\ stack' = Call(stack, i) /\ pending' = pending /\ stack = <<>>
    BY <1>4 DEF Process
  <2>2. Len(dependencies[i]) \in Nat
    BY DEF TypeOK
  <2>3. Parents(i) \subseteq Ready
    BY <1>2, <1>4, <2>2, CountMeansReady
  <2>4. /\ readyIndex' \in [ID -> Nat] /\ inQueue' \subseteq ID
        /\ (\E n \in Nat : IsLast(n))'
        /\ QueueConsistent'
        /\ DependenciesMet'
        /\ QueueOrdered'
    BY <1>1, <2>1, <2>3, MarkReadyConsistent
  <2>5. RowsComplete'
    BY <1>1, <2>1 DEF RowsComplete, TypeOK
  <2>6. <<>> \in Seq(Frame) /\ \A n \in DOMAIN <<>> : \A d \in <<>>[n].dependents : ListComplete(d)
    OBVIOUS
  <2>7. /\ stack' \in Seq(Frame)
        /\ \A n \in DOMAIN stack' : \A d \in stack'[n].dependents : ListComplete(d)
    BY Zenon, <2>1, <2>6, CallComplete
  <2>8. TypeOK'
    <3>1. submitted' \subseteq ID
      BY <1>1 DEF TypeOK
    <3> QED BY <1>1, <2>1, <2>4, <2>7, <3>1, Zenon DEF TypeOK, Frame
  <2>9. ListsComplete'
    <3>1. ASSUME NEW n \in DOMAIN stack', NEW d \in stack'[n].dependents
          PROVE  ListComplete(d)'
      <4>1. stack'[n] \in Frame
        BY <2>7
      <4>2. d \in Dependent
        BY <4>1 DEF Frame
      <4>3. d.child \in ID
        BY <4>2 DEF Dependent
      <4> QED BY <1>1, <2>7, <4>3 DEF ListComplete
    <3> QED BY <3>1 DEF ListsComplete
  <2>10. TakenInOrder'
    BY <1>1 DEF TakenInOrder, TypeOK
  <2> QED BY <2>4, <2>5, <2>8, <2>9, <2>10
<1> QED BY <1>3, <1>4
\* One iteration of the walk: the list of the dependent is complete, so if the
\* count succeeds its dependencies are ready.
LEMMA VisitIndInv ==
  ASSUME IndInv, stack # <<>>, NEW e \in stack[Len(stack)].dependents, VisitDependent(e)
  PROVE  IndInv'
<1> USE DEF IndInv
<1> DEFINE n == Len(stack)
           rest == [stack EXCEPT ![n].dependents = @ \ {e}]
<1>1. /\ UNCHANGED <<dependencies, pending, submitted, taken>>
      /\ \A j \in ID : Parents(j)' = Parents(j)
  BY DEF VisitDependent, Parents
<1>2. stack \in Seq(Frame) /\ n \in DOMAIN stack /\ n \in Nat
  BY DEF TypeOK, Frame
<1>3. stack[n] \in Frame
  BY <1>2
<1>4. e \in Dependent /\ stack[n].dependents \subseteq Dependent
  BY <1>3 DEF Frame
<1>5. e.child \in ID /\ e.parents \subseteq ID /\ e.length \in Nat
  BY <1>4 DEF Dependent
<1>6. ListComplete(e)
  BY <1>2 DEF ListsComplete
<1>7. rest \in Seq(Frame) /\ DOMAIN rest = DOMAIN stack
  <2>1. rest = [k \in DOMAIN stack |->
                  IF k = n THEN [stack[n] EXCEPT !.dependents = @ \ {e}] ELSE stack[k]]
    BY Zenon, <1>2
  <2>2. [stack[n] EXCEPT !.dependents = @ \ {e}] \in Frame
    BY <1>3 DEF Frame
  <2> QED BY <1>2, <2>1, <2>2
<1>8. \A k \in DOMAIN rest : \A d \in rest[k].dependents : ListComplete(d)
  <2> SUFFICES ASSUME NEW k \in DOMAIN rest, NEW d \in rest[k].dependents
               PROVE  d \in stack[k].dependents
    BY <1>7 DEF ListsComplete
  <2>1. CASE k = n
    BY <1>2, <1>3, <1>7, <2>1 DEF Frame
  <2>2. CASE k # n
    BY <1>2, <1>7, <2>2
  <2> QED BY <2>1, <2>2
<1>9. RowsComplete' /\ TakenInOrder'
  BY SMTT(30), <1>1 DEF RowsComplete, TakenInOrder, TypeOK
<1>10. ASSUME stack' \in Seq(Frame),
              \A k \in DOMAIN stack' : \A d \in stack'[k].dependents : ListComplete(d)
       PROVE  ListsComplete'
  <2>1. ASSUME NEW k \in DOMAIN stack', NEW d \in stack'[k].dependents
        PROVE  ListComplete(d)'
    <3>1. stack'[k] \in Frame
      BY <1>10
    <3>2. d \in Dependent
      BY <3>1 DEF Frame
    <3>3. d.child \in ID
      BY <3>2 DEF Dependent
    <3> QED BY <1>1, <1>10, <3>3 DEF ListComplete
  <2> QED BY <2>1 DEF ListsComplete
<1>11. CASE ~ReadyQuery(e.parents, e.length)
  <2>1. stack' = rest /\ UNCHANGED <<readyIndex, inQueue>>
    BY <1>11 DEF VisitDependent
  <2>2. ListsComplete'
    BY <1>7, <1>8, <1>10, <2>1
  <2>3. TypeOK'
    BY Zenon, <1>1, <1>7, <2>1 DEF TypeOK, Frame
  <2>4. Ready' = Ready
    BY <2>1 DEF Ready
  <2>5. (\E m \in Nat : IsLast(m))'
    BY <2>1 DEF IsLast
  <2>6. QueueConsistent'
    BY <1>1, <2>1, <2>4 DEF QueueConsistent
  <2>7. DependenciesMet' /\ QueueOrdered'
    BY <1>1, <2>1, <2>4 DEF DependenciesMet, QueueOrdered, Ready
  <2> QED BY <1>9, <2>2, <2>3, <2>5, <2>6, <2>7
<1>12. CASE ReadyQuery(e.parents, e.length)
  <2>1. MarkReady(e.child) /\ stack' = Call(rest, e.child)
    BY <1>12 DEF VisitDependent
  <2>2. Parents(e.child) \subseteq Ready /\ e.child \in submitted
    BY <1>5, <1>6, <1>12, CountMeansReady DEF ListComplete
  <2>3. /\ readyIndex' \in [ID -> Nat] /\ inQueue' \subseteq ID
        /\ (\E m \in Nat : IsLast(m))'
        /\ QueueConsistent'
        /\ DependenciesMet'
        /\ QueueOrdered'
    BY <1>1, <1>5, <2>1, <2>2, MarkReadyConsistent
  <2>4. /\ stack' \in Seq(Frame)
        /\ \A k \in DOMAIN stack' : \A d \in stack'[k].dependents : ListComplete(d)
    BY Zenon, <1>5, <1>7, <1>8, <2>1, CallComplete
  <2>5. ListsComplete'
    BY <1>10, <2>4
  <2>6. TypeOK'
    BY Zenon, <1>1, <2>3, <2>4 DEF TypeOK, Frame
  <2> QED BY <1>9, <2>3, <2>5, <2>6
<1> QED BY <1>11, <1>12

\* A call which returns deletes all rows of its key, never some of them.
LEMMA ReturnIndInv ==
  ASSUME IndInv, Return
  PROVE  IndInv'
<1> USE DEF IndInv
<1> DEFINE n == Len(stack)
<1>1. /\ UNCHANGED <<dependencies, readyIndex, inQueue, submitted, taken>>
      /\ pending' = {row \in pending : row[1] # stack[n].key}
      /\ stack' = SubSeq(stack, 1, n - 1)
      /\ stack # <<>>
  BY DEF Return, RemovePending
<1>2. Ready' = Ready /\ \A j \in ID : Parents(j)' = Parents(j)
  BY <1>1 DEF Ready, Parents
<1>3. stack' \in Seq(Frame) /\ \A k \in DOMAIN stack' : k \in DOMAIN stack /\ stack'[k] = stack[k]
  <2>1. stack \in Seq(Frame) /\ n \in Nat /\ DOMAIN stack = 1 .. n
    BY DEF TypeOK, Frame
  <2>2. \A k \in 1 .. (n - 1) : k \in DOMAIN stack /\ stack[k] \in Frame
    BY <2>1
  <2>3. stack' \in Seq(Frame)
    BY <1>1, <2>1, <2>2
  <2>4. \A k \in DOMAIN stack' : k \in 1 .. (n - 1) /\ stack'[k] = stack[k]
    BY <1>1, <2>1
  <2> QED BY <2>2, <2>3, <2>4
<1>4. TypeOK'
  <2>1. pending' \subseteq ID \X ID \X ID
    BY <1>1, Zenon DEF TypeOK
  <2> QED BY <1>1, <1>3, <2>1, Zenon DEF TypeOK, Frame
<1>5. RowsComplete'
  <2> SUFFICES ASSUME NEW row \in pending'
               PROVE  /\ row[2] \in submitted' /\ row[3] \in Parents(row[2])'
                      /\ \A p \in Parents(row[2])' : <<row[1], row[2], p>> \in pending'
    BY Zenon DEF RowsComplete
  <2>1. row \in pending /\ row[1] # stack[n].key
    BY <1>1, Zenon
  <2>2. row[2] \in ID
    BY <2>1 DEF TypeOK
  <2>3. Parents(row[2])' = Parents(row[2]) /\ submitted' = submitted
    BY <1>1, <1>2, <2>2
  <2>4. /\ row[2] \in submitted /\ row[3] \in Parents(row[2])
        /\ \A p \in Parents(row[2]) : <<row[1], row[2], p>> \in pending
    BY <2>1, Zenon DEF RowsComplete
  <2>5. \A p : <<row[1], row[2], p>>[1] = row[1]
    OBVIOUS
  <2> QED BY <1>1, <2>1, <2>3, <2>4, <2>5, Zenon
<1>6. ListsComplete'
  <2>1. ASSUME NEW k \in DOMAIN stack', NEW d \in stack'[k].dependents
        PROVE  ListComplete(d)'
    <3>1. stack'[k] \in Frame /\ ListComplete(d)
      BY <1>3 DEF ListsComplete
    <3>2. d \in Dependent
      BY <3>1 DEF Frame
    <3>3. d.child \in ID
      BY <3>2 DEF Dependent
    <3> QED BY <1>1, <1>2, <3>1, <3>3 DEF ListComplete
  <2> QED BY <2>1 DEF ListsComplete
<1>7. (\E m \in Nat : IsLast(m))'
  BY <1>1 DEF IsLast
<1>8. QueueConsistent' /\ DependenciesMet' /\ QueueOrdered' /\ TakenInOrder'
  BY <1>1, <1>2 DEF QueueConsistent, DependenciesMet, QueueOrdered, TakenInOrder, Ready, TypeOK
<1> QED BY <1>4, <1>5, <1>6, <1>7, <1>8

\* Taking the lowest index: a dependency which was never taken would be queued
\* with a lower one.
LEMMA TakeParents ==
  ASSUME IndInv, NEW i \in ID, TakeNextReady(i)
  PROVE  Parents(i) \subseteq taken
<1> USE DEF IndInv
<1> SUFFICES ASSUME NEW p \in Parents(i), p \notin taken
             PROVE  FALSE
  OBVIOUS
<1>1. i \in Ready
  BY DEF TakeNextReady, QueueConsistent
<1>2. p \in Ready /\ p \in ID
  BY <1>1 DEF DependenciesMet, Ready
<1>3. p \in inQueue
  BY <1>2 DEF QueueConsistent
<1>4. i \notin taken
  BY DEF TakenInOrder
<1>5. readyIndex[p] < readyIndex[i]
  BY <1>1, <1>4 DEF QueueOrdered
<1> QED BY <1>2, <1>3, <1>5 DEF TypeOK, TakeNextReady

LEMMA TakeIndInv ==
  ASSUME IndInv, NEW i \in ID, TakeNextReady(i)
  PROVE  IndInv'
<1> USE DEF IndInv
<1>1. /\ UNCHANGED <<dependencies, readyIndex, pending, stack, submitted>>
      /\ inQueue' = inQueue \ {i}
      /\ taken' = taken \union {i}
      /\ i \in inQueue
  BY DEF TakeNextReady
<1>2. Ready' = Ready /\ \A j \in ID : Parents(j)' = Parents(j)
  BY <1>1 DEF Ready, Parents
<1>3. TypeOK'
  BY <1>1 DEF TypeOK
<1>4. RowsComplete' /\ ListsComplete' /\ (\E m \in Nat : IsLast(m))'
  BY <1>1 DEF RowsComplete, ListsComplete, ListComplete, IsLast, Parents
<1>5. QueueConsistent' /\ DependenciesMet' /\ QueueOrdered'
  BY <1>1, <1>2 DEF QueueConsistent, DependenciesMet, QueueOrdered, Ready
<1>6. TakenInOrder'
  <2>1. TakenInOrder /\ taken \subseteq ID
    BY DEF TypeOK
  <2>2. Parents(i) \subseteq taken
    BY TakeParents
  <2>3. ASSUME NEW j \in taken' PROVE Parents(j)' \subseteq taken'
    <3>1. j \in ID /\ Parents(j)' = Parents(j)
      BY <1>1, <1>2, <2>1
    <3>2. Parents(j) \subseteq taken
      BY <1>1, <2>1, <2>2 DEF TakenInOrder
    <3> QED BY <1>1, <3>1, <3>2
  <2> QED BY <2>3 DEF TakenInOrder
<1> QED BY <1>3, <1>4, <1>5, <1>6

LEMMA NextIndInv == IndInv /\ [Next]_vars => IndInv'
<1> SUFFICES ASSUME IndInv, [Next]_vars
             PROVE  IndInv'
  OBVIOUS
<1>1. CASE \E i \in ID : Process(i)
  BY <1>1, ProcessIndInv
<1>2. CASE Visit
  BY <1>2, VisitIndInv DEF Visit
<1>3. CASE Return
  BY <1>3, ReturnIndInv
<1>4. CASE \E i \in ID : TakeNextReady(i)
  BY <1>4, TakeIndInv
<1>5. CASE UNCHANGED vars
  BY Zenon, <1>5 DEF vars, IndInv, TypeOK, IsLast, RowsComplete, ListsComplete, ListComplete,
              QueueConsistent, DependenciesMet, QueueOrdered, TakenInOrder, Parents, Ready
<1> QED BY <1>1, <1>2, <1>3, <1>4, <1>5 DEF Next

LEMMA IndInvAlways == Spec => []IndInv
BY InitIndInv, NextIndInv, PTL DEF Spec

-----------------------------------------------------------------------------
(* What the walk leaves behind.                                             *)

\* The dependencies of a dependency are ancestors, and so are their ancestors.
LEMMA AncestorsClosed ==
  ASSUME TypeOK, NEW i \in ID, NEW p \in Parents(i)
  PROVE  p \in Ancestors(i) /\ Ancestors(p) \subseteq Ancestors(i)
<1>1. p \in ID
  BY ListLength DEF TypeOK, Parents
<1>2. p \in Ancestors(i)
  BY <1>1 DEF Ancestors
<1>3. ASSUME NEW j \in Ancestors(p), NEW S \in SUBSET ID,
             Parents(i) \subseteq S, \A k \in S : Parents(k) \subseteq S
      PROVE  j \in S
  BY <1>3 DEF Ancestors
<1>4. \A j \in Ancestors(p) : j \in ID
  BY DEF Ancestors
<1> QED BY <1>2, <1>3, <1>4 DEF Ancestors

\* The graph never changes.
LEMMA GraphConstant ==
  ASSUME UNCHANGED dependencies
  PROVE  /\ \A i \in ID : Parents(i)' = Parents(i) /\ Ancestors(i)' = Ancestors(i)
         /\ IsReduced' = IsReduced
<1>1. \A i : Parents(i)' = Parents(i)
  BY DEF Parents
<1>2. \A i : Ancestors(i)' = Ancestors(i)
  BY <1>1 DEF Ancestors
<1> QED BY <1>1, <1>2 DEF IsReduced

\* An item which waits for one dependency only is listed with one entry for
\* every dependency.
LEMMA LastKeyCounts ==
  ASSUME TypeOK, RowsComplete, RowsWait, NEW i \in submitted \ Ready,
         NEW c \in Parents(i) \ Ready, \A row \in RowsOf(i) : row[1] = c
  PROVE  \E d \in GetNextPending(c) : d.child = i /\ d.length = Cardinality(Parents(i))
<1> DEFINE R == RowsOf(i)
           f == [p \in Parents(i) |-> <<c, i, p>>]
           d == [child |-> i, parents |-> {row[3] : row \in R}, length |-> Cardinality(R)]
<1>1. <<c, i, c>> \in pending /\ pending \subseteq ID \X ID \X ID
  BY DEF RowsWait, TypeOK
<1>2. i \in ID /\ Parents(i) \subseteq ID
  BY ListLength DEF TypeOK, Parents
<1>3. d \in GetNextPending(c)
  <2>1. i \in {row[2] : row \in {r \in pending : r[1] = c}}
    <3>1. <<c, i, c>> \in {r \in pending : r[1] = c} /\ <<c, i, c>>[2] = i
      BY <1>1
    <3> QED BY <3>1
  <2> QED BY <2>1, Zenon DEF GetNextPending
<1>4. R = {<<c, i, p>> : p \in Parents(i)}
  <2>1. ASSUME NEW row \in R PROVE row \in {<<c, i, p>> : p \in Parents(i)}
    <3>1. row \in pending /\ row[2] = i /\ row[1] = c
      BY DEF RowsOf
    <3>2. row[3] \in Parents(i)
      BY <3>1 DEF RowsComplete
    <3>3. row = <<c, i, row[3]>>
      BY <1>1, <3>1
    <3> QED BY <3>2, <3>3
  <2>2. ASSUME NEW p \in Parents(i) PROVE <<c, i, p>> \in R
    <3>1. <<c, i, p>> \in pending
      BY <1>1 DEF RowsComplete
    <3> QED BY <3>1 DEF RowsOf
  <2> QED BY <2>1, <2>2
<1>5. f \in Bijection(Parents(i), R)
  <2>1. f \in [Parents(i) -> R]
    BY <1>4
  <2>2. \A p, q \in Parents(i) : f[p] = f[q] => p = q
    OBVIOUS
  <2>3. \A row \in R : \E p \in Parents(i) : f[p] = row
    BY <1>4
  <2> QED BY <2>1, <2>2, <2>3, Zenon DEF Bijection, Injection, Surjection, IsInjective
<1>6. IsFiniteSet(Parents(i))
  BY <1>2, IDAssumption, FS_Subset
<1>7. Cardinality(R) = Cardinality(Parents(i))
  BY <1>5, <1>6, FS_Bijection DEF ExistsBijection
<1> QED BY <1>3, <1>7

\* What an arrival frees: the items which waited for c alone are visited by the
\* call for it.
LEMMA ArrivalIsVisited ==
  ASSUME TypeOK, RowsComplete, RowsWait, NEW frames \in Seq(Frame),
         NEW i \in submitted \ Ready, NEW c \in Parents(i) \ Ready,
         \A row \in RowsOf(i) : row[1] = c
  PROVE  \E n \in DOMAIN Call(frames, c) : \E d \in Call(frames, c)[n].dependents :
            d.child = i /\ d.length = Cardinality(Parents(i))
<1>1. PICK d \in GetNextPending(c) : d.child = i /\ d.length = Cardinality(Parents(i))
  BY LastKeyCounts
<1> DEFINE top == [key |-> c, dependents |-> GetNextPending(c)]
           n == Len(frames) + 1
<1>2. Call(frames, c) = Append(frames, top)
  BY <1>1 DEF Call
<1>3. n \in DOMAIN Append(frames, top) /\ Append(frames, top)[n] = top
  OBVIOUS
<1>4. d \in Append(frames, top)[n].dependents
  BY <1>1, <1>3
<1> QED BY <1>1, <1>2, <1>3, <1>4

\* Calling process_pending for a ready item below the active calls keeps them
\* nested, and whatever they still have to visit.
LEMMA CallIsNested ==
  ASSUME TypeOK, RowsComplete, RowsWait, NEW frames \in Seq(Frame), NEW c \in ID, NEW R,
         NEW s, s = Call(frames, c), c \in R,
         \A n \in DOMAIN frames : frames[n].key \in Ancestors(c),
         \A n \in DOMAIN frames :
            /\ frames[n].key \in R
            /\ \A m \in DOMAIN frames : m < n => frames[m].key \in Ancestors(frames[n].key)
            /\ \A d \in frames[n].dependents : frames[n].key \in Parents(d.child)
  PROVE  /\ \A n \in DOMAIN s :
            /\ s[n].key \in R
            /\ \A m \in DOMAIN s : m < n => s[m].key \in Ancestors(s[n].key)
            /\ \A d \in s[n].dependents : s[n].key \in Parents(d.child)
         /\ \A n \in DOMAIN frames : n \in DOMAIN s /\ s[n] = frames[n]
         /\ \A row \in pending : row[1] = c => \E n \in DOMAIN s : s[n].key = c
<1> DEFINE top == [key |-> c, dependents |-> GetNextPending(c)]
<1>1. CASE GetNextPending(c) = {}
  <2>1. s = frames
    BY <1>1 DEF Call
  <2>2. \A row \in pending : row[1] # c
    BY <1>1, Zenon DEF GetNextPending
  <2> QED BY <2>1, <2>2
<1>2. CASE GetNextPending(c) # {}
  <2>1. s = Append(frames, top) /\ Len(frames) \in Nat /\ DOMAIN frames = 1 .. Len(frames)
    BY <1>2 DEF Call
  <2>2. \A n \in DOMAIN frames : n \in DOMAIN s /\ s[n] = frames[n]
    BY <2>1
  <2>3. /\ DOMAIN s = 1 .. (Len(frames) + 1)
        /\ s[Len(frames) + 1] = top
    BY <2>1
  <2>4. \A d \in GetNextPending(c) : c \in Parents(d.child)
    BY DEF GetNextPending, RowsWait
  <2>5. ASSUME NEW n \in DOMAIN s
        PROVE  /\ s[n].key \in R
               /\ \A m \in DOMAIN s : m < n => s[m].key \in Ancestors(s[n].key)
               /\ \A d \in s[n].dependents : s[n].key \in Parents(d.child)
    <3>1. CASE n \in DOMAIN frames
      <4>1. s[n] = frames[n] /\ \A m \in DOMAIN s : m < n => m \in DOMAIN frames
        BY <2>1, <2>2, <2>3, <3>1
      <4> QED BY <2>2, <3>1, <4>1
    <3>2. CASE n \notin DOMAIN frames
      <4>1. n = Len(frames) + 1 /\ \A m \in DOMAIN s : m < n => m \in DOMAIN frames
        BY <2>1, <2>3, <3>2
      <4>2. s[n].key = c /\ s[n].dependents = GetNextPending(c)
        BY <2>3, <4>1
      <4> QED BY <2>2, <2>4, <4>1, <4>2
    <3> QED BY <3>1, <3>2
  <2>6. \E n \in DOMAIN s : s[n].key = c
    BY <2>1, <2>3
  <2> QED BY <2>2, <2>5, <2>6
<1> QED BY <1>1, <1>2

\* mark_ready adds the item and nothing else.
LEMMA ReadyGrows ==
  ASSUME IndInv, NEW c \in ID, MarkReady(c)
  PROVE  Ready' = Ready \union {c}
<1> USE DEF IndInv
<1>1. PICK n \in Nat : IsLast(n)
  OBVIOUS
<1>2. LastIndex = n
  BY <1>1, LastIndexIsLast
<1>3. CASE c \in inQueue
  BY <1>3 DEF MarkReady, Ready, QueueConsistent
<1>4. CASE c \notin inQueue
  <2>1. readyIndex' = [readyIndex EXCEPT ![c] = n + 1]
    BY <1>2, <1>4 DEF MarkReady
  <2> QED BY <2>1 DEF Ready, TypeOK
<1> QED BY <1>3, <1>4

\* A step which marks c as ready and calls process_pending for it, when all
\* active calls are for ancestors of c.
LEMMA MarkedWalkInv ==
  ASSUME IndInv, WalkInv, NEW c \in ID, NEW frames \in Seq(Frame),
         MarkReady(c), stack' = Call(frames, c), UNCHANGED <<dependencies, pending>>,
         submitted' = submitted \union {c},
         DOMAIN frames = DOMAIN stack,
         \A n \in DOMAIN stack :
            /\ frames[n].key = stack[n].key
            /\ frames[n].dependents \subseteq stack[n].dependents
            /\ \A d \in stack[n].dependents : d.child = c \/ d \in frames[n].dependents
            /\ frames[n].key \in Ancestors(c)
  PROVE  WalkInv'
<1>1. Ready' = Ready \union {c}
  BY ReadyGrows
<1>2. /\ \A i \in ID : Parents(i)' = Parents(i) /\ Ancestors(i)' = Ancestors(i)
      /\ IsReduced' = IsReduced
  BY GraphConstant
<1>3. pending \subseteq ID \X ID \X ID /\ submitted \subseteq ID
  BY DEF IndInv, TypeOK
<1>4. \A n \in DOMAIN frames :
        /\ frames[n].key \in Ready'
        /\ \A m \in DOMAIN frames : m < n => frames[m].key \in Ancestors(frames[n].key)
        /\ \A d \in frames[n].dependents : frames[n].key \in Parents(d.child)
  <2> TAKE n \in DOMAIN frames
  <2>1. n \in DOMAIN stack
    OBVIOUS
  <2> QED BY <1>1, <2>1 DEF WalkInv, CallsAreNested
<1>5. TypeOK /\ RowsComplete /\ RowsWait
  BY DEF IndInv, WalkInv
<1>6. /\ \A n \in DOMAIN stack' :
            /\ stack'[n].key \in Ready'
            /\ \A m \in DOMAIN stack' : m < n => stack'[m].key \in Ancestors(stack'[n].key)
            /\ \A d \in stack'[n].dependents : stack'[n].key \in Parents(d.child)
      /\ \A n \in DOMAIN frames : n \in DOMAIN stack' /\ stack'[n] = frames[n]
      /\ \A row \in pending : row[1] = c => \E n \in DOMAIN stack' : stack'[n].key = c
  <2> DEFINE R == Ready'
             s == stack'
  <2>1. c \in R /\ s = Call(frames, c)
    BY <1>1
  <2>2. \A n \in DOMAIN frames : frames[n].key \in Ancestors(c)
    OBVIOUS
  <2>3. \A n \in DOMAIN frames :
           /\ frames[n].key \in R
           /\ \A m \in DOMAIN frames : m < n => frames[m].key \in Ancestors(frames[n].key)
           /\ \A d \in frames[n].dependents : frames[n].key \in Parents(d.child)
    BY <1>4
  <2> HIDE DEF R, s
  <2>4. /\ \A n \in DOMAIN s :
            /\ s[n].key \in R
            /\ \A m \in DOMAIN s : m < n => s[m].key \in Ancestors(s[n].key)
            /\ \A d \in s[n].dependents : s[n].key \in Parents(d.child)
        /\ \A n \in DOMAIN frames : n \in DOMAIN s /\ s[n] = frames[n]
        /\ \A row \in pending : row[1] = c => \E n \in DOMAIN s : s[n].key = c
    BY <1>5, <2>1, <2>2, <2>3, CallIsNested
  <2> QED BY <2>4 DEF R, s
<1>7. RowsWait'
  BY <1>1, <1>2, <1>3 DEF WalkInv, RowsWait
<1>8. RowsAreVisited'
  <2> SUFFICES ASSUME NEW row \in pending, row[1] \in Ready'
               PROVE  \E n \in DOMAIN stack' : stack'[n].key = row[1]
    BY DEF RowsAreVisited
  <2>1. CASE row[1] = c
    BY <1>6, <2>1
  <2>2. CASE row[1] \in Ready
    <3>1. PICK n \in DOMAIN stack : stack[n].key = row[1]
      BY <2>2 DEF WalkInv, RowsAreVisited
    <3> QED BY <1>6, <3>1
  <2> QED BY <1>1, <2>1, <2>2
<1>9. CallsAreNested'
  <2>1. ASSUME NEW n \in DOMAIN stack'
        PROVE  /\ stack'[n].key \in Ready'
               /\ \A m \in DOMAIN stack' : m < n => (stack[m].key \in Ancestors(stack[n].key))'
               /\ \A d \in stack'[n].dependents : stack'[n].key \in Parents(d.child)'
    <3>1. stack'[n].key \in ID
      BY <1>6 DEF Ready
    <3>2. \A i : Parents(i)' = Parents(i)
      BY DEF Parents
    <3>3. Ancestors(stack[n].key)' = Ancestors(stack'[n].key)
      BY <3>2 DEF Ancestors
    <3> QED BY Zenon, <1>6, <3>2, <3>3
  <2> QED BY <2>1 DEF CallsAreNested
<1>10. ASSUME IsReduced PROVE CompleteIsVisited'
  <2> SUFFICES ASSUME NEW i \in submitted \ Ready, i # c, Parents(i) \subseteq Ready \union {c}
               PROVE  \E n \in DOMAIN stack' : \E d \in stack'[n].dependents :
                         d.child = i /\ d.length = Cardinality(Parents(i))
    BY <1>1, <1>2, <1>3 DEF CompleteIsVisited
  <2>1. CASE Parents(i) \subseteq Ready
    <3>1. PICK n \in DOMAIN stack : \E d \in stack[n].dependents :
              d.child = i /\ d.length = Cardinality(Parents(i))
      BY <1>10, <2>1 DEF WalkInv, CompleteIsVisited
    <3>2. PICK d \in stack[n].dependents : d.child = i /\ d.length = Cardinality(Parents(i))
      BY <3>1
    <3>3. n \in DOMAIN stack' /\ d \in stack'[n].dependents
      BY <1>6, <3>2
    <3> QED BY <3>2, <3>3
  <2>2. CASE c \in Parents(i) \ Ready
    <3>1. ASSUME NEW row \in RowsOf(i) PROVE row[1] = c
      <4>1. row \in pending /\ row[2] = i /\ row[1] \in Parents(i)
        BY <1>5 DEF RowsOf, RowsWait
      <4>2. SUFFICES ASSUME row[1] \in Ready PROVE FALSE
        BY <4>1
      <4>3. PICK n \in DOMAIN stack : stack[n].key = row[1]
        BY <4>1, <4>2 DEF WalkInv, RowsAreVisited
      <4>4. row[1] \in Ancestors(c)
        BY <4>3
      <4> QED BY <1>3, <1>10, <2>2, <4>1, <4>4 DEF IsReduced
    <3> QED BY <1>5, <2>2, <3>1, ArrivalIsVisited
  <2> QED BY <2>1, <2>2
<1> QED BY <1>2, <1>7, <1>8, <1>9, <1>10 DEF WalkInv

LEMMA InitWalkInv == Init => WalkInv
BY DEF Init, WalkInv, RowsWait, RowsAreVisited, CallsAreNested, CompleteIsVisited

LEMMA ProcessWalkInv ==
  ASSUME IndInv, WalkInv, NEW i \in ID, Process(i)
  PROVE  WalkInv'
<1>1. UNCHANGED dependencies /\ submitted' = submitted \union {i} /\ stack = <<>>
  BY DEF Process
<1>2. CASE ReadyQuery(Parents(i), Len(dependencies[i]))
  <2>1. MarkReady(i) /\ stack' = Call(<<>>, i) /\ pending' = pending
    BY <1>1, <1>2 DEF Process
  <2>2. <<>> \in Seq(Frame) /\ DOMAIN <<>> = DOMAIN stack /\ DOMAIN stack = {}
    BY <1>1
  <2> QED BY <1>1, <2>1, <2>2, MarkedWalkInv, Zenon
<1>3. CASE ~ReadyQuery(Parents(i), Len(dependencies[i]))
  <2>1. /\ UNCHANGED <<readyIndex, inQueue, stack>>
        /\ pending' = pending \union ((Parents(i) \ Ready) \X {i} \X Parents(i))
    BY <1>3 DEF Process, MarkPending
  <2>2. Ready' = Ready
    BY <2>1 DEF Ready
  <2>3. /\ \A j \in ID : Parents(j)' = Parents(j) /\ Ancestors(j)' = Ancestors(j)
        /\ IsReduced' = IsReduced
    BY <1>1, GraphConstant
  <2>4. pending \subseteq ID \X ID \X ID /\ submitted \subseteq ID
    BY DEF IndInv, TypeOK
  <2>5. RowsWait'
    BY <1>1, <2>1, <2>2, <2>3, <2>4 DEF WalkInv, RowsWait
  <2>6. RowsAreVisited'
    BY <1>1, <2>1, <2>2, <2>4 DEF WalkInv, RowsAreVisited
  <2>7. CallsAreNested'
    BY <1>1, <2>1 DEF CallsAreNested
  <2>8. ASSUME IsReduced PROVE CompleteIsVisited'
    <3>1. ~(Parents(i) \subseteq Ready)
      <4>1. ASSUME Parents(i) \subseteq Ready PROVE FALSE
        <5>1. Parents(i) \intersect Ready = Parents(i)
          BY <4>1
        <5> QED BY <1>3, <2>8, <5>1, Zenon DEF ReadyQuery, IsReduced
      <4> QED BY <4>1
    <3>2. \A j \in submitted \ Ready : ~(Parents(j) \subseteq Ready)
      BY <1>1, <2>8 DEF WalkInv, CompleteIsVisited
    <3> QED BY <1>1, <2>2, <2>3, <2>4, <3>1, <3>2 DEF CompleteIsVisited
  <2> QED BY <2>3, <2>5, <2>6, <2>7, <2>8 DEF WalkInv
<1> QED BY <1>2, <1>3

\* One iteration of the walk: an item which is complete is not skipped, since
\* its list counts every dependency once.
LEMMA VisitWalkInv ==
  ASSUME IndInv, WalkInv, stack # <<>>, NEW e \in stack[Len(stack)].dependents, VisitDependent(e)
  PROVE  WalkInv'
<1> DEFINE n == Len(stack)
           rest == [stack EXCEPT ![n].dependents = @ \ {e}]
<1>1. UNCHANGED <<dependencies, pending, submitted, taken>>
  BY DEF VisitDependent
<1>2. stack \in Seq(Frame) /\ n \in DOMAIN stack /\ n \in Nat /\ DOMAIN stack = 1 .. n
  BY DEF IndInv, TypeOK, Frame
<1>3. stack[n] \in Frame
  BY <1>2
<1>4. e \in Dependent /\ ListComplete(e)
  BY <1>2, <1>3 DEF Frame, IndInv, ListsComplete
<1>5. e.child \in ID /\ e.parents = Parents(e.child) /\ e.child \in submitted /\ e.length \in Nat
  BY <1>4 DEF Dependent, ListComplete
<1>6. rest = [k \in DOMAIN stack |->
                IF k = n THEN [stack[n] EXCEPT !.dependents = @ \ {e}] ELSE stack[k]]
  BY Zenon, <1>2
<1>7. rest \in Seq(Frame) /\ DOMAIN rest = DOMAIN stack
  <2>1. [stack[n] EXCEPT !.dependents = @ \ {e}] \in Frame
    BY <1>3 DEF Frame
  <2> QED BY <1>2, <1>6, <2>1
<1>8. \A k \in DOMAIN stack :
        /\ rest[k].key = stack[k].key
        /\ rest[k].dependents = IF k = n THEN stack[k].dependents \ {e} ELSE stack[k].dependents
  BY <1>3, <1>6, Zenon DEF Frame
<1> HIDE DEF rest
<1>9. CASE ReadyQuery(e.parents, e.length)
  <2>1. MarkReady(e.child) /\ stack' = Call(rest, e.child)
    BY <1>9 DEF VisitDependent, rest
  <2>2. ASSUME NEW k \in DOMAIN stack PROVE rest[k].key \in Ancestors(e.child)
    <3>1. stack[n].key \in Parents(e.child)
      BY <1>2 DEF WalkInv, CallsAreNested
    <3>2. stack[n].key \in Ancestors(e.child) /\ Ancestors(stack[n].key) \subseteq Ancestors(e.child)
      BY <1>5, <3>1, AncestorsClosed DEF IndInv
    <3>3. k = n \/ stack[k].key \in Ancestors(stack[n].key)
      BY <1>2 DEF WalkInv, CallsAreNested
    <3> QED BY <1>8, <3>2, <3>3, Zenon
  <2>3. submitted' = submitted \union {e.child}
    BY <1>1, <1>5
  <2>4. ASSUME NEW k \in DOMAIN stack
        PROVE  /\ rest[k].key = stack[k].key
               /\ rest[k].dependents \subseteq stack[k].dependents
               /\ \A d \in stack[k].dependents : d.child = e.child \/ d \in rest[k].dependents
               /\ rest[k].key \in Ancestors(e.child)
    BY <1>8, <2>2, Zenon
  <2> QED BY <1>1, <1>5, <1>7, <2>1, <2>3, <2>4, MarkedWalkInv
<1>10. CASE ~ReadyQuery(e.parents, e.length)
  <2>1. stack' = rest /\ UNCHANGED <<readyIndex, inQueue>>
    BY <1>10 DEF VisitDependent, rest
  <2>2. Ready' = Ready
    BY <2>1 DEF Ready
  <2>3. /\ \A j \in ID : Parents(j)' = Parents(j) /\ Ancestors(j)' = Ancestors(j)
        /\ IsReduced' = IsReduced
    BY <1>1, GraphConstant
  <2>4. pending \subseteq ID \X ID \X ID /\ submitted \subseteq ID
    BY DEF IndInv, TypeOK
  <2>5. RowsWait'
    BY <1>1, <2>2, <2>3, <2>4 DEF WalkInv, RowsWait
  <2>6. RowsAreVisited'
    <3>1. \A row \in pending : row[1] \in Ready => \E k \in DOMAIN stack : stack[k].key = row[1]
      BY Zenon DEF WalkInv, RowsAreVisited
    <3>2. DOMAIN stack' = DOMAIN stack /\ \A k \in DOMAIN stack : stack'[k].key = stack[k].key
      BY <1>7, <1>8, <2>1, Zenon
    <3>3. pending' = pending
      BY <1>1
    <3> QED BY <2>2, <3>1, <3>2, <3>3, Zenon DEF RowsAreVisited
  <2>7. CallsAreNested'
    <3>1. \A i : Parents(i)' = Parents(i)
      BY <1>1 DEF Parents
    <3>2. \A k \in DOMAIN stack :
             /\ stack[k].key \in Ready
             /\ \A m \in DOMAIN stack : m < k => stack[m].key \in Ancestors(stack[k].key)
             /\ \A d \in stack[k].dependents : stack[k].key \in Parents(d.child)
      BY DEF WalkInv, CallsAreNested
    <3>3. \A i : Ancestors(i)' = Ancestors(i)
      BY <3>1 DEF Ancestors
    <3>4. ASSUME NEW k \in DOMAIN stack'
          PROVE  /\ stack'[k].key \in Ready'
                 /\ \A m \in DOMAIN stack' : m < k => (stack[m].key \in Ancestors(stack[k].key))'
                 /\ \A d \in stack'[k].dependents : stack'[k].key \in Parents(d.child)'
      <4>1. k \in DOMAIN stack /\ stack'[k].key = stack[k].key /\ DOMAIN stack' = DOMAIN stack
        BY <1>7, <1>8, <2>1, Zenon
      <4>2. stack'[k].dependents \subseteq stack[k].dependents
        BY <1>8, <2>1, <4>1, Zenon
      <4>3. Ancestors(stack[k].key)' = Ancestors(stack[k].key)
        BY <3>1, <4>1 DEF Ancestors
      <4>4. \A m \in DOMAIN stack' : stack'[m].key = stack[m].key
        BY <1>8, <2>1, <4>1, Zenon
      <4> QED BY Zenon, <2>2, <3>1, <3>2, <4>1, <4>2, <4>3, <4>4
    <3> QED BY <3>4 DEF CallsAreNested
  <2>8. ASSUME IsReduced PROVE CompleteIsVisited'
    <3> SUFFICES ASSUME NEW i \in submitted \ Ready, Parents(i) \subseteq Ready
                 PROVE  \E k \in DOMAIN stack' : \E d \in stack'[k].dependents :
                           d.child = i /\ d.length = Cardinality(Parents(i))
      BY <1>1, <2>2, <2>3, <2>4 DEF CompleteIsVisited
    <3>1. PICK k \in DOMAIN stack : \E d \in stack[k].dependents :
              d.child = i /\ d.length = Cardinality(Parents(i))
      BY <2>8 DEF WalkInv, CompleteIsVisited
    <3>2. PICK d \in stack[k].dependents : d.child = i /\ d.length = Cardinality(Parents(i))
      BY <3>1
    <3>3. d # e
      <4>1. Parents(i) \intersect Ready = Parents(i)
        OBVIOUS
      <4> QED BY <1>5, <1>10, <3>2, <4>1, Zenon DEF ReadyQuery
    <3>4. k \in DOMAIN stack' /\ d \in stack'[k].dependents
      BY <1>7, <1>8, <2>1, <3>2, <3>3, Zenon
    <3> QED BY <3>2, <3>4
  <2> QED BY <2>3, <2>5, <2>6, <2>7, <2>8 DEF WalkInv
<1> QED BY <1>9, <1>10

\* A call which returns has visited everything and deletes its rows.
LEMMA ReturnWalkInv ==
  ASSUME IndInv, WalkInv, Return
  PROVE  WalkInv'
<1> DEFINE n == Len(stack)
<1>1. /\ UNCHANGED <<dependencies, readyIndex, inQueue, submitted, taken>>
      /\ pending' = {row \in pending : row[1] # stack[n].key}
      /\ stack' = SubSeq(stack, 1, n - 1)
      /\ stack # <<>> /\ stack[n].dependents = {}
  BY DEF Return, RemovePending
<1>2. stack \in Seq(Frame) /\ n \in Nat /\ n \in DOMAIN stack /\ DOMAIN stack = 1 .. n
  BY <1>1 DEF IndInv, TypeOK, Frame
<1>3. DOMAIN stack' = 1 .. (n - 1) /\ \A k \in 1 .. (n - 1) : stack'[k] = stack[k]
  BY <1>1, <1>2
<1>4. Ready' = Ready
  BY <1>1 DEF Ready
<1>5. \A i : Parents(i)' = Parents(i)
  BY <1>1 DEF Parents
<1>6. IsReduced' = IsReduced
  BY <1>1, GraphConstant
<1>7. stack[n].key \in Ready
  BY <1>2 DEF WalkInv, CallsAreNested
<1>8. RowsWait'
  BY <1>1, <1>4, <1>5, <1>7 DEF WalkInv, RowsWait
<1>9. RowsAreVisited'
  <2> SUFFICES ASSUME NEW row \in pending, row[1] # stack[n].key, row[1] \in Ready
               PROVE  \E k \in DOMAIN stack' : stack'[k].key = row[1]
    BY <1>1, <1>4 DEF RowsAreVisited
  <2>1. PICK k \in DOMAIN stack : stack[k].key = row[1]
    BY DEF WalkInv, RowsAreVisited
  <2>2. k \in 1 .. (n - 1)
    BY <1>2, <2>1
  <2> QED BY <1>3, <2>1, <2>2
<1>10. CallsAreNested'
  <2>1. \A k \in DOMAIN stack :
           /\ stack[k].key \in Ready
           /\ \A m \in DOMAIN stack : m < k => stack[m].key \in Ancestors(stack[k].key)
           /\ \A d \in stack[k].dependents : stack[k].key \in Parents(d.child)
    BY DEF WalkInv, CallsAreNested
  <2>2. ASSUME NEW k \in DOMAIN stack'
        PROVE  /\ stack'[k].key \in Ready'
               /\ \A m \in DOMAIN stack' : m < k => (stack[m].key \in Ancestors(stack[k].key))'
               /\ \A d \in stack'[k].dependents : stack'[k].key \in Parents(d.child)'
    <3>1. \A m \in DOMAIN stack' : m \in DOMAIN stack /\ stack'[m] = stack[m]
      BY <1>2, <1>3
    <3>2. Ancestors(stack[k].key)' = Ancestors(stack[k].key)
      BY <1>5, <3>1 DEF Ancestors
    <3> QED BY Zenon, <1>4, <1>5, <2>1, <3>1, <3>2
  <2> QED BY <2>2 DEF CallsAreNested
<1>11. ASSUME IsReduced PROVE CompleteIsVisited'
  <2> SUFFICES ASSUME NEW i \in submitted \ Ready, Parents(i) \subseteq Ready
               PROVE  \E k \in DOMAIN stack' : \E d \in stack'[k].dependents :
                         d.child = i /\ d.length = Cardinality(Parents(i))
    BY <1>1, <1>4, <1>5 DEF CompleteIsVisited
  <2>1. PICK k \in DOMAIN stack : \E d \in stack[k].dependents :
            d.child = i /\ d.length = Cardinality(Parents(i))
    BY <1>11 DEF WalkInv, CompleteIsVisited
  <2>2. k \in 1 .. (n - 1)
    BY <1>1, <1>2, <2>1
  <2> QED BY <1>3, <2>1, <2>2
<1> QED BY <1>6, <1>8, <1>9, <1>10, <1>11 DEF WalkInv

LEMMA NextWalkInv == IndInv /\ WalkInv /\ [Next]_vars => WalkInv'
<1> SUFFICES ASSUME IndInv, WalkInv, [Next]_vars
             PROVE  WalkInv'
  OBVIOUS
<1>1. CASE \E i \in ID : Process(i)
  BY <1>1, ProcessWalkInv
<1>2. CASE Visit
  BY <1>2, VisitWalkInv DEF Visit
<1>3. CASE Return
  BY <1>3, ReturnWalkInv
<1>4. CASE UNCHANGED <<dependencies, readyIndex, pending, stack, submitted>>
  <2>1. \A i : Parents(i)' = Parents(i)
    BY <1>4 DEF Parents
  <2>2. Ready' = Ready
    BY <1>4 DEF Ready
  <2>3. \A i : Ancestors(i)' = Ancestors(i)
    BY <2>1 DEF Ancestors
  <2>4. IsReduced' = IsReduced
    BY <1>4, GraphConstant
  <2>5. RowsWait' /\ RowsAreVisited'
    BY Zenon, <1>4, <2>1, <2>2 DEF WalkInv, RowsWait, RowsAreVisited
  <2>6. ASSUME CompleteIsVisited PROVE CompleteIsVisited'
    BY Zenon, <1>4, <2>1, <2>2, <2>6 DEF CompleteIsVisited
  <2>7. CallsAreNested'
    BY Zenon, <1>4, <2>1, <2>2, <2>3 DEF WalkInv, CallsAreNested
  <2> QED BY <2>4, <2>5, <2>6, <2>7 DEF WalkInv
<1> QED BY <1>1, <1>2, <1>3, <1>4 DEF Next, TakeNextReady, vars

LEMMA WalkInvAlways == Spec => []WalkInv
BY InitIndInv, IndInvAlways, InitWalkInv, NextWalkInv, PTL DEF Spec

-----------------------------------------------------------------------------
(* The results.                                                            *)

\* The tables and the stack of the walk are well-typed: in particular the
\* list of every dependent which process_pending still has to visit.
THEOREM TypeCorrect == Spec => []TypeOK
<1>1. IndInv => TypeOK
  BY DEF IndInv
<1> QED BY <1>1, IndInvAlways, PTL

\* No item is in the ready table before everything it depends on is: mark_ready
\* is only called after a count of the dependencies, which can not be fooled by
\* duplicated list entries or by lists read earlier in the walk.
THEOREM ReadyImpliesDependenciesMet == Spec => []DependenciesMet
<1>1. IndInv => DependenciesMet
  BY DEF IndInv
<1> QED BY <1>1, IndInvAlways, PTL

\* take_next_ready never hands out an item before its dependencies, whatever
\* is submitted again while items wait in the queue.
THEOREM TakenRespectsOrder == Spec => []TakenInOrder
<1>1. IndInv => TakenInOrder
  BY DEF IndInv
<1> QED BY <1>1, IndInvAlways, PTL

\* remove_pending is called for every item which became ready during a walk:
\* between calls the pending table holds no row which nobody will look at again.
THEOREM NoRowIsLeftBehind == Spec => []NoStaleRows
<1>1. WalkInv => NoStaleRows
  BY DEF WalkInv, RowsAreVisited, NoStaleRows
<1> QED BY <1>1, WalkInvAlways, PTL

\* In a transitively reduced graph process_pending moves every item which an
\* arrival completes, however the walk interleaves with its own deletions.
THEOREM ReducedGraphsAreNotSwallowed == Spec => []NothingSwallowedIfReduced
<1>1. WalkInv => NothingSwallowedIfReduced
  BY DEF WalkInv, CompleteIsVisited, NothingSwallowedIfReduced, NothingSwallowed
<1> QED BY <1>1, WalkInvAlways, PTL

\* The orderer implements the partial order which its consumer relies on.
THEOREM ImplementsPartialOrder == Spec => OrdersPartially
<1>1. Init => Abstract!Init
  <2> SUFFICES ASSUME Init PROVE [i \in ID |-> Parents(i)] \in [ID -> SUBSET ID]
    BY DEF Init, Abstract!Init
  <2>1. dependencies \in [ID -> Seq(ID)]
    BY InitIndInv DEF IndInv, TypeOK
  <2>2. \A i \in ID : Parents(i) \subseteq ID
    BY <2>1 DEF Parents, Range
  <2> QED BY <2>2
<1>2. IndInv /\ [Next]_vars => [Abstract!Next]_(Abstract!vars)
  <2> SUFFICES ASSUME IndInv, [Next]_vars
               PROVE  [Abstract!Next]_(Abstract!vars)
    OBVIOUS
  <2> USE DEF Abstract!vars, Abstract!Next, Abstract!Arrive, Abstract!Deliver
  <2>1. UNCHANGED dependencies => UNCHANGED [i \in ID |-> Parents(i)]
    BY DEF Parents
  <2>2. ASSUME NEW i \in ID, Process(i) PROVE Abstract!Arrive(i)
    BY <2>1, <2>2 DEF Process
  <2>3. CASE Visit
    BY <2>1, <2>3 DEF Visit, VisitDependent
  <2>4. CASE Return
    BY <2>1, <2>4 DEF Return
  <2>5. ASSUME NEW i \in ID, TakeNextReady(i) PROVE Abstract!Deliver(i)
    <3>1. i \in submitted
      BY <2>5 DEF IndInv, QueueConsistent, TakeNextReady
    <3> QED BY <2>1, <2>5, <3>1, TakeParents DEF TakeNextReady
  <2>6. CASE UNCHANGED vars
    BY <2>1, <2>6 DEF vars
  <2> QED BY <2>2, <2>3, <2>4, <2>5, <2>6 DEF Next
<1> QED BY <1>1, <1>2, IndInvAlways, PTL DEF Spec, OrdersPartially, Abstract!Spec

=============================================================================
