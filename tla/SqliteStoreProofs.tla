------------------------- MODULE SqliteStoreProofs --------------------------
(***************************************************************************)
(* Proofs about SqliteStore, for every number of processes, transactions   *)
(* and writes.                                                             *)
(*                                                                         *)
(* The slot and the permit are separate: the inductive invariant says who  *)
(* accounts for an occupied slot at every moment, the holder of the permit *)
(* or the background task of a dropped one, and that a transaction which   *)
(* is not decided yet has left nothing in the database.                    *)
(***************************************************************************)
EXTENDS SqliteStore, TLAPS

Active == {"opening", "open", "committing", "rolling back"}

\* Who owns the permit and who accounts for the slot.
PermitInv ==
    /\ \A p \in Process : pc[p] \in Active => permit = p /\ cleanup = "none"
    /\ cleanup # "none" => permit # NoProcess
    /\ \A p \in Process : pc[p] = "open" => occupied
    /\ \A p \in Process : pc[p] \in Active \ {"open"} => ~occupied
    /\ permit = NoProcess => ~occupied
    /\ cleanup = "rolling back" => ~occupied
    /\ permit \in Process /\ cleanup = "none" => pc[permit] \in Active
    /\ \A p \in Process : pc[p] # "panicked"

\* Undecided transactions are invisible.
DataInv ==
    /\ \A p \in Process : pc[p] = "open" => slot \subseteq Batch(p, round[p])
    /\ \A p \in Process : pc[p] = "committing" => moved = Batch(p, round[p])
    /\ \A p \in Process : pc[p] # "idle" => Batch(p, round[p]) \intersect db = {} /\ round[p] # 0
    /\ \A p \in Process : \A r \in 1..MaxRound : r > round[p] => Batch(p, r) \intersect db = {}
    /\ \A p \in Process : \A r \in 1..MaxRound : r > round[p] => outcome[p][r] = "open"
    /\ \A p \in Process : pc[p] # "idle" => outcome[p][round[p]] = "open"
    /\ outcome \in [Process -> [1..MaxRound -> {"open", "committed", "rolled back", "unknown"}]]

IndInv == TypeOK /\ PermitInv /\ DataInv /\ AllOrNothing

LEMMA InitIndInv == Init => IndInv
<1> SUFFICES ASSUME Init PROVE IndInv
  OBVIOUS
<1>1. TypeOK
  <2>1. waiters \in Seq(Process)
    BY DEF Init
  <2>2. round \in [Process -> 0..MaxRound]
    BY BoundsAssumption DEF Init
  <2> QED BY Zenon, <2>1, <2>2 DEF Init, TypeOK, Labels
<1>2. PermitInv
  BY ProcessAssumption DEF Init, PermitInv, Active
<1>3. DataInv
  BY BoundsAssumption DEF Init, DataInv, Batch
<1>4. AllOrNothing
  BY DEF Init, AllOrNothing
<1> QED BY <1>1, <1>2, <1>3, <1>4 DEF IndInv

\* Batches of different transactions have nothing in common.
LEMMA BatchesDisjoint ==
  ASSUME NEW p, NEW q, NEW r, NEW s, <<p, r>> # <<q, s>>
  PROVE  Batch(p, r) \intersect Batch(q, s) = {}
BY DEF Batch

LEMMA BatchType ==
  ASSUME NEW p \in Process, NEW r \in 1..MaxRound
  PROVE  Batch(p, r) \subseteq Write3
BY DEF Batch, Write3

\* The actions, as needed by every part of the invariant.
LEMMA NextCases ==
  ASSUME Next
  PROVE  \/ \E p \in Process :
              \/ Begin(p) \/ Acquire(p) \/ Open(p) \/ OpenFails(p) \/ Write(p)
              \/ Commit(p) \/ Rollback(p) \/ DropPermit(p)
              \/ CommitDone(p) \/ RollbackDone(p) \/ CancelCommit(p)
         \/ CleanupTakes
         \/ CleanupDone
BY DEF Next, Continue, Finish

LEMMA TypeInv ==
  ASSUME IndInv, Next
  PROVE  TypeOK'
<1> TypeOK
  BY DEF IndInv
<1>0. /\ waiters \in Seq(Process) /\ round \in [Process -> 0..MaxRound]
      /\ \A p \in Process : pc[p] # "idle" => round[p] # 0
  BY DEF TypeOK, IndInv, DataInv
<1>1. ASSUME NEW p \in Process, Begin(p) PROVE TypeOK'
  <2>1. waiters' \in Seq(Process)
    BY <1>0, <1>1 DEF Begin
  <2>2. round' \in [Process -> 0..MaxRound]
    <3>1. round' = [round EXCEPT ![p] = round[p] + 1] /\ round[p] < MaxRound
      BY <1>1 DEF Begin
    <3>2. round[p] + 1 \in 0..MaxRound
      BY <1>0, <3>1, BoundsAssumption
    <3> QED BY <1>0, <3>1, <3>2
  <2> QED BY <1>1, <2>1, <2>2 DEF Begin, TypeOK, Labels, Goto, holder
<1>2. ASSUME NEW p \in Process, Acquire(p) PROVE TypeOK'
  <2>1. waiters' \in Seq(Process)
    BY <1>0, <1>2 DEF Acquire
  <2> QED BY <1>2, <2>1 DEF Acquire, TypeOK, Labels, Goto, holder
<1>3. ASSUME NEW p \in Process, Open(p) \/ OpenFails(p) PROVE TypeOK'
  BY <1>3 DEF Open, OpenFails, TypeOK, Labels, Goto, holder
<1>4. ASSUME NEW p \in Process, Write(p) PROVE TypeOK'
  <2>1. round[p] # 0 /\ round[p] \in 0..MaxRound
    BY <1>0, <1>4 DEF Write
  <2>2. round[p] \in 1..MaxRound
    BY <2>1, BoundsAssumption
  <2> QED BY <1>4, <2>2, BatchType DEF Write, TypeOK, Labels, Goto, holder
<1>5. ASSUME NEW p \in Process, Commit(p) \/ Rollback(p) PROVE TypeOK'
  BY <1>5 DEF Commit, Rollback, Take, TypeOK, Labels, Goto, holder
<1>6. ASSUME NEW p \in Process, DropPermit(p) PROVE TypeOK'
  BY <1>6 DEF DropPermit, OnDrop, TypeOK, Labels, Goto, holder
<1>7. ASSUME NEW p \in Process, CommitDone(p) \/ RollbackDone(p) PROVE TypeOK'
  BY <1>7 DEF CommitDone, RollbackDone, TypeOK, Labels, Goto, holder
<1>8. ASSUME NEW p \in Process, CancelCommit(p) PROVE TypeOK'
  BY <1>8 DEF CancelCommit, OnDrop, TypeOK, Labels, Goto, holder
<1>9. CASE CleanupTakes \/ CleanupDone
  BY <1>9 DEF CleanupTakes, CleanupDone, Release, TypeOK, Labels, Goto, holder
<1> QED BY <1>1, <1>2, <1>3, <1>4, <1>5, <1>6, <1>7, <1>8, <1>9, NextCases

LEMMA PermitStep ==
  ASSUME IndInv, Next
  PROVE  PermitInv'
<1> USE ProcessAssumption DEF IndInv, TypeOK, PermitInv, Active, Goto, holder
<1>1. ASSUME NEW p \in Process, Begin(p) PROVE PermitInv'
  BY <1>1 DEF Begin
<1>2. ASSUME NEW p \in Process, Acquire(p) PROVE PermitInv'
  BY <1>2 DEF Acquire
<1>3. ASSUME NEW p \in Process, Open(p) PROVE PermitInv'
  BY <1>3 DEF Open
<1>4. ASSUME NEW p \in Process, OpenFails(p) PROVE PermitInv'
  BY <1>4 DEF OpenFails
<1>5. ASSUME NEW p \in Process, Write(p) PROVE PermitInv'
  BY <1>5 DEF Write
<1>6. ASSUME NEW p \in Process, Commit(p) PROVE PermitInv'
  BY <1>6 DEF Commit, Take
<1>7. ASSUME NEW p \in Process, Rollback(p) PROVE PermitInv'
  BY <1>7 DEF Rollback, Take
<1>8. ASSUME NEW p \in Process, DropPermit(p) PROVE PermitInv'
  BY <1>8 DEF DropPermit, OnDrop
<1>9. ASSUME NEW p \in Process, CommitDone(p) PROVE PermitInv'
  BY <1>9 DEF CommitDone
<1>10. ASSUME NEW p \in Process, RollbackDone(p) PROVE PermitInv'
  BY <1>10 DEF RollbackDone
<1>11. ASSUME NEW p \in Process, CancelCommit(p) PROVE PermitInv'
  BY <1>11 DEF CancelCommit, OnDrop
<1>12. CASE CleanupTakes
  BY <1>12 DEF CleanupTakes
<1>13. CASE CleanupDone
  BY <1>13 DEF CleanupDone, Release
<1> QED BY <1>1, <1>2, <1>3, <1>4, <1>5, <1>6, <1>7, <1>8, <1>9, <1>10, <1>11, <1>12, <1>13,
           NextCases
\* A step which leaves the database and the decisions alone, and moves at most
\* one process inside of its transaction.
LEMMA QuietData ==
  ASSUME IndInv, UNCHANGED <<db, outcome, round>>, NEW p \in Process,
         \A q \in Process \ {p} : pc'[q] = pc[q],
         pc[p] # "idle",
         \A q \in Process : pc'[q] = "open" => slot' \subseteq Batch(q, round[q]),
         \A q \in Process : pc'[q] = "committing" => moved' = Batch(q, round[q])
  PROVE  DataInv' /\ AllOrNothing'
<1>1. \A q \in Process : pc'[q] # "idle" => pc[q] # "idle"
  OBVIOUS
<1> QED BY <1>1 DEF IndInv, DataInv, AllOrNothing

LEMMA RoundType ==
  ASSUME IndInv, NEW q \in Process, pc[q] # "idle"
  PROVE  round[q] \in 1..MaxRound
<1>1. round[q] # 0
  BY DEF IndInv, DataInv
<1>2. round[q] \in 0..MaxRound
  BY DEF IndInv, TypeOK
<1> QED BY <1>1, <1>2, BoundsAssumption

LEMMA NotAbove == \A r \in 1..MaxRound : ~(r > r)
BY BoundsAssumption

\* A step which ends the transaction of p, with or without writing it.
LEMMA DecidedData ==
  ASSUME IndInv, NEW p \in Process, pc[p] # "idle", NEW result,
         outcome' = [outcome EXCEPT ![p][round[p]] = result],
         result \in {"committed", "rolled back", "unknown"},
         round' = round, slot' = slot, moved' = moved,
         pc' = [pc EXCEPT ![p] = "idle"],
         \/ db' = db \union Batch(p, round[p]) /\ result # "rolled back"
         \/ db' = db /\ result # "committed"
  PROVE  DataInv' /\ AllOrNothing'
<1> DEFINE Outcomes == {"open", "committed", "rolled back", "unknown"}
<1>1. round[p] \in 1..MaxRound
  BY RoundType
<1>2. outcome \in [Process -> [1..MaxRound -> Outcomes]]
  BY DEF IndInv, DataInv
<1>3. \A q \in Process, r \in 1..MaxRound :
        outcome'[q][r] = IF q = p /\ r = round[p] THEN result ELSE outcome[q][r]
  BY <1>1, <1>2
<1>4. outcome' \in [Process -> [1..MaxRound -> Outcomes]]
  BY <1>1, <1>2
<1>5. \A q \in Process : pc'[q] # "idle" => q # p /\ pc[q] # "idle" /\ pc'[q] = pc[q]
  BY DEF IndInv, TypeOK
<1>6. ASSUME NEW q \in Process, NEW r \in 1..MaxRound, ~(q = p /\ r = round[p])
      PROVE  /\ Batch(q, r) \intersect db' = Batch(q, r) \intersect db
             /\ Batch(q, r) \subseteq db => Batch(q, r) \subseteq db'
             /\ outcome'[q][r] = outcome[q][r]
  <2>1. Batch(q, r) \intersect Batch(p, round[p]) = {}
    BY <1>6, BatchesDisjoint
  <2>2. outcome'[q][r] = outcome[q][r]
    BY <1>3, <1>6
  <2> QED BY <2>1, <2>2
<1>7. ASSUME NEW q \in Process, pc'[q] # "idle"
      PROVE  /\ round[q] # 0
             /\ Batch(q, round[q]) \intersect db' = {}
             /\ outcome'[q][round[q]] = "open"
             /\ pc'[q] = "open" => slot \subseteq Batch(q, round[q])
             /\ pc'[q] = "committing" => moved = Batch(q, round[q])
  <2>1. q # p /\ pc[q] # "idle" /\ pc'[q] = pc[q]
    BY <1>5, <1>7
  <2>2. round[q] \in 1..MaxRound
    BY <2>1, RoundType
  <2>3. /\ Batch(q, round[q]) \intersect db' = Batch(q, round[q]) \intersect db
        /\ outcome'[q][round[q]] = outcome[q][round[q]]
    BY <1>6, <2>1, <2>2
  <2> QED BY <2>1, <2>3 DEF IndInv, DataInv
<1>8. ASSUME NEW q \in Process, NEW r \in 1..MaxRound, r > round[q]
      PROVE  Batch(q, r) \intersect db' = {} /\ outcome'[q][r] = "open"
  <2>1. ~(q = p /\ r = round[p])
    BY <1>8, NotAbove, Zenon
  <2>2. /\ Batch(q, r) \intersect db' = Batch(q, r) \intersect db
        /\ outcome'[q][r] = outcome[q][r]
    BY <1>6, <2>1
  <2>3. Batch(q, r) \intersect db = {} /\ outcome[q][r] = "open"
    BY <1>8 DEF IndInv, DataInv
  <2> QED BY <2>2, <2>3
<1>9. ASSUME NEW q \in Process, NEW r \in 1..MaxRound
      PROVE  /\ Batch(q, r) \subseteq db' \/ Batch(q, r) \intersect db' = {}
             /\ outcome'[q][r] = "committed" => Batch(q, r) \subseteq db'
             /\ outcome'[q][r] = "rolled back" => Batch(q, r) \intersect db' = {}
  <2>1. CASE q = p /\ r = round[p]
    <3>1. outcome'[q][r] = result
      BY <1>3, <2>1
    <3>2. Batch(q, r) \intersect db = {}
      BY <2>1 DEF IndInv, DataInv
    <3> QED BY <2>1, <3>1, <3>2
  <2>2. CASE ~(q = p /\ r = round[p])
    <3>1. /\ Batch(q, r) \subseteq db \/ Batch(q, r) \intersect db = {}
          /\ outcome[q][r] = "committed" => Batch(q, r) \subseteq db
          /\ outcome[q][r] = "rolled back" => Batch(q, r) \intersect db = {}
      BY DEF IndInv, AllOrNothing
    <3>2. /\ Batch(q, r) \intersect db' = Batch(q, r) \intersect db
          /\ Batch(q, r) \subseteq db => Batch(q, r) \subseteq db'
          /\ outcome'[q][r] = outcome[q][r]
      BY <1>6, <2>2
    <3> QED BY <3>1, <3>2
  <2> QED BY <2>1, <2>2
<1>10. AllOrNothing'
  BY <1>9 DEF AllOrNothing
<1>11. DataInv'
  <2>1. \A q \in Process : pc'[q] = "open" => slot' \subseteq Batch(q, round'[q])
    BY <1>7
  <2>2. \A q \in Process : pc'[q] = "committing" => moved' = Batch(q, round'[q])
    BY <1>7
  <2>3. \A q \in Process : pc'[q] # "idle" =>
          Batch(q, round'[q]) \intersect db' = {} /\ round'[q] # 0
    BY <1>7
  <2>4. \A q \in Process : \A r \in 1..MaxRound :
          r > round'[q] => Batch(q, r) \intersect db' = {} /\ outcome'[q][r] = "open"
    BY <1>8
  <2>5. \A q \in Process : pc'[q] # "idle" => outcome'[q][round'[q]] = "open"
    BY <1>7
  <2> QED BY <1>4, <2>1, <2>2, <2>3, <2>4, <2>5 DEF DataInv
<1> QED BY <1>10, <1>11
\* Begin: the next transaction of p is undecided and has written nothing.
LEMMA BeginData ==
  ASSUME IndInv, NEW p \in Process, Begin(p)
  PROVE  DataInv' /\ AllOrNothing'
<1>1. /\ pc[p] = "idle" /\ round[p] < MaxRound /\ round[p] \in 0..MaxRound
      /\ round' = [round EXCEPT ![p] = round[p] + 1]
      /\ pc' = [pc EXCEPT ![p] = "waiting"]
      /\ slot' = slot /\ moved' = moved /\ db' = db /\ outcome' = outcome
      /\ pc \in [Process -> Labels] /\ round \in [Process -> 0..MaxRound]
  BY DEF IndInv, TypeOK, Begin, Goto
<1>2. round'[p] \in 1..MaxRound /\ round'[p] > round[p] /\ round'[p] # 0
  BY <1>1, BoundsAssumption
<1>3. \A q \in Process : q # p => round'[q] = round[q] /\ pc'[q] = pc[q]
  BY <1>1
<1>4. pc'[p] = "waiting"
  BY <1>1
<1>5. Batch(p, round'[p]) \intersect db = {} /\ outcome[p][round'[p]] = "open"
  BY <1>2 DEF IndInv, DataInv
<1>6. ASSUME NEW q \in Process, NEW r \in 1..MaxRound, r > round'[q]
      PROVE  Batch(q, r) \intersect db = {} /\ outcome[q][r] = "open"
  <2>1. r > round[q]
    <3>1. CASE q = p
      <4>1. round'[p] \in Nat /\ round[p] \in Nat /\ r \in Nat
        BY <1>1, <1>2
      <4> QED BY <1>2, <1>6, <3>1, <4>1
    <3>2. CASE q # p
      BY <1>3, <1>6, <3>2
    <3> QED BY <3>1, <3>2
  <2> QED BY <2>1 DEF IndInv, DataInv
<1>7. AllOrNothing'
  BY <1>1 DEF IndInv, AllOrNothing
<1>8. DataInv'
  <2>1. \A q \in Process : pc'[q] = "open" => slot' \subseteq Batch(q, round'[q])
    BY <1>1, <1>3, <1>4 DEF IndInv, DataInv
  <2>2. \A q \in Process : pc'[q] = "committing" => moved' = Batch(q, round'[q])
    BY <1>1, <1>3, <1>4 DEF IndInv, DataInv
  <2>3. \A q \in Process : pc'[q] # "idle" =>
          Batch(q, round'[q]) \intersect db' = {} /\ round'[q] # 0
    BY <1>1, <1>2, <1>3, <1>5 DEF IndInv, DataInv
  <2>4. \A q \in Process : \A r \in 1..MaxRound :
          r > round'[q] => Batch(q, r) \intersect db' = {} /\ outcome'[q][r] = "open"
    BY <1>1, <1>6
  <2>5. \A q \in Process : pc'[q] # "idle" => outcome'[q][round'[q]] = "open"
    BY <1>1, <1>3, <1>5 DEF IndInv, DataInv
  <2>6. outcome' \in [Process -> [1..MaxRound -> {"open", "committed", "rolled back", "unknown"}]]
    BY <1>1 DEF IndInv, DataInv
  <2> QED BY <2>1, <2>2, <2>3, <2>4, <2>5, <2>6 DEF DataInv
<1> QED BY <1>7, <1>8

\* Every step keeps undecided transactions invisible.
LEMMA DataStep ==
  ASSUME IndInv, Next
  PROVE  DataInv' /\ AllOrNothing'
<1>0. /\ pc \in [Process -> Labels]
      /\ \A q \in Process : pc[q] = "open" => slot \subseteq Batch(q, round[q])
      /\ \A q \in Process : pc[q] = "committing" => moved = Batch(q, round[q])
  BY DEF IndInv, TypeOK, DataInv
<1>1. ASSUME NEW p \in Process, Begin(p)
      PROVE  DataInv' /\ AllOrNothing'
  BY <1>1, BeginData
<1>2. ASSUME NEW p \in Process, Acquire(p)
      PROVE  DataInv' /\ AllOrNothing'
  BY <1>0, <1>2, QuietData DEF Acquire, Goto
<1>3. ASSUME NEW p \in Process, Open(p)
      PROVE  DataInv' /\ AllOrNothing'
  BY <1>0, <1>3, QuietData DEF Open, Goto, holder
<1>4. ASSUME NEW p \in Process, OpenFails(p)
      PROVE  DataInv' /\ AllOrNothing'
  BY <1>4, DecidedData DEF OpenFails, Goto, Decide
<1>5. ASSUME NEW p \in Process, Write(p)
      PROVE  DataInv' /\ AllOrNothing'
  <2>1. ASSUME NEW q \in Process, pc[q] = "open" PROVE q = p
    BY <1>5, <2>1 DEF Write, IndInv, PermitInv, Active
  <2>2. slot' \subseteq Batch(p, round[p])
    BY <1>0, <1>5 DEF Write
  <2> QED BY <1>0, <1>5, <2>1, <2>2, QuietData DEF Write
<1>6. ASSUME NEW p \in Process, NEW label \in {"committing", "rolling back"}, Take(p, label),
             label = "committing" => Batch(p, round[p]) \subseteq slot
      PROVE  DataInv' /\ AllOrNothing'
  <2>1. ASSUME NEW q \in Process, pc[q] \in {"open", "committing"} PROVE q = p
    BY <1>6, <2>1 DEF Take, IndInv, PermitInv, Active
  <2>2. pc[p] = "open" /\ pc' = [pc EXCEPT ![p] = label]
    BY <1>6 DEF Take, Goto, IndInv, PermitInv
  <2>3. label = "committing" => moved' = Batch(p, round[p])
    BY <1>0, <1>6, <2>2 DEF Take
  <2>4. /\ \A q \in Process \ {p} : pc'[q] = pc[q]
        /\ \A q \in Process : pc'[q] # "open"
        /\ \A q \in Process : pc'[q] = "committing" => q = p /\ label = "committing"
    BY <1>0, <1>6, <2>1, <2>2
  <2> QED BY <1>6, <2>2, <2>3, <2>4, QuietData DEF Take
<1>7. ASSUME NEW p \in Process, CommitDone(p)
      PROVE  DataInv' /\ AllOrNothing'
  BY <1>0, <1>7, DecidedData DEF CommitDone, Goto, Decide
<1>8. ASSUME NEW p \in Process, RollbackDone(p)
      PROVE  DataInv' /\ AllOrNothing'
  BY <1>8, DecidedData DEF RollbackDone, Goto, Decide
<1>9. ASSUME NEW p \in Process, DropPermit(p)
      PROVE  DataInv' /\ AllOrNothing'
  BY <1>9, DecidedData DEF DropPermit, Goto, Decide
<1>10. ASSUME NEW p \in Process, CancelCommit(p)
       PROVE  DataInv' /\ AllOrNothing'
  BY <1>0, <1>10, DecidedData DEF CancelCommit, Goto, Decide
<1>11. ASSUME CleanupTakes
       PROVE  DataInv' /\ AllOrNothing'
  <2>1. UNCHANGED <<pc, round, moved, db, outcome>> /\ slot' = {}
    BY <1>11 DEF CleanupTakes
  <2> QED BY <2>1 DEF IndInv, DataInv, AllOrNothing
<1>12. ASSUME CleanupDone
       PROVE  DataInv' /\ AllOrNothing'
  <2>1. UNCHANGED <<pc, round, moved, db, outcome, slot>>
    BY <1>12 DEF CleanupDone
  <2> QED BY <2>1 DEF IndInv, DataInv, AllOrNothing
<1> QED BY <1>1, <1>2, <1>3, <1>4, <1>5, <1>6, <1>7, <1>8, <1>9, <1>10, <1>11, <1>12, NextCases
   DEF Commit, Rollback
-----------------------------------------------------------------------------
LEMMA IndInvAlways == Spec => []IndInv
<1>1. ASSUME IndInv, [Next]_vars PROVE IndInv'
  <2>1. CASE Next
    BY <1>1, <2>1, TypeInv, PermitStep, DataStep DEF IndInv
  <2>2. CASE UNCHANGED vars
    <3>1. UNCHANGED <<pc, round, waiters, permit, cleanup, slot, occupied, moved, db, outcome>>
      BY <2>2 DEF vars, holder
    <3>2. TypeOK' /\ PermitInv'
      BY <1>1, <3>1 DEF IndInv, TypeOK, PermitInv
    <3>3. DataInv' /\ AllOrNothing'
      BY <1>1, <3>1 DEF IndInv, DataInv, AllOrNothing
    <3> QED BY <3>2, <3>3 DEF IndInv
  <2> QED BY <1>1, <2>1, <2>2
<1> QED BY <1>1, InitIndInv, PTL DEF Spec

\* The types of the store's permit, slot and database.
THEOREM TypeCorrect == Spec => []TypeOK
<1>1. IndInv => TypeOK
  BY DEF IndInv
<1> QED BY <1>1, IndInvAlways, PTL

\* begin, commit and rollback never reach one of their panics, whoever is
\* cancelled and whatever SQLite fails at: a dropped permit is released after
\* the slot was emptied.
THEOREM NeverPanics == Spec => []NoPanic
<1>1. IndInv => NoPanic
  BY DEF IndInv, PermitInv, NoPanic
<1> QED BY <1>1, IndInvAlways, PTL

\* No write ends up in the transaction of another process.
THEOREM TransactionsAreIsolated == Spec => []NotMixed
<1>1. IndInv => NotMixed
  BY DEF IndInv, DataInv, NotMixed
<1> QED BY <1>1, IndInvAlways, PTL

\* Transactions are atomic, and what their process was told is what happened.
THEOREM TransactionsAreAtomic == Spec => []AllOrNothing
<1>1. IndInv => AllOrNothing
  BY DEF IndInv
<1> QED BY <1>1, IndInvAlways, PTL

=============================================================================
