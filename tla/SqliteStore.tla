---------------------------- MODULE SqliteStore -----------------------------
(***************************************************************************)
(* Write transactions of the SQLite store (p2panda-store).                 *)
(*                                                                         *)
(* All clones of the store share one slot for the current transaction and  *)
(* a semaphore with one permit.  A process holds the permit from begin     *)
(* until commit or rollback are done.  A permit which is dropped on the    *)
(* way (early return, error, cancelled task) starts a background task      *)
(* which rolls the transaction back, while its former holder runs on and   *)
(* may already queue for the next permit.                                  *)
(*                                                                         *)
(* Processes use the slot only while they hold a permit; the store does    *)
(* not enforce this.                                                       *)
(***************************************************************************)
EXTENDS Naturals, Sequences, FiniteSets

CONSTANTS
    Process,    \* tasks which write to the store
    NoProcess,
    Writes,     \* number of writes of a transaction
    MaxRound    \* bound: transactions of a process

ASSUME ProcessAssumption == NoProcess \notin Process
ASSUME BoundsAssumption == Writes \in Nat \ {0} /\ MaxRound \in Nat

VARIABLES
    pc,         \* where every process stands
    round,      \* number of its transaction
    permit,     \* who the permit was given to; NoProcess when it is available
    waiters,    \* processes which wait in begin, first come first served
    slot,       \* writes of the transaction in the slot
    occupied,   \* whether there is a transaction in the slot
    moved,      \* writes of the transaction which commit or rollback took out
    cleanup,    \* the background task of a dropped permit
    db,         \* committed writes
    outcome     \* history: what became of the transactions

holder == <<permit, cleanup>>
vars == <<pc, round, waiters, holder, slot, occupied, moved, db, outcome>>

\* What a process writes in a transaction.
Batch(p, r) == {<<p, r, k>> : k \in 1..Writes}

Init ==
    /\ pc = [p \in Process |-> "idle"]
    /\ round = [p \in Process |-> 0]
    /\ permit = NoProcess
    /\ waiters = <<>>
    /\ slot = {}
    /\ occupied = FALSE
    /\ moved = {}
    /\ cleanup = "none"
    /\ db = {}
    /\ outcome = [p \in Process |-> [r \in 1..MaxRound |-> "open"]]

Goto(p, label) == pc' = [pc EXCEPT ![p] = label]

Decide(p, result) == outcome' = [outcome EXCEPT ![p][round[p]] = result]

\* acquire_owned
Begin(p) ==
    /\ pc[p] = "idle"
    /\ round[p] < MaxRound
    /\ round' = [round EXCEPT ![p] = @ + 1]
    /\ waiters' = Append(waiters, p)
    /\ Goto(p, "waiting")
    /\ UNCHANGED <<holder, slot, occupied, moved, db, outcome>>

Acquire(p) ==
    /\ pc[p] = "waiting"
    /\ permit = NoProcess
    /\ waiters # <<>> /\ Head(waiters) = p
    /\ waiters' = Tail(waiters)
    /\ permit' = p
    /\ Goto(p, "opening")
    /\ UNCHANGED <<round, cleanup, slot, occupied, moved, db, outcome>>

\* pool.begin, after the assertion that the slot is free.
Open(p) ==
    /\ pc[p] = "opening"
    /\ Goto(p, IF occupied THEN "panicked" ELSE "open")
    /\ slot' = {}
    /\ occupied' = TRUE
    /\ UNCHANGED <<round, waiters, holder, moved, db, outcome>>

\* pool.begin fails: there is no TransactionPermit yet, the semaphore's permit
\* is given back.
OpenFails(p) ==
    /\ pc[p] = "opening"
    /\ ~occupied
    /\ permit' = NoProcess
    /\ Goto(p, "idle")
    /\ Decide(p, "rolled back")
    /\ UNCHANGED <<round, waiters, cleanup, slot, occupied, moved, db>>

\* A query with tx.
Write(p) ==
    /\ pc[p] = "open"
    /\ occupied
    /\ \E w \in Batch(p, round[p]) \ slot : slot' = slot \union {w}
    /\ UNCHANGED <<pc, round, waiters, holder, occupied, moved, db, outcome>>

\* commit and rollback take the transaction out of the slot ..
Take(p, label) ==
    /\ pc[p] = "open"
    /\ Goto(p, IF occupied THEN label ELSE "panicked")
    /\ moved' = slot
    /\ slot' = {}
    /\ occupied' = FALSE
    /\ UNCHANGED <<round, waiters, holder, db, outcome>>

Commit(p) == Batch(p, round[p]) \subseteq slot /\ Take(p, "committing")

Rollback(p) == Take(p, "rolling back")

\* .. and give the permit back when SQLite is done, also if it failed.
CommitDone(p) ==
    /\ pc[p] = "committing"
    /\ \/ db' = db \union moved /\ Decide(p, "committed")
       \/ UNCHANGED db /\ Decide(p, "rolled back")
    /\ permit' = NoProcess
    /\ Goto(p, "idle")
    /\ UNCHANGED <<round, waiters, cleanup, slot, occupied, moved>>

RollbackDone(p) ==
    /\ pc[p] = "rolling back"
    /\ Decide(p, "rolled back")
    /\ permit' = NoProcess
    /\ Goto(p, "idle")
    /\ UNCHANGED <<round, waiters, cleanup, slot, occupied, moved, db>>

\* Mutant: the semaphore is released before the background task is done.
ReleasedOnDrop == permit' = NoProcess /\ cleanup' = "started"

\* TransactionPermit::drop: the background task keeps the permit.
OnDrop == cleanup' = "started" /\ UNCHANGED permit

\* The permit is dropped without commit or rollback.
DropPermit(p) ==
    /\ pc[p] = "open"
    /\ Decide(p, "rolled back")
    /\ OnDrop
    /\ Goto(p, "idle")
    /\ UNCHANGED <<round, waiters, slot, occupied, moved, db>>

\* The task is cancelled while SQLite commits: nobody knows the outcome.
CancelCommit(p) ==
    /\ pc[p] = "committing"
    /\ db' \in {db, db \union moved}
    /\ Decide(p, "unknown")
    /\ OnDrop
    /\ Goto(p, "idle")
    /\ UNCHANGED <<round, waiters, slot, occupied, moved>>

\* The background task takes out whatever is in the slot ..
CleanupTakes ==
    /\ cleanup = "started"
    /\ slot' = {}
    /\ occupied' = FALSE
    /\ cleanup' = "rolling back"
    /\ UNCHANGED <<pc, round, waiters, permit, moved, db, outcome>>

\* Mutant: the permit leaks.
ReleaseNothing == UNCHANGED permit

\* drop(permit)
Release == permit' = NoProcess

\* .. and releases the semaphore after the roll back.
CleanupDone ==
    /\ cleanup = "rolling back"
    /\ Release
    /\ cleanup' = "none"
    /\ UNCHANGED <<pc, round, waiters, slot, occupied, moved, db, outcome>>

Finish(p) == Commit(p) \/ Rollback(p) \/ DropPermit(p)

Continue(p) ==
    Acquire(p) \/ Open(p) \/ OpenFails(p) \/ CommitDone(p) \/ RollbackDone(p) \/ CancelCommit(p)

Next ==
    \/ \E p \in Process : Begin(p) \/ Continue(p) \/ Write(p) \/ Finish(p)
    \/ CleanupTakes
    \/ CleanupDone

\* Nobody keeps a transaction open forever, and SQLite answers.
Fairness ==
    /\ \A p \in Process : WF_vars(Continue(p)) /\ WF_vars(Finish(p))
    /\ WF_vars(CleanupTakes \/ CleanupDone)

Spec == Init /\ [][Next]_vars

FairSpec == Spec /\ Fairness

-----------------------------------------------------------------------------
Labels == {"idle", "waiting", "opening", "open", "committing", "rolling back", "panicked"}

Write3 == Process \X (1..MaxRound) \X (1..Writes)

TypeOK ==
    /\ pc \in [Process -> Labels]
    /\ round \in [Process -> 0..MaxRound]
    /\ permit \in Process \union {NoProcess}
    /\ waiters \in Seq(Process)
    /\ slot \subseteq Write3
    /\ occupied \in BOOLEAN
    /\ moved \subseteq Write3
    /\ cleanup \in {"none", "started", "rolling back"}
    /\ db \subseteq Write3

\* begin never finds a transaction of somebody else in the slot, and commit and
\* rollback never find their own one gone: the two places where the store
\* panics.
NoPanic == \A p \in Process : pc[p] # "panicked"

\* Whatever is written in a transaction was written by the process which holds
\* the permit, in its current transaction: no write of a dropped transaction
\* ends up in somebody else's.
NotMixed ==
    \A p \in Process : pc[p] = "open" => slot \subseteq Batch(p, round[p])

\* The database has all writes of a transaction or none, and a process which
\* was told that its transaction is committed or not was told the truth.
AllOrNothing ==
    \A p \in Process : \A r \in 1..MaxRound :
        /\ Batch(p, r) \subseteq db \/ Batch(p, r) \intersect db = {}
        /\ outcome[p][r] = "committed" => Batch(p, r) \subseteq db
        /\ outcome[p][r] = "rolled back" => Batch(p, r) \intersect db = {}

\* Every process which waits in begin gets its turn.
EveryBeginReturns ==
    \A p \in Process : pc[p] = "waiting" ~> pc[p] # "waiting"

=============================================================================
