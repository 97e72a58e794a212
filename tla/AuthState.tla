----------------------------- MODULE AuthState -----------------------------
(***************************************************************************)
(* The membership state of one group: a causal length CRDT.  A group is a  *)
(* function from members (individuals or groups) to their state; a member  *)
(* is active while its counter is odd.  Every operation which changes the  *)
(* group is a guard (its early returns) and the state it results in.       *)
(*                                                                         *)
(* Access conditions are left out: the node never sets any.                *)
(***************************************************************************)
EXTENDS Integers, FiniteSets, TLC

Pull == 0
Read == 1
Write == 2
Manage == 3
AccessLevel == Pull .. Manage

MemberState == [member_counter : Nat, access : AccessLevel, access_counter : Nat]

NewMember(access) == [member_counter |-> 1, access |-> access, access_counter |-> 0]

IsMember(s, m) == m \in DOMAIN s /\ s[m].member_counter % 2 = 1

IsManager(s, m) == s[m].access = Manage

Active(s) == {m \in DOMAIN s : IsMember(s, m)}

\* What add, remove and modify ask of the actor.
MayManage(s, actor) == IsMember(s, actor) /\ IsManager(s, actor)

\* create: initial is a function from members to access levels.
CreateState(initial) == [m \in DOMAIN initial |-> NewMember(initial[m])]

CanAdd(s, adder, added) == MayManage(s, adder) /\ ~IsMember(s, added)

\* A member who is added again keeps its counter, so that the addition wins
\* over the removal it follows.
AddState(s, added, access) ==
  IF added \in DOMAIN s
  THEN [s EXCEPT ![added] = [member_counter |-> @.member_counter + 1,
                             access |-> access, access_counter |-> 0]]
  ELSE (added :> NewMember(access)) @@ s

\* Everybody may remove themselves.
CanRemove(s, remover, removed) ==
  /\ IsMember(s, remover)
  /\ IsManager(s, remover) \/ remover = removed
  /\ IsMember(s, removed)

RemoveState(s, removed) ==
  [s EXCEPT ![removed].member_counter = @ + 1, ![removed].access_counter = 0]

CanModify(s, modifier, modified) == MayManage(s, modifier) /\ IsMember(s, modified)

ModifyState(s, modified, access) ==
  IF s[modified].access = access THEN s
  ELSE [s EXCEPT ![modified].access = access, ![modified].access_counter = @ + 1]

\* Promoting a manager, and demoting who can only pull, changes nothing and
\* asks for no rights.
CanPromote(s, promoter, promoted) ==
  /\ promoted \in DOMAIN s
  /\ IsManager(s, promoted) \/ CanModify(s, promoter, promoted)

PromoteState(s, promoted, access) ==
  IF IsManager(s, promoted) THEN s ELSE ModifyState(s, promoted, access)

CanDemote(s, demoter, demoted) ==
  /\ demoted \in DOMAIN s
  /\ s[demoted].access = Pull \/ CanModify(s, demoter, demoted)

DemoteState(s, demoted, access) ==
  IF s[demoted].access = Pull THEN s ELSE ModifyState(s, demoted, access)

\* The removal of a mutual remove cycle is applied whatever rights its author
\* is left with.
RemoveUnsafe(s, removed) ==
  IF IsMember(s, removed) THEN [s EXCEPT ![removed].member_counter = @ + 1] ELSE s

\* The longer history of additions and removals wins, then the longer history
\* of access changes, then the lower access.
Outranks(m1, m2) ==
  \/ m1.member_counter > m2.member_counter
  \/ /\ m1.member_counter = m2.member_counter
     /\ \/ m1.access_counter > m2.access_counter
        \/ m1.access_counter = m2.access_counter /\ m1.access < m2.access

MergeMember(m1, m2) == IF Outranks(m1, m2) THEN m1 ELSE m2

Merge(s1, s2) ==
  [m \in DOMAIN s1 \cup DOMAIN s2 |->
     IF m \notin DOMAIN s1 THEN s2[m]
     ELSE IF m \notin DOMAIN s2 THEN s1[m]
     ELSE MergeMember(s1[m], s2[m])]
=============================================================================
