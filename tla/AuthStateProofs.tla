-------------------------- MODULE AuthStateProofs --------------------------
(***************************************************************************)
(* Merging is a join: the order in which the code iterates over the heads  *)
(* of the graph and over the members of a group (both are hash maps) makes *)
(* no difference.                                                          *)
(***************************************************************************)
EXTENDS AuthState, TLAPS

\* The states of a group whose members are taken from a set.
GroupState(s, Members) == DOMAIN s \subseteq Members /\ s \in [DOMAIN s -> MemberState]

\* The merge of two members is a member.
LEMMA MergeMemberType ==
  ASSUME NEW m1 \in MemberState, NEW m2 \in MemberState
  PROVE  MergeMember(m1, m2) \in MemberState
BY DEF MergeMember

\* It does not matter which of two states of a member is the other one's.
LEMMA MergeMemberCommutes ==
  ASSUME NEW m1 \in MemberState, NEW m2 \in MemberState
  PROVE  MergeMember(m1, m2) = MergeMember(m2, m1)
<1>1. CASE m1.member_counter # m2.member_counter
  BY <1>1 DEF MergeMember, Outranks, MemberState
<1>2. CASE m1.member_counter = m2.member_counter /\ m1.access_counter # m2.access_counter
  BY <1>2 DEF MergeMember, Outranks, MemberState
<1>3. CASE m1.member_counter = m2.member_counter /\ m1.access_counter = m2.access_counter
  <2>1. CASE m1.access # m2.access
    BY <1>3, <2>1 DEF MergeMember, Outranks, MemberState, AccessLevel, Pull, Manage
  <2>2. CASE m1.access = m2.access
    BY <1>3, <2>2 DEF MergeMember, Outranks, MemberState
  <2>. QED  BY <2>1, <2>2
<1>. QED  BY <1>1, <1>2, <1>3

\* Three states of a member can be merged in any grouping.
LEMMA MergeMemberAssociates ==
  ASSUME NEW m1 \in MemberState, NEW m2 \in MemberState, NEW m3 \in MemberState
  PROVE  MergeMember(MergeMember(m1, m2), m3) = MergeMember(m1, MergeMember(m2, m3))
BY DEF MergeMember, Outranks, MemberState, AccessLevel, Pull, Manage

\* The states of a group are merged to the same result whichever head of the
\* graph merge_states takes first.
THEOREM MergeCommutes ==
  ASSUME NEW Members, NEW s1, NEW s2, GroupState(s1, Members), GroupState(s2, Members)
  PROVE  Merge(s1, s2) = Merge(s2, s1)
<1>. SUFFICES ASSUME NEW m \in DOMAIN s1 \cup DOMAIN s2
              PROVE  Merge(s1, s2)[m] = Merge(s2, s1)[m]
  BY DEF Merge
<1>1. CASE m \in DOMAIN s1 /\ m \in DOMAIN s2
  BY <1>1, MergeMemberCommutes DEF Merge, GroupState
<1>2. CASE ~(m \in DOMAIN s1 /\ m \in DOMAIN s2)
  BY <1>2 DEF Merge
<1>. QED  BY <1>1, <1>2

\* The heads of the graph can be merged in any grouping.
THEOREM MergeAssociates ==
  ASSUME NEW Members, NEW s1, NEW s2, NEW s3,
         GroupState(s1, Members), GroupState(s2, Members), GroupState(s3, Members)
  PROVE  Merge(Merge(s1, s2), s3) = Merge(s1, Merge(s2, s3))
<1>. DEFINE D == DOMAIN s1 \cup DOMAIN s2 \cup DOMAIN s3
<1>1. DOMAIN Merge(Merge(s1, s2), s3) = D /\ DOMAIN Merge(s1, Merge(s2, s3)) = D
  BY DEF Merge
<1>2. ASSUME NEW m \in D
      PROVE  Merge(Merge(s1, s2), s3)[m] = Merge(s1, Merge(s2, s3))[m]
  <2>1. CASE m \in DOMAIN s1 /\ m \in DOMAIN s2 /\ m \in DOMAIN s3
    BY <2>1, MergeMemberAssociates DEF Merge, GroupState
  <2>2. CASE ~(m \in DOMAIN s1 /\ m \in DOMAIN s2 /\ m \in DOMAIN s3)
    BY <2>2, <1>2 DEF Merge
  <2>. QED  BY <2>1, <2>2
<1>. QED  BY <1>1, <1>2 DEF Merge

\* Merging a state with itself changes nothing: heads with equal states count once.
THEOREM MergeIdempotent ==
  ASSUME NEW Members, NEW s, GroupState(s, Members)
  PROVE  Merge(s, s) = s
<1>. SUFFICES ASSUME NEW m \in DOMAIN s
              PROVE  Merge(s, s)[m] = s[m]
  BY DEF Merge, GroupState
<1>. QED  BY DEF Merge, MergeMember, Outranks, GroupState, MemberState

\* Counters never go back when states are merged, so a removal or an addition
\* which one head knows of is not lost.
THEOREM MergeKeepsCounters ==
  ASSUME NEW Members, NEW s1, NEW s2, GroupState(s1, Members), GroupState(s2, Members),
         NEW m \in DOMAIN s1
  PROVE  Merge(s1, s2)[m].member_counter >= s1[m].member_counter
<1>1. s1[m] \in MemberState /\ s1[m].member_counter \in Nat
  BY DEF GroupState, MemberState
<1>2. CASE m \notin DOMAIN s2
  BY <1>1, <1>2 DEF Merge
<1>3. CASE m \in DOMAIN s2
  <2>1. s2[m] \in MemberState
    BY <1>3 DEF GroupState
  <2>2. Merge(s1, s2)[m] = MergeMember(s1[m], s2[m])
    BY <1>3 DEF Merge
  <2>. QED  BY <1>1, <2>1, <2>2 DEF MergeMember, Outranks, MemberState
<1>. QED  BY <1>2, <1>3
=============================================================================
