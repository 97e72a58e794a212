-------------------------------- MODULE Dgm --------------------------------
(***************************************************************************)
(* Decentralised group membership with acknowledgements, as the message    *)
(* encryption scheme uses it: who is a member, and who knows of it.  A     *)
(* state is [me, members, removed, infos, removes, adds]:                  *)
(*   infos:    member -> [actor, removes, acks], who added the member,     *)
(*             which messages removed it and who knows that it was added   *)
(*   removes:  message -> [removed, acks]                                  *)
(*   adds:     message -> the added member                                 *)
(***************************************************************************)
EXTENDS Integers, FiniteSets, TLC

InitDgm(me) ==
  [me |-> me, members |-> {}, removed |-> {}, infos |-> <<>>, removes |-> <<>>, adds |-> <<>>]

CreateDgm(me, initial) ==
  LET all == initial \cup {me}
  IN  [InitDgm(me) EXCEPT
         !.members = all,
         !.infos = [m \in all |-> [actor |-> {}, removes |-> {}, acks |-> all]]]

\* What the welcome message tells wins over what the new member knew.
FromWelcome(d, welcome) ==
  [d EXCEPT !.members = @ \cup welcome.members,
            !.removed = @ \cup welcome.removed,
            !.infos = welcome.infos @@ @,
            !.removes = welcome.removes @@ @,
            !.adds = welcome.adds @@ @]

CanAddMember(d, adder) == adder \in d.members \/ adder \in DOMAIN d.infos

\* Who was told by `adder` knows what `adder` knew.
Learns(info, adder, added) ==
  IF adder \in info.acks THEN [info EXCEPT !.acks = @ \cup {added}] ELSE info

\* A member added by somebody who was removed concurrently is removed by the
\* same messages.
AddMember(d, adder, added, op) ==
  LET still == adder \in d.members
      by    == IF still THEN {} ELSE d.infos[adder].removes
      info  == [actor |-> {adder}, removes |-> by, acks |-> {adder, added, d.me}]
      known == (added :> info) @@ d.infos
      cut   == [r \in DOMAIN d.removes |->
                  IF r \in by THEN [d.removes[r] EXCEPT !.removed = @ \cup {added}]
                              ELSE d.removes[r]]
  IN  [d EXCEPT !.members = IF still THEN @ \cup {added} ELSE @,
                !.removed = IF still THEN @ ELSE @ \cup {added},
                !.infos = [m \in DOMAIN known |-> Learns(known[m], adder, added)],
                !.removes = [r \in DOMAIN cut |-> Learns(cut[r], adder, added)],
                !.adds = (op :> added) @@ @]

CanRemoveMember(d, target) ==
  target \in d.members \/ (target \in d.removed /\ target \in DOMAIN d.infos)

\* Members whose addition by somebody removed here is unknown to the remover
\* go as well, and whom they added.
RECURSIVE Cascade(_, _, _)
Cascade(d, remover, gone) ==
  LET more == {m \in d.members \ gone :
                 d.infos[m].actor \cap gone # {} /\ remover \notin d.infos[m].acks}
  IN  IF more = {} THEN gone ELSE Cascade(d, remover, gone \cup more)

RemoveMember(d, remover, target, op) ==
  LET gone == Cascade(d, remover, {target})
  IN  [d EXCEPT
         !.members = @ \ gone,
         !.removed = @ \cup gone,
         !.infos = [m \in DOMAIN @ |->
                      IF m \in gone THEN [@[m] EXCEPT !.removes = @ \cup {op}] ELSE @[m]],
         !.removes = (op :> [removed |-> gone, acks |-> {remover, d.me}]) @@ @]

\* The members at the time of the viewer's last message, as far as this
\* replica can tell.
MembersView(d, viewer) ==
  IF viewer = d.me
  THEN d.members
  ELSE {m \in d.members : viewer \in d.infos[m].acks} \cup
       {m \in d.removed : /\ viewer \in d.infos[m].acks
                          /\ \A r \in d.infos[m].removes : viewer \notin d.removes[r].acks}

IsAdd(d, op) == op \in DOMAIN d.adds
IsRemove(d, op) == op \in DOMAIN d.removes

CanAck(d, acker, op) ==
  \/ IsAdd(d, op)
  \/ IsRemove(d, op) /\ acker \notin d.removes[op].acks \cup d.removes[op].removed

AckMember(d, acker, op) ==
  IF IsAdd(d, op)
  THEN [d EXCEPT !.infos[d.adds[op]].acks = @ \cup {acker}]
  ELSE [d EXCEPT !.removes[op].acks = @ \cup {acker}]
=============================================================================
