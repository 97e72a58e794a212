------------------------------- MODULE Dcgka -------------------------------
(***************************************************************************)
(* Decentralised continuous group key agreement of the message encryption  *)
(* scheme.  A member's state is                                            *)
(*   [me, keys, pki, two_party, member_secrets, ratchet, dgm, error]       *)
(* and secrets are terms.  The outer ratchet of a member is the sequence   *)
(* of the secrets mixed into it: two members have the same chain secret    *)
(* exactly if these sequences are the same.  Any failed step leaves a      *)
(* reason in `error`, whoever called the operation then drops the rest.    *)
(***************************************************************************)
EXTENDS TwoParty, Dgm, Sequences

LOCAL INSTANCE SequencesExt

Now == 1

\* One pre-key per member, valid all the time, and a one-time secret for
\* every other member.
SignedPreKey == [id |-> 1, not_before |-> 0, not_after |-> 2]

InitDcgka(me, keys, pki) ==
  [me |-> me, keys |-> keys, pki |-> pki, two_party |-> <<>>, member_secrets |-> <<>>,
   ratchet |-> <<>>, dgm |-> InitDgm(me), error |-> {}]

Fail(y, reason) == [y EXCEPT !.error = @ \cup {reason}]

FailUnless(y, condition, reason) == IF condition THEN y ELSE Fail(y, reason)

MemberView(y, viewer) == MembersView(y.dgm, viewer)

-----------------------------------------------------------------------------
(* Secrets for one member.                                                 *)

\* The session with a peer; a new one takes a one-time bundle of the peer,
\* whether it is for sending or for receiving.
Session(y, peer) ==
  IF peer \in DOMAIN y.two_party THEN y.two_party[peer]
  ELSE IF y.pki[peer] = <<>> THEN InitToReceive
  ELSE InitToSend(Last(y.pki[peer]))

BundleLeft(y, peer) ==
  IF peer \in DOMAIN y.two_party \/ y.pki[peer] = <<>> THEN y.pki[peer] ELSE Front(y.pki[peer])

Ciphertext(y, peer, plaintext) == Message(Session(y, peer), y.me, peer, plaintext)

EncryptTo(y, peers) ==
  LET ok == \A p \in peers : CanSend(Session(y, p), Now)
  IN  [FailUnless(y, ok, "MissingPreKeys") EXCEPT
         !.two_party = [p \in peers |-> Send(Session(y, p), y.me, p)] @@ @,
         !.pki = [p \in DOMAIN @ |-> IF p \in peers THEN BundleLeft(y, p) ELSE @[p]]]

DecryptWith(y, sender, ciphertext, session) ==
  IF sender \notin DOMAIN y.two_party /\ y.pki[sender] = <<>>
  THEN Fail(y, "MissingPreKeys")
  ELSE IF ~CanReceive(session, y.me, sender, y.keys, ciphertext)
  THEN Fail(y, "TwoParty")
  ELSE [y EXCEPT !.two_party = (sender :> Receive(session, ciphertext)) @@ @,
                 !.keys = ManagerAfter(@, ciphertext),
                 !.pki[sender] = BundleLeft(y, sender)]

DecryptFrom(y, sender, ciphertext) == DecryptWith(y, sender, ciphertext, Session(y, sender))

-----------------------------------------------------------------------------
(* The outer ratchets.                                                     *)

Chain(y, member) == IF member \in DOMAIN y.ratchet THEN y.ratchet[member] ELSE <<>>

UpdateRatchet(y, member, secret) ==
  [y EXCEPT !.ratchet = (member :> Append(Chain(y, member), secret)) @@ @]

\* What the update of a ratchet returns, for the message ratchet.
UpdateSecret(y, member) == <<"update", member, Chain(y, member)>>

\* Derived from a seed for one of the members.
MemberSecret(seed, member) == <<"member", member, seed>>

ForAdded == <<"welcome">>
ForAdder == <<"add">>

-----------------------------------------------------------------------------
(* Processing control messages.  `control` and `direct` of an output are   *)
(* to be published, `sender` and `mine` are update secrets.                *)

NoMessage == [type |-> "none"]

Output(y, control, direct, sender, mine) ==
  [y |-> y, control |-> control, direct |-> direct, sender |-> sender, mine |-> mine]

Nothing(y) == Output(y, NoMessage, <<>>, None, None)

Failed(y, reason) == Nothing(Fail(y, reason))

\* The sender's ratchet goes on, with an update secret for us.
Ratcheted(y, sender) == Output(y, NoMessage, <<>>, UpdateSecret(y, sender), None)

\* The acknowledgement is recorded for a message which is an addition and a
\* removal.
RecordAck(y, sender, ack) ==
  IF ~(IsAdd(y.dgm, ack.op) /\ IsRemove(y.dgm, ack.op)) \/ sender = y.me THEN y
  ELSE IF ~CanAck(y.dgm, sender, ack.op) THEN Fail(y, "DgmOperation")
  ELSE [y EXCEPT !.dgm = AckMember(@, sender, ack.op)]

\* The secret is one we kept for the acknowledging member, or it was forwarded.
AckSecret(y, sender, key, direct) ==
  IF key \in DOMAIN y.member_secrets
  THEN Ratcheted(UpdateRatchet([y EXCEPT !.member_secrets = [k \in DOMAIN @ \ {key} |-> @[k]]],
                               sender, y.member_secrets[key]), sender)
  ELSE IF direct = NoMessage THEN Nothing(y)
  ELSE IF direct.type # "forward" THEN Failed(y, "UnexpectedDirectMessageType")
  ELSE Ratcheted(UpdateRatchet(DecryptFrom(y, sender, direct.ciphertext),
                               sender, direct.ciphertext.plaintext), sender)

ProcessAck(y, sender, ack, direct) ==
  AckSecret(RecordAck(y, sender, ack), sender, <<ack.sender, ack.op, sender>>, direct)

Direct(y, type, recipients, secret) ==
  [r \in recipients |-> [type |-> type, ciphertext |-> Ciphertext(y, r, secret)]]

\* Mutant: members whom the sender did not know yet get nothing.
ForwardToNobody(y, sender, recipients) == {}

\* Members whose addition the sender of a seed did not know yet.
ForwardTo(y, sender, recipients) == MemberView(y, y.me) \ (recipients \cup {sender})

\* A secret for every recipient is derived from the seed.
SeedToRatchet(y, sender, op, seed, recipients) ==
  UpdateRatchet([y EXCEPT !.member_secrets =
                   [k \in {<<sender, op, r>> : r \in recipients} |-> MemberSecret(seed, k[3])] @@ @],
                sender, MemberSecret(seed, sender))

\* Acknowledge with our own update secret, and forward our member secret.
AckSeed(y, sender, ack, secret, forward) ==
  LET Acked(out) == Output(out.y, ack, Direct(y, "forward", forward, secret),
                           UpdateSecret(y, sender), out.sender)
  IN  Acked(ProcessAck(EncryptTo(y, forward), y.me, ack, NoMessage))

\* The sender of a seed has it already, recipients decrypt it, and who was
\* added concurrently acknowledges without.
ProcessSeedFor(y, sender, op, seed, direct, recipients) ==
  LET ack == [type |-> "ack", sender |-> sender, op |-> op]
      Seeded(after, s) ==
        AckSeed(after, sender, ack, MemberSecret(s, y.me), ForwardTo(after, sender, recipients))
  IN  IF sender = y.me THEN Ratcheted(SeedToRatchet(y, sender, op, seed, recipients), sender)
      ELSE IF y.me \notin recipients THEN Output(y, ack, <<>>, None, None)
      ELSE IF direct = NoMessage THEN Failed(y, "MissingDirectMessage")
      ELSE IF direct.type # "seed" THEN Failed(y, "UnexpectedDirectMessageType")
      ELSE Seeded(SeedToRatchet(DecryptFrom(y, sender, direct.ciphertext), sender, op,
                                direct.ciphertext.plaintext, recipients),
                  direct.ciphertext.plaintext)

ProcessSeed(y, sender, op, seed, direct) ==
  ProcessSeedFor(y, sender, op, seed, direct, MemberView(y, sender) \ {sender})

ProcessCreate(y, sender, op, initial, seed, direct) ==
  ProcessSeed([y EXCEPT !.dgm = CreateDgm(y.me, initial)], sender, op, seed, direct)

ProcessUpdate(y, sender, op, seed, direct) == ProcessSeed(y, sender, op, seed, direct)

ProcessRemove(y, sender, op, target, seed, direct) ==
  IF ~CanRemoveMember(y.dgm, target) THEN Failed(y, "DgmOperation")
  ELSE ProcessSeed([y EXCEPT !.dgm = RemoveMember(@, sender, target, op)],
                   sender, op, seed, direct)

\* With a direct message the new member learns the ratchet of the sender.
LearnRatchet(y, sender, direct) ==
  [DecryptFrom(y, sender, direct.ciphertext) EXCEPT
     !.ratchet = (sender :> direct.ciphertext.plaintext) @@ @]

AddAcked(y, sender) ==
  IF y.me \notin MemberView(y, sender) THEN Nothing(y)
  ELSE Ratcheted(UpdateRatchet(y, sender, ForAdder), sender)

ProcessAddAck(y, sender, ack, direct) ==
  LET acked == [y EXCEPT !.dgm = AckMember(@, sender, ack.op)]
  IN  IF ~CanAck(y.dgm, sender, ack.op) THEN Failed(y, "DgmOperation")
      ELSE IF direct # NoMessage /\ direct.type # "forward"
      THEN Failed(y, "UnexpectedDirectMessageType")
      ELSE AddAcked(IF direct = NoMessage THEN acked ELSE LearnRatchet(acked, sender, direct), sender)

\* The first update of the adder's ratchet is the secret of the new member,
\* the second one is for the adder.
AddedToRatchet(y, sender, op, added) ==
  LET Welcomed(after) ==
        UpdateRatchet([after EXCEPT !.member_secrets =
                         (<<sender, op, added>> :> UpdateSecret(after, sender)) @@ @],
                      sender, ForAdder)
  IN  Welcomed(UpdateRatchet(y, sender, ForAdded))

\* Acknowledge an addition, with our ratchet for the new member if it is
\* somebody else.
AckWelcome(y, sender, ack) ==
  LET Acked(out) == Output(out.y, ack, <<>>, UpdateSecret(y, sender), out.sender)
  IN  Acked(ProcessAck(y, y.me, ack, NoMessage))

AckAdd(y, ack, secret, added) ==
  LET Acked(out) == Output(out.y, ack, Direct(y, "forward", {added}, Chain(y, y.me)),
                           secret, out.sender)
  IN  Acked(ProcessAddAck(EncryptTo(y, {added}), y.me, ack, NoMessage))

\* The new member starts from the adder's view and ratchet.
ProcessWelcome(y, sender, op, direct) ==
  LET WithView(d) ==
        IF ~CanAddMember(d, sender) THEN Failed(y, "DgmOperation")
        ELSE AckWelcome(AddedToRatchet(
                          LearnRatchet([y EXCEPT !.dgm = AddMember(d, sender, y.me, op)],
                                       sender, direct),
                          sender, op, y.me),
                        sender, [type |-> "ack", sender |-> sender, op |-> op])
  IN  WithView(FromWelcome(y.dgm, direct.history))

\* Who does not know the adder's view yet does not follow its ratchet.
ProcessAddOther(y, sender, op, added) ==
  LET Known(after, secret) ==
        IF sender = y.me THEN Output(after, NoMessage, <<>>, secret, None)
        ELSE IF y.me \notin DOMAIN after.ratchet THEN Failed(y, "MissingRatchetSecret")
        ELSE AckAdd(after, [type |-> "add_ack", sender |-> sender, op |-> op], secret, added)
      Ratchet(after) == Known(after, UpdateSecret(after, sender))
      WithView(after) ==
        IF y.me \notin MemberView(after, sender) THEN Known(after, None)
        ELSE Ratchet(AddedToRatchet(after, sender, op, added))
  IN  WithView([y EXCEPT !.dgm = AddMember(@, sender, added, op)])

ProcessAdd(y, sender, op, added, direct) ==
  IF added = y.me
  THEN IF direct = NoMessage THEN Failed(y, "MissingDirectMessage")
       ELSE IF direct.type # "welcome" THEN Failed(y, "UnexpectedDirectMessageType")
       ELSE ProcessWelcome(y, sender, op, direct)
  ELSE IF ~CanAddMember(y.dgm, sender) THEN Failed(y, "DgmOperation")
  ELSE ProcessAddOther(y, sender, op, added)

ProcessRemote(y, sender, op, control, direct) ==
  CASE control.type = "create"  -> ProcessCreate(y, sender, op, control.initial, None, direct)
    [] control.type = "ack"     -> ProcessAck(y, sender, control, direct)
    [] control.type = "update"  -> ProcessUpdate(y, sender, op, None, direct)
    [] control.type = "remove"  -> ProcessRemove(y, sender, op, control.target, None, direct)
    [] control.type = "add"     -> ProcessAdd(y, sender, op, control.added, direct)
    [] control.type = "add_ack" -> ProcessAddAck(y, sender, control, direct)

-----------------------------------------------------------------------------
(* Local operations.  They encrypt, and are processed under the id which   *)
(* their message got.                                                      *)

\* The seed of an operation is as fresh as the message which brings it.
Seed(op) == <<"seed", op>>

GenerateSeed(y, op, recipients) ==
  [y |-> EncryptTo(y, recipients \ {y.me}),
   direct |-> Direct(y, "seed", recipients \ {y.me}, Seed(op))]

LocalCreate(y, op, initial) == GenerateSeed(y, op, initial)

LocalUpdate(y, op) == GenerateSeed(y, op, MemberView(y, y.me))

LocalRemove(y, op, target) == GenerateSeed(y, op, MemberView(y, y.me) \ {target})

\* The welcome carries our ratchet and our view of the group.
LocalAdd(y, added) ==
  [y |-> EncryptTo(FailUnless(y, y.me \in DOMAIN y.ratchet, "MissingRatchetSecret"), {added}),
   direct |-> (added :> [type |-> "welcome", history |-> y.dgm,
                         ciphertext |-> Ciphertext(y, added, Chain(y, y.me))])]

\* Every operation has to yield an update secret for us.
ExpectSecret(out) == [out EXCEPT !.y = FailUnless(@, out.sender # None, "Panic")]

ProcessLocal(y, op, control) ==
  ExpectSecret(
    CASE control.type = "create" ->
           ProcessCreate(y, y.me, op, control.initial, Seed(op), NoMessage)
      [] control.type = "update" -> ProcessUpdate(y, y.me, op, Seed(op), NoMessage)
      [] control.type = "remove" ->
           ProcessRemove(y, y.me, op, control.target, Seed(op), NoMessage)
      [] control.type = "add" -> ProcessAdd(y, y.me, op, control.added, NoMessage))
=============================================================================
