----------------------------- MODULE DataScheme -----------------------------
(***************************************************************************)
(* The data encryption scheme as spaces use it: a group holds a bundle of  *)
(* secrets, a message names the secret it was encrypted with, who joins    *)
(* receives the whole bundle, and whoever stays after a removal receives a *)
(* new secret.  The state of a member is                                   *)
(*   [me, pki, dgm, two_party, secrets, welcomed, queue, welcome, graph,   *)
(*    heads, directs, error]                                               *)
(* `secrets` maps the identifier of a secret to its timestamp, `directs`   *)
(* collects the direct messages of the control message being made, in      *)
(* order, and a failed step leaves a reason in `error`: its caller then    *)
(* drops the state.  Membership is decided elsewhere, `dgm` is set to the  *)
(* current members before every change.                                    *)
(***************************************************************************)
EXTENDS TwoParty, FiniteSets, Sequences

LOCAL INSTANCE SequencesExt

CONSTANT Clock   \* member -> the time its clock shows when it makes a secret

\* One pre-key per member, valid all the time.
Now == 1
SignedPreKey == [id |-> 1, not_before |-> 0, not_after |-> 2]
MyKeys == NewManager({SignedPreKey})

InitEncryption(me) ==
  [me |-> me, pki |-> {}, dgm |-> {}, two_party |-> <<>>, secrets |-> <<>>,
   welcomed |-> FALSE, queue |-> <<>>, welcome |-> FALSE, graph |-> {}, heads |-> {},
   directs |-> <<>>, error |-> {}]

Fail(y, reason) == [y EXCEPT !.error = @ \cup {reason}]
FailUnless(y, condition, reason) == IF condition THEN y ELSE Fail(y, reason)

-----------------------------------------------------------------------------
(* The bundle of secrets.                                                  *)

\* The highest timestamp wins, the highest identifier among equals.
FindLatest(secrets) ==
  {i \in DOMAIN secrets : \A j \in DOMAIN secrets :
     secrets[j] < secrets[i] \/ (secrets[j] = secrets[i] /\ j <= i)}

LatestTimestamp(secrets) ==
  IF FindLatest(secrets) = {} THEN 0
  ELSE secrets[CHOOSE i \in FindLatest(secrets) : TRUE]

\* A new secret becomes the latest one, whatever the clock says.
Generate(secrets, now) ==
  IF now <= LatestTimestamp(secrets) THEN LatestTimestamp(secrets) + 1 ELSE now

Insert(secrets, id, timestamp) == (id :> timestamp) @@ secrets

Extend(secrets, other) == other @@ secrets

-----------------------------------------------------------------------------
(* Secrets for one member.                                                 *)

Session(y, peer) ==
  IF peer \in DOMAIN y.two_party THEN y.two_party[peer]
  ELSE IF peer \in y.pki THEN InitToSend(LongTermBundle(peer, SignedPreKey))
  ELSE InitToReceive

EncryptTo(y, peer) ==
  [FailUnless(y, CanSend(Session(y, peer), Now), "MissingPreKeys") EXCEPT
     !.two_party = (peer :> Send(Session(y, peer), y.me, peer)) @@ @]

\* A session which starts with a message of the peer has no bundle.
ReceivingSession(y, peer) ==
  IF peer \in DOMAIN y.two_party THEN y.two_party[peer] ELSE InitToReceive

DecryptFrom(y, sender, ciphertext) ==
  LET t == ReceivingSession(y, sender)
  IN  IF ~CanReceive(t, y.me, sender, MyKeys, ciphertext)
      THEN Fail(y, "TwoParty")
      ELSE [y EXCEPT !.two_party = (sender :> Receive(t, ciphertext)) @@ @]

\* One more direct message to `peer`, of type "two_party" or "welcome".
DirectMessage(y, peer, type, secrets) ==
  LET ciphertext == Message(Session(y, peer), y.me, peer, secrets)
  IN  [EncryptTo(y, peer) EXCEPT
         !.directs = Append(@, [recipient |-> peer, type |-> type,
                                ciphertext |-> ciphertext, history |-> y.dgm])]

SendGroupSecret(y, recipients, id, timestamp) ==
  FoldSet(LAMBDA peer, z : DirectMessage(z, peer, "two_party", id :> timestamp),
          y, recipients \ {y.me})

-----------------------------------------------------------------------------
(* Local changes.  process_local only adds the new secret: membership is   *)
(* set from outside and a local control message has no direct message.     *)

ProcessLocal(y, id, timestamp) == [y EXCEPT !.secrets = Insert(@, id, timestamp)]

CreateGroup(y, members, id) ==
  LET timestamp == Generate(y.secrets, Clock[y.me])
      sent == SendGroupSecret(FailUnless(y, ~y.welcomed, "GroupAlreadyEstablished"),
                              members, id, timestamp)
  IN  [ProcessLocal(sent, id, timestamp) EXCEPT
         !.dgm = members \cup {y.me}, !.welcome = TRUE, !.welcomed = TRUE]

\* The welcome message holds all secrets so far.
AddMember(y, added) ==
  DirectMessage(
    FailUnless(y, y.welcomed /\ added # y.me, "GroupNotYetEstablished"),
    added, "welcome", y.secrets)

RemoveMember(y, removed, id) ==
  LET timestamp == Generate(y.secrets, Clock[y.me])
      sent == SendGroupSecret(FailUnless(y, y.welcomed, "GroupNotYetEstablished"),
                              y.dgm \ {removed}, id, timestamp)
  IN  ProcessLocal(sent, id, timestamp)

\* Messages are encrypted with the latest secret.
CanSendData(y) == y.welcomed /\ DOMAIN y.secrets # {}
SecretToSend(y) == CHOOSE i \in FindLatest(y.secrets) : TRUE

-----------------------------------------------------------------------------
(* Received messages.  A message is [id, author, type, member, initial,    *)
(* directs, secret]; control messages have type "create", "add", "remove". *)

IsControl(m) == m.type # "application"

ProcessSecret(y, m, direct) ==
  IF direct = {} THEN y
  ELSE LET d == CHOOSE x \in direct : TRUE
           z == DecryptFrom(y, m.author, d.ciphertext)
       IN  IF d.type # "two_party" THEN Fail(y, "UnexpectedDirectMessageType")
           ELSE IF z.error # {} THEN z
           ELSE [z EXCEPT !.secrets = Extend(@, d.ciphertext.plaintext)]

ProcessWelcome(y, m, d) ==
  LET z == DecryptFrom([y EXCEPT !.dgm = d.history], m.author, d.ciphertext)
  IN  IF z.error # {} THEN z
      ELSE [z EXCEPT !.secrets = Extend(@, d.ciphertext.plaintext)]

ProcessAdd(y, m, direct) ==
  IF m.member # y.me THEN y
  ELSE IF direct = {} THEN Fail(y, "MissingDirectMessage")
  ELSE LET d == CHOOSE x \in direct : TRUE
       IN  IF d.type # "welcome" THEN Fail(y, "UnexpectedDirectMessageType")
           ELSE ProcessWelcome(y, m, d)

ProcessControl(y, m, direct) ==
  CASE m.type = "create" -> ProcessSecret([y EXCEPT !.dgm = m.initial], m, direct)
    [] m.type = "add"    -> ProcessAdd(y, m, direct)
    [] m.type = "remove" -> ProcessSecret(y, m, direct)

\* process_ready takes the first direct message which is for us.
FirstDirect(m, me) ==
  LET mine == {i \in 1 .. Len(m.directs) : m.directs[i].recipient = me}
  IN  {m.directs[i] : i \in {i \in mine : \A j \in mine : i <= j}}

Decrypts(y, m) == m.secret \in DOMAIN y.secrets

ProcessReady(y, m) ==
  IF y.error # {} THEN y
  ELSE IF IsControl(m)
  THEN LET z == ProcessControl(y, m, FirstDirect(m, y.me))
       IN  [z EXCEPT !.welcomed = @ \/ z.me \in z.dgm]
  ELSE FailUnless(y, Decrypts(y, m), "UnknownGroupSecret")

\* Whether this message makes us a member of the group.
Joins(y, m) ==
  \/ m.type = "create" /\ y.me \in m.initial
  \/ m.type = "add" /\ m.member = y.me

\* receive: a message waits until we joined; then everything which waits is
\* processed, control messages first, and one failure drops the lot.
ReceiveMessage(y, m) ==
  LET queued == [y EXCEPT !.queue = Append(@, m)]
      joined == [queued EXCEPT !.welcome = @ \/ ~y.welcomed]
      ready  == SelectSeq(joined.queue, IsControl)
                \o SelectSeq(joined.queue, LAMBDA x : ~IsControl(x))
  IN  IF m.type = "create" /\ y.welcomed THEN Fail(y, "GroupAlreadyEstablished")
      ELSE IF ~y.welcomed /\ ~Joins(y, m) THEN queued
      ELSE FoldLeft(ProcessReady, [joined EXCEPT !.queue = <<>>], ready)

\* The application messages which a call of receive decrypts.
Decrypted(y, m) ==
  IF ~y.welcomed /\ ~Joins(y, m) THEN {}
  ELSE {x.id : x \in {x \in ToSet(y.queue) \cup {m} : ~IsControl(x)}}

-----------------------------------------------------------------------------
(* The graph of the messages of a space, from which a new message takes    *)
(* its dependencies.                                                       *)

HasSeen(y, id) == id \in y.graph

AddDependency(y, id, deps) ==
  IF HasSeen(y, id) THEN y
  ELSE [y EXCEPT !.graph = @ \cup {id} \cup deps, !.heads = (@ \ deps) \cup {id}]
=============================================================================
