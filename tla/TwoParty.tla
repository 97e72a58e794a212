------------------------------ MODULE TwoParty ------------------------------
(***************************************************************************)
(* The two-party secure channel (2SM) on which both group encryption       *)
(* schemes send secrets from member to member, and the manager of the      *)
(* pre-keys which open a channel.  Keys are terms: the i-th message from p *)
(* to q carries a fresh key pair of p, <<p, q, i, "own">>, and one which p *)
(* made for q, <<p, q, i, "made">>.  Who has the secret of a key can read  *)
(* what is encrypted to it, nobody else can.                               *)
(***************************************************************************)
EXTENDS Integers, TLC

None == <<>>

PreKey == [by |-> "prekey"]
ReceivedKey == [by |-> "received"]
OwnKey(i) == [by |-> "own", index |-> i]

-----------------------------------------------------------------------------
(* Lifetimes and the key manager.  A pre-key is [id, not_before,           *)
(* not_after]; a one-time secret belongs to the pre-key it was made with.  *)

\* Both ends of a lifetime are exclusive.
Verify(lifetime, now) == lifetime.not_before < now /\ now < lifetime.not_after

\* The valid ones which expire last.
Latest(prekeys, now) ==
  LET valid == {k \in prekeys : Verify(k, now)}
  IN  {k \in valid : \A other \in valid : other.not_after <= k.not_after}

NewManager(prekeys) == [prekeys |-> prekeys, onetime |-> <<>>, next |-> 0]

\* The bundle with which somebody else can open a channel to the owner.
LongTermBundle(owner, prekey) == [owner |-> owner, prekey |-> prekey, onetime |-> {}]

GenerateOneTimeSecret(manager, prekey) ==
  [manager EXCEPT !.onetime = (manager.next :> prekey.id) @@ @, !.next = @ + 1]

OneTimeBundle(owner, manager, prekey) ==
  [owner |-> owner, prekey |-> prekey, onetime |-> {manager.next}]

UseOneTimeSecrets(manager, ids) ==
  [manager EXCEPT !.onetime = [i \in DOMAIN @ \ ids |-> @[i]]]

RotatePreKey(manager, prekey) == [manager EXCEPT !.prekeys = @ \cup {prekey}]

RemoveExpired(manager, now) ==
  LET kept == {k \in manager.prekeys : Verify(k, now)}
  IN  [manager EXCEPT
         !.prekeys = kept,
         !.onetime = [i \in {i \in DOMAIN @ : \E k \in kept : k.id = @[i]} |-> @[i]]]

-----------------------------------------------------------------------------
(* A session of `me` with `peer`.                                          *)

Own(me, peer, i) == <<me, peer, i, "own">>
Made(me, peer, i) == <<me, peer, i, "made">>

InitToSend(bundle) ==
  [next |-> 1, min |-> 1, secrets |-> {}, received |-> None,
   used |-> PreKey, bundle |-> bundle, theirs |-> None]

InitToReceive == InitToSend(None)

\* The first message needs a bundle, which has to be valid still.
CanSend(t, now) == t.theirs # None \/ (t.bundle # None /\ Verify(t.bundle.prekey, now))

\* X3DH reaches whoever has the secrets of the bundle, HPKE whoever has the
\* secret of the last known key.
Encrypt(t) == IF t.theirs = None THEN t.bundle ELSE t.theirs

Message(t, me, peer, plaintext) ==
  [to |-> Encrypt(t), used |-> t.used, plaintext |-> plaintext,
   newSecret |-> Made(me, peer, t.next), newKey |-> Own(me, peer, t.next), index |-> t.next]

\* Mutant: the sender keeps using the pre-keys.
SendReusesPreKey(t, me, peer) ==
  [t EXCEPT !.secrets = @ \cup {t.next}, !.next = @ + 1]

Send(t, me, peer) ==
  [t EXCEPT !.secrets = @ \cup {t.next},
            !.next = @ + 1,
            !.theirs = Made(me, peer, t.next),
            !.used = ReceivedKey,
            !.bundle = IF t.theirs = None THEN None ELSE @]

HasPreKeySecret(manager, bundle) ==
  /\ bundle.onetime \subseteq DOMAIN manager.onetime
  /\ \E k \in manager.prekeys : k.id = bundle.prekey.id

\* Whether the session's owner finds the secret which a message needs.
CanReceive(t, me, peer, manager, m) ==
  \/ m.used.by = "prekey" /\ HasPreKeySecret(manager, m.to)
  \/ m.used.by = "received" /\ m.to = t.received
  \/ m.used.by = "own" /\ m.used.index \in t.secrets /\ m.to = Own(me, peer, m.used.index)

\* Own keys up to the used one will not be needed any more.
Decrypt(t, m) ==
  IF m.used.by = "own"
  THEN [t EXCEPT !.secrets = @ \ (t.min .. m.used.index), !.min = m.used.index + 1]
  ELSE t

Receive(t, m) ==
  [Decrypt(t, m) EXCEPT !.theirs = m.newKey,
                        !.used = OwnKey(m.index),
                        !.received = m.newSecret]

\* A one-time secret is gone once it was used.
ManagerAfter(manager, m) ==
  IF m.used.by = "prekey" THEN UseOneTimeSecrets(manager, m.to.onetime) ELSE manager
=============================================================================
