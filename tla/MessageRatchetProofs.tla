------------------------ MODULE MessageRatchetProofs ------------------------
(***************************************************************************)
(* What the decryption ratchet promises for every forward distance,        *)
(* tolerance and order of arrival.                                         *)
(***************************************************************************)
EXTENDS MessageRatchet, TLAPS

\* Key material of generation g is kept g behind the head, or was used.
Window(d, tolerance) ==
  /\ d = [head |-> d.head, past |-> d.past]
  /\ d.head = [secret |-> d.head.secret, generation |-> d.head.generation]
  /\ d.head.generation \in Nat
  /\ \E n \in Nat :
       /\ n <= tolerance
       /\ n <= d.head.generation
       /\ d.past \in [1 .. n -> {Used} \cup {<<d.head.secret, g>> : g \in Nat}]
       /\ Len(d.past) = n
       /\ \A i \in 1 .. n : d.past[i] \in {Used, <<d.head.secret, d.head.generation - i>>}

LEMMA UsedIsNoKey == ASSUME NEW s, NEW g PROVE Used # <<s, g>>
  BY DEF Used

\* A ratchet starts with nothing in its window.
LEMMA InitDecryptionWindow ==
  ASSUME NEW secret, NEW tolerance \in Nat
  PROVE  Window(InitDecryption(secret), tolerance)
  <1> DEFINE d == InitDecryption(secret)
  <1>1. /\ d = [head |-> d.head, past |-> d.past]
        /\ d.head = [secret |-> d.head.secret, generation |-> d.head.generation]
        /\ d.head.generation \in Nat
        /\ 0 <= tolerance /\ 0 <= d.head.generation
        /\ d.past = <<>>
    BY DEF InitDecryption, InitRatchet
  <1>2. d.past \in [1 .. 0 -> {Used} \cup {<<d.head.secret, g>> : g \in Nat}] /\ Len(d.past) = 0
    BY <1>1
  <1> QED  BY <1>1, <1>2 DEF Window

\* Who may decrypt gets the sender's key for that generation, whichever
\* generations came before it and in which order.
THEOREM RightKey ==
  ASSUME NEW d, NEW tolerance \in Nat, NEW forward \in Nat, NEW generation \in Nat,
         Window(d, tolerance),
         CanDecrypt(d, generation, forward, tolerance)
  PROVE  SecretForDecryption(d, generation) = <<d.head.secret, generation>>
  <1>1. CASE generation >= d.head.generation
    BY <1>1 DEF SecretForDecryption
  <1>2. CASE ~(generation >= d.head.generation)
    <2> DEFINE i == d.head.generation - generation
    <2>1. PICK n \in Nat :
            /\ Len(d.past) = n
            /\ \A k \in 1 .. n : d.past[k] \in {Used, <<d.head.secret, d.head.generation - k>>}
      BY DEF Window
    <2>2. d.head.generation \in Nat
      BY DEF Window
    <2>3. i \in 1 .. n /\ d.past[i] # Used
      BY <1>2, <2>1, <2>2 DEF CanDecrypt
    <2>4. d.past[i] = <<d.head.secret, d.head.generation - i>>
      BY <2>1, <2>3
    <2>5. d.head.generation - i = generation
      BY <2>2
    <2> QED  BY <1>2, <2>4, <2>5 DEF SecretForDecryption
  <1> QED  BY <1>1, <1>2

\* Skipping ahead keeps the window in order.
LEMMA SkipKeepsWindow ==
  ASSUME NEW d, NEW tolerance \in Nat, NEW generation \in Nat,
         Window(d, tolerance), generation >= d.head.generation
  PROVE  /\ Window(Skip(d, generation, tolerance), tolerance)
         /\ Skip(d, generation, tolerance).head.generation = generation + 1
         /\ Skip(d, generation, tolerance).head.secret = d.head.secret
         /\ Len(Skip(d, generation, tolerance).past) > 0
              => Skip(d, generation, tolerance).past[1] = Used
  <1> DEFINE head == d.head.generation
             secret == d.head.secret
             kept == generation + 1 - head + Len(d.past)
             k == IF kept < tolerance THEN kept ELSE tolerance
             Entry(i) == IF i = 1 THEN Used
                         ELSE IF i <= generation + 1 - head THEN <<secret, generation + 1 - i>>
                         ELSE d.past[i - (generation + 1 - head)]
             past == [i \in 1 .. k |-> Entry(i)]
             e == Skip(d, generation, tolerance)
  <1>1. PICK n \in Nat :
          /\ n <= tolerance
          /\ n <= head
          /\ Len(d.past) = n
          /\ \A i \in 1 .. n : d.past[i] \in {Used, <<secret, head - i>>}
    BY DEF Window
  <1>2. head \in Nat /\ d.head = [secret |-> secret, generation |-> head]
    BY DEF Window
  <1>3. e = [head |-> [d.head EXCEPT !.generation = generation + 1], past |-> past]
    BY DEF Skip
  <1>4. /\ e.head = [secret |-> secret, generation |-> generation + 1]
        /\ e.past = past
    BY <1>2, <1>3
  <1>5. k \in Nat /\ k <= tolerance /\ k <= generation + 1
    BY <1>1, <1>2
  <1>6. ASSUME NEW i \in 1 .. k
        PROVE  Entry(i) \in {Used, <<secret, generation + 1 - i>>}
    <2>1. CASE i = 1 \/ i <= generation + 1 - head
      BY <2>1
    <2>2. CASE i # 1 /\ ~(i <= generation + 1 - head)
      <3> DEFINE j == i - (generation + 1 - head)
      <3>1. j \in 1 .. n /\ head - j = generation + 1 - i
        BY <1>1, <1>2, <1>5, <2>2
      <3>2. Entry(i) = d.past[j]
        BY <2>2
      <3> QED  BY <1>1, <3>1, <3>2
    <2> QED  BY <2>1, <2>2
  <1>7. ASSUME NEW i \in 1 .. k
        PROVE  Entry(i) \in {Used} \cup {<<secret, g>> : g \in Nat}
    <2>1. generation + 1 - i \in Nat
      BY <1>5
    <2> HIDE DEF Entry
    <2> QED  BY <1>6, <2>1
  <1> HIDE DEF Entry
  <1>8. past \in [1 .. k -> {Used} \cup {<<secret, g>> : g \in Nat}]
    BY <1>7
  <1>9. past \in Seq({Used} \cup {<<secret, g>> : g \in Nat}) /\ Len(past) = k
    BY <1>5, <1>8
  <1>10. \A i \in 1 .. k : past[i] \in {Used, <<secret, generation + 1 - i>>}
    BY <1>6
  <1>11. Window(e, tolerance)
    <2>1. e = [head |-> e.head, past |-> e.past]
      BY <1>3, <1>4
    <2> HIDE DEF past, k, e
    <2> QED  BY <1>4, <1>5, <1>8, <1>9, <1>10, <2>1 DEF Window
  <1>12. k > 0 => past[1] = Used
    BY <1>5 DEF Entry
  <1> HIDE DEF past, k
  <1> QED  BY <1>4, <1>9, <1>11, <1>12

\* Taking a key leaves the others where they are.
LEMMA TakeKeepsWindow ==
  ASSUME NEW d, NEW tolerance \in Nat, NEW generation \in Nat,
         Window(d, tolerance), generation < d.head.generation,
         d.head.generation - generation <= Len(d.past)
  PROVE  /\ Window(Take(d, generation), tolerance)
         /\ Take(d, generation).head = d.head
         /\ Len(Take(d, generation).past) = Len(d.past)
         /\ Take(d, generation).past[d.head.generation - generation] = Used
  <1> DEFINE head == d.head.generation
             secret == d.head.secret
             at == head - generation
             e == Take(d, generation)
             Keys == {Used} \cup {<<secret, g>> : g \in Nat}
  <1>1. PICK n \in Nat :
          /\ n <= tolerance
          /\ n <= head
          /\ d.past \in [1 .. n -> Keys]
          /\ Len(d.past) = n
          /\ \A i \in 1 .. n : d.past[i] \in {Used, <<secret, head - i>>}
    BY DEF Window
  <1>2. head \in Nat /\ d.head = [secret |-> secret, generation |-> head]
    BY DEF Window
  <1>3. /\ e.head = d.head
        /\ e.past = [d.past EXCEPT ![at] = Used]
        /\ e = [head |-> e.head, past |-> e.past]
    BY DEF Take
  <1>4. at \in 1 .. n
    BY <1>1, <1>2
  <1>5. e.past \in [1 .. n -> Keys] /\ e.past[at] = Used
    BY <1>1, <1>3, <1>4
  <1>6. Len(e.past) = n
    BY <1>5
  <1>7. \A i \in 1 .. n : e.past[i] \in {Used, <<secret, head - i>>}
    BY <1>1, <1>3, <1>4
  <1>8. Window(e, tolerance)
    <2>1. e.head.generation = head /\ e.head.secret = secret
      BY <1>3
    <2>2. e.head = [secret |-> secret, generation |-> head]
      BY <1>2, <1>3
    <2>3. e = [head |-> e.head, past |-> e.past]
      BY <1>3
    <2> HIDE DEF e, head, secret
    <2> QED  BY <1>1, <1>2, <1>5, <1>6, <1>7, <2>1, <2>2, <2>3 DEF Window
  <1> QED  BY <1>1, <1>3, <1>5, <1>6, <1>8

\* The window stays in order, and a generation is decrypted at most once: a
\* message which arrives twice fails, it does not reuse its key.
THEOREM KeyOnce ==
  ASSUME NEW d, NEW tolerance \in Nat, NEW forward \in Nat, NEW generation \in Nat,
         Window(d, tolerance),
         CanDecrypt(d, generation, forward, tolerance)
  PROVE  /\ Window(AfterDecryption(d, generation, tolerance), tolerance)
         /\ AfterDecryption(d, generation, tolerance).head.secret = d.head.secret
         /\ ~CanDecrypt(AfterDecryption(d, generation, tolerance),
                        generation, forward, tolerance)
  <1>0. d.head.generation \in Nat
    BY DEF Window
  <1>1. CASE generation >= d.head.generation
    <2>1. AfterDecryption(d, generation, tolerance) = Skip(d, generation, tolerance)
      BY <1>1 DEF AfterDecryption
    <2> QED  BY <1>0, <1>1, <2>1, SkipKeepsWindow DEF CanDecrypt
  <1>2. CASE ~(generation >= d.head.generation)
    <2>1. AfterDecryption(d, generation, tolerance) = Take(d, generation)
      BY <1>2 DEF AfterDecryption
    <2>2. generation < d.head.generation /\ d.head.generation - generation <= Len(d.past)
      BY <1>0, <1>2 DEF CanDecrypt
    <2> QED  BY <1>0, <2>1, <2>2, TakeKeepsWindow DEF CanDecrypt
  <1> QED  BY <1>1, <1>2
=============================================================================
