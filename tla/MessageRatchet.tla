--------------------------- MODULE MessageRatchet ---------------------------
(***************************************************************************)
(* The message ratchets of the message encryption scheme: one key per      *)
(* message, derived from an update secret, and a receiver which tolerates  *)
(* lost messages and messages out of order within limits.  The key of      *)
(* generation g is <<secret, g>>.                                          *)
(***************************************************************************)
EXTENDS Integers, Sequences

CONSTANT MaxGeneration   \* the largest generation number, 2^32 - 1 in the code

Used == <<>>

InitRatchet(secret) == [secret |-> secret, generation |-> 0]

KeyMaterial(r) == <<r.secret, r.generation>>

RatchetForward(r) == [r EXCEPT !.generation = @ + 1]

\* past[i] is the key of the i-th generation before the head, or Used.
InitDecryption(secret) == [head |-> InitRatchet(secret), past |-> <<>>]

TooDistantInTheFuture(d, generation, forward) ==
  /\ d.head.generation < MaxGeneration - forward
  /\ generation > d.head.generation + forward

TooDistantInThePast(d, generation, tolerance) == d.head.generation - generation > tolerance

\* Keys which were skipped stay until they are used, or fall out of the
\* window.
Skip(d, generation, tolerance) ==
  LET head == d.head.generation
      kept == generation + 1 - head + Len(d.past)
  IN  [head |-> [d.head EXCEPT !.generation = generation + 1],
       past |-> [i \in 1 .. (IF kept < tolerance THEN kept ELSE tolerance) |->
                   IF i = 1 THEN Used
                   ELSE IF i <= generation + 1 - head THEN <<d.head.secret, generation + 1 - i>>
                   ELSE d.past[i - (generation + 1 - head)]]]

Take(d, generation) ==
  [head |-> d.head, past |-> [d.past EXCEPT ![d.head.generation - generation] = Used]]

CanDecrypt(d, generation, forward, tolerance) ==
  /\ ~TooDistantInTheFuture(d, generation, forward)
  /\ ~TooDistantInThePast(d, generation, tolerance)
  /\ \/ generation >= d.head.generation
     \/ /\ d.head.generation - generation <= Len(d.past)
        /\ d.past[d.head.generation - generation] # Used

SecretForDecryption(d, generation) ==
  IF generation >= d.head.generation
  THEN <<d.head.secret, generation>>
  ELSE d.past[d.head.generation - generation]

AfterDecryption(d, generation, tolerance) ==
  IF generation >= d.head.generation THEN Skip(d, generation, tolerance) ELSE Take(d, generation)
=============================================================================
