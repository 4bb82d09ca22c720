------------------------------ MODULE ByteFifo ------------------------------
(***************************************************************************)
(* What the ring buffer promises: a queue of bytes that come out once, in  *)
(* the order they went in, never more than Capacity of them at a time.     *)
(***************************************************************************)
EXTENDS Integers, Sequences

CONSTANTS Capacity, Modulus

VARIABLES queue, sent, got

vars == <<queue, sent, got>>

Init == queue = << >> /\ sent = 0 /\ got = 0

Stream(first, n) == [k \in 1 .. n |-> (first + k - 1) % Modulus]

\* n more bytes of the stream are added.
Put ==
    /\ \E n \in 1 .. Capacity - Len(queue) :
         /\ queue' = queue \o Stream(sent, n)
         /\ sent' = (sent + n) % Modulus
    /\ UNCHANGED got

\* The n oldest bytes are taken, and they are the next n of the stream.
Get ==
    /\ \E n \in 1 .. Len(queue) :
         /\ SubSeq(queue, 1, n) = Stream(got, n)
         /\ queue' = SubSeq(queue, n + 1, Len(queue))
         /\ got' = (got + n) % Modulus
    /\ UNCHANGED sent

Next == Put \/ Get

Spec == Init /\ [][Next]_vars
=============================================================================
