------------------------------ MODULE ByteFifo ------------------------------
(* What ohbuffer promises: a queue of bytes. Bytes are written at the end and *)
(* leave from the front, in order; a read or a peek returns the bytes at the  *)
(* front, as many as there are if it asks for more.                           *)
EXTENDS Integers, Sequences
VARIABLES q, got

Front(n) == SubSeq(q, 1, IF n < Len(q) THEN n ELSE Len(q))
Put(src) == got' = <<>> /\ q' = q \o src
Look(n) == got' = Front(n) /\ q' = q
Take(n) == got' = Front(n) /\ q' = SubSeq(q, n + 1, Len(q))
Reset == got' = <<>> /\ q' = <<>>
Empty == q = <<>> /\ got = <<>>
=============================================================================
