------------------------------ MODULE SeqSpec -------------------------------
(* What list_t and vector_t promise: a sequence in which an element can be    *)
(* inserted, replaced and erased at any position.                             *)
EXTENDS Integers, Sequences, SequencesExt
VARIABLE q

Insert(i, e) == q' = InsertAt(q, i, e)
Erase(i) == q' = RemoveAt(q, i)
Update(i, e) == q' = [q EXCEPT ![i] = e]
Swap(i, j) == q' = [q EXCEPT ![i] = q[j], ![j] = q[i]]
Clear == q' = <<>>
Empty == q = <<>>
=============================================================================
