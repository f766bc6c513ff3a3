------------------------------ MODULE CVector -------------------------------
(* vector_t of ohstl (cvector.c): capacity cells of memory, of which the      *)
(* first size hold the elements. Cells are numbered from 0, as pos is. What   *)
(* is in a cell past the elements is never to be seen: it is Junk after every *)
(* operation.                                                                 *)
EXTENDS Integers, Sequences, SequencesExt, Splst
CONSTANTS VecVals, MaxSize, InitCapacity, TypeSize, VecSizeT, VecInt

ASSUME VecAssumption ==
    /\ VecVals \subseteq Nat \ {0} /\ MaxSize \in Nat /\ InitCapacity \in Nat \ {0}
    /\ TypeSize \in Nat \ {0}
    \* They stand for 2^64 and 2^32, the ranges of size_t and int.
    /\ VecInt \in Nat /\ 2 * MaxSize < VecInt /\ VecSizeT \in Nat \ {0}
    \* An element smaller than 2^32 whose size divides 2^64 has a power of two.
    /\ VecSizeT % TypeSize = 0 => VecSizeT % (TypeSize * VecInt) = 0

VARIABLES vec,    \* the vector
          vecseq  \* a sequence that takes the same calls

vecvars == <<vec, vecseq>>

VecRef == INSTANCE SeqSpec WITH q <- vecseq

Junk == 0

vector_init ==
    [size |-> 0, capacity |-> InitCapacity, data |-> [i \in 0..InitCapacity - 1 |-> Junk]]

\* realloc keeps the cells there are.
Realloc(v, cap) ==
    [v EXCEPT !.capacity = cap,
              !.data = [i \in 0..cap - 1 |-> IF i < v.capacity THEN v.data[i] ELSE Junk]]

\* The loop goes from capacity c to 2 * c while c is less than newcap; the
\* memory is reallocated when it has ended.
vector_reserve(v, newcap) ==
    LET doubled == [c \in 1..newcap - 1 |-> 2 * c]
    IN  IF v.capacity >= newcap THEN v
        ELSE Realloc(v, 2 * CHOOSE c \in Reach(doubled, v.capacity) : 2 * c >= newcap)

\* memmove of n cells; a cell outside the memory is not written.
Move(v, to, from, n) ==
    [v EXCEPT !.data = [i \in DOMAIN v.data |->
        IF i \in to..to + n - 1 THEN v.data[i - to + from] ELSE v.data[i]]]

Trim(v) == [v EXCEPT !.data = [i \in DOMAIN v.data |-> IF i < v.size THEN v.data[i] ELSE Junk]]

\* Room for one element more than there are is not made.
InsertInPlace(v, pos, e) ==
    LET v1 == Move(v, pos + 1, pos, v.size - pos)
    IN  Trim([v1 EXCEPT !.data[pos] = e, !.size = @ + 1])

vector_insert_varg(v, pos, e) ==
    LET v1 == vector_reserve(v, v.size + 1)
        v2 == Move(v1, pos + 1, pos, v1.size - pos)
    IN  Trim([v2 EXCEPT !.data[pos] = e, !.size = @ + 1])

vector_erase(v, pos) ==
    Trim(Move([v EXCEPT !.size = @ - 1], pos, pos + 1, v.size - 1 - pos))

\* The cell behind the last element is the scratch cell of a swap.
vector_swap_elem(v, p1, p2) ==
    LET v1 == vector_reserve(v, v.size + 1)
    IN  Move(Move(Move(v1, v.size, p1, 1), p1, p2, 1), p2, v.size, 1)

vector_copy_elem(v, p1, p2) == Move(vector_reserve(v, v.size + 1), p1, p2, 1)

vector_at(v, pos) == v.data[pos]
vector_front(v) == vector_at(v, 0)
vector_back(v) == vector_at(v, v.size - 1)

\* Of iterators at the cells i and j: the difference of the addresses is taken
\* as a size_t, divided, and returned as an int.
vector_iter_distance(i, j) ==
    LET dist == (((j - i) * TypeSize) % VecSizeT) \div TypeSize
    IN  ((dist + VecInt \div 2) % VecInt) - (VecInt \div 2)
-----------------------------------------------------------------------------
vector_push_back(e) ==
    /\ vec.size < MaxSize /\ vec' = vector_insert_varg(vec, vec.size, e)
    /\ VecRef!Insert(vec.size + 1, e)
vector_insert_pos(pos, e) ==
    /\ vec.size < MaxSize /\ vec' = vector_insert_varg(vec, pos, e)
    /\ VecRef!Insert(pos + 1, e)
\* Popping an empty vector is not caught and left to the caller.
vector_pop_back == vec.size > 0 /\ vec' = vector_erase(vec, vec.size - 1) /\ VecRef!Erase(vec.size)
vector_erase_pos(pos) == vec' = vector_erase(vec, pos) /\ VecRef!Erase(pos + 1)
vector_update(pos, e) == vec' = [vec EXCEPT !.data[pos] = e] /\ VecRef!Update(pos + 1, e)
ReserveMore == vec.size < MaxSize /\ vec' = vector_reserve(vec, vec.size + 2) /\ UNCHANGED vecseq
SwapElems(p1, p2) == vec' = Trim(vector_swap_elem(vec, p1, p2)) /\ VecRef!Swap(p1 + 1, p2 + 1)
CopyElem(p1, p2) ==
    vec' = Trim(vector_copy_elem(vec, p1, p2)) /\ VecRef!Update(p1 + 1, vecseq[p2 + 1])

\* The last element is popped until there is none.
vector_clear == vec' = Trim([vec EXCEPT !.size = 0]) /\ VecRef!Clear

VecInit == vec = vector_init /\ VecRef!Empty

VecNext ==
    \/ \E e \in VecVals : vector_push_back(e) \/ \E p \in 0..vec.size : vector_insert_pos(p, e)
    \/ vector_pop_back \/ vector_clear \/ ReserveMore
    \/ \E p \in 0..vec.size - 1 :
          \/ vector_erase_pos(p) \/ \E e \in VecVals : vector_update(p, e)
          \/ \E r \in 0..vec.size - 1 : SwapElems(p, r) \/ CopyElem(p, r)

VecSpec == VecInit /\ [][VecNext]_vecvars
-----------------------------------------------------------------------------
(* Read with vector_at or iterators, the vector is a sequence, whatever its   *)
(* capacity is when an operation moves elements: an insertion that fills or   *)
(* exceeds the memory loses none, an erasure closes the gap, a swap or a copy *)
(* through the scratch cell behind the last element harms no other element.   *)
(* The distance of two iterators is right both ways, negative ones too, for   *)
(* elements of a size that divides the range of size_t.                       *)
VecIsSequence ==
    /\ vec.size <= vec.capacity
    /\ [i \in 1..vec.size |-> vector_at(vec, i - 1)] = vecseq
    /\ vec.size > 0 => vector_front(vec) = Head(vecseq) /\ vector_back(vec) = Last(vecseq)
    /\ VecSizeT % TypeSize = 0 =>
          \A i, j \in 0..vec.size : vector_iter_distance(i, j) = j - i
=============================================================================
