------------------------------- MODULE CHeap --------------------------------
(* heap_t of ohstl (cheap.c), a heap in a vector_t: the first element is the  *)
(* least. Fixing it copies elements over each other; the one that moves is    *)
(* kept in the cell behind the last element meanwhile. The loops of the two   *)
(* fix functions take a step for each round.                                  *)
EXTENDS CVector, FiniteSets
CONSTANTS HeapVals, MaxHeap

ASSUME HeapAssumption == HeapVals \subseteq Nat \ {0} /\ MaxHeap \in Nat

VARIABLES hp,       \* the vector of the heap
          fix,      \* the call of a fix function under way and its pos
          hpbag     \* a bag that takes the same calls

hpvars == <<hp, fix, hpbag>>

HeapRef == INSTANCE PrioQueue WITH bag <- hpbag

HeapParent(pos) == (pos - 1) \div 2
HeapLchild(pos) == 2 * pos + 1
NoFix == [dir |-> "none", pos |-> -1]

Scratch == vector_at(hp, hp.size)

heap_fix_up(h, pos) ==
    hp' = vector_copy_elem(h, h.size, pos) /\ fix' = [dir |-> "up", pos |-> pos]
heap_fix_down(h, pos) ==
    hp' = vector_copy_elem(h, h.size, pos) /\ fix' = [dir |-> "down", pos |-> pos]

\* The conditions of the loops, and the child that a round goes to: the right
\* one if it is less than the left.
GoesUp == fix.pos > 0 /\ Scratch < vector_at(hp, HeapParent(fix.pos))

NextChild ==
    LET l == HeapLchild(fix.pos)
    IN  IF l + 1 < hp.size /\ vector_at(hp, l + 1) < vector_at(hp, l) THEN l + 1 ELSE l

GoesDown == HeapLchild(fix.pos) < hp.size /\ ~(Scratch < vector_at(hp, NextChild))

\* The element at to is copied to the position, which moves there.
MoveFrom(to) ==
    /\ hp' = vector_copy_elem(hp, fix.pos, to) /\ fix' = [fix EXCEPT !.pos = to]
    /\ UNCHANGED hpbag

MoveUp == fix.dir = "up" /\ GoesUp /\ MoveFrom(HeapParent(fix.pos))
MoveDown == fix.dir = "down" /\ GoesDown /\ MoveFrom(NextChild)

PutBack ==
    /\ \/ fix.dir = "up" /\ ~GoesUp
       \/ fix.dir = "down" /\ ~GoesDown
    /\ hp' = Trim(vector_copy_elem(hp, fix.pos, hp.size)) /\ fix' = NoFix
    /\ UNCHANGED hpbag
-----------------------------------------------------------------------------
heap_push(e) ==
    /\ fix = NoFix /\ hp.size < MaxHeap
    /\ heap_fix_up(vector_insert_varg(hp, hp.size, e), hp.size)
    /\ HeapRef!Push(e)

\* The first element and the last one swapped, and the last one erased.
WithoutTop == vector_erase(vector_swap_elem(hp, 0, hp.size - 1), hp.size - 1)

\* The last element is put first and stays there.
PopUnfixed ==
    fix = NoFix /\ hp.size > 0 /\ hp' = WithoutTop /\ UNCHANGED fix /\ HeapRef!Pop

\* The assertion excludes an empty heap.
heap_pop ==
    /\ fix = NoFix /\ hp.size > 0
    /\ IF WithoutTop.size > 0 THEN heap_fix_down(WithoutTop, 0)
       ELSE hp' = WithoutTop /\ UNCHANGED fix
    /\ HeapRef!Pop

heap_top == vector_front(hp)

HeapInit == hp = vector_init /\ fix = NoFix /\ HeapRef!Empty

HeapNext ==
    \/ heap_pop \/ \E e \in HeapVals : heap_push(e)
    \/ MoveUp \/ MoveDown \/ PutBack

HeapSpec == HeapInit /\ [][HeapNext]_hpvars
-----------------------------------------------------------------------------
\* The elements, of which one may be on the move.
HeapElem(i) == IF i = fix.pos THEN Scratch ELSE vector_at(hp, i)

(* No element is lost or doubled while elements are copied over each other    *)
(* and the memory is enlarged for the cell behind the last, and between calls *)
(* heap_top is a least element of those pushed and not popped.                *)
HeapIsPrioQueue ==
    /\ \A e \in HeapVals :
          Cardinality({i \in 0..hp.size - 1 : HeapElem(i) = e}) = HeapRef!Copies(e)
    /\ \A i \in 0..hp.size - 1 : HeapElem(i) \in DOMAIN hpbag
    /\ fix = NoFix /\ hp.size > 0 => heap_top = HeapRef!Least
=============================================================================
