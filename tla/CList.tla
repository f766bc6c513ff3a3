-------------------------------- MODULE CList -------------------------------
(* list_t of ohstl (clist.c): a ring of nodes with pre and next pointers and  *)
(* a guard, which is the end of the list. An iterator is a node's address;    *)
(* the guard is 0. The functions with a loop take a step for each round.      *)
EXTENDS Integers, Sequences, FiniteSets, SequencesExt
CONSTANTS ListVals, MaxNodes, SizeT

\* SizeT stands for 2^64, the range of size_t.
ASSUME ListAssumption == MaxNodes \in Nat /\ SizeT \in Nat /\ SizeT > 4 * MaxNodes

VARIABLES lst,     \* the list
          walk,    \* the call under way that has a loop
          listseq  \* a sequence of iterators and their values that takes the same calls

listvars == <<lst, walk, listseq>>

ListRef == INSTANCE SeqSpec WITH q <- listseq

Guard == 0
Unused == <<>>
ListNodes == 1..MaxNodes

list_init ==
    [size |-> 0,
     next |-> [n \in 0..MaxNodes |-> Guard],
     pre  |-> [n \in 0..MaxNodes |-> Guard],
     data |-> [n \in ListNodes |-> Unused]]

FreeNodes == {n \in ListNodes : lst.data[n] = Unused}
UsedNodes == ListNodes \ FreeNodes

\* The node after the new one keeps its pre pointer.
HalfLinked(l, n, p, v) ==
    LET l1 == [l EXCEPT !.pre[n] = p, !.next[n] = l.next[p]]
    IN  [l1 EXCEPT !.next[p] = n, !.data[n] = <<v>>, !.size = @ + 1]

\* n is the node that was allocated.
list_append_node(l, n, p, v) ==
    LET l1 == [l EXCEPT !.pre[n] = p, !.next[n] = l.next[p]]
        l2 == [l1 EXCEPT !.pre[l1.next[n]] = n]
    IN  [l2 EXCEPT !.next[l2.pre[n]] = n, !.data[n] = <<v>>, !.size = @ + 1]

list_erase_node(l, n) ==
    LET l1 == [l EXCEPT !.next[l.pre[n]] = l.next[n]]
        l2 == [l1 EXCEPT !.pre[l1.next[n]] = l1.pre[n]]
    IN  [l2 EXCEPT !.size = @ - 1, !.data[n] = Unused, !.next[n] = Guard, !.pre[n] = Guard]

list_value(l, n) == l.data[n][1]
list_front(l) == list_value(l, l.next[Guard])
list_back(l) == list_value(l, l.pre[Guard])

list_begin(l) == l.next[Guard]
list_end == Guard
-----------------------------------------------------------------------------
\* An element of the sequence, and the iterator at position i, which is the end
\* after the last element and the guard before the first.
Elem(n, v) == [node |-> n, val |-> v]
NodeAt(q, i) == IF i \in 1..Len(q) THEN q[i].node ELSE Guard
Pos(n) == CHOOSE i \in 1..Len(listseq) + 1 : NodeAt(listseq, i) = n
Iters == UsedNodes \cup {list_end}

\* A function that was called with from, and to or n, is at node; step is what
\* it has to go or has counted. short tells that it took the short way.
NoWalk == [op |-> "none", from |-> Guard, to |-> Guard, n |-> 0,
           node |-> Guard, step |-> 0, short |-> FALSE]

Change(l) == walk = NoWalk /\ lst' = l /\ UNCHANGED walk

list_push_back(n, v) ==
    /\ Change(list_append_node(lst, n, lst.pre[Guard], v))
    /\ ListRef!Insert(Len(listseq) + 1, Elem(n, v))
list_push_front(n, v) ==
    Change(list_append_node(lst, n, Guard, v)) /\ ListRef!Insert(1, Elem(n, v))

\* Popping an empty list is excluded by the assertion in _list_erase_node.
list_pop_back ==
    /\ lst.size > 0 /\ Change(list_erase_node(lst, lst.pre[Guard]))
    /\ ListRef!Erase(Len(listseq))
list_pop_front ==
    lst.size > 0 /\ Change(list_erase_node(lst, lst.next[Guard])) /\ ListRef!Erase(1)

\* The new node comes after the one of the iterator.
InsertAfter(iter, n, v) ==
    Change(list_append_node(lst, n, iter, v)) /\ ListRef!Insert(Pos(iter), Elem(n, v))

\* iter is an element or the end.
list_insert(iter, n, v) ==
    Change(list_append_node(lst, n, lst.pre[iter], v)) /\ ListRef!Insert(Pos(iter), Elem(n, v))

list_erase(iter) == Change(list_erase_node(lst, iter)) /\ ListRef!Erase(Pos(iter))

list_iter_set_value(iter, v) ==
    Change([lst EXCEPT !.data[iter] = <<v>>]) /\ ListRef!Update(Pos(iter), Elem(iter, v))
-----------------------------------------------------------------------------
Begin(call) == walk = NoWalk /\ walk' = call /\ UNCHANGED <<lst, listseq>>
MoveTo(node, step) ==
    walk' = [walk EXCEPT !.node = node, !.step = step] /\ UNCHANGED <<lst, listseq>>

list_clear == Begin([NoWalk EXCEPT !.op = "clear"])

PopNext ==
    /\ walk.op = "clear" /\ lst.size > 0
    /\ lst' = list_erase_node(lst, lst.next[Guard]) /\ ListRef!Erase(1) /\ UNCHANGED walk

\* From the first element, a step past the middle counts from the other end.
list_iter_next_n(iter, n) ==
    LET short == iter = list_begin(lst) /\ n % SizeT > (lst.size - n) % SizeT
    IN  Begin([NoWalk EXCEPT !.op = "next_n", !.from = iter, !.n = n, !.node = iter,
                             !.step = IF short THEN n - lst.size ELSE n, !.short = short])

\* Forward until the guard, back until the first node.
Hop ==
    /\ walk.op = "next_n"
    /\ \/ walk.step > 0 /\ walk.node # Guard /\ MoveTo(lst.next[walk.node], walk.step - 1)
       \/ walk.step < 0 /\ walk.node # list_begin(lst) /\ MoveTo(lst.pre[walk.node], walk.step + 1)

list_iter_distance(i, j) ==
    Begin([NoWalk EXCEPT !.op = "ahead", !.from = i, !.to = j, !.node = i])

\* First from the one iterator to the other, then the other way.
Target == IF walk.op = "ahead" THEN walk.to ELSE walk.from

Count ==
    /\ walk.op \in {"ahead", "behind"} /\ walk.node \notin {Guard, Target}
    /\ MoveTo(lst.next[walk.node], walk.step + 1)

TurnRound ==
    /\ walk.op = "ahead" /\ walk.node = Guard /\ walk.node # Target
    /\ walk' = [walk EXCEPT !.op = "behind", !.node = walk.to, !.step = 0]
    /\ UNCHANGED <<lst, listseq>>

Hopping ==
    \/ walk.step > 0 /\ walk.node # Guard
    \/ walk.step < 0 /\ walk.node # list_begin(lst)

\* The loop is over and the assertion after it holds.
EndWalk ==
    /\ \/ walk.op = "clear" /\ lst.size = 0
       \/ walk.op = "next_n" /\ ~Hopping /\ walk.step = 0
       \/ walk.op \in {"ahead", "behind"} /\ walk.node = Target
    /\ walk' = NoWalk /\ UNCHANGED <<lst, listseq>>

ListInit == lst = list_init /\ walk = NoWalk /\ ListRef!Empty

ListNext ==
    \/ \E n \in FreeNodes, v \in ListVals :
          \/ list_push_back(n, v) \/ list_push_front(n, v)
          \/ \E iter \in Iters : list_insert(iter, n, v)
    \/ list_pop_back \/ list_pop_front \/ list_clear
    \/ \E iter \in UsedNodes :
          list_erase(iter) \/ \E v \in ListVals : list_iter_set_value(iter, v)
    \/ \E i, j \in Iters : list_iter_next_n(i, Pos(j) - Pos(i)) \/ list_iter_distance(i, j)
    \/ PopNext \/ Hop \/ Count \/ TurnRound \/ EndWalk

ListSpec == ListInit /\ [][ListNext]_listvars
-----------------------------------------------------------------------------
\* A walk of n steps is over at the node that is n positions on.
Arrived ==
    walk.op = "next_n" /\ ~Hopping
      => walk.step = 0 /\ Pos(walk.node) = Pos(walk.from) + walk.n

(* The ring can be walked both ways whatever was inserted and erased: at      *)
(* every node the two pointers are each other's inverse, and the nodes in use *)
(* are the elements, each once, as many as size says. Walking it, next_n      *)
(* arrives after a step of any length that stays in the list, unless it took  *)
(* the short way, and distance gives the difference of the positions,         *)
(* whichever of the two iterators comes first.                                *)
ListWellLinked ==
    /\ \A n \in Iters : lst.pre[lst.next[n]] = n /\ lst.next[lst.pre[n]] = n
    /\ {listseq[i].node : i \in DOMAIN listseq} = UsedNodes
    /\ lst.size = Len(listseq) /\ lst.size = Cardinality(UsedNodes)
    /\ walk.short \/ Arrived
    /\ walk.op = "ahead" /\ walk.node = Target => walk.step = Pos(walk.to) - Pos(walk.from)
    /\ walk.op = "behind" /\ walk.node \in {Guard, Target}
         => walk.node = Target /\ -walk.step = Pos(walk.to) - Pos(walk.from)

(* A step from the first element arrives as well, so that the assertion       *)
(* step == 0 at the end of _list_iter_next_n holds: the shortcut for steps    *)
(* past the middle counts from the other end.                                 *)
NextNReaches == Arrived

(* Read with iterators, the list is a sequence: every operation inserts or    *)
(* erases at the one position it names and leaves the others alone.           *)
ListIsSequence ==
    /\ \A i \in 0..Len(listseq) : lst.next[NodeAt(listseq, i)] = NodeAt(listseq, i + 1)
    /\ \A i \in DOMAIN listseq : lst.data[listseq[i].node] = <<listseq[i].val>>
    /\ lst.size > 0
         => list_front(lst) = Head(listseq).val /\ list_back(lst) = Last(listseq).val
=============================================================================
