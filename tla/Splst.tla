------------------------------- MODULE Splst --------------------------------
(* The singly linked lists of container.h: a list is its head and the next    *)
(* pointer of every element; what is not an element ends it, like NULL.       *)

\* S holds x, if x is an element, and the next of each of its elements.
Holds(nxt, x, S) ==
    /\ x \in DOMAIN nxt => x \in S
    /\ \A b \in S : nxt[b] \in DOMAIN nxt => nxt[b] \in S

\* The elements that for_splst_each visits from x on: those in every set that
\* is closed in this sense.
Reach(nxt, x) == {a \in DOMAIN nxt : \A S \in SUBSET DOMAIN nxt : Holds(nxt, x, S) => a \in S}

\* splst_del: the pointer to a, if the walk from x meets one, skips it.
Unlinked(nxt, x, a) ==
    [b \in DOMAIN nxt |-> IF b \in Reach(nxt, x) /\ nxt[b] = a THEN nxt[a] ELSE nxt[b]]
=============================================================================
