------------------------------- MODULE RBTree -------------------------------
(* The red-black tree of ohstl (rbtree.c) under set_t (cset.c) and map_t      *)
(* (cmap.c). Nodes are addresses with left, right and parent pointers, as in  *)
(* the C structure, so that a forgotten back pointer is visible; 0 is NULL.   *)
(* The code is written twice, once for each side; here the side is a          *)
(* parameter. An element is a pair of a key and a value; a set's elements are *)
(* their own values, and only keys are compared. SetKeys and MapKeys are the   *)
(* keys that are inserted.                                                     *)
EXTENDS Integers, Sequences, FiniteSets, FiniteSetsExt
CONSTANTS Keys, SetKeys, MapKeys, Vals

ASSUME KeysAssumption ==
    IsFiniteSet(Keys) /\ Keys \subseteq Int /\ SetKeys \cup MapKeys \subseteq Keys

VARIABLES rbt,   \* the tree
          ideal  \* a map that takes the same calls

rbtvars == <<rbt, ideal>>

Reference == INSTANCE Dict WITH dict <- ideal

NULL == 0
Nodes == 1..Cardinality(Keys)
NoData == <<>>
Other(d) == IF d = "left" THEN "right" ELSE "left"

\* set_t compares and stores its elements; map_t compares the keys of pairs.
rbt_init(comp_val) ==
    [comp_val |-> comp_val, size |-> 0, root |-> NULL,
     child  |-> [d \in {"left", "right"} |-> [n \in Nodes |-> NULL]],
     parent |-> [n \in Nodes |-> NULL],
     red    |-> {},
     data   |-> [n \in Nodes |-> NoData]]

IsRed(t, n) == n \in t.red

Live(t) == {n \in Nodes : t.data[n] # NoData}

\* The address malloc returns. No property depends on which free address it
\* is; this choice keeps the number of equivalent trees small.
NewAddress(t, k) ==
    LET free == Nodes \ Live(t)
        own  == Cardinality({x \in Keys : x <= k})
    IN  IF own \in free THEN own ELSE Min(free)

\* Make new the child of p in the place of old, or the root if there is no p.
Relink(t, p, old, new) ==
    IF p = NULL THEN [t EXCEPT !.root = new]
    ELSE [t EXCEPT !.child[IF t.child["left"][p] = old THEN "left" ELSE "right"][p] = new]

SetParent(t, n, p) == IF n = NULL THEN t ELSE [t EXCEPT !.parent[n] = p]

\* _rbt_left_rotate is Rotate(t, n, "left"), _rbt_right_rotate the other.
Rotate(t, n, d) ==
    LET up   == t.child[Other(d)][n]
        mid  == t.child[d][up]
        p    == t.parent[n]
        t1   == SetParent([t EXCEPT !.child[Other(d)][n] = mid], mid, n)
        t2   == Relink(SetParent(t1, up, p), p, n, up)
    IN  SetParent([t2 EXCEPT !.child[d][up] = n], n, up)

RECURSIVE Extreme(_, _, _)
\* _rbt_tree_minimum ("left") and _rbt_tree_maximum ("right").
Extreme(t, n, d) == IF t.child[d][n] = NULL THEN n ELSE Extreme(t, t.child[d][n], d)

RECURSIVE Climb(_, _, _)
Climb(t, n, d) ==
    LET p == t.parent[n]
    IN  IF p # NULL /\ n = t.child[d][p] THEN Climb(t, p, d) ELSE p

rbt_tree_predecessor(t, n) ==
    IF t.child["left"][n] # NULL THEN Extreme(t, t.child["left"][n], "right")
    ELSE Climb(t, n, "left")

rbt_tree_successor(t, n) ==
    IF t.child["right"][n] # NULL THEN Extreme(t, t.child["right"][n], "left")
    ELSE Climb(t, n, "right")

RECURSIVE FindFrom(_, _, _, _)
FindFrom(t, n, p, k) ==
    IF n = NULL \/ t.data[n][1] = k THEN [node |-> n, parent |-> p]
    ELSE FindFrom(t, t.child[IF k < t.data[n][1] THEN "left" ELSE "right"][n], n, k)

rbt_find_val(t, k) == FindFrom(t, t.root, NULL, k)
-----------------------------------------------------------------------------
RECURSIVE rbt_insert_node_fixup(_, _)
rbt_insert_node_fixup(t, z) ==
    IF ~IsRed(t, t.parent[z]) THEN [t EXCEPT !.red = @ \ {t.root}]
    ELSE
    LET p == t.parent[z]
        g == t.parent[p]
        d == IF p = t.child["left"][g] THEN "left" ELSE "right"
        u == t.child[Other(d)][g]
    IN  IF IsRed(t, u)
        THEN rbt_insert_node_fixup([t EXCEPT !.red = (@ \ {p, u}) \cup {g}], g)
        ELSE LET inner == z = t.child[Other(d)][p]
                 t1 == IF inner THEN Rotate(t, p, d) ELSE t
                 z1 == IF inner THEN p ELSE z
                 t2 == [t1 EXCEPT !.red = (@ \ {t1.parent[z1]}) \cup {g}]
             IN  rbt_insert_node_fixup(Rotate(t2, g, Other(d)), z1)

rbt_insert_val(t, e) ==
    LET found == rbt_find_val(t, e[1])
        p == found.parent
        n == NewAddress(t, e[1])
        t1 == [t EXCEPT !.size = @ + 1, !.red = @ \cup {n}, !.data[n] = e,
                        !.parent[n] = p]
        t2 == IF p = NULL THEN [t1 EXCEPT !.root = n]
              ELSE [t1 EXCEPT !.child[IF e[1] < t.data[p][1] THEN "left" ELSE "right"][p] = n]
    IN  IF found.node # NULL THEN [t EXCEPT !.data[found.node] = e]
        ELSE rbt_insert_node_fixup(t2, n)

RECURSIVE rbt_erase_node_fixup(_, _, _)
rbt_erase_node_fixup(t, z, p) ==
    IF z = t.root \/ IsRed(t, z) THEN [t EXCEPT !.red = @ \ {z}]
    ELSE
    LET d  == IF z = t.child["left"][p] THEN "left" ELSE "right"
        o  == Other(d)
        b0 == t.child[o][p]
        t1 == IF IsRed(t, b0)
              THEN Rotate([t EXCEPT !.red = (@ \ {b0}) \cup {p}], p, d) ELSE t
        b1 == t1.child[o][p]
        near == t1.child[d][b1]
        far  == t1.child[o][b1]
    IN  IF ~IsRed(t1, near) /\ ~IsRed(t1, far)
        THEN rbt_erase_node_fixup([t1 EXCEPT !.red = @ \cup {b1}], p, t1.parent[p])
        ELSE LET t2 == IF ~IsRed(t1, far)
                       THEN Rotate([t1 EXCEPT !.red = (@ \ {near}) \cup {b1}], b1, o)
                       ELSE t1
                 b2 == t2.child[o][p]
                 red3 == (IF IsRed(t2, p) THEN t2.red \cup {b2} ELSE t2.red \ {b2})
                             \ {p, t2.child[o][b2]}
                 t3 == Rotate([t2 EXCEPT !.red = red3], p, d)
             IN  [t3 EXCEPT !.red = @ \ {t3.root}]

rbt_free_treenode(t, n) ==
    [t EXCEPT !.size = @ - 1, !.data[n] = NoData, !.parent[n] = NULL, !.red = @ \ {n},
              !.child["left"][n] = NULL, !.child["right"][n] = NULL]

\* Variants of rbt_erase_node: the tree is not fixed up; the successor's element
\* is not copied into the node that stays.
NoFixup(t, node) ==
    LET del == IF t.child["left"][node] = NULL \/ t.child["right"][node] = NULL
               THEN node ELSE rbt_tree_successor(t, node)
        l   == t.child["left"][del]
        sub == IF l # NULL THEN l ELSE t.child["right"][del]
        t1  == Relink(SetParent(t, sub, t.parent[del]), t.parent[del], del, sub)
    IN  rbt_free_treenode([t1 EXCEPT !.data[node] = t.data[del]], del)

NoCopy(t, node) ==
    LET kept == NoFixup(t, node)
    IN  [kept EXCEPT !.data = [n \in Nodes |-> IF n \in Live(kept) THEN t.data[n] ELSE NoData]]

rbt_erase_node(t, node) ==
    LET del == IF t.child["left"][node] = NULL \/ t.child["right"][node] = NULL
               THEN node ELSE rbt_tree_successor(t, node)
        l   == t.child["left"][del]
        sub == IF l # NULL THEN l ELSE t.child["right"][del]
        t1  == Relink(SetParent(t, sub, t.parent[del]), t.parent[del], del, sub)
        t2  == [t1 EXCEPT !.data[node] = t.data[del]]
        t3  == IF IsRed(t, del) THEN t2 ELSE rbt_erase_node_fixup(t2, sub, t.parent[del])
    IN  rbt_free_treenode(t3, del)

rbt_erase_val(t, k) ==
    LET node == rbt_find_val(t, k).node
    IN  IF node = NULL THEN t ELSE rbt_erase_node(t, node)
-----------------------------------------------------------------------------
set_insert(k) == rbt.comp_val /\ rbt' = rbt_insert_val(rbt, <<k, k>>) /\ Reference!Put(k, k)
set_erase_val(k) == rbt.comp_val /\ rbt' = rbt_erase_val(rbt, k) /\ Reference!Drop(k)
\* The iterator is one that set_find returned, and not the end.
set_erase(n) ==
    rbt.comp_val /\ rbt' = rbt_erase_node(rbt, n) /\ Reference!Drop(rbt.data[n][1])
set_clear == rbt.comp_val /\ rbt' = rbt_init(TRUE) /\ Reference!DropAll

map_insert(k, v) == ~rbt.comp_val /\ rbt' = rbt_insert_val(rbt, <<k, v>>) /\ Reference!Put(k, v)
map_erase_val(k) == ~rbt.comp_val /\ rbt' = rbt_erase_val(rbt, k) /\ Reference!Drop(k)
\* map_erase of the end iterator does nothing.
map_erase(n) ==
    ~rbt.comp_val /\ rbt' = rbt_erase_node(rbt, n) /\ Reference!Drop(rbt.data[n][1])
map_clear == ~rbt.comp_val /\ rbt' = rbt_init(FALSE) /\ Reference!DropAll

RbtInit == rbt \in {rbt_init(TRUE), rbt_init(FALSE)} /\ Reference!Empty

RbtNext ==
    \/ \E k \in SetKeys : set_insert(k)
    \/ \E k \in MapKeys, v \in Vals : map_insert(k, v)
    \/ \E k \in Keys : set_erase_val(k) \/ map_erase_val(k)
    \/ \E n \in Live(rbt) : set_erase(n) \/ map_erase(n)
    \/ set_clear \/ map_clear

RbtSpec == RbtInit /\ [][RbtNext]_rbtvars
-----------------------------------------------------------------------------
RECURSIVE IsVaildDfs(_, _)
\* The black height under n, or -1 if a red node has a red child, a child is on
\* the wrong side of its parent, or two paths differ in black nodes.
IsVaildDfs(t, n) ==
    IF n = NULL THEN 1
    ELSE LET l == t.child["left"][n]
             r == t.child["right"][n]
             hl == IsVaildDfs(t, l)
             hr == IsVaildDfs(t, r)
         IN  IF \/ IsRed(t, n) /\ (IsRed(t, l) \/ IsRed(t, r))
                \/ l # NULL /\ ~(t.data[l][1] < t.data[n][1])
                \/ r # NULL /\ ~(t.data[n][1] < t.data[r][1])
                \/ hl = -1 \/ hl # hr
             THEN -1 ELSE hl + (IF IsRed(t, n) THEN 0 ELSE 1)

rbt_is_vaild(t) == ~IsRed(t, t.root) /\ IsVaildDfs(t, t.root) # -1

rbt_begin_node(t) == IF t.size = 0 THEN NULL ELSE Extreme(t, t.root, "left")

\* NULL stands for the guard, at which an iterator is at the end; it is not moved
\* on from there, nor back from there, which the code does not catch.
rbt_iter_next(t, n) == IF n = NULL THEN NULL ELSE rbt_tree_successor(t, n)
rbt_iter_pre(t, n) == IF n = NULL THEN NULL ELSE rbt_tree_predecessor(t, n)

RECURSIVE iter_advance(_, _, _)
iter_advance(t, n, step) ==
    CASE step > 0 -> iter_advance(t, rbt_iter_next(t, n), step - 1)
      [] step < 0 -> iter_advance(t, rbt_iter_pre(t, n), step + 1)
      [] OTHER -> n

rbt_iter_next_n(t, n, step) == iter_advance(t, n, step)

(* After every insertion and erasure the assertion of the code holds, and     *)
(* what it leaves out: an iterator that starts at begin visits every node     *)
(* once and then is at the end, keys ascending over the whole tree and not    *)
(* only between a node and its children, and a move back by as many steps     *)
(* leads to begin again.                                                      *)
TreeValid ==
    LET begin == rbt_begin_node(rbt)
        walk  == [i \in 1..rbt.size |-> rbt_iter_next_n(rbt, begin, i - 1)]
    IN  /\ rbt_is_vaild(rbt)
        /\ rbt.size = Cardinality(Live(rbt)) /\ rbt_iter_next_n(rbt, begin, rbt.size) = NULL
        /\ {walk[i] : i \in DOMAIN walk} = Live(rbt)
        /\ \A i \in 1..rbt.size - 1 : rbt.data[walk[i]][1] < rbt.data[walk[i + 1]][1]
        /\ \A i \in 1..rbt.size : rbt_iter_next_n(rbt, walk[i], 1 - i) = begin

\* Lookups, of sets and of maps.
set_count(t, k) == IF rbt_find_val(t, k).node # NULL THEN 1 ELSE 0
set_find(t, k) == rbt_find_val(t, k).node
map_find(t, k) == rbt_find_val(t, k).node
map_at(t, k) == t.data[map_find(t, k)][2]

(* Whatever the rotations, colours and copies of elements between nodes do,   *)
(* lookups see a plain map: an insertion changes the one key, an erasure by   *)
(* key or by iterator removes the one key.                                    *)
RbtIsDict ==
    \A k \in Keys :
        /\ set_count(rbt, k) = (IF k \in DOMAIN ideal THEN 1 ELSE 0)
        /\ k \in DOMAIN ideal => map_at(rbt, k) = ideal[k] /\ rbt.data[set_find(rbt, k)][1] = k
=============================================================================
