-------------------------- MODULE ContainerProofs ---------------------------
(* The containers of ohstl, for any values and any number of elements.        *)
EXTENDS CVector, CList, CHeap, SplstProofs, SequenceTheorems, FiniteSetTheorems,
        WellFoundedInduction, NaturalsInduction, TLAPS

-----------------------------------------------------------------------------
(* Vectors *)

\* A vector of elements of S: they are in its memory.
Vector(v, S) ==
    /\ DOMAIN v = {"size", "capacity", "data"}
    /\ v.capacity \in Nat \ {0} /\ v.size \in 0..v.capacity
    /\ v.data \in [0..v.capacity - 1 -> S \cup {Junk}]
    /\ \A i \in 0..v.size - 1 : v.data[i] \in S

\* It holds the elements of q in this order.
Holding(v, q) == Len(q) = v.size /\ \A i \in 1..v.size : v.data[i - 1] = q[i]

VecInv ==
    /\ Vector(vec, VecVals) /\ vec.size <= MaxSize
    /\ vecseq \in Seq(VecVals) /\ Holding(vec, vecseq)

\* w is v with room for newcap elements.
Grown(v, w, newcap, S) ==
    /\ Vector(w, S) /\ w.size = v.size /\ w.capacity >= newcap
    /\ w.capacity >= v.capacity /\ \A i \in 0..v.capacity - 1 : w.data[i] = v.data[i]

(* vector_reserve keeps what is in the memory and makes it large enough.      *)
LEMMA Reserved ==
  ASSUME NEW S, NEW v, Vector(v, S), NEW newcap \in Nat
  PROVE  Grown(v, vector_reserve(v, newcap), newcap, S)
  <1> DEFINE doubled == [c \in 1..newcap - 1 |-> 2 * c]
             w == vector_reserve(v, newcap)
  <1>1. CASE v.capacity >= newcap
    <2>1. w = v
      BY <1>1 DEF vector_reserve
    <2> HIDE DEF w
    <2>2. /\ Vector(w, S) /\ w.size = v.size /\ w.capacity >= newcap
          /\ w.capacity >= v.capacity /\ \A i \in 0..v.capacity - 1 : w.data[i] = v.data[i]
      BY <1>1, <2>1 DEF Vector
    <2> QED
      BY <2>2 DEF w, Grown
  <1>2. CASE ~(v.capacity >= newcap)
    <2> DEFINE cap == 2 * CHOOSE c \in Reach(doubled, v.capacity) : 2 * c >= newcap
    <2>1. \E c \in Reach(doubled, v.capacity) : doubled[c] \notin DOMAIN doubled
      <3>1. /\ v.capacity \in DOMAIN doubled /\ DOMAIN doubled \subseteq 0..newcap
            /\ \A c \in DOMAIN doubled : doubled[c] \in DOMAIN doubled => doubled[c] > c
        BY <1>2 DEF Vector
      <3> HIDE DEF doubled
      <3> QED
        BY <3>1, UpEnds
    <2>2. Reach(doubled, v.capacity) \subseteq 1..newcap - 1
      BY ReachHolds
    <2>3. \E c \in Reach(doubled, v.capacity) : 2 * c >= newcap
      BY <2>1, <2>2
    <2>4. cap \in Nat /\ cap >= newcap /\ cap > v.capacity
      <3> DEFINE c == CHOOSE c \in Reach(doubled, v.capacity) : 2 * c >= newcap
      <3>1. c \in Reach(doubled, v.capacity) /\ 2 * c >= newcap
        BY <2>3
      <3> HIDE DEF c
      <3>2. 2 * c \in Nat /\ 2 * c >= newcap /\ 2 * c > v.capacity
        BY <1>2, <2>2, <3>1 DEF Vector
      <3> QED
        BY <3>2 DEF c
    <2>5. w = Realloc(v, cap)
      BY <1>2 DEF vector_reserve
    <2> HIDE DEF cap, w
    <2>6. /\ DOMAIN w = {"size", "capacity", "data"} /\ w.size = v.size /\ w.capacity = cap
          /\ w.data = [i \in 0..cap - 1 |-> IF i < v.capacity THEN v.data[i] ELSE Junk]
      BY <2>5 DEF Realloc, Vector
    <2>7. \A i \in 0..v.capacity - 1 : w.data[i] = v.data[i]
      BY <2>4, <2>6 DEF Vector
    <2>8. w.data \in [0..cap - 1 -> S \cup {Junk}]
      <3>1. \A i \in 0..cap - 1 : w.data[i] \in S \cup {Junk}
        <4> TAKE i \in 0..cap - 1
        <4>1. CASE i < v.capacity
          BY <2>4, <2>6, <4>1 DEF Vector
        <4>2. CASE ~(i < v.capacity)
          BY <2>4, <2>6, <4>2 DEF Vector
        <4> QED
          BY <4>1, <4>2
      <3> QED
        BY <2>6, <3>1
    <2>9. \A i \in 0..v.size - 1 : w.data[i] \in S
      <3>1. \A i \in 0..v.size - 1 : i \in 0..v.capacity - 1 /\ v.data[i] \in S
        BY DEF Vector
      <3> QED
        BY <2>7, <3>1
    <2>10. Vector(w, S)
      BY <2>4, <2>6, <2>8, <2>9 DEF Vector
    <2>11. /\ Vector(w, S) /\ w.size = v.size /\ w.capacity >= newcap
           /\ w.capacity >= v.capacity /\ \A i \in 0..v.capacity - 1 : w.data[i] = v.data[i]
      BY <2>4, <2>6, <2>7, <2>10 DEF Vector
    <2> QED
      BY <2>11 DEF w, Grown
  <1> QED
    BY <1>1, <1>2

(* The cells past the elements are not to be seen.                            *)
LEMMA Trimmed ==
  ASSUME NEW S, NEW v, Vector(v, S)
  PROVE  LET w == Trim(v)
         IN  /\ Vector(w, S) /\ w.size = v.size /\ w.capacity = v.capacity
             /\ \A i \in 0..v.size - 1 : w.data[i] = v.data[i]
  <1> DEFINE w == Trim(v)
  <1>1. /\ DOMAIN w = {"size", "capacity", "data"} /\ w.size = v.size /\ w.capacity = v.capacity
        /\ w.data = [i \in 0..v.capacity - 1 |-> IF i < v.size THEN v.data[i] ELSE Junk]
    BY DEF Trim, Vector
  <1> HIDE DEF w
  <1>2. \A i \in 0..v.size - 1 : w.data[i] = v.data[i]
    BY <1>1 DEF Vector
  <1>3. w.data \in [0..v.capacity - 1 -> S \cup {Junk}]
    BY <1>1 DEF Vector
  <1>4. Vector(w, S)
    BY <1>1, <1>2, <1>3 DEF Vector
  <1> QED
    BY <1>1, <1>2, <1>4 DEF w

(* An insertion puts the element at pos and the ones from there on one cell   *)
(* further, whether or not the memory had to grow.                            *)
LEMMA VecInserted ==
  ASSUME NEW S, NEW v, Vector(v, S), NEW pos \in 0..v.size, NEW e \in S
  PROVE  LET w == vector_insert_varg(v, pos, e)
         IN  /\ Vector(w, S) /\ w.size = v.size + 1
             /\ \A i \in 0..v.size :
                  w.data[i] = IF i < pos THEN v.data[i] ELSE IF i = pos THEN e ELSE v.data[i - 1]
  <1> DEFINE v1 == vector_reserve(v, v.size + 1)
             v2 == Move(v1, pos + 1, pos, v1.size - pos)
             v3 == [v2 EXCEPT !.data[pos] = e, !.size = @ + 1]
             w  == Trim(v3)
  <1>1. v.size \in Nat /\ v.size + 1 \in Nat
    BY DEF Vector
  <1>2. /\ Vector(v1, S) /\ v1.size = v.size /\ v1.capacity >= v.size + 1
        /\ v1.capacity >= v.capacity /\ \A i \in 0..v.capacity - 1 : v1.data[i] = v.data[i]
    <2>1. Grown(v, v1, v.size + 1, S)
      BY <1>1, Reserved
    <2> QED
      BY <2>1, Zenon DEF Grown
  <1>3. \A i \in 0..v.size - 1 : v1.data[i] = v.data[i]
    BY <1>2 DEF Vector
  <1> HIDE DEF v1
  <1>4. /\ DOMAIN v2 = {"size", "capacity", "data"} /\ v2.size = v.size
        /\ v2.capacity = v1.capacity
        /\ v2.data = [i \in 0..v1.capacity - 1 |->
               IF i \in pos + 1..v.size THEN v1.data[i - 1] ELSE v1.data[i]]
    <2>1. /\ DOMAIN v1 = {"size", "capacity", "data"} /\ DOMAIN v1.data = 0..v1.capacity - 1
      BY <1>2 DEF Vector
    <2>2. pos + 1..pos + 1 + (v1.size - pos) - 1 = pos + 1..v.size
      BY <1>1, <1>2
    <2>3. \A i \in pos + 1..v.size : i - (pos + 1) + pos = i - 1
      BY <1>1
    <2> QED
      BY <1>2, <2>1, <2>2, <2>3 DEF Move
  <1> HIDE DEF v2
  <1>5. /\ DOMAIN v3 = {"size", "capacity", "data"} /\ v3.size = v.size + 1
        /\ v3.capacity = v1.capacity
        /\ v3.data = [v2.data EXCEPT ![pos] = e]
    BY <1>4
  <1> HIDE DEF v3
  <1>6. \A i \in 0..v.size :
           v3.data[i] = IF i < pos THEN v.data[i] ELSE IF i = pos THEN e ELSE v.data[i - 1]
    <2> TAKE i \in 0..v.size
    <2>1. i \in 0..v1.capacity - 1
      BY <1>1, <1>2 DEF Vector
    <2>2. CASE i < pos
      BY <1>1, <1>3, <1>4, <1>5, <2>1, <2>2
    <2>3. CASE i = pos
      BY <1>1, <1>4, <1>5, <2>1, <2>3
    <2>4. CASE i > pos
      BY <1>1, <1>3, <1>4, <1>5, <2>1, <2>4
    <2> QED
      BY <1>1, <2>2, <2>3, <2>4
  <1>7. \A i \in 0..v.size : v3.data[i] \in S
    <2> TAKE i \in 0..v.size
    <2>1. (i < pos => i \in 0..v.size - 1) /\ (~(i < pos) /\ i # pos => i - 1 \in 0..v.size - 1)
      BY <1>1
    <2>2. \A j \in 0..v.size - 1 : v.data[j] \in S
      BY DEF Vector
    <2> QED
      BY <1>6, <2>1, <2>2
  <1>8. v3.data \in [0..v1.capacity - 1 -> S \cup {Junk}]
    <2>1. \A i \in 0..v1.capacity - 1 : v3.data[i] \in S \cup {Junk}
      <3> TAKE i \in 0..v1.capacity - 1
      <3>1. CASE i \in 0..v.size
        BY <1>7, <3>1
      <3>2. CASE i \notin 0..v.size
        <4>1. v3.data[i] = v1.data[i]
          BY <1>1, <1>4, <1>5, <3>2
        <4> QED
          BY <1>2, <4>1 DEF Vector
      <3> QED
        BY <3>1, <3>2
    <2> QED
      BY <1>4, <1>5, <2>1
  <1>9. Vector(v3, S)
    BY <1>1, <1>2, <1>5, <1>7, <1>8 DEF Vector
  <1>10. /\ Vector(w, S) /\ w.size = v3.size /\ w.capacity = v3.capacity
         /\ \A i \in 0..v3.size - 1 : w.data[i] = v3.data[i]
    BY <1>9, Trimmed, Zenon
  <1>11. w = vector_insert_varg(v, pos, e)
    BY DEF vector_insert_varg, v1, v2, v3
  <1> HIDE DEF w
  <1>12. /\ Vector(w, S) /\ w.size = v.size + 1
         /\ \A i \in 0..v.size :
              w.data[i] = IF i < pos THEN v.data[i] ELSE IF i = pos THEN e ELSE v.data[i - 1]
    BY <1>1, <1>5, <1>6, <1>10
  <1> QED
    BY <1>11, <1>12

(* An erasure closes the gap.                                                 *)
LEMMA VecErased ==
  ASSUME NEW S, NEW v, Vector(v, S), NEW pos \in 0..v.size - 1
  PROVE  LET w == vector_erase(v, pos)
         IN  /\ Vector(w, S) /\ w.size = v.size - 1
             /\ \A i \in 0..v.size - 2 :
                  w.data[i] = IF i < pos THEN v.data[i] ELSE v.data[i + 1]
  <1> DEFINE v1 == [v EXCEPT !.size = @ - 1]
             v2 == Move(v1, pos, pos + 1, v.size - 1 - pos)
             w  == Trim(v2)
  <1>1. v.size \in Nat /\ v.size > 0 /\ v.capacity \in Nat /\ v.size <= v.capacity
    BY DEF Vector
  <1>2. /\ DOMAIN v1 = {"size", "capacity", "data"} /\ v1.size = v.size - 1
        /\ v1.capacity = v.capacity /\ v1.data = v.data
    BY DEF Vector
  <1> HIDE DEF v1
  <1>3. /\ DOMAIN v2 = {"size", "capacity", "data"} /\ v2.size = v.size - 1
        /\ v2.capacity = v.capacity
        /\ v2.data = [i \in 0..v.capacity - 1 |->
               IF i \in pos..v.size - 2 THEN v.data[i + 1] ELSE v.data[i]]
    BY <1>1, <1>2 DEF Move, Vector
  <1> HIDE DEF v2
  <1>4. \A i \in 0..v.size - 2 : v2.data[i] = IF i < pos THEN v.data[i] ELSE v.data[i + 1]
    BY <1>1, <1>3
  <1>5. \A i \in 0..v.size - 2 : v2.data[i] \in S
    <2> TAKE i \in 0..v.size - 2
    <2>1. i \in 0..v.size - 1 /\ i + 1 \in 0..v.size - 1
      BY <1>1
    <2>2. v.data[i] \in S /\ v.data[i + 1] \in S
      BY <2>1 DEF Vector
    <2> QED
      BY <1>4, <2>2
  <1>6. v2.data \in [0..v.capacity - 1 -> S \cup {Junk}]
    <2>1. \A i \in 0..v.capacity - 1 : v2.data[i] \in S \cup {Junk}
      <3> TAKE i \in 0..v.capacity - 1
      <3>1. CASE i \in pos..v.size - 2
        BY <1>1, <1>5, <3>1
      <3>2. CASE i \notin pos..v.size - 2
        BY <1>3, <3>2 DEF Vector
      <3> QED
        BY <3>1, <3>2
    <2> QED
      BY <1>3, <2>1
  <1>7. Vector(v2, S)
    BY <1>1, <1>3, <1>5, <1>6 DEF Vector
  <1>8. /\ Vector(w, S) /\ w.size = v2.size /\ w.capacity = v2.capacity
        /\ \A i \in 0..v2.size - 1 : w.data[i] = v2.data[i]
    BY <1>7, Trimmed, Zenon
  <1>9. w = vector_erase(v, pos)
    BY DEF vector_erase, v1, v2
  <1> HIDE DEF w
  <1>10. /\ Vector(w, S) /\ w.size = v.size - 1
         /\ \A i \in 0..v.size - 2 :
              w.data[i] = IF i < pos THEN v.data[i] ELSE v.data[i + 1]
    <2>1. v2.size - 1 = v.size - 2
      BY <1>1, <1>3
    <2> QED
      BY <1>3, <1>4, <1>8, <2>1
  <1> QED
    BY <1>9, <1>10

(* The elements after a swap: the scratch cell is behind them.                *)
LEMMA VecSwapped ==
  ASSUME NEW S, NEW v, Vector(v, S), NEW p1 \in 0..v.size - 1, NEW p2 \in 0..v.size - 1
  PROVE  LET w == vector_swap_elem(v, p1, p2)
         IN  /\ Vector(w, S) /\ w.size = v.size
             /\ \A i \in 0..v.size - 1 :
                  w.data[i] = IF i = p2 THEN v.data[p1]
                              ELSE IF i = p1 THEN v.data[p2] ELSE v.data[i]
  <1> DEFINE v1 == vector_reserve(v, v.size + 1)
             v2 == Move(v1, v.size, p1, 1)
             v3 == Move(v2, p1, p2, 1)
             w  == Move(v3, p2, v.size, 1)
  <1>1. v.size \in Nat /\ v.size + 1 \in Nat
    BY DEF Vector
  <1>2. /\ Vector(v1, S) /\ v1.size = v.size /\ v1.capacity >= v.size + 1
        /\ v1.capacity >= v.capacity /\ \A i \in 0..v.capacity - 1 : v1.data[i] = v.data[i]
    <2>1. Grown(v, v1, v.size + 1, S)
      BY <1>1, Reserved
    <2> QED
      BY <2>1, Zenon DEF Grown
  <1>3. \A i \in 0..v.size - 1 : v1.data[i] = v.data[i]
    BY <1>2 DEF Vector
  <1> HIDE DEF v1
  <1> DEFINE cap == v1.capacity
  <1>4. cap \in Nat /\ cap >= v.size + 1
    BY <1>2 DEF Vector
  <1>5. /\ DOMAIN v2 = {"size", "capacity", "data"} /\ v2.size = v.size /\ v2.capacity = cap
        /\ v2.data = [i \in 0..cap - 1 |-> IF i = v.size THEN v1.data[p1] ELSE v1.data[i]]
    BY <1>1, <1>2, <1>4 DEF Move, Vector
  <1> HIDE DEF v2
  <1>6. /\ DOMAIN v3 = {"size", "capacity", "data"} /\ v3.size = v.size /\ v3.capacity = cap
        /\ v3.data = [i \in 0..cap - 1 |-> IF i = p1 THEN v2.data[p2] ELSE v2.data[i]]
    BY <1>1, <1>4, <1>5 DEF Move
  <1> HIDE DEF v3
  <1>7. /\ DOMAIN w = {"size", "capacity", "data"} /\ w.size = v.size /\ w.capacity = cap
        /\ w.data = [i \in 0..cap - 1 |-> IF i = p2 THEN v3.data[v.size] ELSE v3.data[i]]
    BY <1>1, <1>4, <1>6 DEF Move
  <1>8. w = vector_swap_elem(v, p1, p2)
    BY DEF vector_swap_elem, v1, v2, v3
  <1> HIDE DEF w, cap
  <1>9. \A i \in 0..v.size - 1 :
           w.data[i] = IF i = p2 THEN v.data[p1] ELSE IF i = p1 THEN v.data[p2] ELSE v.data[i]
    <2> TAKE i \in 0..v.size - 1
    <2>1. /\ i \in 0..cap - 1 /\ p1 \in 0..cap - 1 /\ p2 \in 0..cap - 1 /\ v.size \in 0..cap - 1
          /\ i # v.size /\ p1 # v.size /\ p2 # v.size
      BY <1>1, <1>4
    <2>2. v3.data[v.size] = v.data[p1]
      BY <1>3, <1>5, <1>6, <2>1
    <2>3. v3.data[i] = IF i = p1 THEN v.data[p2] ELSE v.data[i]
      BY <1>3, <1>5, <1>6, <2>1
    <2> QED
      BY <1>7, <2>1, <2>2, <2>3
  <1>10. \A i \in 0..v.size - 1 : w.data[i] \in S
    BY <1>9 DEF Vector
  <1>11. w.data \in [0..cap - 1 -> S \cup {Junk}]
    <2>1. \A i \in 0..cap - 1 : v1.data[i] \in S \cup {Junk}
      BY <1>2 DEF Vector, cap
    <2>2. /\ p1 \in 0..cap - 1 /\ p2 \in 0..cap - 1 /\ v.size \in 0..cap - 1
      BY <1>1, <1>4
    <2>3. \A i \in 0..cap - 1 : v2.data[i] \in S \cup {Junk}
      BY <1>5, <2>1, <2>2
    <2>4. \A i \in 0..cap - 1 : v3.data[i] \in S \cup {Junk}
      BY <1>6, <2>2, <2>3
    <2>5. \A i \in 0..cap - 1 : w.data[i] \in S \cup {Junk}
      BY <1>7, <2>2, <2>4
    <2> QED
      BY <1>7, <2>5
  <1>12. Vector(w, S)
    <2>1. w.capacity \in Nat \ {0} /\ w.size \in 0..w.capacity
      BY <1>1, <1>4, <1>7
    <2>2. \A i \in 0..w.size - 1 : w.data[i] \in S
      BY <1>7, <1>10
    <2>3. w.data \in [0..w.capacity - 1 -> S \cup {Junk}]
      BY <1>7, <1>11
    <2> QED
      BY <1>7, <2>1, <2>2, <2>3, Zenon DEF Vector
  <1>13. /\ Vector(w, S) /\ w.size = v.size
         /\ \A i \in 0..v.size - 1 :
              w.data[i] = IF i = p2 THEN v.data[p1] ELSE IF i = p1 THEN v.data[p2] ELSE v.data[i]
    BY <1>7, <1>9, <1>12
  <1> QED
    BY <1>8, <1>13

(* A copy changes the element at p1 only.                                     *)
LEMMA VecCopied ==
  ASSUME NEW S, NEW v, Vector(v, S), NEW p1 \in 0..v.size - 1, NEW p2 \in 0..v.size - 1
  PROVE  LET w == vector_copy_elem(v, p1, p2)
         IN  /\ Vector(w, S) /\ w.size = v.size
             /\ \A i \in 0..v.size - 1 : w.data[i] = IF i = p1 THEN v.data[p2] ELSE v.data[i]
  <1> DEFINE v1 == vector_reserve(v, v.size + 1)
             w  == Move(v1, p1, p2, 1)
  <1>1. v.size \in Nat /\ v.size + 1 \in Nat
    BY DEF Vector
  <1>2. /\ Vector(v1, S) /\ v1.size = v.size /\ v1.capacity >= v.size + 1
        /\ v1.capacity >= v.capacity /\ \A i \in 0..v.capacity - 1 : v1.data[i] = v.data[i]
    <2>1. Grown(v, v1, v.size + 1, S)
      BY <1>1, Reserved
    <2> QED
      BY <2>1, Zenon DEF Grown
  <1>3. \A i \in 0..v.size - 1 : v1.data[i] = v.data[i]
    BY <1>2 DEF Vector
  <1> HIDE DEF v1
  <1> DEFINE cap == v1.capacity
  <1>4. cap \in Nat /\ cap >= v.size + 1
    BY <1>2 DEF Vector
  <1>5. /\ DOMAIN w = {"size", "capacity", "data"} /\ w.size = v.size /\ w.capacity = cap
        /\ w.data = [i \in 0..cap - 1 |-> IF i = p1 THEN v1.data[p2] ELSE v1.data[i]]
    BY <1>1, <1>2, <1>4 DEF Move, Vector
  <1>6. w = vector_copy_elem(v, p1, p2)
    BY DEF vector_copy_elem, v1
  <1> HIDE DEF w, cap
  <1>7. \A i \in 0..v.size - 1 : w.data[i] = IF i = p1 THEN v.data[p2] ELSE v.data[i]
    BY <1>1, <1>3, <1>4, <1>5
  <1>8. \A i \in 0..v.size - 1 : w.data[i] \in S
    BY <1>7 DEF Vector
  <1>9. w.data \in [0..cap - 1 -> S \cup {Junk}]
    <2>1. \A i \in 0..cap - 1 : v1.data[i] \in S \cup {Junk}
      BY <1>2 DEF Vector, cap
    <2>2. p2 \in 0..cap - 1
      BY <1>1, <1>4
    <2>3. \A i \in 0..cap - 1 : w.data[i] \in S \cup {Junk}
      BY <1>5, <2>1, <2>2
    <2> QED
      BY <1>5, <2>3
  <1>10. Vector(w, S)
    <2>1. w.capacity \in Nat \ {0} /\ w.size \in 0..w.capacity
      BY <1>1, <1>4, <1>5
    <2>2. \A i \in 0..w.size - 1 : w.data[i] \in S
      BY <1>5, <1>8
    <2>3. w.data \in [0..w.capacity - 1 -> S \cup {Junk}]
      BY <1>5, <1>9
    <2> QED
      BY <1>5, <2>1, <2>2, <2>3, Zenon DEF Vector
  <1>11. /\ Vector(w, S) /\ w.size = v.size
         /\ \A i \in 0..v.size - 1 : w.data[i] = IF i = p1 THEN v.data[p2] ELSE v.data[i]
    BY <1>5, <1>7, <1>10
  <1> QED
    BY <1>6, <1>11

-----------------------------------------------------------------------------
(* Sequences *)

\* r is q with e inserted at k, or without the element at k.
InsertedAt(q, k, e, r, S) ==
    /\ r \in Seq(S) /\ Len(r) = Len(q) + 1
    /\ \A i \in 1..Len(q) + 1 : r[i] = IF i < k THEN q[i] ELSE IF i = k THEN e ELSE q[i - 1]
RemovedAt(q, k, r, S) ==
    /\ r \in Seq(S) /\ Len(r) = Len(q) - 1
    /\ \A i \in 1..Len(q) - 1 : r[i] = IF i < k THEN q[i] ELSE q[i + 1]

(* What is where in a sequence after an insertion.                            *)
LEMMA SeqInserted ==
  ASSUME NEW S, NEW q \in Seq(S), NEW k \in 1..Len(q) + 1, NEW e \in S
  PROVE  InsertedAt(q, k, e, InsertAt(q, k, e), S)
  <1> DEFINE a == SubSeq(q, 1, k - 1)
             b == SubSeq(q, k, Len(q))
             r == InsertAt(q, k, e)
  <1>0. Len(q) \in Nat /\ \A i \in 1..Len(q) : q[i] \in S
    BY ElementOfSeq, LenProperties
  <1>1. a \in Seq(S) /\ Len(a) = k - 1 /\ \A i \in 1..k - 1 : a[i] = q[i]
    <2>1. \A i \in 1..k - 1 : q[i] \in S
      BY <1>0
    <2> QED
      BY <1>0, <2>1, SubSeqProperties
  <1>2. b \in Seq(S) /\ Len(b) = Len(q) - k + 1 /\ \A i \in 1..Len(q) - k + 1 : b[i] = q[k + i - 1]
    <2>1. \A i \in k..Len(q) : q[i] \in S
      BY <1>0
    <2> QED
      BY <1>0, <2>1, SubSeqProperties
  <1>3. r = a \o <<e>> \o b
    BY DEF InsertAt
  <1> HIDE DEF a, b, r
  <1>4. a \o <<e>> \in Seq(S) /\ Len(a \o <<e>>) = k
        /\ \A i \in 1..k : (a \o <<e>>)[i] = IF i < k THEN q[i] ELSE e
    <2>1. <<e>> \in Seq(S) /\ Len(<<e>>) = 1 /\ <<e>>[1] = e
      OBVIOUS
    <2>2. /\ a \o <<e>> \in Seq(S) /\ Len(a \o <<e>>) = Len(a) + Len(<<e>>)
          /\ \A i \in 1..Len(a) + Len(<<e>>) :
                (a \o <<e>>)[i] = IF i <= Len(a) THEN a[i] ELSE <<e>>[i - Len(a)]
      BY <1>1, <2>1, ConcatProperties, Zenon
    <2>3. 1..Len(a) + Len(<<e>>) = 1..k /\ Len(a) + Len(<<e>>) = k
      BY <1>0, <1>1, <2>1
    <2>4. ASSUME NEW i \in 1..k PROVE (a \o <<e>>)[i] = IF i < k THEN q[i] ELSE e
      <3>1. CASE i < k
        <4>1. i \in 1..k - 1 /\ i <= Len(a)
          BY <1>0, <1>1, <3>1
        <4> QED
          BY <1>1, <2>2, <2>3, <3>1, <4>1
      <3>2. CASE i = k
        <4>1. ~(i <= Len(a)) /\ i - Len(a) = 1 /\ ~(i < k)
          BY <1>0, <1>1, <3>2
        <4> QED
          BY <2>1, <2>2, <2>3, <4>1
      <3>3. i < k \/ i = k
        BY <1>0
      <3> QED
        BY <3>1, <3>2, <3>3
    <2> QED
      BY <2>2, <2>3, <2>4
  <1>5. /\ r \in Seq(S) /\ Len(r) = Len(q) + 1
        /\ \A i \in 1..Len(q) + 1 :
              r[i] = IF i <= k THEN (a \o <<e>>)[i] ELSE b[i - k]
    <2> DEFINE c == a \o <<e>>
    <2>1. c \in Seq(S) /\ Len(c) = k /\ r = c \o b
      BY <1>3, <1>4
    <2> HIDE DEF c
    <2>2. /\ c \o b \in Seq(S) /\ Len(c \o b) = Len(c) + Len(b)
          /\ \A i \in 1..Len(c) + Len(b) : (c \o b)[i] = IF i <= Len(c) THEN c[i] ELSE b[i - Len(c)]
      BY <1>2, <2>1, ConcatProperties, Zenon
    <2>3. /\ r \in Seq(S) /\ Len(r) = Len(q) + 1
          /\ \A i \in 1..Len(q) + 1 : r[i] = IF i <= k THEN c[i] ELSE b[i - k]
      BY <1>0, <1>2, <2>1, <2>2
    <2> QED
      BY <2>3 DEF c
  <1>6. \A i \in 1..Len(q) + 1 : r[i] = IF i < k THEN q[i] ELSE IF i = k THEN e ELSE q[i - 1]
    <2> TAKE i \in 1..Len(q) + 1
    <2>1. CASE i <= k
      <3>1. i \in 1..k /\ (~(i < k) => i = k)
        BY <1>0, <2>1
      <3>2. r[i] = (a \o <<e>>)[i]
        BY <1>5, <2>1
      <3> QED
        BY <1>4, <3>1, <3>2
    <2>2. CASE i > k
      <3>1. i - k \in 1..Len(q) - k + 1 /\ k + (i - k) - 1 = i - 1
        BY <1>0, <2>2
      <3> QED
        BY <1>0, <1>2, <1>5, <2>2, <3>1
    <2> QED
      BY <1>0, <2>1, <2>2
  <1> QED
    BY <1>5, <1>6, Zenon DEF r, InsertedAt

(* And after a removal.                                                       *)
LEMMA SeqRemoved ==
  ASSUME NEW S, NEW q \in Seq(S), NEW k \in 1..Len(q)
  PROVE  RemovedAt(q, k, RemoveAt(q, k), S)
  <1> DEFINE a == SubSeq(q, 1, k - 1)
             b == SubSeq(q, k + 1, Len(q))
             r == RemoveAt(q, k)
  <1>0. Len(q) \in Nat /\ \A i \in 1..Len(q) : q[i] \in S
    BY ElementOfSeq, LenProperties
  <1>1. a \in Seq(S) /\ Len(a) = k - 1 /\ \A i \in 1..k - 1 : a[i] = q[i]
    <2>1. \A i \in 1..k - 1 : q[i] \in S
      BY <1>0
    <2> QED
      BY <1>0, <2>1, SubSeqProperties
  <1>2. b \in Seq(S) /\ Len(b) = Len(q) - k /\ \A i \in 1..Len(q) - k : b[i] = q[k + i]
    <2>1. \A i \in k + 1..Len(q) : q[i] \in S
      BY <1>0
    <2>2. /\ b \in Seq(S) /\ Len(b) = IF k + 1 <= Len(q) THEN Len(q) - (k + 1) + 1 ELSE 0
          /\ \A i \in 1..Len(q) - (k + 1) + 1 : b[i] = q[k + 1 + i - 1]
      BY <1>0, <2>1, SubSeqProperties
    <2> QED
      BY <1>0, <2>2
  <1>3. r = a \o b
    BY DEF RemoveAt
  <1> HIDE DEF a, b, r
  <1>4. /\ a \o b \in Seq(S) /\ Len(a \o b) = Len(a) + Len(b)
        /\ \A i \in 1..Len(a) + Len(b) : (a \o b)[i] = IF i <= Len(a) THEN a[i] ELSE b[i - Len(a)]
    BY <1>1, <1>2, ConcatProperties, Zenon
  <1>5. /\ r \in Seq(S) /\ Len(r) = Len(q) - 1
        /\ \A i \in 1..Len(q) - 1 : r[i] = IF i < k THEN a[i] ELSE b[i - k + 1]
    BY <1>0, <1>1, <1>2, <1>3, <1>4
  <1>6. \A i \in 1..Len(q) - 1 : r[i] = IF i < k THEN q[i] ELSE q[i + 1]
    <2> TAKE i \in 1..Len(q) - 1
    <2>1. CASE i < k
      BY <1>0, <1>1, <1>5, <2>1
    <2>2. CASE i >= k
      <3>1. i - k + 1 \in 1..Len(q) - k /\ k + (i - k + 1) = i + 1
        BY <1>0, <2>2
      <3> QED
        BY <1>0, <1>2, <1>5, <2>2, <3>1
    <2> QED
      BY <1>0, <2>1, <2>2
  <1> QED
    BY <1>5, <1>6, Zenon DEF r, RemovedAt

-----------------------------------------------------------------------------
(* The vector is a sequence *)

(* A vector of no element.                                                    *)
LEMMA VecStart == VecInit => VecInv
  <1> SUFFICES ASSUME VecInit PROVE VecInv
    OBVIOUS
  <1> USE VecAssumption
  <1>1. /\ DOMAIN vec = {"size", "capacity", "data"} /\ vec.size = 0
        /\ vec.capacity = InitCapacity /\ vec.data = [i \in 0..InitCapacity - 1 |-> Junk]
    BY DEF VecInit, vector_init
  <1>2. vecseq = <<>>
    BY DEF VecInit, VecRef!Empty
  <1>3. vec.data \in [0..vec.capacity - 1 -> VecVals \cup {Junk}]
    BY <1>1
  <1>4. Vector(vec, VecVals)
    BY <1>1, <1>3 DEF Vector
  <1>5. Holding(vec, vecseq)
    BY <1>1, <1>2 DEF Holding
  <1> QED
    BY <1>1, <1>2, <1>4, <1>5 DEF VecInv

(* An insertion does to the vector what it does to the sequence.              *)
LEMMA VecInsertInv ==
  ASSUME VecInv, NEW pos \in 0..vec.size, NEW e \in VecVals, vec.size < MaxSize,
         vec' = vector_insert_varg(vec, pos, e), VecRef!Insert(pos + 1, e)
  PROVE  VecInv'
  <1>1. Vector(vec, VecVals) /\ vecseq \in Seq(VecVals) /\ Holding(vec, vecseq)
    BY DEF VecInv
  <1>2. vec.size \in Nat /\ Len(vecseq) = vec.size /\ pos + 1 \in 1..Len(vecseq) + 1
    BY <1>1 DEF Vector, Holding
  <1>3. /\ Vector(vec', VecVals) /\ vec'.size = vec.size + 1
        /\ \A i \in 0..vec.size : vec'.data[i] =
              IF i < pos THEN vec.data[i] ELSE IF i = pos THEN e ELSE vec.data[i - 1]
    <2> DEFINE w == vector_insert_varg(vec, pos, e)
    <2>1. /\ Vector(w, VecVals) /\ w.size = vec.size + 1
          /\ \A i \in 0..vec.size : w.data[i] =
                IF i < pos THEN vec.data[i] ELSE IF i = pos THEN e ELSE vec.data[i - 1]
      BY <1>1, VecInserted
    <2>2. vec' = w
      OBVIOUS
    <2> HIDE DEF w
    <2> QED
      BY <2>1, <2>2
  <1>4. vecseq' = InsertAt(vecseq, pos + 1, e)
    BY DEF VecRef!Insert, VecRef!InsertAt, InsertAt
  <1>5. /\ vecseq' \in Seq(VecVals) /\ Len(vecseq') = Len(vecseq) + 1
        /\ \A i \in 1..Len(vecseq) + 1 : vecseq'[i] =
              IF i < pos + 1 THEN vecseq[i] ELSE IF i = pos + 1 THEN e ELSE vecseq[i - 1]
    <2>1. InsertedAt(vecseq, pos + 1, e, vecseq', VecVals)
      BY <1>1, <1>2, <1>4, SeqInserted
    <2> QED
      BY <2>1, Zenon DEF InsertedAt
  <1>6. \A i \in 1..vec.size + 1 : vec'.data[i - 1] = vecseq'[i]
    <2> TAKE i \in 1..vec.size + 1
    <2>1. i - 1 \in 0..vec.size /\ i \in 1..Len(vecseq) + 1
      BY <1>2
    <2>2. CASE i < pos + 1
      BY <1>1, <1>2, <1>3, <1>5, <2>1, <2>2 DEF Holding
    <2>3. CASE i = pos + 1
      BY <1>2, <1>3, <1>5, <2>1, <2>3
    <2>4. CASE i > pos + 1
      <3>1. i - 1 \in 1..vec.size /\ vec'.data[i - 1] = vec.data[i - 1 - 1]
            /\ vecseq'[i] = vecseq[i - 1]
        BY <1>2, <1>3, <1>5, <2>1, <2>4
      <3> QED
        BY <1>1, <3>1 DEF Holding
    <2> QED
      BY <1>2, <2>2, <2>3, <2>4
  <1>7. Holding(vec', vecseq')
    BY <1>2, <1>3, <1>5, <1>6 DEF Holding
  <1>8. vec'.size <= MaxSize
    BY <1>2, <1>3, VecAssumption
  <1> QED
    BY <1>3, <1>5, <1>7, <1>8 DEF VecInv

(* So does an erasure.                                                        *)
LEMMA VecEraseInv ==
  ASSUME VecInv, NEW pos \in 0..vec.size - 1,
         vec' = vector_erase(vec, pos), VecRef!Erase(pos + 1)
  PROVE  VecInv'
  <1>1. Vector(vec, VecVals) /\ vecseq \in Seq(VecVals) /\ Holding(vec, vecseq)
    BY DEF VecInv
  <1>2. vec.size \in Nat /\ Len(vecseq) = vec.size /\ pos + 1 \in 1..Len(vecseq)
    BY <1>1 DEF Vector, Holding
  <1>3. /\ Vector(vec', VecVals) /\ vec'.size = vec.size - 1
        /\ \A i \in 0..vec.size - 2 :
              vec'.data[i] = IF i < pos THEN vec.data[i] ELSE vec.data[i + 1]
    BY <1>1, VecErased, Zenon
  <1>4. vecseq' = RemoveAt(vecseq, pos + 1)
    BY DEF VecRef!Erase, VecRef!RemoveAt, RemoveAt
  <1>5. /\ vecseq' \in Seq(VecVals) /\ Len(vecseq') = Len(vecseq) - 1
        /\ \A i \in 1..Len(vecseq) - 1 :
              vecseq'[i] = IF i < pos + 1 THEN vecseq[i] ELSE vecseq[i + 1]
    <2>1. RemovedAt(vecseq, pos + 1, vecseq', VecVals)
      BY <1>1, <1>2, <1>4, SeqRemoved
    <2> QED
      BY <2>1, Zenon DEF RemovedAt
  <1>6. \A i \in 1..vec.size - 1 : vec'.data[i - 1] = vecseq'[i]
    <2> TAKE i \in 1..vec.size - 1
    <2>1. i - 1 \in 0..vec.size - 2 /\ i \in 1..Len(vecseq) - 1
      BY <1>2
    <2>2. CASE i < pos + 1
      BY <1>1, <1>2, <1>3, <1>5, <2>1, <2>2 DEF Holding
    <2>3. CASE i >= pos + 1
      <3>1. i + 1 \in 1..vec.size /\ vec'.data[i - 1] = vec.data[i + 1 - 1]
            /\ vecseq'[i] = vecseq[i + 1]
        BY <1>2, <1>3, <1>5, <2>1, <2>3
      <3> QED
        BY <1>1, <3>1 DEF Holding
    <2> QED
      BY <1>2, <2>2, <2>3
  <1>7. Holding(vec', vecseq')
    BY <1>2, <1>3, <1>5, <1>6 DEF Holding
  <1>8. vec'.size <= MaxSize
    BY <1>2, <1>3, VecAssumption DEF VecInv
  <1> QED
    BY <1>3, <1>5, <1>7, <1>8 DEF VecInv

(* An element is replaced where it stands.                                    *)
LEMMA VecUpdateInv ==
  ASSUME VecInv, NEW pos \in 0..vec.size - 1, NEW e \in VecVals, vector_update(pos, e)
  PROVE  VecInv'
  <1>1. Vector(vec, VecVals) /\ vecseq \in Seq(VecVals) /\ Holding(vec, vecseq)
    BY DEF VecInv
  <1>2. vec.size \in Nat /\ Len(vecseq) = vec.size /\ pos \in 0..vec.capacity - 1
        /\ pos + 1 \in 1..Len(vecseq)
    BY <1>1 DEF Vector, Holding
  <1>3. /\ DOMAIN vec' = {"size", "capacity", "data"} /\ vec'.size = vec.size
        /\ vec'.capacity = vec.capacity /\ vec'.data = [vec.data EXCEPT ![pos] = e]
    BY <1>1 DEF vector_update, Vector
  <1>4. vecseq' = [vecseq EXCEPT ![pos + 1] = e]
    BY DEF vector_update, VecRef!Update
  <1>5. /\ vecseq' \in Seq(VecVals) /\ Len(vecseq') = Len(vecseq)
        /\ \A i \in 1..Len(vecseq) : vecseq'[i] = IF i = pos + 1 THEN e ELSE vecseq[i]
    BY <1>1, <1>2, <1>4, ExceptSeq
  <1>6. \A i \in 0..vec.size - 1 : vec'.data[i] = IF i = pos THEN e ELSE vec.data[i]
    BY <1>1, <1>2, <1>3 DEF Vector
  <1>7. Vector(vec', VecVals)
    <2>1. vec'.data \in [0..vec.capacity - 1 -> VecVals \cup {Junk}]
      BY <1>1, <1>3 DEF Vector
    <2>2. \A i \in 0..vec.size - 1 : vec'.data[i] \in VecVals
      BY <1>1, <1>6 DEF Vector
    <2> QED
      BY <1>1, <1>3, <2>1, <2>2 DEF Vector
  <1>8. \A i \in 1..vec.size : vec'.data[i - 1] = vecseq'[i]
    <2> TAKE i \in 1..vec.size
    <2>1. i - 1 \in 0..vec.size - 1 /\ (i - 1 = pos <=> i = pos + 1)
      BY <1>2
    <2> QED
      BY <1>1, <1>2, <1>5, <1>6, <2>1 DEF Holding
  <1>9. Holding(vec', vecseq')
    BY <1>2, <1>3, <1>5, <1>8 DEF Holding
  <1> QED
    BY <1>3, <1>5, <1>7, <1>9 DEF VecInv

(* A vector that grew still holds its elements.                               *)
LEMMA VecReserveInv == ASSUME VecInv, ReserveMore PROVE VecInv'
  <1>1. Vector(vec, VecVals) /\ vecseq \in Seq(VecVals) /\ Holding(vec, vecseq)
    BY DEF VecInv
  <1>2. vec.size \in Nat /\ vec.size + 2 \in Nat /\ vec.size <= vec.capacity
    BY <1>1 DEF Vector
  <1> DEFINE w == vector_reserve(vec, vec.size + 2)
  <1>3. /\ Vector(w, VecVals) /\ w.size = vec.size /\ w.capacity >= vec.size + 2
        /\ w.capacity >= vec.capacity /\ \A i \in 0..vec.capacity - 1 : w.data[i] = vec.data[i]
    <2>1. Grown(vec, w, vec.size + 2, VecVals)
      BY <1>1, <1>2, Reserved
    <2> QED
      BY <2>1, Zenon DEF Grown
  <1>4. vec' = w /\ vecseq' = vecseq
    BY DEF ReserveMore
  <1> HIDE DEF w
  <1>5. \A i \in 1..vec.size : i - 1 \in 0..vec.capacity - 1
    BY <1>1 DEF Vector
  <1>6. Holding(vec', vecseq')
    BY <1>1, <1>3, <1>4, <1>5 DEF Holding
  <1> QED
    BY <1>1, <1>3, <1>4, <1>6 DEF VecInv

(* Two elements change places, or one becomes a copy of the other.            *)
LEMMA VecSwapInv ==
  ASSUME VecInv, NEW p1 \in 0..vec.size - 1, NEW p2 \in 0..vec.size - 1,
         SwapElems(p1, p2) \/ CopyElem(p1, p2)
  PROVE  VecInv'
  <1>1. Vector(vec, VecVals) /\ vecseq \in Seq(VecVals) /\ Holding(vec, vecseq)
    BY DEF VecInv
  <1>2. /\ vec.size \in Nat /\ Len(vecseq) = vec.size
        /\ p1 + 1 \in 1..Len(vecseq) /\ p2 + 1 \in 1..Len(vecseq)
        /\ \A i \in 1..vec.size : i - 1 \in 0..vec.size - 1 /\ vec.data[i - 1] = vecseq[i]
        /\ vec.data[p1] = vecseq[p1 + 1] /\ vec.data[p2] = vecseq[p2 + 1]
    BY <1>1 DEF Vector, Holding
  <1>3. /\ vecseq[p1 + 1] \in VecVals /\ vecseq[p2 + 1] \in VecVals
    BY <1>1, <1>2, ElementOfSeq
  <1>4. CASE SwapElems(p1, p2)
    <2> DEFINE u == vector_swap_elem(vec, p1, p2)
               w == Trim(u)
    <2>1. /\ Vector(u, VecVals) /\ u.size = vec.size
          /\ \A i \in 0..vec.size - 1 : u.data[i] =
                IF i = p2 THEN vec.data[p1] ELSE IF i = p1 THEN vec.data[p2] ELSE vec.data[i]
      BY <1>1, VecSwapped
    <2> HIDE DEF u
    <2>2. /\ Vector(w, VecVals) /\ w.size = u.size /\ w.capacity = u.capacity
          /\ \A i \in 0..u.size - 1 : w.data[i] = u.data[i]
      BY <2>1, Trimmed, Zenon
    <2> HIDE DEF w
    <2>3. vec' = w /\ vecseq' = [vecseq EXCEPT ![p1 + 1] = vecseq[p2 + 1],
                                               ![p2 + 1] = vecseq[p1 + 1]]
      BY <1>4 DEF SwapElems, VecRef!Swap, w, u
    <2>4. /\ vecseq' \in Seq(VecVals) /\ Len(vecseq') = Len(vecseq)
          /\ \A i \in 1..Len(vecseq) : vecseq'[i] =
                IF i = p2 + 1 THEN vecseq[p1 + 1]
                ELSE IF i = p1 + 1 THEN vecseq[p2 + 1] ELSE vecseq[i]
      <3> DEFINE r == [vecseq EXCEPT ![p1 + 1] = vecseq[p2 + 1]]
      <3>1. /\ r \in Seq(VecVals) /\ Len(r) = Len(vecseq)
            /\ \A i \in 1..Len(vecseq) :
                  r[i] = IF i = p1 + 1 THEN vecseq[p2 + 1] ELSE vecseq[i]
        BY <1>1, <1>2, <1>3, ExceptSeq
      <3>2. vecseq' = [r EXCEPT ![p2 + 1] = vecseq[p1 + 1]]
        BY <2>3
      <3> HIDE DEF r
      <3>3. /\ vecseq' \in Seq(VecVals) /\ Len(vecseq') = Len(r)
            /\ \A i \in 1..Len(r) : vecseq'[i] = IF i = p2 + 1 THEN vecseq[p1 + 1] ELSE r[i]
        BY <1>2, <1>3, <3>1, <3>2, ExceptSeq
      <3> QED
        BY <3>1, <3>3
    <2>5. \A i \in 1..vec.size : w.data[i - 1] = vecseq'[i]
      <3> TAKE i \in 1..vec.size
      <3>1. /\ i - 1 \in 0..vec.size - 1 /\ (i - 1 = p1 <=> i = p1 + 1)
            /\ (i - 1 = p2 <=> i = p2 + 1)
        BY <1>2
      <3>2. w.data[i - 1] = u.data[i - 1]
        BY <2>1, <2>2, <3>1
      <3> QED
        BY <1>2, <2>1, <2>4, <3>1, <3>2
    <2>6. Holding(vec', vecseq')
      BY <1>2, <2>1, <2>2, <2>3, <2>4, <2>5 DEF Holding
    <2> QED
      BY <2>1, <2>2, <2>3, <2>4, <2>6 DEF VecInv
  <1>5. CASE CopyElem(p1, p2)
    <2> DEFINE u == vector_copy_elem(vec, p1, p2)
               w == Trim(u)
    <2>1. /\ Vector(u, VecVals) /\ u.size = vec.size
          /\ \A i \in 0..vec.size - 1 :
                u.data[i] = IF i = p1 THEN vec.data[p2] ELSE vec.data[i]
      BY <1>1, VecCopied
    <2> HIDE DEF u
    <2>2. /\ Vector(w, VecVals) /\ w.size = u.size /\ w.capacity = u.capacity
          /\ \A i \in 0..u.size - 1 : w.data[i] = u.data[i]
      BY <2>1, Trimmed, Zenon
    <2> HIDE DEF w
    <2>3. vec' = w /\ vecseq' = [vecseq EXCEPT ![p1 + 1] = vecseq[p2 + 1]]
      BY <1>5 DEF CopyElem, VecRef!Update, w, u
    <2>4. /\ vecseq' \in Seq(VecVals) /\ Len(vecseq') = Len(vecseq)
          /\ \A i \in 1..Len(vecseq) :
                vecseq'[i] = IF i = p1 + 1 THEN vecseq[p2 + 1] ELSE vecseq[i]
      BY <1>1, <1>2, <1>3, <2>3, ExceptSeq
    <2>5. \A i \in 1..vec.size : w.data[i - 1] = vecseq'[i]
      <3> TAKE i \in 1..vec.size
      <3>1. i - 1 \in 0..vec.size - 1 /\ (i - 1 = p1 <=> i = p1 + 1)
        BY <1>2
      <3>2. w.data[i - 1] = u.data[i - 1]
        BY <2>1, <2>2, <3>1
      <3> QED
        BY <1>2, <2>1, <2>4, <3>1, <3>2
    <2>6. Holding(vec', vecseq')
      BY <1>2, <2>1, <2>2, <2>3, <2>4, <2>5 DEF Holding
    <2> QED
      BY <2>1, <2>2, <2>3, <2>4, <2>6 DEF VecInv
  <1> QED
    BY <1>4, <1>5

(* Nothing is left of a cleared vector.                                       *)
LEMMA VecClearInv == ASSUME VecInv, vector_clear PROVE VecInv'
  <1>1. Vector(vec, VecVals) /\ vecseq \in Seq(VecVals) /\ Holding(vec, vecseq)
    BY DEF VecInv
  <1> DEFINE u == [vec EXCEPT !.size = 0]
             w == Trim(u)
  <1>2. /\ DOMAIN u = {"size", "capacity", "data"} /\ u.size = 0
        /\ u.capacity = vec.capacity /\ u.data = vec.data
    BY <1>1 DEF Vector
  <1> HIDE DEF u
  <1>3. Vector(u, VecVals)
    BY <1>1, <1>2 DEF Vector
  <1>4. /\ Vector(w, VecVals) /\ w.size = u.size /\ w.capacity = u.capacity
        /\ \A i \in 0..u.size - 1 : w.data[i] = u.data[i]
    BY <1>3, Trimmed, Zenon
  <1>5. vec' = w /\ vecseq' = <<>>
    BY DEF vector_clear, VecRef!Clear, w, u
  <1> HIDE DEF w
  <1>6. Holding(vec', vecseq')
    BY <1>2, <1>4, <1>5 DEF Holding
  <1> QED
    BY <1>2, <1>4, <1>5, <1>6, VecAssumption DEF VecInv

(* Every call keeps the vector holding the elements of the sequence.          *)
LEMMA VecStep == VecInv /\ [VecNext]_vecvars => VecInv'
  <1> SUFFICES ASSUME VecInv, [VecNext]_vecvars PROVE VecInv'
    OBVIOUS
  <1>0. vec.size \in Nat
    BY DEF VecInv, Vector
  <1>1. ASSUME NEW e \in VecVals, vector_push_back(e) PROVE VecInv'
    BY <1>0, <1>1, VecInsertInv DEF vector_push_back
  <1>2. ASSUME NEW e \in VecVals, NEW p \in 0..vec.size, vector_insert_pos(p, e) PROVE VecInv'
    BY <1>2, VecInsertInv DEF vector_insert_pos
  <1>3. ASSUME vector_pop_back PROVE VecInv'
    <2>1. vec.size - 1 \in 0..vec.size - 1 /\ vec.size - 1 + 1 = vec.size
      BY <1>0, <1>3 DEF vector_pop_back
    <2>2. vec' = vector_erase(vec, vec.size - 1) /\ VecRef!Erase(vec.size - 1 + 1)
      BY <1>3, <2>1 DEF vector_pop_back
    <2> QED
      BY <2>1, <2>2, VecEraseInv
  <1>4. ASSUME NEW p \in 0..vec.size - 1, vector_erase_pos(p) PROVE VecInv'
    BY <1>4, VecEraseInv DEF vector_erase_pos
  <1>5. ASSUME NEW p \in 0..vec.size - 1, NEW e \in VecVals, vector_update(p, e) PROVE VecInv'
    BY <1>5, VecUpdateInv
  <1>6. ASSUME NEW p \in 0..vec.size - 1, NEW r \in 0..vec.size - 1,
               SwapElems(p, r) \/ CopyElem(p, r)
        PROVE  VecInv'
    BY <1>6, VecSwapInv
  <1>7. CASE ReserveMore
    BY <1>7, VecReserveInv
  <1>8. CASE vector_clear
    BY <1>8, VecClearInv
  <1>9. CASE UNCHANGED vecvars
    BY <1>9 DEF VecInv, vecvars
  <1> QED
    BY <1>1, <1>2, <1>3, <1>4, <1>5, <1>6, <1>7, <1>8, <1>9, Zenon DEF VecNext

(* The difference of two addresses, taken as a size_t, is still the right one *)
(* after it was divided and made an int.                                      *)
LEMMA IterDistance ==
  ASSUME NEW size \in 0..MaxSize, VecSizeT % TypeSize = 0
  PROVE  \A i, j \in 0..size : vector_iter_distance(i, j) = j - i
  <1> USE VecAssumption
  <1> TAKE i, j \in 0..size
  <1> DEFINE d == j - i
             h == VecInt \div 2
  <1>1. /\ d \in Int /\ TypeSize \in Nat \ {0} /\ VecInt \in Nat \ {0} /\ h \in Nat
        /\ 0 <= d + h /\ d + h < VecInt /\ -VecInt < d /\ d < VecInt
    OBVIOUS
  <1>2. PICK k \in Nat \ {0} : VecSizeT = k * (TypeSize * VecInt)
    OBVIOUS
  <1> DEFINE n == k * VecInt
  <1>3. n \in Nat /\ VecSizeT = n * TypeSize /\ VecInt <= n
    BY <1>1, <1>2
  <1>4. vector_iter_distance(i, j)
          = ((((d * TypeSize) % VecSizeT) \div TypeSize + h) % VecInt) - h
    BY DEF vector_iter_distance
  <1> HIDE DEF d, h
  <1>5. CASE d >= 0
    <2>1. 0 <= d * TypeSize /\ d * TypeSize < n * TypeSize /\ d * TypeSize \in Int
      BY <1>1, <1>3, <1>5
    <2>2. (d * TypeSize) % VecSizeT = d * TypeSize
      BY <1>3, <2>1
    <2>3. (d * TypeSize) \div TypeSize = d
      BY <1>1
    <2>4. (d + h) % VecInt = d + h
      BY <1>1
    <2> QED
      BY <1>1, <1>4, <2>2, <2>3, <2>4 DEF d
  <1>6. CASE d < 0
    <2>1. d + n \in Nat /\ d + n < n
      BY <1>1, <1>3, <1>6
    <2>2. (d * TypeSize) % VecSizeT = (d + n) * TypeSize
      <3> DEFINE m == (d + n) * TypeSize
      <3>1. m \in Nat /\ m < VecSizeT /\ d * TypeSize = m + (-1) * VecSizeT
        BY <1>1, <1>3, <2>1
      <3> HIDE DEF m
      <3>2. (m + (-1) * VecSizeT) % VecSizeT = m
        BY <3>1
      <3> QED
        BY <3>1, <3>2 DEF m
    <2>3. ((d + n) * TypeSize) \div TypeSize = d + n
      BY <1>1, <2>1
    <2>4. (d + n + h) % VecInt = d + h
      <3>1. (k * VecInt + (d + h)) % VecInt = d + h
        BY <1>1
      <3>2. d + n + h = k * VecInt + (d + h)
        BY <1>1
      <3> QED
        BY <3>1, <3>2
    <2>5. ((d * TypeSize) % VecSizeT) \div TypeSize = d + n
      BY <2>2, <2>3, Zenon
    <2>6. (((d * TypeSize) % VecSizeT) \div TypeSize + h) % VecInt = d + h
      BY <2>4, <2>5, Zenon
    <2> DEFINE x == (((d * TypeSize) % VecSizeT) \div TypeSize + h) % VecInt
    <2>7. vector_iter_distance(i, j) = x - h /\ x = d + h
      BY <1>4, <2>6
    <2> HIDE DEF x
    <2>8. x - h = d
      BY <1>1, <2>7
    <2> QED
      BY <2>7, <2>8 DEF d
  <1> QED
    BY <1>1, <1>5, <1>6 DEF d

(* The elements a reader of the vector gets are the ones of the sequence.     *)
LEMMA VecHolds == VecInv => VecIsSequence
  <1> SUFFICES ASSUME VecInv PROVE VecIsSequence
    OBVIOUS
  <1>1. Vector(vec, VecVals) /\ vecseq \in Seq(VecVals) /\ Holding(vec, vecseq)
        /\ vec.size <= MaxSize
    BY DEF VecInv
  <1>2. vec.size \in Nat /\ vec.size <= vec.capacity /\ Len(vecseq) = vec.size
        /\ vec.size \in 0..MaxSize
    BY <1>1, VecAssumption DEF Vector, Holding
  <1>3. [i \in 1..vec.size |-> vector_at(vec, i - 1)] = vecseq
    <2>1. DOMAIN vecseq = 1..vec.size /\ vecseq = [i \in DOMAIN vecseq |-> vecseq[i]]
      BY <1>1, <1>2
    <2>2. \A i \in 1..vec.size : vector_at(vec, i - 1) = vecseq[i]
      BY <1>1 DEF vector_at, Holding
    <2> QED
      BY <2>1, <2>2
  <1>4. ASSUME vec.size > 0
        PROVE  vector_front(vec) = Head(vecseq) /\ vector_back(vec) = Last(vecseq)
    <2>1. vec.data[0] = vecseq[1] /\ vec.data[vec.size - 1] = vecseq[Len(vecseq)]
      <3>1. 1 \in 1..vec.size /\ vec.size \in 1..vec.size /\ 1 - 1 = 0
        BY <1>2, <1>4
      <3> QED
        BY <1>1, <1>2, <3>1 DEF Holding
    <2>2. Head(vecseq) = vecseq[1]
      BY <1>1, <1>2, <1>4
    <2> QED
      BY <2>1, <2>2 DEF vector_front, vector_back, vector_at, Last
  <1>5. VecSizeT % TypeSize = 0 =>
           \A i, j \in 0..vec.size : vector_iter_distance(i, j) = j - i
    BY <1>2, IterDistance
  <1> QED
    BY <1>2, <1>3, <1>4, <1>5 DEF VecIsSequence

(* For any elements, element size, first capacity and number of elements:     *)
(* read with vector_at, vector_front, vector_back and iterators, a vector is  *)
(* the sequence that took the same calls, however often its memory grew.      *)
THEOREM VecIsSequenceHolds == VecSpec => []VecIsSequence
  <1>1. VecInit => VecInv
    BY VecStart
  <1>2. VecInv /\ [VecNext]_vecvars => VecInv'
    BY VecStep
  <1>3. VecInv => VecIsSequence
    BY VecHolds
  <1> QED
    BY <1>1, <1>2, <1>3, PTL DEF VecSpec

-----------------------------------------------------------------------------
(* Lists *)

Entry == [node : ListNodes, val : ListVals]

ListRec(l) ==
    /\ DOMAIN l = {"size", "next", "pre", "data"}
    /\ l.next \in [0..MaxNodes -> 0..MaxNodes] /\ l.pre \in [0..MaxNodes -> 0..MaxNodes]
    /\ DOMAIN l.data = ListNodes

\* No node is twice in q.
Once(q) == \A i, j \in 1..Len(q) : NodeAt(q, i) = NodeAt(q, j) => i = j

\* The pointers lead from each position to the next and back.
Ring(l, q) ==
    \A i \in 0..Len(q) : /\ l.next[NodeAt(q, i)] = NodeAt(q, i + 1)
                         /\ l.pre[NodeAt(q, i + 1)] = NodeAt(q, i)

\* The nodes in use are those of q, with its values.
Filling(l, q) ==
    /\ \A i \in 1..Len(q) : l.data[NodeAt(q, i)] = <<q[i].val>>
    /\ \A n \in ListNodes : l.data[n] # Unused => \E i \in 1..Len(q) : NodeAt(q, i) = n

\* The list l holds the elements of q in this order.
ListOf(l, q) ==
    ListRec(l) /\ q \in Seq(Entry) /\ Once(q) /\ Ring(l, q) /\ Filling(l, q) /\ l.size = Len(q)

(* The iterators of a list: nodes, and the guard at both ends.                *)
LEMMA NodeAtIn ==
  ASSUME NEW q \in Seq(Entry)
  PROVE  /\ Len(q) \in Nat
         /\ \A i \in 1..Len(q) : NodeAt(q, i) \in ListNodes /\ NodeAt(q, i) = q[i].node
                                 /\ q[i] \in Entry /\ q[i].val \in ListVals
         /\ NodeAt(q, 0) = Guard /\ NodeAt(q, Len(q) + 1) = Guard
         /\ \A i \in Int : NodeAt(q, i) \in 0..MaxNodes
         /\ Guard \in 0..MaxNodes /\ Guard \notin ListNodes /\ ListNodes \subseteq 0..MaxNodes
  <1> USE ListAssumption
  <1>1. Len(q) \in Nat /\ \A i \in 1..Len(q) : q[i] \in Entry
    BY ElementOfSeq, LenProperties
  <1>2. \A i \in 1..Len(q) : q[i].node \in ListNodes /\ q[i].val \in ListVals
    BY <1>1 DEF Entry
  <1>3. Guard \in 0..MaxNodes /\ Guard \notin ListNodes /\ ListNodes \subseteq 0..MaxNodes
    BY DEF Guard, ListNodes
  <1>4. 0 \notin 1..Len(q) /\ Len(q) + 1 \notin 1..Len(q)
    BY <1>1
  <1>5. NodeAt(q, 0) = Guard /\ NodeAt(q, Len(q) + 1) = Guard
    BY <1>4 DEF NodeAt
  <1>6. \A i \in 1..Len(q) : NodeAt(q, i) = q[i].node
    BY DEF NodeAt
  <1>7. ASSUME NEW i \in Int PROVE NodeAt(q, i) \in 0..MaxNodes
    <2>1. CASE i \in 1..Len(q)
      BY <1>2, <1>3, <1>6, <2>1
    <2>2. CASE i \notin 1..Len(q)
      BY <1>3, <2>2 DEF NodeAt
    <2> QED
      BY <2>1, <2>2
  <1> QED
    BY <1>1, <1>2, <1>3, <1>5, <1>6, <1>7

(* No iterator is at two positions, but for the guard at the ends.            *)
LEMMA Distinct ==
  ASSUME NEW q \in Seq(Entry), Once(q)
  PROVE  /\ \A i, j \in 0..Len(q) : NodeAt(q, i) = NodeAt(q, j) => i = j
         /\ \A i, j \in 1..Len(q) + 1 : NodeAt(q, i) = NodeAt(q, j) => i = j
  <1>1. /\ Len(q) \in Nat /\ Guard \notin ListNodes
        /\ NodeAt(q, 0) = Guard /\ NodeAt(q, Len(q) + 1) = Guard
        /\ \A i \in 1..Len(q) : NodeAt(q, i) \in ListNodes
    BY NodeAtIn
  <1>2. \A i \in 0..Len(q) : i \in 1..Len(q) \/ i = 0
    BY <1>1
  <1>3. \A i \in 1..Len(q) + 1 : i \in 1..Len(q) \/ i = Len(q) + 1
    BY <1>1
  <1>4. ASSUME NEW i \in 0..Len(q), NEW j \in 0..Len(q), NodeAt(q, i) = NodeAt(q, j)
        PROVE  i = j
    BY <1>1, <1>2, <1>4 DEF Once
  <1>5. ASSUME NEW i \in 1..Len(q) + 1, NEW j \in 1..Len(q) + 1, NodeAt(q, i) = NodeAt(q, j)
        PROVE  i = j
    BY <1>1, <1>3, <1>5 DEF Once
  <1> QED
    BY <1>4, <1>5

(* Where the iterators are after an insertion.                                *)
LEMMA NodesInserted ==
  ASSUME NEW q \in Seq(Entry), NEW k \in 1..Len(q) + 1, NEW e \in Entry,
         NEW r, InsertedAt(q, k, e, r, Entry)
  PROVE  /\ r \in Seq(Entry) /\ Len(r) = Len(q) + 1
         /\ \A i \in 0..k - 1 : NodeAt(r, i) = NodeAt(q, i)
         /\ NodeAt(r, k) = e.node
         /\ \A i \in k + 1..Len(q) + 2 : NodeAt(r, i) = NodeAt(q, i - 1)
  <1>0. Len(q) \in Nat /\ k \in Nat /\ k >= 1 /\ k <= Len(q) + 1
    BY NodeAtIn
  <1>1. /\ r \in Seq(Entry) /\ Len(r) = Len(q) + 1
        /\ \A i \in 1..Len(q) + 1 : r[i] = IF i < k THEN q[i] ELSE IF i = k THEN e ELSE q[i - 1]
    BY Zenon DEF InsertedAt
  <1>2. ASSUME NEW i \in 0..k - 1 PROVE NodeAt(r, i) = NodeAt(q, i)
    <2>1. CASE i = 0
      <3>1. i \notin 1..Len(r) /\ i \notin 1..Len(q)
        BY <1>0, <1>1, <2>1
      <3> QED
        BY <3>1 DEF NodeAt
    <2>2. CASE i # 0
      <3>1. i \in 1..Len(r) /\ i \in 1..Len(q) /\ i < k /\ i \in 1..Len(q) + 1
        BY <1>0, <1>1, <2>2
      <3>2. r[i] = q[i]
        BY <1>1, <3>1
      <3> QED
        BY <3>1, <3>2 DEF NodeAt
    <2> QED
      BY <2>1, <2>2
  <1>3. NodeAt(r, k) = e.node
    <2>1. k \in 1..Len(r) /\ k \in 1..Len(q) + 1 /\ ~(k < k)
      BY <1>0, <1>1
    <2>2. r[k] = e
      BY <1>1, <2>1
    <2> QED
      BY <2>1, <2>2 DEF NodeAt
  <1>4. ASSUME NEW i \in k + 1..Len(q) + 2 PROVE NodeAt(r, i) = NodeAt(q, i - 1)
    <2>1. CASE i = Len(q) + 2
      <3>1. i \notin 1..Len(r) /\ i - 1 \notin 1..Len(q)
        BY <1>0, <1>1, <2>1
      <3> QED
        BY <3>1 DEF NodeAt
    <2>2. CASE i # Len(q) + 2
      <3>1. i \in 1..Len(r) /\ i - 1 \in 1..Len(q) /\ ~(i < k) /\ i # k /\ i \in 1..Len(q) + 1
        BY <1>0, <1>1, <2>2
      <3>2. r[i] = q[i - 1]
        BY <1>1, <3>1
      <3> QED
        BY <3>1, <3>2 DEF NodeAt
    <2> QED
      BY <2>1, <2>2
  <1> QED
    BY <1>1, <1>2, <1>3, <1>4

(* And after a removal.                                                       *)
LEMMA NodesRemoved ==
  ASSUME NEW q \in Seq(Entry), NEW k \in 1..Len(q), NEW r, RemovedAt(q, k, r, Entry)
  PROVE  /\ r \in Seq(Entry) /\ Len(r) = Len(q) - 1
         /\ \A i \in 0..k - 1 : NodeAt(r, i) = NodeAt(q, i)
         /\ \A i \in k..Len(q) : NodeAt(r, i) = NodeAt(q, i + 1)
  <1>0. Len(q) \in Nat /\ k \in Nat /\ k >= 1 /\ k <= Len(q)
    BY NodeAtIn
  <1>1. /\ r \in Seq(Entry) /\ Len(r) = Len(q) - 1
        /\ \A i \in 1..Len(q) - 1 : r[i] = IF i < k THEN q[i] ELSE q[i + 1]
    BY Zenon DEF RemovedAt
  <1>2. ASSUME NEW i \in 0..k - 1 PROVE NodeAt(r, i) = NodeAt(q, i)
    <2>1. CASE i = 0
      <3>1. i \notin 1..Len(r) /\ i \notin 1..Len(q)
        BY <1>0, <1>1, <2>1
      <3> QED
        BY <3>1 DEF NodeAt
    <2>2. CASE i # 0
      <3>1. i \in 1..Len(r) /\ i \in 1..Len(q) /\ i < k /\ i \in 1..Len(q) - 1
        BY <1>0, <1>1, <2>2
      <3>2. r[i] = q[i]
        BY <1>1, <3>1
      <3> QED
        BY <3>1, <3>2 DEF NodeAt
    <2> QED
      BY <2>1, <2>2
  <1>3. ASSUME NEW i \in k..Len(q) PROVE NodeAt(r, i) = NodeAt(q, i + 1)
    <2>1. CASE i = Len(q)
      <3>1. i \notin 1..Len(r) /\ i + 1 \notin 1..Len(q)
        BY <1>0, <1>1, <2>1
      <3> QED
        BY <3>1 DEF NodeAt
    <2>2. CASE i # Len(q)
      <3>1. i \in 1..Len(r) /\ i + 1 \in 1..Len(q) /\ ~(i < k) /\ i \in 1..Len(q) - 1
        BY <1>0, <1>1, <2>2
      <3>2. r[i] = q[i + 1]
        BY <1>1, <3>1
      <3> QED
        BY <3>1, <3>2 DEF NodeAt
    <2> QED
      BY <2>1, <2>2
  <1> QED
    BY <1>1, <1>2, <1>3

(* A node that is linked in between two neighbours is an element there.       *)
LEMMA ListInserted ==
  ASSUME NEW l, NEW q, ListOf(l, q), NEW k \in 1..Len(q) + 1,
         NEW n \in ListNodes, l.data[n] = Unused, NEW v \in ListVals,
         NEW p, p = NodeAt(q, k - 1), NEW r, InsertedAt(q, k, Elem(n, v), r, Entry)
  PROVE  ListOf(list_append_node(l, n, p, v), r)
  <1> DEFINE w == list_append_node(l, n, p, v)
             s == NodeAt(q, k)
             m == Len(q)
  <1>0. /\ ListRec(l) /\ q \in Seq(Entry) /\ Once(q) /\ Ring(l, q) /\ Filling(l, q)
        /\ l.size = m
    BY DEF ListOf
  <1>1. /\ m \in Nat /\ k \in Nat /\ k >= 1 /\ k <= m + 1 /\ k - 1 \in 0..m /\ k - 1 + 1 = k
        /\ k \in Int /\ k - 1 \in Int
    <2>1. m \in Nat
      BY <1>0, NodeAtIn
    <2> HIDE DEF m
    <2>2. k \in 1..m + 1
      BY DEF m
    <2> QED
      BY <2>1, <2>2
  <1>2. /\ \A i \in 1..m : NodeAt(q, i) \in ListNodes
        /\ NodeAt(q, 0) = Guard /\ NodeAt(q, m + 1) = Guard
        /\ p \in 0..MaxNodes /\ s \in 0..MaxNodes /\ n \in 0..MaxNodes /\ Guard \notin ListNodes
    BY <1>0, <1>1, NodeAtIn
  <1>3. /\ \A i, j \in 0..m : NodeAt(q, i) = NodeAt(q, j) => i = j
        /\ \A i, j \in 1..m + 1 : NodeAt(q, i) = NodeAt(q, j) => i = j
    BY <1>0, Distinct
  <1>4. \A i \in 0..m + 1 : NodeAt(q, i) # n
    <2> TAKE i \in 0..m + 1
    <2>1. CASE i \in 1..m
      <3>1. l.data[NodeAt(q, i)] = <<q[i].val>>
        BY <1>0, <2>1 DEF Filling
      <3>2. l.data[NodeAt(q, i)] # <<>>
        BY <3>1
      <3> QED
        BY <3>2 DEF Unused
    <2>2. CASE i = 0 \/ i = m + 1
      BY <1>2, <2>2
    <2> QED
      BY <1>1, <2>1, <2>2
  <1>5. p # n /\ s # n /\ l.next[p] = s
    <2>1. k - 1 \in 0..m + 1 /\ k \in 0..m + 1
      BY <1>1
    <2>2. l.next[NodeAt(q, k - 1)] = NodeAt(q, k - 1 + 1)
      BY <1>0, <1>1 DEF Ring
    <2> QED
      BY <1>1, <1>4, <2>1, <2>2
  <1>6. /\ DOMAIN w = {"size", "next", "pre", "data"} /\ w.size = m + 1
        /\ w.next = [[l.next EXCEPT ![n] = s] EXCEPT ![p] = n]
        /\ w.pre = [[l.pre EXCEPT ![n] = p] EXCEPT ![s] = n]
        /\ w.data = [l.data EXCEPT ![n] = <<v>>]
    <2> HIDE DEF s
    <2> DEFINE l1 == [l EXCEPT !.pre[n] = p, !.next[n] = l.next[p]]
               l2 == [l1 EXCEPT !.pre[l1.next[n]] = n]
    <2>1. /\ DOMAIN l1 = {"size", "next", "pre", "data"} /\ l1.size = l.size /\ l1.data = l.data
          /\ l1.next = [l.next EXCEPT ![n] = s] /\ l1.pre = [l.pre EXCEPT ![n] = p]
      BY <1>0, <1>5 DEF ListRec
    <2>2. l1.next[n] = s
      BY <1>0, <1>2, <2>1 DEF ListRec
    <2>3. w = [l2 EXCEPT !.next[l2.pre[n]] = n, !.data[n] = <<v>>, !.size = @ + 1]
      BY DEF list_append_node
    <2> HIDE DEF l1, w
    <2>4. /\ DOMAIN l2 = {"size", "next", "pre", "data"} /\ l2.size = l.size /\ l2.data = l.data
          /\ l2.next = l1.next /\ l2.pre = [l1.pre EXCEPT ![s] = n]
      BY <2>1, <2>2
    <2>5. l2.pre[n] = p
      BY <1>0, <1>2, <1>5, <2>1, <2>4 DEF ListRec
    <2> HIDE DEF l2
    <2> QED
      BY <1>0, <2>1, <2>3, <2>4, <2>5
  <1> HIDE DEF w, s
  <1>7. /\ w.next \in [0..MaxNodes -> 0..MaxNodes] /\ w.pre \in [0..MaxNodes -> 0..MaxNodes]
        /\ w.next[p] = n /\ w.next[n] = s /\ w.pre[n] = p /\ w.pre[s] = n
        /\ \A a \in 0..MaxNodes : a # p /\ a # n => w.next[a] = l.next[a]
        /\ \A a \in 0..MaxNodes : a # s /\ a # n => w.pre[a] = l.pre[a]
    <2> DEFINE D == 0..MaxNodes
    <2>1. p \in D /\ s \in D /\ n \in D /\ l.next \in [D -> D] /\ l.pre \in [D -> D]
      BY <1>0, <1>2 DEF ListRec
    <2> HIDE DEF D
    <2>2. /\ w.next \in [D -> D] /\ w.next[n] = s /\ w.next[p] = n
          /\ \A a \in D : a # n /\ a # p => w.next[a] = l.next[a]
      BY <1>5, <1>6, <2>1
    <2>3. /\ w.pre \in [D -> D] /\ w.pre[n] = p /\ w.pre[s] = n
          /\ \A a \in D : a # n /\ a # s => w.pre[a] = l.pre[a]
      BY <1>5, <1>6, <2>1
    <2> QED
      BY <2>2, <2>3 DEF D
  <1>8. /\ DOMAIN w.data = ListNodes /\ w.data[n] = <<v>>
        /\ \A a \in ListNodes : a # n => w.data[a] = l.data[a]
    BY <1>0, <1>6 DEF ListRec
  <1>9. Elem(n, v) \in Entry /\ Elem(n, v).node = n /\ Elem(n, v).val = v
    BY DEF Elem, Entry
  <1>10. /\ r \in Seq(Entry) /\ Len(r) = m + 1
         /\ \A i \in 0..k - 1 : NodeAt(r, i) = NodeAt(q, i)
         /\ NodeAt(r, k) = n
         /\ \A i \in k + 1..m + 2 : NodeAt(r, i) = NodeAt(q, i - 1)
    BY <1>0, <1>9, NodesInserted
  <1>11. \A i \in 1..m + 1 : r[i] = IF i < k THEN q[i] ELSE IF i = k THEN Elem(n, v) ELSE q[i - 1]
    BY Zenon DEF InsertedAt
  <1> HIDE DEF m
  <1>12. Once(r)
    <2> SUFFICES ASSUME NEW i \in 1..m + 1, NEW j \in 1..m + 1, NodeAt(r, i) = NodeAt(r, j)
                 PROVE  i = j
      BY <1>10 DEF Once
    <2>1. ASSUME NEW a \in 1..m + 1, a # k
          PROVE  \E b \in 1..m : /\ NodeAt(r, a) = NodeAt(q, b)
                                 /\ (a < k => b = a) /\ (a > k => b = a - 1)
      <3>1. CASE a < k
        <4>1. a \in 0..k - 1 /\ a \in 1..m /\ ~(a > k)
          BY <1>1, <3>1
        <4> QED
          BY <1>10, <3>1, <4>1
      <3>2. CASE a > k
        <4>1. a \in k + 1..m + 2 /\ a - 1 \in 1..m /\ ~(a < k)
          BY <1>1, <3>2
        <4> QED
          BY <1>10, <3>2, <4>1
      <3> QED
        BY <1>1, <2>1, <3>1, <3>2
    <2>2. \A b \in 1..m : NodeAt(q, b) # n
      BY <1>1, <1>4
    <2>3. CASE i = k \/ j = k
      BY <1>10, <2>1, <2>2, <2>3
    <2>4. CASE i # k /\ j # k
      <3>1. PICK b \in 1..m :
               NodeAt(r, i) = NodeAt(q, b) /\ (i < k => b = i) /\ (i > k => b = i - 1)
        BY <2>1, <2>4
      <3>2. PICK c \in 1..m :
               NodeAt(r, j) = NodeAt(q, c) /\ (j < k => c = j) /\ (j > k => c = j - 1)
        BY <2>1, <2>4
      <3>3. b = c
        BY <1>0, <3>1, <3>2 DEF Once, m
      <3> QED
        BY <1>1, <2>4, <3>1, <3>2, <3>3
    <2> QED
      BY <2>3, <2>4
  <1>13. Ring(w, r)
    <2> SUFFICES ASSUME NEW i \in 0..m + 1
                 PROVE  /\ w.next[NodeAt(r, i)] = NodeAt(r, i + 1)
                        /\ w.pre[NodeAt(r, i + 1)] = NodeAt(r, i)
      BY <1>10 DEF Ring
    <2>1. \A j \in 0..m : /\ l.next[NodeAt(q, j)] = NodeAt(q, j + 1)
                          /\ l.pre[NodeAt(q, j + 1)] = NodeAt(q, j)
                          /\ NodeAt(q, j) \in 0..MaxNodes /\ NodeAt(q, j + 1) \in 0..MaxNodes
      <3>1. \A j \in 0..m : j \in Int /\ j + 1 \in Int
        BY <1>1
      <3> QED
        BY <1>0, <3>1, NodeAtIn DEF Ring, m
    <2>2. CASE i < k - 1
      <3>1. i \in 0..m /\ i \in 0..k - 1 /\ i + 1 \in 0..k - 1 /\ i \in 0..m + 1
            /\ i + 1 \in 1..m + 1 /\ i # k - 1 /\ i + 1 # k /\ i + 1 \in 0..m + 1
            /\ k \in 1..m + 1
        BY <1>1, <2>2
      <3>2. NodeAt(q, i) # p /\ NodeAt(q, i) # n /\ NodeAt(q, i + 1) # s /\ NodeAt(q, i + 1) # n
        BY <1>1, <1>3, <1>4, <3>1 DEF s
      <3> QED
        BY <1>7, <1>10, <2>1, <3>1, <3>2
    <2>3. CASE i = k - 1
      <3>1. i \in 0..k - 1 /\ i + 1 = k
        BY <1>1, <2>3
      <3> QED
        BY <1>7, <1>10, <2>3, <3>1
    <2>4. CASE i = k
      <3>1. i + 1 \in k + 1..m + 2 /\ i + 1 - 1 = k
        BY <1>1, <2>4
      <3> QED
        BY <1>7, <1>10, <2>4, <3>1 DEF s
    <2>5. CASE i > k
      <3>1. i \in k + 1..m + 2 /\ i + 1 \in k + 1..m + 2 /\ i - 1 \in 0..m /\ i - 1 + 1 = i
            /\ i + 1 - 1 = i /\ i - 1 # k - 1 /\ i # k /\ i \in 1..m + 1 /\ k \in 1..m + 1
            /\ i - 1 \in 0..m + 1 /\ i \in 0..m + 1
        BY <1>1, <2>5
      <3>2. NodeAt(q, i - 1) # p /\ NodeAt(q, i - 1) # n /\ NodeAt(q, i) # s /\ NodeAt(q, i) # n
        BY <1>1, <1>3, <1>4, <3>1 DEF s
      <3>3. NodeAt(r, i) = NodeAt(q, i - 1) /\ NodeAt(r, i + 1) = NodeAt(q, i)
        BY <1>10, <3>1
      <3>4. /\ l.next[NodeAt(q, i - 1)] = NodeAt(q, i) /\ l.pre[NodeAt(q, i)] = NodeAt(q, i - 1)
            /\ NodeAt(q, i - 1) \in 0..MaxNodes /\ NodeAt(q, i) \in 0..MaxNodes
        BY <2>1, <3>1
      <3> QED
        BY <1>7, <3>2, <3>3, <3>4
    <2> QED
      BY <1>1, <2>2, <2>3, <2>4, <2>5
  <1>14. Filling(w, r)
    <2>1. ASSUME NEW i \in 1..m + 1 PROVE w.data[NodeAt(r, i)] = <<r[i].val>>
      <3>1. \A j \in 1..m : w.data[NodeAt(q, j)] = <<q[j].val>>
        <4> TAKE j \in 1..m
        <4>1. NodeAt(q, j) \in ListNodes /\ NodeAt(q, j) # n /\ l.data[NodeAt(q, j)] = <<q[j].val>>
          BY <1>0, <1>1, <1>2, <1>4 DEF Filling, m
        <4> QED
          BY <1>8, <4>1
      <3>2. CASE i < k
        <4>1. i \in 0..k - 1 /\ i \in 1..m
          BY <1>1, <3>2
        <4>2. NodeAt(r, i) = NodeAt(q, i) /\ r[i] = q[i]
          BY <1>10, <1>11, <3>2, <4>1
        <4> QED
          BY <3>1, <4>1, <4>2
      <3>3. CASE i = k
        <4>1. r[i] = Elem(n, v)
          BY <1>1, <1>11, <3>3
        <4> QED
          BY <1>8, <1>9, <1>10, <3>3, <4>1
      <3>4. CASE i > k
        <4>1. i \in k + 1..m + 2 /\ i - 1 \in 1..m /\ ~(i < k) /\ i # k
          BY <1>1, <3>4
        <4>2. NodeAt(r, i) = NodeAt(q, i - 1) /\ r[i] = q[i - 1]
          BY <1>10, <1>11, <4>1
        <4> QED
          BY <3>1, <4>1, <4>2
      <3> QED
        BY <1>1, <3>2, <3>3, <3>4
    <2>2. ASSUME NEW a \in ListNodes, w.data[a] # Unused
          PROVE  \E i \in 1..m + 1 : NodeAt(r, i) = a
      <3>1. CASE a = n
        BY <1>1, <1>10, <3>1
      <3>2. CASE a # n
        <4>1. PICK j \in 1..m : NodeAt(q, j) = a
          BY <1>0, <1>8, <2>2, <3>2 DEF Filling, m
        <4>2. CASE j < k
          <5>1. j \in 0..k - 1 /\ j \in 1..m + 1
            BY <1>1, <4>2
          <5> QED
            BY <1>10, <4>1, <5>1
        <4>3. CASE j >= k
          <5>1. j + 1 \in k + 1..m + 2 /\ j + 1 \in 1..m + 1 /\ j + 1 - 1 = j
            BY <1>1, <4>3
          <5> QED
            BY <1>10, <4>1, <5>1
        <4> QED
          BY <1>1, <4>2, <4>3
      <3> QED
        BY <3>1, <3>2
    <2> QED
      BY <1>10, <2>1, <2>2 DEF Filling
  <1>15. ListRec(w)
    BY <1>6, <1>7, <1>8 DEF ListRec
  <1> QED
    BY <1>6, <1>10, <1>12, <1>13, <1>14, <1>15 DEF ListOf, w

(* A node that is unlinked is no element any more, and the others stay.       *)
LEMMA ListErased ==
  ASSUME NEW l, NEW q, ListOf(l, q), NEW k \in 1..Len(q), NEW n, n = NodeAt(q, k),
         NEW r, RemovedAt(q, k, r, Entry)
  PROVE  ListOf(list_erase_node(l, n), r)
  <1> DEFINE w == list_erase_node(l, n)
             p == NodeAt(q, k - 1)
             s == NodeAt(q, k + 1)
             m == Len(q)
  <1>0. /\ ListRec(l) /\ q \in Seq(Entry) /\ Once(q) /\ Ring(l, q) /\ Filling(l, q)
        /\ l.size = m
    BY DEF ListOf
  <1>1. /\ m \in Nat /\ k \in Nat /\ k >= 1 /\ k <= m /\ k - 1 \in 0..m /\ k - 1 + 1 = k
        /\ k \in 0..m /\ k - 1 # k /\ k \in 1..m + 1 /\ k + 1 \in 1..m + 1 /\ k # k + 1
        /\ k \in Int /\ k - 1 \in Int /\ k + 1 \in Int /\ k \in 1..m
    <2>1. m \in Nat
      BY <1>0, NodeAtIn
    <2> HIDE DEF m
    <2>2. k \in 1..m
      BY DEF m
    <2> QED
      BY <2>1, <2>2
  <1>2. /\ \A i \in 1..m : NodeAt(q, i) \in ListNodes
        /\ n \in ListNodes /\ Guard \in 0..MaxNodes
        /\ p \in 0..MaxNodes /\ s \in 0..MaxNodes /\ n \in 0..MaxNodes
    BY <1>0, <1>1, NodeAtIn
  <1>3. /\ \A i, j \in 0..m : NodeAt(q, i) = NodeAt(q, j) => i = j
        /\ \A i, j \in 1..m + 1 : NodeAt(q, i) = NodeAt(q, j) => i = j
    BY <1>0, Distinct
  <1>4. /\ p # n /\ s # n /\ l.next[n] = s /\ l.pre[n] = p
    <2>1. l.next[NodeAt(q, k)] = NodeAt(q, k + 1) /\ l.pre[NodeAt(q, k - 1 + 1)] = NodeAt(q, k - 1)
      BY <1>0, <1>1 DEF Ring
    <2>2. p # n /\ s # n
      BY <1>1, <1>3
    <2> QED
      BY <1>1, <2>1, <2>2
  <1>5. /\ DOMAIN w = {"size", "next", "pre", "data"} /\ w.size = m - 1
        /\ w.next = [[l.next EXCEPT ![p] = s] EXCEPT ![n] = Guard]
        /\ w.pre = [[l.pre EXCEPT ![s] = p] EXCEPT ![n] = Guard]
        /\ w.data = [l.data EXCEPT ![n] = Unused]
    <2> HIDE DEF p, s
    <2> DEFINE l1 == [l EXCEPT !.next[l.pre[n]] = l.next[n]]
               l2 == [l1 EXCEPT !.pre[l1.next[n]] = l1.pre[n]]
    <2>1. /\ DOMAIN l1 = {"size", "next", "pre", "data"} /\ l1.size = l.size /\ l1.data = l.data
          /\ l1.next = [l.next EXCEPT ![p] = s] /\ l1.pre = l.pre
      BY <1>0, <1>4 DEF ListRec
    <2>2. l1.next[n] = s /\ l1.pre[n] = p
      BY <1>0, <1>2, <1>4, <2>1 DEF ListRec
    <2>3. w = [l2 EXCEPT !.size = @ - 1, !.data[n] = Unused, !.next[n] = Guard, !.pre[n] = Guard]
      BY DEF list_erase_node
    <2> HIDE DEF l1, w
    <2>4. /\ DOMAIN l2 = {"size", "next", "pre", "data"} /\ l2.size = l.size /\ l2.data = l.data
          /\ l2.next = l1.next /\ l2.pre = [l.pre EXCEPT ![s] = p]
      BY <2>1, <2>2
    <2> HIDE DEF l2
    <2> QED
      BY <1>0, <2>1, <2>3, <2>4
  <1> HIDE DEF w, p, s
  <1>6. /\ w.next \in [0..MaxNodes -> 0..MaxNodes] /\ w.pre \in [0..MaxNodes -> 0..MaxNodes]
        /\ w.next[p] = s /\ w.pre[s] = p
        /\ \A a \in 0..MaxNodes : a # p /\ a # n => w.next[a] = l.next[a]
        /\ \A a \in 0..MaxNodes : a # s /\ a # n => w.pre[a] = l.pre[a]
    <2> DEFINE D == 0..MaxNodes
    <2>1. /\ p \in D /\ s \in D /\ n \in D /\ Guard \in D
          /\ l.next \in [D -> D] /\ l.pre \in [D -> D]
      BY <1>0, <1>2 DEF ListRec
    <2> HIDE DEF D
    <2>2. /\ w.next \in [D -> D] /\ w.next[p] = s
          /\ \A a \in D : a # n /\ a # p => w.next[a] = l.next[a]
      BY <1>4, <1>5, <2>1
    <2>3. /\ w.pre \in [D -> D] /\ w.pre[s] = p
          /\ \A a \in D : a # n /\ a # s => w.pre[a] = l.pre[a]
      BY <1>4, <1>5, <2>1
    <2> QED
      BY <2>2, <2>3 DEF D
  <1>7. /\ DOMAIN w.data = ListNodes /\ w.data[n] = Unused
        /\ \A a \in ListNodes : a # n => w.data[a] = l.data[a]
    BY <1>0, <1>2, <1>5 DEF ListRec
  <1>8. /\ r \in Seq(Entry) /\ Len(r) = m - 1
        /\ \A i \in 0..k - 1 : NodeAt(r, i) = NodeAt(q, i)
        /\ \A i \in k..m : NodeAt(r, i) = NodeAt(q, i + 1)
    BY <1>0, NodesRemoved
  <1>9. \A i \in 1..m - 1 : r[i] = IF i < k THEN q[i] ELSE q[i + 1]
    BY Zenon DEF RemovedAt
  <1> HIDE DEF m
  \* The element at i of r in q.
  <1>10. ASSUME NEW i \in 1..m - 1
         PROVE  \E b \in 1..m : /\ b # k /\ NodeAt(r, i) = NodeAt(q, b) /\ r[i] = q[b]
                                /\ (i < k => b = i) /\ (i >= k => b = i + 1)
    <2>1. CASE i < k
      <3>1. i \in 1..m /\ i \in 0..k - 1 /\ i # k /\ ~(i >= k)
        BY <1>1, <2>1
      <3> QED
        BY <1>8, <1>9, <2>1, <3>1
    <2>2. CASE i >= k
      <3>1. i + 1 \in 1..m /\ i \in k..m /\ i + 1 # k /\ ~(i < k)
        BY <1>1, <2>2
      <3> QED
        BY <1>8, <1>9, <2>2, <3>1
    <2> QED
      BY <1>1, <2>1, <2>2
  <1>11. Once(r)
    <2> SUFFICES ASSUME NEW i \in 1..m - 1, NEW j \in 1..m - 1, NodeAt(r, i) = NodeAt(r, j)
                 PROVE  i = j
      BY <1>8 DEF Once
    <2>1. PICK b \in 1..m : NodeAt(r, i) = NodeAt(q, b) /\ (i < k => b = i) /\ (i >= k => b = i + 1)
      BY <1>10
    <2>2. PICK c \in 1..m : NodeAt(r, j) = NodeAt(q, c) /\ (j < k => c = j) /\ (j >= k => c = j + 1)
      BY <1>10
    <2>3. b = c
      BY <1>0, <2>1, <2>2 DEF Once, m
    <2> QED
      BY <1>1, <2>1, <2>2, <2>3
  <1>12. Ring(w, r)
    <2> SUFFICES ASSUME NEW i \in 0..m - 1
                 PROVE  /\ w.next[NodeAt(r, i)] = NodeAt(r, i + 1)
                        /\ w.pre[NodeAt(r, i + 1)] = NodeAt(r, i)
      BY <1>8 DEF Ring
    <2>1. \A j \in 0..m : /\ l.next[NodeAt(q, j)] = NodeAt(q, j + 1)
                          /\ l.pre[NodeAt(q, j + 1)] = NodeAt(q, j)
                          /\ NodeAt(q, j) \in 0..MaxNodes /\ NodeAt(q, j + 1) \in 0..MaxNodes
      <3>1. \A j \in 0..m : j \in Int /\ j + 1 \in Int
        BY <1>1
      <3> QED
        BY <1>0, <3>1, NodeAtIn DEF Ring, m
    <2>2. CASE i < k - 1
      <3>1. i \in 0..m /\ i \in 0..k - 1 /\ i + 1 \in 0..k - 1 /\ i + 1 \in 1..m + 1
            /\ i # k - 1 /\ i # k /\ i + 1 # k /\ i + 1 # k + 1
        BY <1>1, <2>2
      <3>2. NodeAt(q, i) # p /\ NodeAt(q, i) # n /\ NodeAt(q, i + 1) # s /\ NodeAt(q, i + 1) # n
        BY <1>1, <1>3, <3>1 DEF s, p
      <3> QED
        BY <1>6, <1>8, <2>1, <3>1, <3>2
    <2>3. CASE i = k - 1
      <3>1. i \in 0..k - 1 /\ i + 1 = k /\ i + 1 \in k..m
        BY <1>1, <2>3
      <3> QED
        BY <1>6, <1>8, <2>3, <3>1 DEF p, s
    <2>4. CASE i >= k
      <3>1. i \in k..m /\ i + 1 \in k..m /\ i + 1 \in 0..m /\ i + 1 + 1 \in 1..m + 1
            /\ i + 1 # k - 1 /\ i + 1 # k /\ i + 1 + 1 # k /\ i + 1 + 1 # k + 1
        BY <1>1, <2>4
      <3>2. NodeAt(q, i + 1) # p /\ NodeAt(q, i + 1) # n
            /\ NodeAt(q, i + 1 + 1) # s /\ NodeAt(q, i + 1 + 1) # n
        BY <1>1, <1>3, <3>1 DEF s, p
      <3> QED
        BY <1>6, <1>8, <2>1, <3>1, <3>2
    <2> QED
      BY <1>1, <2>2, <2>3, <2>4
  <1>13. Filling(w, r)
    <2>1. ASSUME NEW i \in 1..m - 1 PROVE w.data[NodeAt(r, i)] = <<r[i].val>>
      <3>1. PICK b \in 1..m : b # k /\ NodeAt(r, i) = NodeAt(q, b) /\ r[i] = q[b]
        BY <1>10
      <3>2. NodeAt(q, b) \in ListNodes /\ l.data[NodeAt(q, b)] = <<q[b].val>>
        BY <1>0, <1>2 DEF Filling, m
      <3>3. NodeAt(q, b) # n
        BY <1>0, <1>1, <3>1 DEF Once, m
      <3> QED
        BY <1>7, <3>1, <3>2, <3>3
    <2>2. ASSUME NEW a \in ListNodes, w.data[a] # Unused
          PROVE  \E i \in 1..m - 1 : NodeAt(r, i) = a
      <3>1. a # n
        BY <1>7, <2>2
      <3>2. PICK j \in 1..m : NodeAt(q, j) = a
        BY <1>0, <1>7, <2>2, <3>1 DEF Filling, m
      <3>3. j # k
        BY <3>1, <3>2
      <3>4. CASE j < k
        <4>1. j \in 0..k - 1 /\ j \in 1..m - 1
          BY <1>1, <3>4
        <4> QED
          BY <1>8, <3>2, <4>1
      <3>5. CASE j > k
        <4>1. j - 1 \in k..m /\ j - 1 \in 1..m - 1 /\ j - 1 + 1 = j
          BY <1>1, <3>5
        <4> QED
          BY <1>8, <3>2, <4>1
      <3> QED
        BY <1>1, <3>3, <3>4, <3>5
    <2> QED
      BY <1>8, <2>1, <2>2 DEF Filling
  <1>14. ListRec(w)
    BY <1>5, <1>6, <1>7 DEF ListRec
  <1> QED
    BY <1>5, <1>8, <1>11, <1>12, <1>13, <1>14 DEF ListOf, w

(* A value that is stored in a node is the one of its element.                *)
LEMMA ListUpdated ==
  ASSUME NEW l, NEW q, ListOf(l, q), NEW k \in 1..Len(q), NEW n, n = NodeAt(q, k),
         NEW v \in ListVals
  PROVE  ListOf([l EXCEPT !.data[n] = <<v>>], [q EXCEPT ![k] = Elem(n, v)])
  <1> DEFINE w == [l EXCEPT !.data[n] = <<v>>]
             r == [q EXCEPT ![k] = Elem(n, v)]
             m == Len(q)
  <1>0. /\ ListRec(l) /\ q \in Seq(Entry) /\ Once(q) /\ Ring(l, q) /\ Filling(l, q)
        /\ l.size = m
    BY DEF ListOf
  <1>1. /\ m \in Nat /\ n \in ListNodes
        /\ \A i \in 1..m : NodeAt(q, i) \in ListNodes
    BY <1>0, NodeAtIn
  <1>2. Elem(n, v) \in Entry /\ Elem(n, v).node = n /\ Elem(n, v).val = v
    BY <1>1 DEF Elem, Entry
  <1>3. /\ r \in Seq(Entry) /\ Len(r) = m
        /\ \A i \in 1..m : r[i] = IF i = k THEN Elem(n, v) ELSE q[i]
    BY <1>0, <1>2, ExceptSeq
  <1> HIDE DEF r
  <1>4. \A i : NodeAt(r, i) = NodeAt(q, i)
    BY <1>2, <1>3 DEF NodeAt
  <1>5. /\ DOMAIN w = {"size", "next", "pre", "data"} /\ w.size = l.size /\ w.next = l.next
        /\ w.pre = l.pre /\ DOMAIN w.data = ListNodes /\ w.data[n] = <<v>>
        /\ \A a \in ListNodes : a # n => w.data[a] = l.data[a]
    BY <1>0, <1>1 DEF ListRec
  <1> HIDE DEF w
  <1>6. ListRec(w) /\ Once(r) /\ Ring(w, r)
    BY <1>0, <1>3, <1>4, <1>5 DEF ListRec, Once, Ring
  <1>7. Filling(w, r)
    <2>1. ASSUME NEW i \in 1..m PROVE w.data[NodeAt(r, i)] = <<r[i].val>>
      <3>1. CASE i = k
        BY <1>2, <1>3, <1>4, <1>5, <3>1
      <3>2. CASE i # k
        <4>1. NodeAt(q, i) # n
          BY <1>0, <3>2 DEF Once
        <4>2. l.data[NodeAt(q, i)] = <<q[i].val>>
          BY <1>0 DEF Filling
        <4> QED
          BY <1>1, <1>3, <1>4, <1>5, <3>2, <4>1, <4>2
      <3> QED
        BY <3>1, <3>2
    <2>2. ASSUME NEW a \in ListNodes, w.data[a] # Unused
          PROVE  \E i \in 1..m : NodeAt(r, i) = a
      <3>1. CASE a = n
        BY <1>4, <3>1
      <3>2. CASE a # n
        BY <1>0, <1>4, <1>5, <2>2, <3>2 DEF Filling
      <3> QED
        BY <3>1, <3>2
    <2> QED
      BY <1>3, <2>1, <2>2 DEF Filling
  <1> QED
    BY <1>0, <1>3, <1>5, <1>6, <1>7 DEF ListOf, w, r

(* The positions of the iterators of a list.                                  *)
LEMMA Positions ==
  ASSUME ListOf(lst, listseq)
  PROVE  /\ Len(listseq) \in Nat
         /\ \A i \in 1..Len(listseq) + 1 :
               NodeAt(listseq, i) \in Iters /\ Pos(NodeAt(listseq, i)) = i
         /\ \A i \in 1..Len(listseq) : NodeAt(listseq, i) \in UsedNodes
         /\ \A n \in Iters : Pos(n) \in 1..Len(listseq) + 1 /\ NodeAt(listseq, Pos(n)) = n
         /\ \A n \in UsedNodes : Pos(n) \in 1..Len(listseq)
         /\ Guard \in Iters /\ Pos(Guard) = Len(listseq) + 1
  <1> DEFINE q == listseq
             m == Len(q)
  <1>0. q \in Seq(Entry) /\ Once(q) /\ Filling(lst, q)
    BY DEF ListOf
  <1>1. /\ m \in Nat /\ \A i \in 1..m : NodeAt(q, i) \in ListNodes
        /\ NodeAt(q, m + 1) = Guard /\ Guard \notin ListNodes
    BY <1>0, NodeAtIn
  <1>2. \A i, j \in 1..m + 1 : NodeAt(q, i) = NodeAt(q, j) => i = j
    BY <1>0, Distinct
  <1>3. \A i \in 1..m : NodeAt(q, i) \in UsedNodes
    <2> TAKE i \in 1..m
    <2>1. lst.data[NodeAt(q, i)] = <<q[i].val>>
      BY <1>0 DEF Filling
    <2>2. lst.data[NodeAt(q, i)] # <<>>
      BY <2>1
    <2> QED
      BY <1>1, <2>2 DEF UsedNodes, FreeNodes, Unused
  <1>4. \A n \in UsedNodes : \E i \in 1..m : NodeAt(q, i) = n
    BY <1>0 DEF UsedNodes, FreeNodes, Filling
  <1>5. \A i \in 1..m + 1 : i \in 1..m \/ i = m + 1
    BY <1>1
  <1>6. m + 1 \in 1..m + 1 /\ 1..m \subseteq 1..m + 1
    BY <1>1
  <1>7. \A i \in 1..m + 1 : NodeAt(q, i) \in Iters
    BY <1>1, <1>3, <1>5 DEF Iters, list_end
  <1>8. ASSUME NEW i \in 1..m + 1 PROVE Pos(NodeAt(q, i)) = i
    BY <1>2 DEF Pos
  <1>9. ASSUME NEW n \in UsedNodes
        PROVE  Pos(n) \in 1..m /\ NodeAt(q, Pos(n)) = n
    BY <1>4, <1>6, <1>8
  <1>10. Guard \in Iters /\ Pos(Guard) = m + 1
    BY <1>1, <1>6, <1>8 DEF Iters, list_end
  <1>11. ASSUME NEW n \in Iters
         PROVE  Pos(n) \in 1..m + 1 /\ NodeAt(q, Pos(n)) = n
    <2>1. CASE n \in UsedNodes
      BY <1>6, <1>9, <2>1
    <2>2. CASE n = Guard
      BY <1>1, <1>6, <1>10, <2>2
    <2> QED
      BY <2>1, <2>2 DEF Iters, list_end
  <1> QED
    BY <1>1, <1>3, <1>7, <1>8, <1>9, <1>10, <1>11

(* The pointers lead to the next position and to the one before.              *)
LEMMA Neighbours ==
  ASSUME ListOf(lst, listseq)
  PROVE  /\ \A n \in Iters : n # Guard =>
               lst.next[n] \in Iters /\ Pos(lst.next[n]) = Pos(n) + 1
         /\ \A n \in Iters : n # list_begin(lst) =>
               lst.pre[n] \in Iters /\ Pos(lst.pre[n]) = Pos(n) - 1
         /\ Pos(list_begin(lst)) = 1
         /\ \A i \in 1..Len(listseq) + 1 : lst.pre[NodeAt(listseq, i)] = NodeAt(listseq, i - 1)
         /\ lst.next[Guard] = NodeAt(listseq, 1)
         /\ lst.pre[Guard] = NodeAt(listseq, Len(listseq))
  <1> DEFINE q == listseq
             m == Len(q)
  <1>0. q \in Seq(Entry) /\ Ring(lst, q)
    BY DEF ListOf
  <1>1. /\ m \in Nat
        /\ \A i \in 1..m + 1 : NodeAt(q, i) \in Iters /\ Pos(NodeAt(q, i)) = i
        /\ \A n \in Iters : Pos(n) \in 1..m + 1 /\ NodeAt(q, Pos(n)) = n
        /\ Pos(Guard) = m + 1
    BY Positions
  <1>2. NodeAt(q, 0) = Guard /\ NodeAt(q, m + 1) = Guard
    BY <1>0, NodeAtIn
  <1>3. /\ \A i \in 0..m : lst.next[NodeAt(q, i)] = NodeAt(q, i + 1)
        /\ \A i \in 0..m : lst.pre[NodeAt(q, i + 1)] = NodeAt(q, i)
    BY <1>0 DEF Ring
  <1>4. 0 \in 0..m /\ m \in 0..m /\ 0 + 1 = 1 /\ 1 \in 1..m + 1
    BY <1>1
  <1> HIDE DEF m
  <1>5. lst.next[Guard] = NodeAt(q, 1) /\ lst.pre[Guard] = NodeAt(q, m)
    BY <1>2, <1>3, <1>4
  <1>6. list_begin(lst) = NodeAt(q, 1) /\ Pos(list_begin(lst)) = 1
    BY <1>1, <1>4, <1>5 DEF list_begin
  <1>7. ASSUME NEW i \in 1..m + 1 PROVE lst.pre[NodeAt(q, i)] = NodeAt(q, i - 1)
    <2>1. i - 1 \in 0..m /\ i - 1 + 1 = i
      BY <1>1
    <2> QED
      BY <1>3, <2>1
  <1>8. ASSUME NEW n \in Iters, n # Guard
        PROVE  lst.next[n] \in Iters /\ Pos(lst.next[n]) = Pos(n) + 1
    <2> DEFINE i == Pos(n)
    <2>1. i \in 1..m + 1 /\ NodeAt(q, i) = n
      BY <1>1
    <2>2. i # m + 1
      BY <1>2, <1>8, <2>1
    <2> HIDE DEF i
    <2>3. i \in 0..m /\ i + 1 \in 1..m + 1
      BY <1>1, <2>1, <2>2
    <2>4. lst.next[n] = NodeAt(q, i + 1)
      BY <1>3, <2>1, <2>3
    <2>5. lst.next[n] \in Iters /\ Pos(lst.next[n]) = i + 1
      BY <1>1, <2>3, <2>4
    <2> QED
      BY <2>5 DEF i
  <1>9. ASSUME NEW n \in Iters, n # list_begin(lst)
        PROVE  lst.pre[n] \in Iters /\ Pos(lst.pre[n]) = Pos(n) - 1
    <2> DEFINE i == Pos(n)
    <2>1. i \in 1..m + 1 /\ NodeAt(q, i) = n
      BY <1>1
    <2>2. i # 1
      BY <1>6, <1>9, <2>1
    <2> HIDE DEF i
    <2>3. i - 1 \in 1..m + 1
      BY <1>1, <2>1, <2>2
    <2>4. lst.pre[n] = NodeAt(q, i - 1)
      BY <1>7, <2>1
    <2>5. lst.pre[n] \in Iters /\ Pos(lst.pre[n]) = i - 1
      BY <1>1, <2>3, <2>4
    <2> QED
      BY <2>5 DEF i
  <1> QED
    BY <1>5, <1>6, <1>7, <1>8, <1>9 DEF m

-----------------------------------------------------------------------------
(* The list is a sequence *)

\* Pos and Iters of a given sequence.
PosIn(q, n) == CHOOSE i \in 1..Len(q) + 1 : NodeAt(q, i) = n
IsIter(q, n) == \E i \in 1..Len(q) + 1 : NodeAt(q, i) = n

\* How far a call with a loop has come.
WalkOk(w, q) ==
    /\ DOMAIN w = {"op", "from", "to", "n", "node", "step", "short"}
    /\ w.step \in Int /\ w.n \in Int
    /\ w.op \in {"next_n", "ahead", "behind"} => IsIter(q, w.from) /\ IsIter(q, w.node)
    /\ w.op \in {"ahead", "behind"} => IsIter(q, w.to)
    /\ w.op = "next_n" /\ ~w.short =>
          /\ PosIn(q, w.node) + w.step = PosIn(q, w.from) + w.n
          /\ PosIn(q, w.from) + w.n \in 1..Len(q) + 1
    /\ w.op = "ahead" =>
          /\ w.step = PosIn(q, w.node) - PosIn(q, w.from)
          /\ PosIn(q, w.to) < PosIn(q, w.from) \/ PosIn(q, w.node) <= PosIn(q, w.to)
    /\ w.op = "behind" =>
          /\ w.step = PosIn(q, w.node) - PosIn(q, w.to)
          /\ PosIn(q, w.to) < PosIn(q, w.from) /\ PosIn(q, w.node) <= PosIn(q, w.from)

ListInv == ListOf(lst, listseq) /\ WalkOk(walk, listseq)

(* The two ways to speak of iterators.                                        *)
LEMMA ItersAre ==
  ASSUME ListOf(lst, listseq)
  PROVE  /\ \A n : Pos(n) = PosIn(listseq, n)
         /\ \A n : n \in Iters <=> IsIter(listseq, n)
  <1>1. \A n : Pos(n) = PosIn(listseq, n)
    BY DEF Pos, PosIn
  <1>2. \A n : n \in Iters <=> IsIter(listseq, n)
    BY Positions DEF IsIter
  <1> QED
    BY <1>1, <1>2

(* No call is under way.                                                      *)
LEMMA NoWalkOk == \A q : WalkOk(NoWalk, q)
  <1>1. /\ DOMAIN NoWalk = {"op", "from", "to", "n", "node", "step", "short"}
        /\ NoWalk.op = "none" /\ NoWalk.step = 0 /\ NoWalk.n = 0
    BY DEF NoWalk
  <1> QED
    BY <1>1 DEF WalkOk

(* The empty list.                                                            *)
LEMMA ListStart == ListInit => ListInv
  <1> SUFFICES ASSUME ListInit PROVE ListInv
    OBVIOUS
  <1> USE ListAssumption
  <1>1. lst = list_init /\ walk = NoWalk /\ listseq = <<>>
    BY DEF ListInit, ListRef!Empty
  <1>2. /\ DOMAIN lst = {"size", "next", "pre", "data"} /\ lst.size = 0
        /\ lst.next = [n \in 0..MaxNodes |-> Guard] /\ lst.pre = [n \in 0..MaxNodes |-> Guard]
        /\ lst.data = [n \in ListNodes |-> Unused]
    BY <1>1 DEF list_init
  <1>3. /\ listseq \in Seq(Entry) /\ Len(listseq) = 0 /\ Guard \in 0..MaxNodes
    BY <1>1 DEF Guard
  <1>4. ListRec(lst)
    BY <1>2, <1>3 DEF ListRec
  <1>5. \A i : NodeAt(listseq, i) = Guard
    BY <1>3 DEF NodeAt
  <1>6. Once(listseq) /\ Filling(lst, listseq)
    BY <1>2, <1>3 DEF Once, Filling
  <1>7. Ring(lst, listseq)
    BY <1>2, <1>3, <1>5 DEF Ring
  <1>8. ListOf(lst, listseq)
    BY <1>2, <1>3, <1>4, <1>6, <1>7 DEF ListOf
  <1> QED
    BY <1>1, <1>8, NoWalkOk DEF ListInv

(* A node is linked in before position k.                                     *)
LEMMA InsertStep ==
  ASSUME ListInv, NEW k \in 1..Len(listseq) + 1, NEW n \in FreeNodes, NEW v \in ListVals,
         Change(list_append_node(lst, n, NodeAt(listseq, k - 1), v)),
         ListRef!Insert(k, Elem(n, v))
  PROVE  ListInv'
  <1>1. ListOf(lst, listseq) /\ listseq \in Seq(Entry) /\ n \in ListNodes /\ lst.data[n] = Unused
    BY DEF ListInv, ListOf, FreeNodes
  <1>2. Elem(n, v) \in Entry
    BY <1>1 DEF Elem, Entry
  <1>3. listseq' = InsertAt(listseq, k, Elem(n, v))
    BY DEF ListRef!Insert, ListRef!InsertAt, InsertAt
  <1>4. InsertedAt(listseq, k, Elem(n, v), listseq', Entry)
    BY <1>1, <1>2, <1>3, SeqInserted
  <1>5. /\ lst' = list_append_node(lst, n, NodeAt(listseq, k - 1), v)
        /\ walk' = NoWalk
    BY DEF Change
  <1>6. ListOf(lst', listseq')
    BY <1>1, <1>4, <1>5, ListInserted
  <1> QED
    BY <1>5, <1>6, NoWalkOk DEF ListInv

(* The node at position k is unlinked.                                        *)
LEMMA EraseStep ==
  ASSUME ListInv, NEW k \in 1..Len(listseq),
         lst' = list_erase_node(lst, NodeAt(listseq, k)), walk' = walk,
         walk = NoWalk \/ walk.op = "clear", ListRef!Erase(k)
  PROVE  ListInv'
  <1>1. ListOf(lst, listseq) /\ listseq \in Seq(Entry) /\ WalkOk(walk, listseq)
    BY DEF ListInv, ListOf
  <1>2. listseq' = RemoveAt(listseq, k)
    BY DEF ListRef!Erase, ListRef!RemoveAt, RemoveAt
  <1>3. RemovedAt(listseq, k, listseq', Entry)
    BY <1>1, <1>2, SeqRemoved
  <1>4. ListOf(lst', listseq')
    BY <1>1, <1>3, ListErased
  <1>5. walk.op \in {"none", "clear"}
    BY DEF NoWalk
  <1>6. WalkOk(walk', listseq')
    BY <1>1, <1>5 DEF WalkOk
  <1> QED
    BY <1>4, <1>6 DEF ListInv

(* Pushing, popping and what is done at an iterator.                          *)
LEMMA ChangeSteps ==
  ASSUME ListInv
  PROVE  /\ \A n \in FreeNodes, v \in ListVals : list_push_back(n, v) => ListInv'
         /\ \A n \in FreeNodes, v \in ListVals : list_push_front(n, v) => ListInv'
         /\ \A n \in FreeNodes, v \in ListVals, iter \in Iters : list_insert(iter, n, v) => ListInv'
         /\ list_pop_back => ListInv'
         /\ list_pop_front => ListInv'
         /\ PopNext => ListInv'
         /\ \A iter \in UsedNodes : list_erase(iter) => ListInv'
         /\ \A iter \in UsedNodes, v \in ListVals : list_iter_set_value(iter, v) => ListInv'
  <1> DEFINE q == listseq
             m == Len(q)
  <1>1. ListOf(lst, q) /\ WalkOk(walk, q) /\ lst.size = m
    BY DEF ListInv, ListOf
  <1>2. /\ m \in Nat /\ (\A n \in Iters : Pos(n) \in 1..m + 1 /\ NodeAt(q, Pos(n)) = n)
        /\ (\A n \in UsedNodes : Pos(n) \in 1..m) /\ UsedNodes \subseteq Iters
    BY <1>1, Positions DEF Iters
  <1>3. /\ \A i \in 1..m + 1 : lst.pre[NodeAt(q, i)] = NodeAt(q, i - 1)
        /\ lst.next[Guard] = NodeAt(q, 1) /\ lst.pre[Guard] = NodeAt(q, m)
    BY <1>1, Neighbours
  <1>4. NodeAt(q, 0) = Guard
    BY <1>1, NodeAtIn DEF ListOf
  <1>5. ASSUME NEW n \in FreeNodes, NEW v \in ListVals, list_push_back(n, v) PROVE ListInv'
    <2>1. m + 1 \in 1..m + 1 /\ m + 1 - 1 = m
      BY <1>2
    <2>2. /\ Change(list_append_node(lst, n, NodeAt(q, m + 1 - 1), v))
          /\ ListRef!Insert(m + 1, Elem(n, v))
      BY <1>3, <1>5, <2>1 DEF list_push_back
    <2> QED
      BY <2>1, <2>2, InsertStep
  <1>6. ASSUME NEW n \in FreeNodes, NEW v \in ListVals, list_push_front(n, v) PROVE ListInv'
    <2>1. 1 \in 1..m + 1 /\ 1 - 1 = 0
      BY <1>2
    <2>2. Change(list_append_node(lst, n, NodeAt(q, 1 - 1), v)) /\ ListRef!Insert(1, Elem(n, v))
      BY <1>4, <1>6, <2>1 DEF list_push_front
    <2> QED
      BY <2>1, <2>2, InsertStep
  <1>7. ASSUME NEW n \in FreeNodes, NEW v \in ListVals, NEW iter \in Iters,
               list_insert(iter, n, v)
        PROVE  ListInv'
    <2> DEFINE k == Pos(iter)
    <2>1. k \in 1..m + 1 /\ lst.pre[iter] = NodeAt(q, k - 1)
      BY <1>2, <1>3
    <2>2. Change(list_append_node(lst, n, NodeAt(q, k - 1), v)) /\ ListRef!Insert(k, Elem(n, v))
      BY <1>7, <2>1 DEF list_insert
    <2> HIDE DEF k
    <2> QED
      BY <2>1, <2>2, InsertStep
  <1>8. ASSUME list_pop_back PROVE ListInv'
    <2>1. m \in 1..m
      BY <1>1, <1>2, <1>8 DEF list_pop_back
    <2>2. /\ lst' = list_erase_node(lst, NodeAt(q, m)) /\ walk' = walk
          /\ walk = NoWalk /\ ListRef!Erase(m)
      BY <1>3, <1>8 DEF list_pop_back, Change
    <2> QED
      BY <2>1, <2>2, EraseStep
  <1>9. ASSUME list_pop_front \/ PopNext PROVE ListInv'
    <2>1. 1 \in 1..m
      BY <1>1, <1>2, <1>9 DEF list_pop_front, PopNext
    <2>2. /\ lst' = list_erase_node(lst, NodeAt(q, 1)) /\ walk' = walk
          /\ walk = NoWalk \/ walk.op = "clear"
          /\ ListRef!Erase(1)
      BY <1>3, <1>9 DEF list_pop_front, PopNext, Change
    <2> QED
      BY <2>1, <2>2, EraseStep
  <1>10. ASSUME NEW iter \in UsedNodes, list_erase(iter) PROVE ListInv'
    <2> DEFINE k == Pos(iter)
    <2>1. k \in 1..m /\ iter = NodeAt(q, k)
      BY <1>2
    <2>2. /\ lst' = list_erase_node(lst, NodeAt(q, k)) /\ walk' = walk
          /\ walk = NoWalk /\ ListRef!Erase(k)
      BY <1>10, <2>1 DEF list_erase, Change
    <2> HIDE DEF k
    <2> QED
      BY <2>1, <2>2, EraseStep
  <1>11. ASSUME NEW iter \in UsedNodes, NEW v \in ListVals, list_iter_set_value(iter, v)
         PROVE  ListInv'
    <2> DEFINE k == Pos(iter)
    <2>1. k \in 1..m /\ iter = NodeAt(q, k)
      BY <1>2
    <2>2. /\ lst' = [lst EXCEPT !.data[iter] = <<v>>] /\ walk' = NoWalk
          /\ listseq' = [listseq EXCEPT ![k] = Elem(iter, v)]
      BY <1>11 DEF list_iter_set_value, Change, ListRef!Update
    <2> HIDE DEF k
    <2>3. ListOf(lst', listseq')
      BY <1>1, <2>1, <2>2, ListUpdated
    <2> QED
      BY <2>2, <2>3, NoWalkOk DEF ListInv
  <1> QED
    BY <1>5, <1>6, <1>7, <1>8, <1>9, <1>10, <1>11

(* Walking moves the iterator by one position.                                *)
LEMMA Walking ==
  ASSUME ListOf(lst, listseq)
  PROVE  /\ Len(listseq) \in Nat
         /\ \A n : IsIter(listseq, n) => PosIn(listseq, n) \in 1..Len(listseq) + 1
         /\ \A n, k : IsIter(listseq, n) /\ IsIter(listseq, k)
               /\ PosIn(listseq, n) = PosIn(listseq, k) => n = k
         /\ \A n : IsIter(listseq, n) /\ n # Guard =>
               /\ IsIter(listseq, lst.next[n])
               /\ PosIn(listseq, lst.next[n]) = PosIn(listseq, n) + 1
         /\ \A n : IsIter(listseq, n) /\ n # list_begin(lst) =>
               /\ IsIter(listseq, lst.pre[n])
               /\ PosIn(listseq, lst.pre[n]) = PosIn(listseq, n) - 1
         /\ IsIter(listseq, Guard) /\ PosIn(listseq, Guard) = Len(listseq) + 1
         /\ PosIn(listseq, list_begin(lst)) = 1
  <1>1. (\A n : Pos(n) = PosIn(listseq, n)) /\ (\A n : n \in Iters <=> IsIter(listseq, n))
    BY ItersAre
  <1>2. /\ Len(listseq) \in Nat
        /\ \A n \in Iters : Pos(n) \in 1..Len(listseq) + 1 /\ NodeAt(listseq, Pos(n)) = n
        /\ Guard \in Iters /\ Pos(Guard) = Len(listseq) + 1
    BY Positions
  <1>3. /\ \A n \in Iters : n # Guard =>
              lst.next[n] \in Iters /\ Pos(lst.next[n]) = Pos(n) + 1
        /\ \A n \in Iters : n # list_begin(lst) =>
              lst.pre[n] \in Iters /\ Pos(lst.pre[n]) = Pos(n) - 1
        /\ Pos(list_begin(lst)) = 1
    BY Neighbours
  <1>4. ASSUME NEW n \in Iters, NEW k \in Iters, Pos(n) = Pos(k) PROVE n = k
    BY <1>2, <1>4
  <1> QED
    BY <1>1, <1>2, <1>3, <1>4

(* A call with a loop begins.                                                 *)
LEMMA BeginSteps ==
  ASSUME ListInv
  PROVE  /\ list_clear => ListInv'
         /\ \A i, j \in Iters : list_iter_next_n(i, Pos(j) - Pos(i)) => ListInv'
         /\ \A i, j \in Iters : list_iter_distance(i, j) => ListInv'
  <1> DEFINE q == listseq
             m == Len(q)
  <1>1. ListOf(lst, q)
    BY DEF ListInv
  <1>2. /\ m \in Nat
        /\ \A n \in Iters : IsIter(q, n) /\ Pos(n) = PosIn(q, n) /\ PosIn(q, n) \in 1..m + 1
    BY <1>1, ItersAre, Walking
  <1>3. ASSUME NEW call, Begin(call), WalkOk(call, q) PROVE ListInv'
    BY <1>1, <1>3 DEF ListInv, Begin
  <1> HIDE DEF m, q
  <1>4. ASSUME list_clear PROVE ListInv'
    <2> DEFINE w == [NoWalk EXCEPT !.op = "clear"]
    <2>1. /\ DOMAIN w = {"op", "from", "to", "n", "node", "step", "short"}
          /\ w.op = "clear" /\ w.step = 0 /\ w.n = 0
      BY DEF NoWalk
    <2>2. Begin(w)
      BY <1>4 DEF list_clear
    <2> HIDE DEF w
    <2>3. WalkOk(w, q)
      BY <2>1 DEF WalkOk
    <2> QED
      BY <1>3, <2>2, <2>3
  <1>5. ASSUME NEW i \in Iters, NEW j \in Iters, list_iter_next_n(i, Pos(j) - Pos(i))
        PROVE  ListInv'
    <2> DEFINE n == PosIn(q, j) - PosIn(q, i)
               short == i = list_begin(lst) /\ n % SizeT > (lst.size - n) % SizeT
               step == IF short THEN n - lst.size ELSE n
               w == [NoWalk EXCEPT !.op = "next_n", !.from = i, !.n = n, !.node = i,
                                   !.step = step, !.short = short]
    <2>1. Pos(j) - Pos(i) = n
      BY <1>2
    <2>2. list_iter_next_n(i, n)
      BY <1>5, <2>1
    <2>3. n \in Int /\ lst.size \in Int
      BY <1>1, <1>2 DEF ListOf, m, q
    <2>4. PosIn(q, i) + n = PosIn(q, j)
      BY <1>2
    <2> HIDE DEF n
    <2>5. Begin(w)
      BY <2>2, Zenon DEF list_iter_next_n
    <2>6. step \in Int /\ (~short => step = n)
      BY <2>3
    <2> HIDE DEF short, step
    <2>7. /\ DOMAIN w = {"op", "from", "to", "n", "node", "step", "short"}
          /\ w.op = "next_n" /\ w.from = i /\ w.n = n /\ w.node = i /\ w.step = step
          /\ w.short = short
      BY DEF NoWalk
    <2> HIDE DEF w
    <2>8. WalkOk(w, q)
      BY <1>2, <2>3, <2>4, <2>6, <2>7 DEF WalkOk, m
    <2> QED
      BY <1>3, <2>5, <2>8
  <1>6. ASSUME NEW i \in Iters, NEW j \in Iters, list_iter_distance(i, j) PROVE ListInv'
    <2> DEFINE w == [NoWalk EXCEPT !.op = "ahead", !.from = i, !.to = j, !.node = i]
    <2>1. /\ DOMAIN w = {"op", "from", "to", "n", "node", "step", "short"}
          /\ w.op = "ahead" /\ w.from = i /\ w.to = j /\ w.node = i /\ w.step = 0 /\ w.n = 0
      BY DEF NoWalk
    <2>2. Begin(w)
      BY <1>6 DEF list_iter_distance
    <2> HIDE DEF w
    <2>3. WalkOk(w, q)
      BY <1>2, <2>1 DEF WalkOk
    <2> QED
      BY <1>3, <2>2, <2>3
  <1> QED
    BY <1>4, <1>5, <1>6

(* A call with a loop goes on and ends.                                       *)
LEMMA WalkSteps == ListInv /\ (Hop \/ Count \/ TurnRound \/ EndWalk) => ListInv'
  <1> SUFFICES ASSUME ListInv, Hop \/ Count \/ TurnRound \/ EndWalk PROVE ListInv'
    OBVIOUS
  <1> DEFINE q == listseq
             P(n) == PosIn(q, n)
             m == Len(q)
  <1>1. ListOf(lst, q) /\ WalkOk(walk, q)
    BY DEF ListInv
  <1>2. /\ m \in Nat
        /\ \A n : IsIter(q, n) => P(n) \in 1..m + 1
        /\ \A n, k : IsIter(q, n) /\ IsIter(q, k) /\ P(n) = P(k) => n = k
        /\ \A n : IsIter(q, n) /\ n # Guard =>
              IsIter(q, lst.next[n]) /\ P(lst.next[n]) = P(n) + 1
        /\ \A n : IsIter(q, n) /\ n # list_begin(lst) =>
              IsIter(q, lst.pre[n]) /\ P(lst.pre[n]) = P(n) - 1
        /\ IsIter(q, Guard) /\ P(Guard) = m + 1
    BY <1>1, Walking
  <1>3. lst' = lst /\ q' = q
    BY DEF Hop, Count, TurnRound, EndWalk, MoveTo
  <1>4. SUFFICES WalkOk(walk', q)
    BY <1>1, <1>3 DEF ListInv
  <1>5. /\ DOMAIN walk = {"op", "from", "to", "n", "node", "step", "short"}
        /\ walk.step \in Int /\ walk.n \in Int
        /\ walk.op \in {"next_n", "ahead", "behind"} => IsIter(q, walk.from) /\ IsIter(q, walk.node)
        /\ walk.op \in {"ahead", "behind"} => IsIter(q, walk.to)
        /\ walk.op = "next_n" /\ ~walk.short =>
              P(walk.node) + walk.step = P(walk.from) + walk.n /\ P(walk.from) + walk.n \in 1..m + 1
        /\ walk.op = "ahead" =>
              /\ walk.step = P(walk.node) - P(walk.from)
              /\ P(walk.to) < P(walk.from) \/ P(walk.node) <= P(walk.to)
        /\ walk.op = "behind" =>
              /\ walk.step = P(walk.node) - P(walk.to)
              /\ P(walk.to) < P(walk.from) /\ P(walk.node) <= P(walk.from)
    BY <1>1 DEF WalkOk
  <1> HIDE DEF m, P, q
  <1>6. ASSUME NEW node, NEW step \in Int, MoveTo(node, step)
        PROVE  /\ DOMAIN walk' = {"op", "from", "to", "n", "node", "step", "short"}
               /\ walk'.op = walk.op /\ walk'.from = walk.from /\ walk'.to = walk.to
               /\ walk'.n = walk.n /\ walk'.short = walk.short
               /\ walk'.node = node /\ walk'.step = step
    BY <1>5, <1>6 DEF MoveTo
  <1>7. CASE Hop
    <2>1. walk.op = "next_n" /\ IsIter(q, walk.from) /\ IsIter(q, walk.node)
      BY <1>5, <1>7 DEF Hop
    <2>2. ASSUME NEW node, NEW step \in Int, MoveTo(node, step), IsIter(q, node),
                 P(node) + step = P(walk.node) + walk.step
          PROVE  WalkOk(walk', q)
      <3>1. /\ DOMAIN walk' = {"op", "from", "to", "n", "node", "step", "short"}
            /\ walk'.op = walk.op /\ walk'.from = walk.from /\ walk'.n = walk.n
            /\ walk'.short = walk.short /\ walk'.node = node /\ walk'.step = step
        BY <1>6, <2>2
      <3> QED
        BY <1>5, <2>1, <2>2, <3>1 DEF WalkOk, P, m
    <2>3. CASE /\ walk.step > 0 /\ walk.node # Guard
               /\ MoveTo(lst.next[walk.node], walk.step - 1)
      <3>1. IsIter(q, lst.next[walk.node]) /\ P(lst.next[walk.node]) = P(walk.node) + 1
            /\ P(walk.node) \in Int
        BY <1>2, <2>1, <2>3
      <3>2. walk.step - 1 \in Int
            /\ P(lst.next[walk.node]) + (walk.step - 1) = P(walk.node) + walk.step
        BY <1>5, <3>1
      <3> QED
        BY <2>2, <2>3, <3>1, <3>2
    <2>4. CASE /\ walk.step < 0 /\ walk.node # list_begin(lst)
               /\ MoveTo(lst.pre[walk.node], walk.step + 1)
      <3>1. IsIter(q, lst.pre[walk.node]) /\ P(lst.pre[walk.node]) = P(walk.node) - 1
            /\ P(walk.node) \in Int
        BY <1>2, <2>1, <2>4
      <3>2. walk.step + 1 \in Int
            /\ P(lst.pre[walk.node]) + (walk.step + 1) = P(walk.node) + walk.step
        BY <1>5, <3>1
      <3> QED
        BY <2>2, <2>4, <3>1, <3>2
    <2> QED
      BY <1>7, <2>3, <2>4 DEF Hop
  <1>8. CASE Count
    <2>1. /\ walk.op \in {"ahead", "behind"} /\ walk.node # Guard /\ walk.node # Target
          /\ MoveTo(lst.next[walk.node], walk.step + 1)
      BY <1>8 DEF Count
    <2> DEFINE node == lst.next[walk.node]
    <2>2. /\ IsIter(q, walk.from) /\ IsIter(q, walk.node) /\ IsIter(q, walk.to)
          /\ IsIter(q, node) /\ P(node) = P(walk.node) + 1 /\ walk.step + 1 \in Int
      BY <1>2, <1>5, <2>1
    <2>3. P(walk.node) \in Int /\ P(walk.from) \in Int /\ P(walk.to) \in Int
      BY <1>2, <2>2
    <2> HIDE DEF node
    <2>4. /\ DOMAIN walk' = {"op", "from", "to", "n", "node", "step", "short"}
          /\ walk'.op = walk.op /\ walk'.from = walk.from /\ walk'.to = walk.to
          /\ walk'.n = walk.n /\ walk'.node = node /\ walk'.step = walk.step + 1
      BY <1>6, <2>1, <2>2 DEF node
    <2>5. walk.op = "ahead" =>
             /\ walk.step + 1 = P(node) - P(walk.from)
             /\ P(walk.to) < P(walk.from) \/ P(node) <= P(walk.to)
      <3> SUFFICES ASSUME walk.op = "ahead"
                   PROVE  /\ walk.step + 1 = P(node) - P(walk.from)
                          /\ P(walk.to) < P(walk.from) \/ P(node) <= P(walk.to)
        OBVIOUS
      <3>1. P(walk.node) # P(walk.to)
        BY <1>2, <2>1, <2>2 DEF Target
      <3> QED
        BY <1>5, <2>2, <2>3, <3>1
    <2>6. walk.op = "behind" =>
             /\ walk.step + 1 = P(node) - P(walk.to)
             /\ P(walk.to) < P(walk.from) /\ P(node) <= P(walk.from)
      <3> SUFFICES ASSUME walk.op = "behind"
                   PROVE  /\ walk.step + 1 = P(node) - P(walk.to)
                          /\ P(walk.to) < P(walk.from) /\ P(node) <= P(walk.from)
        OBVIOUS
      <3>1. P(walk.node) # P(walk.from)
        BY <1>2, <2>1, <2>2 DEF Target
      <3> QED
        BY <1>5, <2>2, <2>3, <3>1
    <2> QED
      BY <1>5, <2>1, <2>2, <2>4, <2>5, <2>6 DEF WalkOk, P
  <1>9. CASE TurnRound
    <2>1. /\ walk.op = "ahead" /\ walk.node = Guard /\ walk.node # walk.to
          /\ walk' = [walk EXCEPT !.op = "behind", !.node = walk.to, !.step = 0]
      BY <1>9 DEF TurnRound, Target
    <2>2. /\ DOMAIN walk' = {"op", "from", "to", "n", "node", "step", "short"}
          /\ walk'.op = "behind" /\ walk'.from = walk.from /\ walk'.to = walk.to
          /\ walk'.n = walk.n /\ walk'.node = walk.to /\ walk'.step = 0
      BY <1>5, <2>1
    <2>3. /\ IsIter(q, walk.from) /\ P(walk.from) \in Int
          /\ IsIter(q, walk.to) /\ P(walk.to) \in 1..m + 1
      BY <1>2, <1>5, <2>1
    <2>4. P(walk.to) # m + 1
      BY <1>2, <2>1, <2>3
    <2>5. P(walk.to) < P(walk.from)
      BY <1>2, <1>5, <2>1, <2>3, <2>4
    <2> QED
      BY <1>5, <2>2, <2>3, <2>5 DEF WalkOk, P
  <1>10. CASE EndWalk
    BY <1>10, NoWalkOk DEF EndWalk
  <1> QED
    BY <1>7, <1>8, <1>9, <1>10

(* Every step keeps the invariant.                                            *)
LEMMA ListStep == ListInv /\ [ListNext]_listvars => ListInv'
  <1> SUFFICES ASSUME ListInv, [ListNext]_listvars PROVE ListInv'
    OBVIOUS
  <1>1. CASE \E n \in FreeNodes, v \in ListVals :
                \/ list_push_back(n, v) \/ list_push_front(n, v)
                \/ \E iter \in Iters : list_insert(iter, n, v)
    BY <1>1, ChangeSteps
  <1>2. CASE list_pop_back \/ list_pop_front \/ PopNext
    BY <1>2, ChangeSteps
  <1>3. CASE \E iter \in UsedNodes :
                list_erase(iter) \/ \E v \in ListVals : list_iter_set_value(iter, v)
    BY <1>3, ChangeSteps
  <1>4. CASE \/ list_clear
             \/ \E i, j \in Iters :
                   list_iter_next_n(i, Pos(j) - Pos(i)) \/ list_iter_distance(i, j)
    BY <1>4, BeginSteps
  <1>5. CASE Hop \/ Count \/ TurnRound \/ EndWalk
    BY <1>5, WalkSteps
  <1>6. CASE UNCHANGED listvars
    BY <1>6 DEF listvars, ListInv
  <1> QED
    BY <1>1, <1>2, <1>3, <1>4, <1>5, <1>6 DEF ListNext

(* The elements are the nodes in use, each once.                              *)
LEMMA ListCount ==
  ASSUME ListOf(lst, listseq)
  PROVE  /\ {listseq[i].node : i \in DOMAIN listseq} = UsedNodes
         /\ Cardinality(UsedNodes) = Len(listseq)
  <1> DEFINE q == listseq
             m == Len(q)
             f == [i \in 1..m |-> NodeAt(q, i)]
  <1>1. q \in Seq(Entry) /\ Once(q) /\ DOMAIN q = 1..m
    BY DEF ListOf
  <1>2. m \in Nat /\ \A i \in 1..m : NodeAt(q, i) = q[i].node
    BY <1>1, NodeAtIn
  <1>3. /\ \A i \in 1..m : NodeAt(q, i) \in UsedNodes
        /\ \A n \in UsedNodes : Pos(n) \in 1..m /\ NodeAt(q, Pos(n)) = n
    BY Positions DEF Iters
  <1>4. {q[i].node : i \in DOMAIN q} = UsedNodes
    BY <1>1, <1>2, <1>3
  <1>5. \A i, j \in 1..m : NodeAt(q, i) = NodeAt(q, j) => i = j
    BY <1>1 DEF Once
  <1> HIDE DEF m, q
  <1>6. f \in Bijection(1..m, UsedNodes)
    <2>1. f \in [1..m -> UsedNodes] /\ DOMAIN f = 1..m /\ \A i \in 1..m : f[i] = NodeAt(q, i)
      BY <1>3
    <2> HIDE DEF f
    <2>2. f \in Injection(1..m, UsedNodes)
      BY <1>5, <2>1 DEF Injection, IsInjective
    <2>3. f \in Surjection(1..m, UsedNodes)
      BY <1>3, <2>1 DEF Surjection
    <2> QED
      BY <2>2, <2>3 DEF Bijection
  <1>7. ExistsBijection(1..m, UsedNodes)
    BY <1>6 DEF ExistsBijection
  <1>8. Cardinality(UsedNodes) = m
    BY <1>2, <1>7, FS_CountingElements
  <1> QED
    BY <1>4, <1>8 DEF m, q

(* The ring can be walked both ways, and the walks arrive.                    *)
LEMMA LinkedOut == ListInv => ListWellLinked
  <1> SUFFICES ASSUME ListInv PROVE ListWellLinked
    OBVIOUS
  <1> DEFINE q == listseq
             P(n) == PosIn(q, n)
             m == Len(q)
  <1>1. ListOf(lst, q) /\ WalkOk(walk, q) /\ lst.size = m /\ q \in Seq(Entry) /\ Ring(lst, q)
    BY DEF ListInv, ListOf
  <1>2. /\ m \in Nat
        /\ \A n : IsIter(q, n) => P(n) \in 1..m + 1
        /\ \A n, k : IsIter(q, n) /\ IsIter(q, k) /\ P(n) = P(k) => n = k
        /\ IsIter(q, Guard) /\ P(Guard) = m + 1 /\ P(list_begin(lst)) = 1
    BY <1>1, Walking
  <1>3. \A n : Pos(n) = P(n)
    BY <1>1, ItersAre
  <1>4. \A n \in Iters : lst.pre[lst.next[n]] = n /\ lst.next[lst.pre[n]] = n
    <2> TAKE n \in Iters
    <2>1. /\ \A i \in 0..m : lst.next[NodeAt(q, i)] = NodeAt(q, i + 1)
          /\ \A i \in 0..m : lst.pre[NodeAt(q, i + 1)] = NodeAt(q, i)
      BY <1>1 DEF Ring
    <2>2. NodeAt(q, 0) = Guard /\ NodeAt(q, m + 1) = Guard
      BY <1>1, NodeAtIn
    <2> DEFINE i == Pos(n)
    <2>3. i \in 1..m + 1 /\ NodeAt(q, i) = n
      BY <1>1, Positions
    <2> HIDE DEF i, m, q
    <2>4. i - 1 \in 0..m /\ i - 1 + 1 = i /\ 0 \in 0..m /\ 0 + 1 = 1
      BY <1>2, <2>3
    <2>5. lst.next[lst.pre[n]] = n
      BY <2>1, <2>3, <2>4
    <2>6. lst.pre[lst.next[n]] = n
      <3>1. CASE i = m + 1
        BY <2>1, <2>2, <2>3, <2>4, <3>1
      <3>2. CASE i # m + 1
        <4>1. i \in 0..m
          BY <1>2, <2>3, <3>2
        <4> QED
          BY <2>1, <2>3, <4>1
      <3> QED
        BY <3>1, <3>2
    <2> QED
      BY <2>5, <2>6
  <1>5. {q[i].node : i \in DOMAIN q} = UsedNodes /\ Cardinality(UsedNodes) = m
    BY <1>1, ListCount
  <1>6. /\ walk.step \in Int /\ walk.n \in Int
        /\ walk.op \in {"next_n", "ahead", "behind"} => IsIter(q, walk.from) /\ IsIter(q, walk.node)
        /\ walk.op \in {"ahead", "behind"} => IsIter(q, walk.to)
        /\ walk.op = "next_n" /\ ~walk.short =>
              P(walk.node) + walk.step = P(walk.from) + walk.n /\ P(walk.from) + walk.n \in 1..m + 1
        /\ walk.op = "ahead" => walk.step = P(walk.node) - P(walk.from)
        /\ walk.op = "behind" =>
              /\ walk.step = P(walk.node) - P(walk.to)
              /\ P(walk.to) < P(walk.from) /\ P(walk.node) <= P(walk.from)
    BY <1>1 DEF WalkOk
  <1> HIDE DEF m, P, q
  <1>7. walk.short \/ Arrived
    <2> SUFFICES ASSUME ~walk.short, walk.op = "next_n", ~Hopping
                 PROVE  walk.step = 0 /\ Pos(walk.node) = Pos(walk.from) + walk.n
      BY DEF Arrived
    <2>1. /\ P(walk.node) + walk.step = P(walk.from) + walk.n /\ P(walk.from) + walk.n \in 1..m + 1
          /\ P(walk.node) \in 1..m + 1 /\ P(walk.from) \in 1..m + 1
      BY <1>2, <1>6
    <2>2. ~(walk.step > 0)
      <3> SUFFICES ASSUME walk.step > 0 PROVE FALSE
        OBVIOUS
      <3>1. P(walk.node) = m + 1
        BY <1>2 DEF Hopping
      <3> QED
        BY <1>2, <1>6, <2>1, <3>1
    <2>3. ~(walk.step < 0)
      <3> SUFFICES ASSUME walk.step < 0 PROVE FALSE
        OBVIOUS
      <3>1. P(walk.node) = 1
        BY <1>2 DEF Hopping
      <3> QED
        BY <1>2, <1>6, <2>1, <3>1
    <2>4. walk.step = 0
      BY <1>6, <2>2, <2>3
    <2> QED
      BY <1>2, <1>3, <1>6, <2>1, <2>4
  <1>8. walk.op = "ahead" /\ walk.node = Target => walk.step = Pos(walk.to) - Pos(walk.from)
    BY <1>3, <1>6 DEF Target
  <1>9. walk.op = "behind" /\ walk.node \in {Guard, Target}
          => walk.node = Target /\ -walk.step = Pos(walk.to) - Pos(walk.from)
    <2> SUFFICES ASSUME walk.op = "behind", walk.node \in {Guard, walk.from}
                 PROVE  walk.node = walk.from /\ -walk.step = P(walk.to) - P(walk.from)
      BY <1>3 DEF Target
    <2>1. /\ P(walk.to) \in 1..m + 1 /\ P(walk.from) \in 1..m + 1 /\ IsIter(q, walk.from)
      BY <1>2, <1>6
    <2>2. walk.node = walk.from
      <3>1. CASE walk.node = Guard
        <4>1. P(walk.from) = m + 1
          BY <1>2, <1>6, <2>1, <3>1
        <4> QED
          BY <1>2, <2>1, <3>1, <4>1
      <3> QED
        BY <3>1
    <2> QED
      BY <1>6, <2>1, <2>2
  <1> QED
    BY <1>1, <1>4, <1>5, <1>7, <1>8, <1>9 DEF ListWellLinked, m, q

(* The list reads as the sequence.                                            *)
LEMMA SequenceOut == ListInv => ListIsSequence
  <1> SUFFICES ASSUME ListInv PROVE ListIsSequence
    OBVIOUS
  <1> DEFINE q == listseq
             m == Len(q)
  <1>1. /\ ListOf(lst, q) /\ lst.size = m /\ q \in Seq(Entry) /\ DOMAIN q = 1..m
        /\ Ring(lst, q) /\ Filling(lst, q)
    BY DEF ListInv, ListOf
  <1>2. m \in Nat /\ \A i \in 1..m : NodeAt(q, i) = q[i].node
    BY <1>1, NodeAtIn
  <1>3. lst.next[Guard] = NodeAt(q, 1) /\ lst.pre[Guard] = NodeAt(q, m)
    BY <1>1, Neighbours
  <1>4. \A i \in 0..m : lst.next[NodeAt(q, i)] = NodeAt(q, i + 1)
    BY <1>1 DEF Ring
  <1>5. \A i \in 1..m : lst.data[NodeAt(q, i)] = <<q[i].val>>
    BY <1>1 DEF Filling
  <1>6. \A i \in DOMAIN q : lst.data[q[i].node] = <<q[i].val>>
    BY <1>1, <1>2, <1>5
  <1>7. ASSUME lst.size > 0
        PROVE  list_front(lst) = Head(q).val /\ list_back(lst) = Last(q).val
    <2>1. 1 \in 1..m /\ m \in 1..m
      BY <1>1, <1>2, <1>7
    <2>2. Head(q) = q[1] /\ Last(q) = q[m]
      BY DEF Last
    <2>3. list_value(lst, NodeAt(q, 1)) = q[1].val /\ list_value(lst, NodeAt(q, m)) = q[m].val
      BY <1>5, <2>1 DEF list_value
    <2> QED
      BY <1>3, <2>2, <2>3 DEF list_front, list_back
  <1> QED
    BY <1>4, <1>6, <1>7 DEF ListIsSequence

(* Whatever was inserted, erased or set at whichever iterators, and at every  *)
(* point of a walk, the pre and next pointers of a list_t are each other's    *)
(* inverse, its nodes are as many as size says, _list_iter_next_n arrives     *)
(* where it should unless it took the short way, and _list_iter_distance      *)
(* gives the difference of the positions: for every number of nodes.          *)
THEOREM ListWellLinkedHolds == ListSpec => []ListWellLinked
  <1>1. ListInit => ListInv
    BY ListStart
  <1>2. ListInv /\ [ListNext]_listvars => ListInv'
    BY ListStep
  <1>3. ListInv => ListWellLinked
    BY LinkedOut
  <1> QED
    BY <1>1, <1>2, <1>3, PTL DEF ListSpec

(* A list_t holds the sequence that took the same insertions, removals and    *)
(* assignments, in this order, with the same first and last value.            *)
THEOREM ListIsSequenceHolds == ListSpec => []ListIsSequence
  <1>1. ListInit => ListInv
    BY ListStart
  <1>2. ListInv /\ [ListNext]_listvars => ListInv'
    BY ListStep
  <1>3. ListInv => ListIsSequence
    BY SequenceOut
  <1> QED
    BY <1>1, <1>2, <1>3, PTL DEF ListSpec

-----------------------------------------------------------------------------
(* Heaps *)

\* The elements of a heap, of which one may be on the move.
Contents(h, f) == [i \in 0..h.size - 1 |-> IF i = f.pos THEN h.data[h.size] ELSE h.data[i]]

\* How often e is among the first m elements.
Where(c, m, e) == {i \in 0..m - 1 : c[i] = e}
Times(c, m, e) == Cardinality(Where(c, m, e))

\* No element is less than its parent, but for the one that moves up or the
\* children of the one that moves down; its children are not less than its parent.
HeapOrder(c, m, dir, pos) ==
    /\ \A i \in 1..m - 1 :
          \/ dir = "up" /\ i = pos
          \/ dir = "down" /\ HeapParent(i) = pos
          \/ c[HeapParent(i)] <= c[i]
    /\ dir # "none" =>
          \A i \in 1..m - 1 : HeapParent(i) = pos /\ pos > 0 => c[HeapParent(pos)] <= c[i]

\* How often e is in the bag b.
CopiesOf(b, e) == IF e \in DOMAIN b THEN b[e] ELSE 0

\* b with e added, and without one e.
BagWith(b, e) ==
    IF e \in DOMAIN b THEN [x \in DOMAIN b |-> IF x = e THEN b[x] + 1 ELSE b[x]]
    ELSE [x \in DOMAIN b \cup {e} |-> IF x = e THEN 1 ELSE b[x]]
BagWithout(b, e) ==
    IF e \in DOMAIN b
    THEN IF b[e] = 1 THEN [x \in DOMAIN b \ {e} |-> b[x]]
         ELSE [x \in DOMAIN b |-> IF x = e THEN b[x] - 1 ELSE b[x]]
    ELSE b

\* The bag b holds the first m elements.
BagHolds(b, c, m) ==
    /\ DOMAIN b \subseteq HeapVals /\ b \in [DOMAIN b -> Nat \ {0}]
    /\ \A e \in HeapVals : CopiesOf(b, e) = Times(c, m, e)

\* The element that moves is in the cell behind the last.
FixOk(h, f) ==
    \/ f = NoFix
    \/ /\ DOMAIN f = {"dir", "pos"} /\ f.dir \in {"up", "down"} /\ f.pos \in 0..h.size - 1
       /\ h.size < h.capacity /\ h.data[h.size] \in HeapVals

HeapInv ==
    /\ Vector(hp, HeapVals) /\ FixOk(hp, fix)
    /\ HeapOrder(Contents(hp, fix), hp.size, fix.dir, fix.pos)
    /\ BagHolds(hpbag, Contents(hp, fix), hp.size)

(* Parents and children.                                                      *)
LEMMA Parents ==
  /\ \A i \in Nat : i >= 1 =>
        HeapParent(i) \in Nat /\ HeapParent(i) < i
        /\ (i = 2 * HeapParent(i) + 1 \/ i = 2 * HeapParent(i) + 2)
  /\ \A k \in Nat : HeapParent(2 * k + 1) = k /\ HeapParent(2 * k + 2) = k
  <1>1. ASSUME NEW i \in Nat, i >= 1
        PROVE  HeapParent(i) \in Nat /\ HeapParent(i) < i
               /\ (i = 2 * HeapParent(i) + 1 \/ i = 2 * HeapParent(i) + 2)
    BY <1>1 DEF HeapParent
  <1>2. ASSUME NEW k \in Nat PROVE HeapParent(2 * k + 1) = k /\ HeapParent(2 * k + 2) = k
    BY DEF HeapParent
  <1> QED
    BY <1>1, <1>2

(* Counting.                                                                  *)
LEMMA TimesMore ==
  ASSUME NEW c, NEW m \in Nat, NEW e
  PROVE  /\ IsFiniteSet(Where(c, m, e)) /\ Times(c, m, e) \in Nat
         /\ Times(c, m + 1, e) = IF c[m] = e THEN Times(c, m, e) + 1 ELSE Times(c, m, e)
  <1>1. IsFiniteSet(0..m - 1)
    BY FS_Interval
  <1>2. Where(c, m, e) \subseteq 0..m - 1
    BY DEF Where
  <1>3. IsFiniteSet(Where(c, m, e)) /\ Times(c, m, e) \in Nat
    BY <1>1, <1>2, FS_Subset, FS_CardinalityType DEF Times
  <1>4. 0..m + 1 - 1 = (0..m - 1) \cup {m} /\ m \notin 0..m - 1
    OBVIOUS
  <1>5. CASE c[m] = e
    <2>1. Where(c, m + 1, e) = Where(c, m, e) \cup {m} /\ m \notin Where(c, m, e)
      BY <1>4, <1>5 DEF Where
    <2> QED
      BY <1>3, <1>5, <2>1, FS_AddElement DEF Times
  <1>6. CASE c[m] # e
    <2>1. Where(c, m + 1, e) = Where(c, m, e)
      BY <1>4, <1>6 DEF Where
    <2> QED
      BY <1>3, <1>6, <2>1 DEF Times
  <1> QED
    BY <1>3, <1>5, <1>6

(* Elements that are alike are counted alike.                                 *)
LEMMA TimesSame ==
  ASSUME NEW c, NEW d, NEW m \in Nat, NEW e, \A i \in 0..m - 1 : d[i] = c[i]
  PROVE  Times(d, m, e) = Times(c, m, e)
  <1>1. Where(d, m, e) = Where(c, m, e)
    BY DEF Where
  <1> QED
    BY <1>1 DEF Times

\* d is c with the elements at a and b swapped.
SwappedIn(c, d, m, a, b) ==
    \A i \in 0..m - 1 : d[i] = IF i = a THEN c[b] ELSE IF i = b THEN c[a] ELSE c[i]

(* Swapping two elements changes no count.                                    *)
LEMMA TimesSwapped ==
  ASSUME NEW c, NEW d, NEW m \in Nat, NEW a \in 0..m - 1, NEW b \in 0..m - 1, NEW e,
         SwappedIn(c, d, m, a, b)
  PROVE  Times(d, m, e) = Times(c, m, e)
  <1> DEFINE S == Where(c, m, e)
             T == Where(d, m, e)
             to(i) == IF i = a THEN b ELSE IF i = b THEN a ELSE i
             f == [i \in S |-> to(i)]
  <1>1. \A i \in 0..m - 1 : d[i] = IF i = a THEN c[b] ELSE IF i = b THEN c[a] ELSE c[i]
    BY DEF SwappedIn
  <1>2. \A i \in 0..m - 1 : to(i) \in 0..m - 1 /\ d[to(i)] = c[i] /\ c[to(i)] = d[i]
    BY <1>1
  <1>3. \A i : to(to(i)) = i
    OBVIOUS
  <1> HIDE DEF to
  <1>4. \A i \in S : to(i) \in T
    BY <1>2 DEF Where
  <1>5. \A i \in T : to(i) \in S
    BY <1>2 DEF Where
  <1> HIDE DEF S, T
  <1>6. f \in Injection(S, T)
    BY <1>3, <1>4 DEF Injection, IsInjective
  <1>7. f \in Surjection(S, T)
    <2>1. f \in [S -> T]
      BY <1>4
    <2>2. ASSUME NEW t \in T PROVE \E s \in S : f[s] = t
      BY <1>3, <1>5
    <2> QED
      BY <2>1, <2>2 DEF Surjection
  <1>8. ExistsBijection(S, T)
    BY <1>6, <1>7 DEF ExistsBijection, Bijection
  <1>9. IsFiniteSet(S)
    BY TimesMore DEF S
  <1> QED
    BY <1>8, <1>9, FS_Bijection DEF S, T, Times

(* Adding an element to a bag, and removing one.                              *)
LEMMA BagAdded ==
  ASSUME NEW b, DOMAIN b \subseteq HeapVals, b \in [DOMAIN b -> Nat \ {0}], NEW e \in HeapVals
  PROVE  LET d == BagWith(b, e)
         IN  /\ DOMAIN d \subseteq HeapVals /\ d \in [DOMAIN d -> Nat \ {0}]
             /\ \A x : CopiesOf(d, x) = IF x = e THEN CopiesOf(b, x) + 1 ELSE CopiesOf(b, x)
  <1> DEFINE d == BagWith(b, e)
  <1> USE DEF CopiesOf
  <1>1. CASE e \in DOMAIN b
    <2>1. d = [x \in DOMAIN b |-> IF x = e THEN b[x] + 1 ELSE b[x]]
      BY <1>1 DEF BagWith
    <2> HIDE DEF d
    <2>2. DOMAIN d = DOMAIN b /\ \A x \in DOMAIN b : d[x] \in Nat \ {0}
      BY <2>1
    <2>3. d \in [DOMAIN d -> Nat \ {0}]
      BY <2>1, <2>2
    <2>4. \A x : CopiesOf(d, x) = IF x = e THEN CopiesOf(b, x) + 1 ELSE CopiesOf(b, x)
      BY <1>1, <2>1
    <2> QED
      BY <2>2, <2>3, <2>4 DEF d
  <1>2. CASE e \notin DOMAIN b
    <2>1. d = [x \in DOMAIN b \cup {e} |-> IF x = e THEN 1 ELSE b[x]]
      BY <1>2 DEF BagWith
    <2> HIDE DEF d
    <2>2. DOMAIN d = DOMAIN b \cup {e} /\ \A x \in DOMAIN b \cup {e} : d[x] \in Nat \ {0}
      BY <2>1
    <2>3. d \in [DOMAIN d -> Nat \ {0}]
      BY <2>1, <2>2
    <2>4. \A x : CopiesOf(d, x) = IF x = e THEN CopiesOf(b, x) + 1 ELSE CopiesOf(b, x)
      BY <1>2, <2>1
    <2> QED
      BY <2>2, <2>3, <2>4 DEF d
  <1> QED
    BY <1>1, <1>2

LEMMA BagRemoved ==
  ASSUME NEW b, DOMAIN b \subseteq HeapVals, b \in [DOMAIN b -> Nat \ {0}], NEW e \in DOMAIN b
  PROVE  LET d == BagWithout(b, e)
         IN  /\ DOMAIN d \subseteq HeapVals /\ d \in [DOMAIN d -> Nat \ {0}]
             /\ \A x : CopiesOf(d, x) = IF x = e THEN CopiesOf(b, x) - 1 ELSE CopiesOf(b, x)
  <1> DEFINE d == BagWithout(b, e)
  <1> USE DEF CopiesOf
  <1>1. CASE b[e] = 1
    <2>1. d = [x \in DOMAIN b \ {e} |-> b[x]]
      BY <1>1 DEF BagWithout
    <2> HIDE DEF d
    <2>2. DOMAIN d = DOMAIN b \ {e} /\ d \in [DOMAIN d -> Nat \ {0}]
      BY <2>1
    <2>3. \A x : CopiesOf(d, x) = IF x = e THEN CopiesOf(b, x) - 1 ELSE CopiesOf(b, x)
      BY <1>1, <2>1
    <2> QED
      BY <2>2, <2>3 DEF d
  <1>2. CASE b[e] # 1
    <2>1. d = [x \in DOMAIN b |-> IF x = e THEN b[x] - 1 ELSE b[x]]
      BY <1>2 DEF BagWithout
    <2> HIDE DEF d
    <2>2. DOMAIN d = DOMAIN b /\ \A x \in DOMAIN b : d[x] \in Nat \ {0}
      BY <1>2, <2>1
    <2>3. d \in [DOMAIN d -> Nat \ {0}]
      BY <2>1, <2>2
    <2>4. \A x : CopiesOf(d, x) = IF x = e THEN CopiesOf(b, x) - 1 ELSE CopiesOf(b, x)
      BY <1>2, <2>1
    <2> QED
      BY <2>2, <2>3, <2>4 DEF d
  <1> QED
    BY <1>1, <1>2

-----------------------------------------------------------------------------
(* The order of a heap *)

\* m elements, which can be compared.
Numbers(c, m) == \A i \in 0..m - 1 : c[i] \in Nat

(* An element behind the last may have to move up.                            *)
LEMMA OrderPushed ==
  ASSUME NEW c, NEW d, NEW m \in Nat, HeapOrder(c, m, "none", -1),
         \A i \in 0..m - 1 : d[i] = c[i]
  PROVE  HeapOrder(d, m + 1, "up", m)
  <1>1. ASSUME NEW i \in 1..m, i # m PROVE d[HeapParent(i)] <= d[i]
    <2>1. i \in 1..m - 1 /\ i \in Nat /\ i >= 1 /\ i \in 0..m - 1
      BY <1>1
    <2>2. HeapParent(i) \in 0..m - 1
      BY <2>1, Parents
    <2>3. c[HeapParent(i)] <= c[i]
      BY <2>1 DEF HeapOrder
    <2> QED
      BY <2>1, <2>2, <2>3
  <1>2. ASSUME NEW i \in 1..m PROVE HeapParent(i) # m
    BY Parents
  <1>3. m + 1 - 1 = m
    OBVIOUS
  <1> QED
    BY <1>1, <1>2, <1>3 DEF HeapOrder

(* The last element takes the place of the first and may have to move down.   *)
LEMMA OrderPopped ==
  ASSUME NEW c, NEW d, NEW m \in Nat, HeapOrder(c, m + 1, "none", -1),
         \A i \in 1..m - 1 : d[i] = c[i]
  PROVE  HeapOrder(d, m, "down", 0)
  <1>1. ASSUME NEW i \in 1..m - 1, HeapParent(i) # 0 PROVE d[HeapParent(i)] <= d[i]
    <2>1. i \in 1..m + 1 - 1 /\ i \in Nat /\ i >= 1
      OBVIOUS
    <2>2. HeapParent(i) \in 1..m - 1
      BY <1>1, <2>1, Parents
    <2>3. c[HeapParent(i)] <= c[i]
      BY <2>1 DEF HeapOrder
    <2> QED
      BY <2>2, <2>3
  <1> QED
    BY <1>1 DEF HeapOrder

(* The element moves up, in the place of its parent.                          *)
LEMMA OrderUp ==
  ASSUME NEW c, NEW d, NEW m \in Nat, Numbers(c, m), NEW pos \in 1..m - 1,
         HeapOrder(c, m, "up", pos), c[pos] < c[HeapParent(pos)],
         SwappedIn(c, d, m, pos, HeapParent(pos))
  PROVE  HeapOrder(d, m, "up", HeapParent(pos))
  <1> DEFINE p == HeapParent(pos)
  <1>1. p \in Nat /\ p < pos /\ p \in 0..m - 1 /\ pos \in 0..m - 1 /\ pos \in Nat /\ p # pos
    BY Parents
  <1>2. \A i \in 1..m - 1 : /\ i \in 0..m - 1 /\ HeapParent(i) \in 0..m - 1 /\ HeapParent(i) < i
                            /\ i \in Nat
    BY Parents
  <1>3. \A i \in 0..m - 1 : d[i] = IF i = pos THEN c[p] ELSE IF i = p THEN c[pos] ELSE c[i]
    BY DEF SwappedIn
  <1>4. /\ \A i \in 1..m - 1 : i # pos => c[HeapParent(i)] <= c[i]
        /\ \A i \in 1..m - 1 : HeapParent(i) = pos => c[p] <= c[i]
    BY DEF HeapOrder
  <1>5. \A i \in 0..m - 1 : c[i] \in Nat
    BY DEF Numbers
  <1>6. c[pos] < c[p]
    OBVIOUS
  <1> HIDE DEF p
  <1>7. ASSUME NEW i \in 1..m - 1, i # p PROVE d[HeapParent(i)] <= d[i]
    <2> DEFINE k == HeapParent(i)
    <2>1. i \in 0..m - 1 /\ k \in 0..m - 1 /\ k < i /\ i \in Nat
      BY <1>2
    <2>2. i # pos => c[k] <= c[i]
      BY <1>4
    <2>3. k = pos => c[p] <= c[i]
      BY <1>4
    <2>4. i = pos => k = p
      BY DEF p
    <2>5. c[i] \in Nat /\ c[k] \in Nat /\ c[p] \in Nat /\ c[pos] \in Nat
      BY <1>1, <1>5, <2>1
    <2> HIDE DEF k
    <2>6. d[k] <= d[i]
      <3>1. CASE i = pos
        <4>1. d[k] = c[pos] /\ d[i] = c[p]
          BY <1>1, <1>3, <2>1, <2>4, <3>1
        <4> QED
          BY <1>6, <2>5, <4>1
      <3>2. CASE i # pos /\ k = pos
        <4>1. d[k] = c[p] /\ d[i] = c[i]
          BY <1>3, <1>7, <2>1, <3>2
        <4> QED
          BY <2>3, <3>2, <4>1
      <3>3. CASE i # pos /\ k = p
        <4>1. d[k] = c[pos] /\ d[i] = c[i]
          BY <1>1, <1>3, <1>7, <2>1, <3>3
        <4>2. c[p] <= c[i]
          BY <2>2, <3>3
        <4> QED
          BY <1>6, <2>5, <4>1, <4>2
      <3>4. CASE i # pos /\ k # pos /\ k # p
        <4>1. d[k] = c[k] /\ d[i] = c[i]
          BY <1>3, <1>7, <2>1, <3>4
        <4> QED
          BY <2>2, <3>4, <4>1
      <3> QED
        BY <3>1, <3>2, <3>3, <3>4
    <2> QED
      BY <2>6 DEF k
  <1>8. ASSUME NEW i \in 1..m - 1, HeapParent(i) = p, p > 0 PROVE d[HeapParent(p)] <= d[i]
    <2> DEFINE g == HeapParent(p)
    <2>1. p \in 1..m - 1 /\ g \in 0..m - 1 /\ g < p /\ i \in 0..m - 1 /\ p < i /\ g \in Nat
      BY <1>1, <1>2, <1>8
    <2>2. c[g] <= c[p]
      BY <1>1, <1>4, <2>1
    <2>3. i # pos => c[p] <= c[i]
      BY <1>4, <1>8
    <2>4. c[i] \in Nat /\ c[g] \in Nat /\ c[p] \in Nat
      BY <1>5, <1>1, <2>1
    <2> HIDE DEF g
    <2>5. g # pos /\ g # p /\ i # p
      BY <1>1, <2>1
    <2>6. d[g] = c[g] /\ d[i] = IF i = pos THEN c[p] ELSE c[i]
      BY <1>3, <2>1, <2>5
    <2>7. d[g] <= d[i]
      BY <2>2, <2>3, <2>4, <2>6
    <2> QED
      BY <2>7 DEF g
  <1>9. HeapOrder(d, m, "up", p)
    BY <1>7, <1>8 DEF HeapOrder
  <1> QED
    BY <1>9 DEF p

\* n is the least child of pos.
LeastChild(c, m, pos, n) ==
    HeapParent(n) = pos /\ \A i \in 1..m - 1 : HeapParent(i) = pos => c[n] <= c[i]

(* The element moves down, in the place of its least child.                   *)
LEMMA OrderDown ==
  ASSUME NEW c, NEW d, NEW m \in Nat, Numbers(c, m), NEW pos \in 0..m - 1,
         NEW n \in 1..m - 1, LeastChild(c, m, pos, n),
         HeapOrder(c, m, "down", pos), ~(c[pos] < c[n]),
         SwappedIn(c, d, m, pos, n)
  PROVE  HeapOrder(d, m, "down", n)
  <1>1. pos \in Nat /\ pos < n /\ n \in 0..m - 1 /\ n \in Nat /\ pos # n /\ HeapParent(n) = pos
    BY Parents DEF LeastChild
  <1>2. \A i \in 1..m - 1 : /\ i \in 0..m - 1 /\ HeapParent(i) \in 0..m - 1 /\ HeapParent(i) < i
                            /\ i \in Nat
    BY Parents
  <1>3. \A i \in 0..m - 1 : d[i] = IF i = pos THEN c[n] ELSE IF i = n THEN c[pos] ELSE c[i]
    BY DEF SwappedIn
  <1>4. /\ \A i \in 1..m - 1 : HeapParent(i) # pos => c[HeapParent(i)] <= c[i]
        /\ \A i \in 1..m - 1 : HeapParent(i) = pos /\ pos > 0 => c[HeapParent(pos)] <= c[i]
        /\ \A i \in 1..m - 1 : HeapParent(i) = pos => c[n] <= c[i]
    BY DEF HeapOrder, LeastChild
  <1>5. \A i \in 0..m - 1 : c[i] \in Nat
    BY DEF Numbers
  <1>6. ASSUME NEW i \in 1..m - 1, HeapParent(i) # n PROVE d[HeapParent(i)] <= d[i]
    <2> DEFINE k == HeapParent(i)
    <2>1. i \in 0..m - 1 /\ k \in 0..m - 1 /\ k < i /\ i \in Nat /\ k # n /\ k \in Nat
      BY <1>2, <1>6
    <2>2. k # pos => c[k] <= c[i]
      BY <1>4
    <2>3. k = pos => c[n] <= c[i]
      BY <1>4
    <2>4. i = pos => c[k] <= c[n]
      BY <1>1, <1>4, <2>1
    <2>5. i = n => k = pos
      BY <1>1
    <2>6. c[i] \in Nat /\ c[k] \in Nat /\ c[n] \in Nat /\ c[pos] \in Nat
      BY <1>1, <1>5, <2>1
    <2> HIDE DEF k
    <2>7. d[k] <= d[i]
      <3>1. CASE i = pos
        <4>1. d[k] = c[k] /\ d[i] = c[n]
          BY <1>3, <2>1, <3>1
        <4> QED
          BY <2>4, <3>1, <4>1
      <3>2. CASE i = n
        <4>1. d[k] = c[n] /\ d[i] = c[pos]
          BY <1>1, <1>3, <2>1, <2>5, <3>2
        <4> QED
          BY <2>6, <4>1
      <3>3. CASE i # pos /\ i # n /\ k = pos
        <4>1. d[k] = c[n] /\ d[i] = c[i]
          BY <1>3, <2>1, <3>3
        <4> QED
          BY <2>3, <3>3, <4>1
      <3>4. CASE i # pos /\ i # n /\ k # pos
        <4>1. d[k] = c[k] /\ d[i] = c[i]
          BY <1>3, <2>1, <3>4
        <4> QED
          BY <2>2, <3>4, <4>1
      <3> QED
        BY <3>1, <3>2, <3>3, <3>4
    <2> QED
      BY <2>7 DEF k
  <1>7. ASSUME NEW i \in 1..m - 1, HeapParent(i) = n PROVE d[HeapParent(n)] <= d[i]
    <2>1. i \in 0..m - 1 /\ i # n /\ i # pos /\ n # pos
      BY <1>1, <1>2, <1>7
    <2>2. d[pos] = c[n] /\ d[i] = c[i]
      BY <1>3, <2>1
    <2>3. c[n] <= c[i]
      BY <1>4, <1>7, <2>1
    <2> QED
      BY <1>1, <2>2, <2>3
  <1> QED
    BY <1>6, <1>7 DEF HeapOrder

(* The element stays where it is.                                             *)
LEMMA OrderBack ==
  ASSUME NEW c, NEW m \in Nat, Numbers(c, m), NEW dir, NEW pos \in 0..m - 1,
         HeapOrder(c, m, dir, pos),
         dir = "up" /\ pos > 0 => ~(c[pos] < c[HeapParent(pos)]),
         dir = "down" => \A i \in 1..m - 1 : HeapParent(i) = pos => c[pos] <= c[i]
  PROVE  HeapOrder(c, m, "none", -1)
  <1>1. ASSUME NEW i \in 1..m - 1 PROVE c[HeapParent(i)] <= c[i]
    <2>1. i \in 0..m - 1 /\ HeapParent(i) \in 0..m - 1 /\ i > 0
      BY Parents
    <2>2. c[i] \in Nat /\ c[HeapParent(i)] \in Nat
      BY <2>1 DEF Numbers
    <2>3. CASE dir = "up" /\ i = pos
      <3>1. ~(c[i] < c[HeapParent(i)])
        BY <2>1, <2>3
      <3> QED
        BY <2>2, <3>1
    <2>4. CASE dir = "down" /\ HeapParent(i) = pos
      BY <2>4
    <2> QED
      BY <2>3, <2>4 DEF HeapOrder
  <1> QED
    BY <1>1 DEF HeapOrder

(* In a heap in order the first element is a least one.                       *)
LEMMA FirstIsLeast ==
  ASSUME NEW c, NEW m \in Nat, Numbers(c, m), HeapOrder(c, m, "none", -1)
  PROVE  \A i \in 0..m - 1 : c[0] <= c[i]
  <1> DEFINE Bad == {i \in 0..m - 1 : c[i] < c[0]}
  <1>1. \A i \in 0..m - 1 : c[i] \in Nat /\ 0 \in 0..m - 1
    BY DEF Numbers
  <1>2. Bad = {}
    <2> SUFFICES ASSUME Bad # {} PROVE FALSE
      OBVIOUS
    <2>1. Bad \subseteq Nat
      OBVIOUS
    <2> HIDE DEF Bad
    <2>2. PICK i \in Bad : \A j \in Bad : ~(<<j, i>> \in OpToRel(<, Nat))
      BY <2>1, WFMin, NatLessThanWellFounded, Zenon
    <2>3. \A j \in Bad : ~(j < i)
      BY <2>1, <2>2 DEF OpToRel
    <2>4. i \in 0..m - 1 /\ c[i] < c[0]
      BY DEF Bad
    <2>5. i \in 1..m - 1 /\ i \in Nat /\ i >= 1
      BY <1>1, <2>4
    <2> DEFINE k == HeapParent(i)
    <2>6. k \in 0..m - 1 /\ k < i
      BY <2>5, Parents
    <2>7. c[k] <= c[i]
      BY <2>5 DEF HeapOrder
    <2> HIDE DEF k
    <2>8. c[k] < c[0]
      BY <1>1, <2>4, <2>6, <2>7
    <2> QED
      BY <2>3, <2>6, <2>8 DEF Bad
  <1> QED
    BY <1>1, <1>2

-----------------------------------------------------------------------------
(* The heap is a priority queue *)

\* w is v with the cell p2 copied to p1, where the cell behind the last element
\* counts.
CellCopied(v, w, p1, p2, S) ==
    /\ Vector(w, S) /\ w.size = v.size /\ w.size < w.capacity /\ w.data[p1] = v.data[p2]
    /\ \A i \in 0..v.size - 1 : i # p1 => w.data[i] = v.data[i]
    /\ v.size < v.capacity /\ p1 # v.size => w.data[v.size] = v.data[v.size]

(* _vector_copy_elem makes room for the cell behind the last element.         *)
LEMMA CellCopies ==
  ASSUME NEW S, NEW v, Vector(v, S), NEW p1 \in 0..v.size, NEW p2 \in 0..v.size,
         p2 < v.size \/ (v.size < v.capacity /\ v.data[v.size] \in S)
  PROVE  CellCopied(v, vector_copy_elem(v, p1, p2), p1, p2, S)
  <1> DEFINE v1 == vector_reserve(v, v.size + 1)
             w  == Move(v1, p1, p2, 1)
  <1>1. v.size \in Nat /\ v.size + 1 \in Nat /\ v.capacity \in Nat /\ v.size <= v.capacity
    BY DEF Vector
  <1>2. /\ Vector(v1, S) /\ v1.size = v.size /\ v1.capacity >= v.size + 1
        /\ v1.capacity >= v.capacity /\ \A i \in 0..v.capacity - 1 : v1.data[i] = v.data[i]
    <2>1. Grown(v, v1, v.size + 1, S)
      BY <1>1, Reserved
    <2> QED
      BY <2>1, Zenon DEF Grown
  <1>3. \A i \in 0..v.size - 1 : v1.data[i] = v.data[i] /\ v.data[i] \in S
    BY <1>1, <1>2 DEF Vector
  <1>4. v.size < v.capacity => v1.data[v.size] = v.data[v.size]
    BY <1>1, <1>2
  <1> HIDE DEF v1
  <1> DEFINE cap == v1.capacity
  <1>5. cap \in Nat /\ cap >= v.size + 1
    BY <1>2 DEF Vector
  <1>6. /\ DOMAIN w = {"size", "capacity", "data"} /\ w.size = v.size /\ w.capacity = cap
        /\ w.data = [i \in 0..cap - 1 |-> IF i = p1 THEN v1.data[p2] ELSE v1.data[i]]
    BY <1>1, <1>2, <1>5 DEF Move, Vector
  <1>7. w = vector_copy_elem(v, p1, p2)
    BY DEF vector_copy_elem, v1
  <1> HIDE DEF w, cap
  <1>8. v1.data[p2] = v.data[p2] /\ v.data[p2] \in S
    <2>1. CASE p2 < v.size
      BY <1>1, <1>3, <2>1
    <2>2. CASE ~(p2 < v.size)
      BY <1>1, <1>4, <2>2
    <2> QED
      BY <2>1, <2>2
  <1>9. w.data[p1] = v.data[p2]
    BY <1>1, <1>5, <1>6, <1>8
  <1>10. \A i \in 0..v.size - 1 : i # p1 => w.data[i] = v.data[i]
    BY <1>1, <1>3, <1>5, <1>6
  <1>11. v.size < v.capacity /\ p1 # v.size => w.data[v.size] = v.data[v.size]
    BY <1>1, <1>4, <1>5, <1>6
  <1>12. \A i \in 0..v.size - 1 : w.data[i] \in S
    BY <1>3, <1>8, <1>9, <1>10
  <1>13. w.data \in [0..cap - 1 -> S \cup {Junk}]
    <2>1. \A i \in 0..cap - 1 : v1.data[i] \in S \cup {Junk}
      BY <1>2 DEF Vector, cap
    <2>2. \A i \in 0..cap - 1 : w.data[i] \in S \cup {Junk}
      BY <1>6, <1>8, <2>1
    <2> QED
      BY <1>6, <2>2
  <1>14. Vector(w, S)
    <2>1. w.capacity \in Nat \ {0} /\ w.size \in 0..w.capacity
      BY <1>1, <1>5, <1>6
    <2>2. \A i \in 0..w.size - 1 : w.data[i] \in S
      BY <1>6, <1>12
    <2>3. w.data \in [0..w.capacity - 1 -> S \cup {Junk}]
      BY <1>6, <1>13
    <2> QED
      BY <1>6, <2>1, <2>2, <2>3, Zenon DEF Vector
  <1>15. w.size < w.capacity
    BY <1>1, <1>5, <1>6
  <1> QED
    BY <1>6, <1>7, <1>9, <1>10, <1>11, <1>14, <1>15 DEF CellCopied

(* The elements of a heap are values.                                         *)
LEMMA HeapFacts ==
  ASSUME NEW h, NEW f, Vector(h, HeapVals), FixOk(h, f)
  PROVE  /\ h.size \in Nat /\ Numbers(Contents(h, f), h.size)
         /\ \A i \in 0..h.size - 1 :
               /\ Contents(h, f)[i] = IF i = f.pos THEN h.data[h.size] ELSE h.data[i]
               /\ Contents(h, f)[i] \in HeapVals
         /\ f = NoFix => \A i \in 0..h.size - 1 : Contents(h, f)[i] = h.data[i]
  <1>1. h.size \in Nat /\ \A i \in 0..h.size - 1 : h.data[i] \in HeapVals
    BY DEF Vector
  <1>2. \A i \in 0..h.size - 1 :
           Contents(h, f)[i] = IF i = f.pos THEN h.data[h.size] ELSE h.data[i]
    BY DEF Contents
  <1>3. \A i \in 0..h.size - 1 : f = NoFix => i # f.pos
    BY DEF NoFix
  <1>4. \A i \in 0..h.size - 1 : i = f.pos => h.data[h.size] \in HeapVals
    BY <1>3 DEF FixOk
  <1>5. \A i \in 0..h.size - 1 : Contents(h, f)[i] \in HeapVals
    BY <1>1, <1>2, <1>4
  <1>6. Numbers(Contents(h, f), h.size)
    BY <1>5, HeapAssumption DEF Numbers
  <1> QED
    BY <1>1, <1>2, <1>3, <1>5, <1>6

(* A round of a fix function swaps two elements.                              *)
LEMMA MoveStep ==
  ASSUME HeapInv, fix # NoFix, NEW to \in 0..hp.size - 1, to # fix.pos, MoveFrom(to),
         \A d : SwappedIn(Contents(hp, fix), d, hp.size, fix.pos, to)
                   => HeapOrder(d, hp.size, fix.dir, to)
  PROVE  HeapInv'
  <1> DEFINE m == hp.size
             c == Contents(hp, fix)
             d == Contents(hp', fix')
             pos == fix.pos
  <1>1. /\ Vector(hp, HeapVals) /\ FixOk(hp, fix) /\ BagHolds(hpbag, c, m)
        /\ DOMAIN fix = {"dir", "pos"} /\ fix.dir \in {"up", "down"} /\ pos \in 0..m - 1
        /\ hp.size < hp.capacity /\ hp.data[hp.size] \in HeapVals
    BY DEF HeapInv, FixOk
  <1>2. m \in Nat /\ \A i \in 0..m - 1 : c[i] = IF i = pos THEN hp.data[m] ELSE hp.data[i]
    BY <1>1, HeapFacts
  <1>3. /\ hp' = vector_copy_elem(hp, pos, to) /\ hpbag' = hpbag
        /\ fix' = [fix EXCEPT !.pos = to]
    BY DEF MoveFrom
  <1>4. DOMAIN fix' = {"dir", "pos"} /\ fix'.dir = fix.dir /\ fix'.pos = to
    BY <1>1, <1>3
  <1>5. CellCopied(hp, hp', pos, to, HeapVals)
    <2>1. pos \in 0..m /\ to \in 0..m /\ to < m /\ pos # m
      BY <1>1, <1>2
    <2> QED
      BY <1>1, <1>3, <2>1, CellCopies
  <1>6. /\ Vector(hp', HeapVals) /\ hp'.size = m /\ m < hp'.capacity
        /\ hp'.data[pos] = hp.data[to] /\ hp'.data[m] = hp.data[m]
        /\ \A i \in 0..m - 1 : i # pos => hp'.data[i] = hp.data[i]
    <2>1. pos # m
      BY <1>1, <1>2
    <2> QED
      BY <1>1, <1>5, <2>1 DEF CellCopied
  <1>7. FixOk(hp', fix')
    BY <1>1, <1>4, <1>6 DEF FixOk
  <1>8. \A i \in 0..m - 1 : d[i] = IF i = to THEN hp'.data[m] ELSE hp'.data[i]
    BY <1>4, <1>6, <1>7, HeapFacts
  <1>9. SwappedIn(c, d, m, pos, to)
    <2> SUFFICES ASSUME NEW i \in 0..m - 1
                 PROVE  d[i] = IF i = pos THEN c[to] ELSE IF i = to THEN c[pos] ELSE c[i]
      BY DEF SwappedIn
    <2> HIDE DEF c, d
    <2> QED
      BY <1>1, <1>2, <1>6, <1>8
  <1>10. HeapOrder(d, m, fix'.dir, to)
    BY <1>4, <1>9
  <1>11. BagHolds(hpbag, d, m)
    <2> HIDE DEF c, d, m
    <2>1. \A e : Times(d, m, e) = Times(c, m, e)
      BY <1>1, <1>2, <1>9, TimesSwapped DEF m
    <2> QED
      BY <1>1, <2>1 DEF BagHolds
  <1> QED
    BY <1>3, <1>4, <1>6, <1>7, <1>10, <1>11 DEF HeapInv

(* A round of _heap_fix_up.                                                   *)
LEMMA UpStep == ASSUME HeapInv, MoveUp PROVE HeapInv'
  <1> DEFINE m == hp.size
             c == Contents(hp, fix)
             pos == fix.pos
             p == HeapParent(pos)
  <1>1. /\ fix.dir = "up" /\ pos > 0 /\ Scratch < vector_at(hp, p) /\ MoveFrom(p)
    BY DEF MoveUp, GoesUp
  <1>2. /\ Vector(hp, HeapVals) /\ FixOk(hp, fix) /\ HeapOrder(c, m, "up", pos)
    BY <1>1 DEF HeapInv
  <1>3. fix # NoFix /\ pos \in 0..m - 1
    <2>1. fix # NoFix
      BY <1>1 DEF NoFix
    <2> QED
      BY <1>2, <2>1 DEF FixOk
  <1>4. /\ m \in Nat /\ Numbers(c, m)
        /\ \A i \in 0..m - 1 : c[i] = IF i = pos THEN hp.data[m] ELSE hp.data[i]
    BY <1>2, HeapFacts
  <1>5. pos \in 1..m - 1 /\ p \in 0..m - 1 /\ p # pos
    <2>1. pos \in 1..m - 1 /\ pos \in Nat /\ pos >= 1
      BY <1>1, <1>3, <1>4
    <2> QED
      BY <1>4, <2>1, Parents
  <1>6. c[pos] < c[p]
    BY <1>1, <1>3, <1>4, <1>5 DEF Scratch, vector_at
  <1>7. ASSUME NEW d, SwappedIn(c, d, m, pos, p) PROVE HeapOrder(d, m, fix.dir, p)
    <2> HIDE DEF c, m, pos
    <2> QED
      BY <1>1, <1>2, <1>4, <1>5, <1>6, <1>7, OrderUp
  <1> QED
    BY <1>1, <1>3, <1>5, <1>7, MoveStep

(* The child that a round of _heap_fix_down looks at is the least one.        *)
LEMMA NextIsLeast ==
  ASSUME HeapInv, fix # NoFix, HeapLchild(fix.pos) < hp.size
  PROVE  /\ NextChild \in 1..hp.size - 1 /\ NextChild # fix.pos
         /\ LeastChild(Contents(hp, fix), hp.size, fix.pos, NextChild)
         /\ Contents(hp, fix)[NextChild] = hp.data[NextChild]
  <1> DEFINE m == hp.size
             c == Contents(hp, fix)
             pos == fix.pos
             l == 2 * pos + 1
             n == NextChild
  <1>1. /\ Vector(hp, HeapVals) /\ FixOk(hp, fix) /\ pos \in 0..m - 1
    BY DEF HeapInv, FixOk
  <1>2. /\ m \in Nat /\ Numbers(c, m)
        /\ \A i \in 0..m - 1 : c[i] = IF i = pos THEN hp.data[m] ELSE hp.data[i]
    BY <1>1, HeapFacts
  <1>3. n = IF l + 1 < m /\ hp.data[l + 1] < hp.data[l] THEN l + 1 ELSE l
    BY DEF NextChild, HeapLchild, vector_at
  <1>4. l < m
    BY DEF HeapLchild
  <1> HIDE DEF m, c, pos, n
  <1>5. pos \in Nat /\ l \in 1..m - 1 /\ l > pos /\ l + 1 > pos /\ l + 1 = 2 * pos + 2
    BY <1>1, <1>2, <1>4
  <1>6. HeapParent(l) = pos /\ HeapParent(l + 1) = pos
    <2>1. HeapParent(2 * pos + 1) = pos /\ HeapParent(2 * pos + 2) = pos
      BY <1>5, Parents
    <2> QED
      BY <1>5, <2>1
  <1>7. \A i \in 1..m - 1 : HeapParent(i) = pos => i = l \/ i = l + 1
    <2> TAKE i \in 1..m - 1
    <2> HAVE HeapParent(i) = pos
    <2>1. i \in Nat /\ i >= 1
      BY <1>2
    <2>2. i = 2 * pos + 1 \/ i = 2 * pos + 2
      BY <2>1, Parents
    <2> QED
      BY <1>5, <2>2
  <1> HIDE DEF l
  <1>8. n \in 1..m - 1 /\ n # pos /\ HeapParent(n) = pos
    BY <1>2, <1>3, <1>5, <1>6
  <1>9. c[l] = hp.data[l] /\ c[n] = hp.data[n] /\ c[l] \in Nat /\ c[n] \in Nat
    <2>1. l \in 0..m - 1 /\ l # pos /\ n \in 0..m - 1
      BY <1>2, <1>5, <1>8
    <2> QED
      BY <1>2, <1>8, <2>1 DEF Numbers
  <1>10. l + 1 < m => c[l + 1] = hp.data[l + 1] /\ c[l + 1] \in Nat
    <2> HAVE l + 1 < m
    <2>1. l + 1 \in 0..m - 1 /\ l + 1 # pos
      BY <1>2, <1>5
    <2> QED
      BY <1>2, <2>1 DEF Numbers
  <1>11. ASSUME NEW i \in 1..m - 1, HeapParent(i) = pos PROVE c[n] <= c[i]
    <2>1. i = l \/ (i = l + 1 /\ l + 1 < m)
      BY <1>2, <1>5, <1>7, <1>11
    <2>2. c[l] <= c[l] /\ (l + 1 < m => c[l + 1] <= c[l + 1])
      BY <1>9, <1>10
    <2>3. CASE l + 1 < m /\ hp.data[l + 1] < hp.data[l]
      <3>1. n = l + 1
        BY <1>3, <2>3
      <3> QED
        BY <1>9, <1>10, <2>1, <2>2, <2>3, <3>1
    <2>4. CASE ~(l + 1 < m /\ hp.data[l + 1] < hp.data[l])
      <3>1. n = l
        BY <1>3, <2>4
      <3> QED
        BY <1>9, <1>10, <2>1, <2>2, <2>4, <3>1
    <2> QED
      BY <2>3, <2>4
  <1>12. LeastChild(c, m, pos, n)
    BY <1>8, <1>11 DEF LeastChild
  <1> QED
    BY <1>8, <1>9, <1>12 DEF c, m, pos, n

(* A round of _heap_fix_down.                                                 *)
LEMMA DownStep == ASSUME HeapInv, MoveDown PROVE HeapInv'
  <1> DEFINE m == hp.size
             c == Contents(hp, fix)
             pos == fix.pos
             n == NextChild
  <1>1. /\ fix.dir = "down" /\ HeapLchild(pos) < m /\ ~(Scratch < vector_at(hp, n))
        /\ MoveFrom(n)
    BY DEF MoveDown, GoesDown
  <1>2. /\ Vector(hp, HeapVals) /\ FixOk(hp, fix) /\ HeapOrder(c, m, "down", pos)
    BY <1>1 DEF HeapInv
  <1>3. fix # NoFix /\ pos \in 0..m - 1
    <2>1. fix # NoFix
      BY <1>1 DEF NoFix
    <2> QED
      BY <1>2, <2>1 DEF FixOk
  <1>4. /\ m \in Nat /\ Numbers(c, m)
        /\ \A i \in 0..m - 1 : c[i] = IF i = pos THEN hp.data[m] ELSE hp.data[i]
    BY <1>2, HeapFacts
  <1>5. n \in 1..m - 1 /\ n # pos /\ LeastChild(c, m, pos, n) /\ c[n] = hp.data[n]
    BY <1>1, <1>3, NextIsLeast
  <1>6. ~(c[pos] < c[n])
    BY <1>1, <1>3, <1>4, <1>5 DEF Scratch, vector_at
  <1>7. ASSUME NEW d, SwappedIn(c, d, m, pos, n) PROVE HeapOrder(d, m, fix.dir, n)
    <2> HIDE DEF c, m, pos, n
    <2> QED
      BY <1>1, <1>2, <1>3, <1>4, <1>5, <1>6, <1>7, OrderDown
  <1>8. n \in 0..m - 1
    BY <1>4, <1>5
  <1> HIDE DEF n
  <1> QED
    BY <1>1, <1>3, <1>5, <1>7, <1>8, MoveStep

(* The element is put back into the heap.                                     *)
LEMMA BackStep == ASSUME HeapInv, PutBack PROVE HeapInv'
  <1> DEFINE m == hp.size
             c == Contents(hp, fix)
             d == Contents(hp', fix')
             pos == fix.pos
             w == vector_copy_elem(hp, pos, m)
  <1>1. /\ (fix.dir = "up" /\ ~GoesUp) \/ (fix.dir = "down" /\ ~GoesDown)
        /\ hp' = Trim(w) /\ fix' = NoFix /\ hpbag' = hpbag
    BY DEF PutBack
  <1>2. /\ Vector(hp, HeapVals) /\ FixOk(hp, fix) /\ HeapOrder(c, m, fix.dir, pos)
        /\ BagHolds(hpbag, c, m)
    BY DEF HeapInv
  <1>3. /\ fix # NoFix /\ pos \in 0..m - 1 /\ hp.size < hp.capacity
        /\ hp.data[hp.size] \in HeapVals
    <2>1. fix # NoFix
      BY <1>1 DEF NoFix
    <2> QED
      BY <1>2, <2>1 DEF FixOk
  <1>4. /\ m \in Nat /\ Numbers(c, m)
        /\ \A i \in 0..m - 1 : c[i] = IF i = pos THEN hp.data[m] ELSE hp.data[i]
    BY <1>2, HeapFacts
  <1>5. CellCopied(hp, w, pos, m, HeapVals)
    <2>1. pos \in 0..m /\ m \in 0..m
      BY <1>3, <1>4
    <2> QED
      BY <1>2, <1>3, <2>1, CellCopies
  <1>6. /\ Vector(w, HeapVals) /\ w.size = m /\ w.data[pos] = hp.data[m]
        /\ \A i \in 0..m - 1 : i # pos => w.data[i] = hp.data[i]
    BY <1>5, Zenon DEF CellCopied
  <1> HIDE DEF w
  <1>7. Vector(hp', HeapVals) /\ hp'.size = m /\ \A i \in 0..m - 1 : hp'.data[i] = w.data[i]
    BY <1>1, <1>6, Trimmed
  <1>8. FixOk(hp', fix') /\ fix'.dir = "none" /\ fix'.pos = -1
    BY <1>1 DEF FixOk, NoFix
  <1>9. \A i \in 0..m - 1 : d[i] = c[i]
    <2>1. \A i \in 0..m - 1 : d[i] = hp'.data[i]
      BY <1>1, <1>7, <1>8, HeapFacts
    <2> HIDE DEF c, d
    <2> QED
      BY <1>4, <1>6, <1>7, <2>1
  <1>10. HeapOrder(c, m, "none", -1)
    <2>1. fix.dir = "up" /\ pos > 0 => ~(c[pos] < c[HeapParent(pos)])
      <3> SUFFICES ASSUME fix.dir = "up", pos > 0 PROVE ~(c[pos] < c[HeapParent(pos)])
        OBVIOUS
      <3>1. pos \in Nat /\ pos >= 1
        BY <1>3, <1>4
      <3>2. HeapParent(pos) \in 0..m - 1 /\ HeapParent(pos) # pos
        BY <1>3, <1>4, <3>1, Parents
      <3>3. ~(hp.data[m] < hp.data[HeapParent(pos)])
        BY <1>1 DEF GoesUp, Scratch, vector_at
      <3> QED
        BY <1>3, <1>4, <3>2, <3>3
    <2>2. fix.dir = "down" => \A i \in 1..m - 1 : HeapParent(i) = pos => c[pos] <= c[i]
      <3> SUFFICES ASSUME fix.dir = "down", NEW i \in 1..m - 1, HeapParent(i) = pos
                   PROVE  c[pos] <= c[i]
        OBVIOUS
      <3>1. i \in Nat /\ i >= 1 /\ i < m /\ pos \in Nat /\ i \in 0..m - 1
        BY <1>3, <1>4
      <3>2. i = 2 * pos + 1 \/ i = 2 * pos + 2
        BY <3>1, Parents
      <3>3. HeapLchild(pos) < m
        BY <1>4, <3>1, <3>2 DEF HeapLchild
      <3>4. /\ NextChild \in 1..m - 1 /\ LeastChild(c, m, pos, NextChild)
            /\ c[NextChild] = hp.data[NextChild]
        BY <1>3, <3>3, NextIsLeast
      <3>5. hp.data[m] < hp.data[NextChild]
        BY <1>1, <3>3 DEF GoesDown, Scratch, vector_at
      <3>6. c[NextChild] <= c[i]
        BY <3>4 DEF LeastChild
      <3>7. NextChild \in 0..m - 1
        BY <3>4
      <3>8. c[pos] \in Nat /\ c[i] \in Nat /\ c[NextChild] \in Nat
        BY <1>3, <1>4, <3>1, <3>7 DEF Numbers
      <3>9. c[pos] = hp.data[m]
        BY <1>3, <1>4
      <3> HIDE DEF c
      <3> QED
        BY <3>4, <3>5, <3>6, <3>8, <3>9
    <2> HIDE DEF c, m, pos
    <2> QED
      BY <1>2, <1>3, <1>4, <2>1, <2>2, OrderBack
  <1>11. HeapOrder(d, m, "none", -1)
    <2> HIDE DEF c, d, m
    <2>1. \A i \in 1..m - 1 : i \in 0..m - 1 /\ HeapParent(i) \in 0..m - 1
      BY <1>4, Parents
    <2> QED
      BY <1>9, <1>10, <2>1 DEF HeapOrder
  <1>12. BagHolds(hpbag, d, m)
    <2>1. \A e : Times(d, m, e) = Times(c, m, e)
      BY <1>4, <1>9, TimesSame
    <2> QED
      BY <1>2, <2>1 DEF BagHolds
  <1> QED
    BY <1>1, <1>7, <1>8, <1>11, <1>12 DEF HeapInv

(* heap_push puts its element last.                                           *)
LEMMA PushStep == ASSUME HeapInv, NEW e \in HeapVals, heap_push(e) PROVE HeapInv'
  <1> DEFINE m == hp.size
             c == Contents(hp, fix)
             d == Contents(hp', fix')
             h == vector_insert_varg(hp, m, e)
  <1>1. /\ fix = NoFix /\ hp' = vector_copy_elem(h, h.size, m)
        /\ fix' = [dir |-> "up", pos |-> m] /\ hpbag' = BagWith(hpbag, e)
    BY DEF heap_push, heap_fix_up, HeapRef!Push, HeapRef!BagAdd, BagWith
  <1>2. /\ Vector(hp, HeapVals) /\ FixOk(hp, fix) /\ HeapOrder(c, m, "none", -1)
        /\ BagHolds(hpbag, c, m)
    BY <1>1 DEF HeapInv, NoFix
  <1>3. m \in Nat /\ \A i \in 0..m - 1 : c[i] = hp.data[i]
    BY <1>1, <1>2, HeapFacts
  <1>4. /\ Vector(h, HeapVals) /\ h.size = m + 1 /\ h.data[m] = e
        /\ \A i \in 0..m - 1 : h.data[i] = hp.data[i]
    <2>1. m \in 0..m
      BY <1>3
    <2>2. /\ Vector(h, HeapVals) /\ h.size = m + 1
          /\ \A i \in 0..m : h.data[i] = IF i < m THEN hp.data[i]
                                         ELSE IF i = m THEN e ELSE hp.data[i - 1]
      BY <1>2, <2>1, VecInserted
    <2> HIDE DEF h, m
    <2>3. \A i \in 0..m - 1 : i \in 0..m /\ i < m
      BY <1>3
    <2>4. m \in 0..m /\ ~(m < m)
      BY <1>3
    <2>5. h.data[m] = e
      BY <2>2, <2>4
    <2>6. \A i \in 0..m - 1 : h.data[i] = hp.data[i]
      BY <2>2, <2>3
    <2> QED
      BY <2>2, <2>5, <2>6
  <1> HIDE DEF h
  <1>5. CellCopied(h, hp', m + 1, m, HeapVals)
    <2>1. m + 1 \in 0..h.size /\ m \in 0..h.size /\ m < h.size
      BY <1>3, <1>4
    <2> QED
      BY <1>1, <1>4, <2>1, CellCopies
  <1>6. /\ Vector(hp', HeapVals) /\ hp'.size = m + 1 /\ m + 1 < hp'.capacity
        /\ hp'.data[m + 1] = e /\ \A i \in 0..m - 1 : hp'.data[i] = hp.data[i]
    <2>1. /\ Vector(hp', HeapVals) /\ hp'.size = h.size /\ hp'.size < hp'.capacity
          /\ hp'.data[m + 1] = h.data[m]
          /\ \A i \in 0..h.size - 1 : i # m + 1 => hp'.data[i] = h.data[i]
      BY <1>5 DEF CellCopied
    <2>2. \A i \in 0..m - 1 : i \in 0..h.size - 1 /\ i # m + 1
      BY <1>3, <1>4
    <2> QED
      BY <1>4, <2>1, <2>2
  <1>7. FixOk(hp', fix') /\ fix'.dir = "up" /\ fix'.pos = m
    <2>1. DOMAIN fix' = {"dir", "pos"} /\ fix'.dir = "up" /\ fix'.pos = m
      BY <1>1
    <2>2. m \in 0..m + 1 - 1
      BY <1>3
    <2> QED
      BY <1>6, <2>1, <2>2 DEF FixOk
  <1>8. d[m] = e /\ \A i \in 0..m - 1 : d[i] = c[i]
    <2>1. \A i \in 0..hp'.size - 1 :
             d[i] = IF i = fix'.pos THEN hp'.data[hp'.size] ELSE hp'.data[i]
      BY <1>6, <1>7, HeapFacts
    <2>2. m \in 0..hp'.size - 1 /\ \A i \in 0..m - 1 : i \in 0..hp'.size - 1 /\ i # m
      BY <1>3, <1>6
    <2> HIDE DEF c, d
    <2> QED
      BY <1>3, <1>6, <1>7, <2>1, <2>2
  <1> HIDE DEF c, d, m
  <1>9. HeapOrder(d, m + 1, "up", m)
    BY <1>2, <1>3, <1>8, OrderPushed
  <1>10. BagHolds(hpbag', d, m + 1)
    <2>1. DOMAIN hpbag \subseteq HeapVals /\ hpbag \in [DOMAIN hpbag -> Nat \ {0}]
          /\ \A x \in HeapVals : CopiesOf(hpbag, x) = Times(c, m, x)
      BY <1>2 DEF BagHolds
    <2>2. /\ DOMAIN hpbag' \subseteq HeapVals /\ hpbag' \in [DOMAIN hpbag' -> Nat \ {0}]
          /\ \A x : CopiesOf(hpbag', x) = IF x = e THEN CopiesOf(hpbag, x) + 1
                                          ELSE CopiesOf(hpbag, x)
      BY <1>1, <2>1, BagAdded
    <2>3. ASSUME NEW x \in HeapVals PROVE CopiesOf(hpbag', x) = Times(d, m + 1, x)
      <3>1. Times(d, m + 1, x) = IF d[m] = x THEN Times(d, m, x) + 1 ELSE Times(d, m, x)
        BY <1>3, TimesMore
      <3>2. Times(d, m, x) = Times(c, m, x)
        BY <1>3, <1>8, TimesSame
      <3> QED
        BY <1>8, <2>1, <2>2, <3>1, <3>2
    <2> QED
      BY <2>2, <2>3 DEF BagHolds
  <1> QED
    BY <1>6, <1>7, <1>9, <1>10 DEF HeapInv, d

(* Between calls the first element is the one the bag gives.                  *)
LEMMA TopIsLeast ==
  ASSUME HeapInv, fix = NoFix, hp.size > 0
  PROVE  hp.data[0] \in DOMAIN hpbag /\ HeapRef!Least = hp.data[0]
  <1> DEFINE m == hp.size
             c == Contents(hp, fix)
  <1>1. /\ Vector(hp, HeapVals) /\ FixOk(hp, fix) /\ HeapOrder(c, m, "none", -1)
        /\ BagHolds(hpbag, c, m)
    BY DEF HeapInv, NoFix
  <1>2. /\ m \in Nat /\ Numbers(c, m) /\ (\A i \in 0..m - 1 : c[i] = hp.data[i])
        /\ \A i \in 0..m - 1 : c[i] \in HeapVals
    BY <1>1, HeapFacts
  <1>3. 0 \in 0..m - 1
    BY <1>2
  <1> HIDE DEF c, m
  <1>4. \A i \in 0..m - 1 : c[0] <= c[i]
    BY <1>1, <1>2, FirstIsLeast
  <1>5. \A e \in HeapVals : CopiesOf(hpbag, e) = Times(c, m, e)
    BY <1>1 DEF BagHolds
  <1>6. ASSUME NEW e \in DOMAIN hpbag PROVE \E i \in 0..m - 1 : c[i] = e
    <2>1. e \in HeapVals /\ hpbag[e] \in Nat \ {0} /\ CopiesOf(hpbag, e) = hpbag[e]
      BY <1>1 DEF BagHolds, CopiesOf
    <2>2. Cardinality(Where(c, m, e)) # 0
      BY <1>5, <2>1 DEF Times
    <2>3. Where(c, m, e) # {}
      BY <2>2, FS_EmptySet
    <2> QED
      BY <2>3 DEF Where
  <1>7. c[0] \in DOMAIN hpbag
    <2>1. 0 \in Where(c, m, c[0])
      BY <1>3 DEF Where
    <2>2. IsFiniteSet(Where(c, m, c[0]))
      BY <1>2, TimesMore
    <2>3. Times(c, m, c[0]) # 0
      BY <2>1, <2>2, FS_EmptySet DEF Times
    <2>4. CopiesOf(hpbag, c[0]) # 0
      BY <1>2, <1>3, <1>5, <2>3
    <2> QED
      BY <2>4 DEF CopiesOf
  <1>8. \A e \in DOMAIN hpbag : c[0] <= e /\ e \in Nat
    BY <1>2, <1>4, <1>6 DEF Numbers
  <1>9. c[0] \in Nat
    BY <1>2, <1>3 DEF Numbers
  <1>10. HeapRef!Least = c[0]
    <2>1. \A e \in DOMAIN hpbag : (\A f \in DOMAIN hpbag : e <= f) => e = c[0]
      BY <1>7, <1>8, <1>9
    <2> QED
      BY <1>7, <1>8, <2>1 DEF HeapRef!Least
  <1> QED
    BY <1>2, <1>3, <1>7, <1>10

(* The first element and the last one swapped.                                *)
LEMMA EndsSwapped ==
  ASSUME NEW c, NEW s, NEW n \in Nat,
         \A i \in 0..n : s[i] = IF i = 0 THEN c[n] ELSE IF i = n THEN c[0] ELSE c[i]
  PROVE  SwappedIn(c, s, n + 1, 0, n)
  <1>1. 0..n + 1 - 1 = 0..n
    OBVIOUS
  <1> QED
    BY <1>1 DEF SwappedIn

(* heap_pop takes the first element.                                          *)
LEMMA PopStep == ASSUME HeapInv, heap_pop PROVE HeapInv'
  <1> DEFINE m == hp.size - 1
             c == Contents(hp, fix)
             d == Contents(hp', fix')
             t == hp.data[0]
             v == vector_swap_elem(hp, 0, m)
             h == WithoutTop
  <1>1. /\ fix = NoFix /\ hp.size > 0 /\ hpbag' = BagWithout(hpbag, HeapRef!Least)
        /\ IF h.size > 0 THEN heap_fix_down(h, 0) ELSE hp' = h /\ fix' = fix
    BY DEF heap_pop, HeapRef!Pop, HeapRef!BagRemove, BagWithout
  <1>2. /\ Vector(hp, HeapVals) /\ FixOk(hp, fix) /\ HeapOrder(c, hp.size, "none", -1)
        /\ BagHolds(hpbag, c, hp.size)
    BY <1>1 DEF HeapInv, NoFix
  <1>3. hp.size \in Nat /\ (\A i \in 0..hp.size - 1 : c[i] = hp.data[i])
    BY <1>1, <1>2, HeapFacts
  <1>4. m \in Nat /\ hp.size = m + 1 /\ 0 \in 0..m /\ m \in 0..m /\ hp.size - 1 = m
    BY <1>1, <1>3
  <1>5. t \in DOMAIN hpbag /\ HeapRef!Least = t
    BY <1>1, TopIsLeast
  <1>6. /\ Vector(v, HeapVals) /\ v.size = m + 1
        /\ \A i \in 0..m : v.data[i] = IF i = m THEN hp.data[0]
                                       ELSE IF i = 0 THEN hp.data[m] ELSE hp.data[i]
    <2>1. 0 \in 0..hp.size - 1 /\ m \in 0..hp.size - 1
      BY <1>4
    <2>2. /\ Vector(v, HeapVals) /\ v.size = hp.size
          /\ \A i \in 0..hp.size - 1 : v.data[i] = IF i = m THEN hp.data[0]
                                                   ELSE IF i = 0 THEN hp.data[m] ELSE hp.data[i]
      BY <1>2, <2>1, VecSwapped
    <2> QED
      BY <1>4, <2>2
  <1>7. h = vector_erase(v, m)
    BY DEF WithoutTop
  <1> HIDE DEF v, h
  <1>8. Vector(h, HeapVals) /\ h.size = m /\ \A i \in 0..m - 1 : h.data[i] = v.data[i]
    <2> HIDE DEF m
    <2>1. m \in 0..v.size - 1 /\ v.size - 1 = m /\ v.size - 2 = m - 1
      BY <1>4, <1>6
    <2>2. /\ Vector(h, HeapVals) /\ h.size = v.size - 1
          /\ \A i \in 0..v.size - 2 : h.data[i] = IF i < m THEN v.data[i] ELSE v.data[i + 1]
      BY <1>6, <1>7, <2>1, VecErased
    <2>3. \A i \in 0..m - 1 : i < m
      BY <1>4
    <2> QED
      BY <2>1, <2>2, <2>3
  <1>9. /\ Vector(hp', HeapVals) /\ hp'.size = m /\ FixOk(hp', fix')
        /\ \A i \in 0..m - 1 : d[i] = h.data[i]
        /\ (fix'.dir = "down" /\ fix'.pos = 0) \/ (m = 0 /\ fix' = NoFix)
    <2>1. CASE h.size > 0
      <3>1. hp' = vector_copy_elem(h, h.size, 0) /\ fix' = [dir |-> "down", pos |-> 0]
        BY <1>1, <2>1 DEF heap_fix_down
      <3>2. CellCopied(h, hp', m, 0, HeapVals)
        <4>1. m \in 0..h.size /\ 0 \in 0..h.size /\ 0 < h.size
          BY <1>4, <1>8, <2>1
        <4> QED
          BY <1>8, <3>1, <4>1, CellCopies
      <3>3. /\ Vector(hp', HeapVals) /\ hp'.size = m /\ m < hp'.capacity
            /\ hp'.data[m] = h.data[0]
            /\ \A i \in 0..m - 1 : i # m => hp'.data[i] = h.data[i]
        BY <1>8, <3>2 DEF CellCopied
      <3>4. DOMAIN fix' = {"dir", "pos"} /\ fix'.dir = "down" /\ fix'.pos = 0
        BY <3>1
      <3>5. 0 \in 0..m - 1 /\ h.data[0] \in HeapVals
        BY <1>4, <1>8, <2>1 DEF Vector
      <3>6. FixOk(hp', fix')
        BY <3>3, <3>4, <3>5 DEF FixOk
      <3>7. \A i \in 0..m - 1 : d[i] = IF i = 0 THEN hp'.data[m] ELSE hp'.data[i]
        BY <3>3, <3>4, <3>6, HeapFacts
      <3>8. \A i \in 0..m - 1 : i # m
        BY <1>4
      <3> HIDE DEF d, m
      <3>9. \A i \in 0..m - 1 : d[i] = h.data[i]
        BY <3>3, <3>7, <3>8
      <3> QED
        BY <3>3, <3>4, <3>6, <3>9
    <2>2. CASE ~(h.size > 0)
      <3>1. hp' = h /\ fix' = NoFix /\ m = 0
        BY <1>1, <1>4, <1>8, <2>2
      <3>2. \A i \in 0..m - 1 : FALSE
        BY <3>1
      <3> QED
        BY <1>8, <3>1, <3>2 DEF FixOk
    <2> QED
      BY <2>1, <2>2
  <1>10. \A i \in 0..m - 1 : d[i] = IF i = 0 THEN c[m] ELSE c[i]
    <2> HIDE DEF d, m
    <2>1. \A i \in 0..m - 1 : i \in 0..m /\ i # m
      BY <1>4
    <2>2. \A i \in 0..m : c[i] = hp.data[i]
      BY <1>3, <1>4
    <2> HIDE DEF c
    <2> QED
      BY <1>4, <1>6, <1>8, <1>9, <2>1, <2>2
  <1> HIDE DEF c, d, m
  <1>11. HeapOrder(d, m, fix'.dir, fix'.pos)
    <2>1. CASE fix'.dir = "down" /\ fix'.pos = 0
      <3>1. \A i \in 1..m - 1 : i \in 0..m - 1 /\ i # 0
        BY <1>4
      <3>2. \A i \in 1..m - 1 : d[i] = c[i]
        BY <1>10, <3>1
      <3>3. HeapOrder(c, m + 1, "none", -1)
        BY <1>2, <1>4
      <3> QED
        BY <1>4, <2>1, <3>2, <3>3, OrderPopped
    <2>2. CASE m = 0 /\ fix' = NoFix
      <3>1. fix'.dir = "none" /\ \A i \in 1..m - 1 : FALSE
        BY <2>2 DEF NoFix
      <3> QED
        BY <3>1 DEF HeapOrder
    <2> QED
      BY <1>9, <2>1, <2>2
  <1>12. BagHolds(hpbag', d, m)
    <2>1. /\ DOMAIN hpbag \subseteq HeapVals /\ hpbag \in [DOMAIN hpbag -> Nat \ {0}]
          /\ \A x \in HeapVals : CopiesOf(hpbag, x) = Times(c, m + 1, x)
      BY <1>2, <1>4 DEF BagHolds
    <2>2. /\ DOMAIN hpbag' \subseteq HeapVals /\ hpbag' \in [DOMAIN hpbag' -> Nat \ {0}]
          /\ \A x : CopiesOf(hpbag', x) = IF x = t THEN CopiesOf(hpbag, x) - 1
                                          ELSE CopiesOf(hpbag, x)
      BY <1>1, <1>5, <2>1, BagRemoved
    \* The elements with the first and the last one swapped.
    <2> DEFINE s == [i \in 0..m |-> IF i = 0 THEN c[m] ELSE IF i = m THEN c[0] ELSE c[i]]
    <2>3. \A i \in 0..m : s[i] = IF i = 0 THEN c[m] ELSE IF i = m THEN c[0] ELSE c[i]
      OBVIOUS
    <2>4. s[m] = t
      <3>1. c[0] = t
        BY <1>3, <1>4
      <3> QED
        BY <1>4, <3>1
    <2>5. \A i \in 0..m - 1 : d[i] = s[i]
      <3>1. \A i \in 0..m - 1 : i \in 0..m /\ i # m
        BY <1>4
      <3> QED
        BY <1>10, <3>1
    <2> HIDE DEF s, t
    <2>6. SwappedIn(c, s, m + 1, 0, m)
      BY <1>4, <2>3, EndsSwapped
    <2>7. ASSUME NEW x \in HeapVals PROVE CopiesOf(hpbag', x) = Times(d, m, x)
      <3>1. Times(s, m + 1, x) = Times(c, m + 1, x)
        <4>1. m + 1 \in Nat /\ 0 \in 0..m + 1 - 1 /\ m \in 0..m + 1 - 1
          BY <1>4
        <4> QED
          BY <2>6, <4>1, TimesSwapped
      <3>2. /\ Times(s, m, x) \in Nat
            /\ Times(s, m + 1, x) = IF s[m] = x THEN Times(s, m, x) + 1 ELSE Times(s, m, x)
        BY <1>4, TimesMore
      <3>3. Times(d, m, x) = Times(s, m, x)
        BY <1>4, <2>5, TimesSame
      <3>4. CopiesOf(hpbag, x) = Times(s, m + 1, x)
        BY <2>1, <3>1
      <3> QED
        BY <2>2, <2>4, <3>2, <3>3, <3>4
    <2> QED
      BY <2>2, <2>7 DEF BagHolds
  <1> QED
    BY <1>9, <1>11, <1>12 DEF HeapInv, d

(* The empty heap.                                                            *)
LEMMA HeapStart == HeapInit => HeapInv
  <1> SUFFICES ASSUME HeapInit PROVE HeapInv
    OBVIOUS
  <1>1. hp = vector_init /\ fix = NoFix /\ hpbag = [e \in {} |-> 0]
    BY DEF HeapInit, HeapRef!Empty
  <1>2. /\ DOMAIN hp = {"size", "capacity", "data"} /\ hp.size = 0 /\ hp.capacity = InitCapacity
        /\ hp.data = [i \in 0..InitCapacity - 1 |-> Junk]
    BY <1>1 DEF vector_init
  <1>3. Vector(hp, HeapVals)
    BY <1>2, VecAssumption DEF Vector
  <1>4. FixOk(hp, fix) /\ fix.dir = "none"
    BY <1>1 DEF FixOk, NoFix
  <1>5. HeapOrder(Contents(hp, fix), hp.size, fix.dir, fix.pos)
    <2>1. \A i \in 1..hp.size - 1 : FALSE
      BY <1>2
    <2> QED
      BY <1>4, <2>1 DEF HeapOrder
  <1>6. BagHolds(hpbag, Contents(hp, fix), hp.size)
    <2>1. \A e : Where(Contents(hp, fix), 0, e) = {}
      BY DEF Where
    <2>2. \A e : Times(Contents(hp, fix), 0, e) = 0
      BY <2>1, FS_EmptySet DEF Times
    <2>3. DOMAIN hpbag = {} /\ hpbag \in [DOMAIN hpbag -> Nat \ {0}]
      BY <1>1
    <2> QED
      BY <1>2, <2>2, <2>3 DEF BagHolds, CopiesOf
  <1> QED
    BY <1>3, <1>4, <1>5, <1>6 DEF HeapInv

(* What the invariant says of calls.                                          *)
LEMMA QueueOut == HeapInv => HeapIsPrioQueue
  <1> SUFFICES ASSUME HeapInv PROVE HeapIsPrioQueue
    OBVIOUS
  <1> DEFINE m == hp.size
             c == Contents(hp, fix)
  <1>1. Vector(hp, HeapVals) /\ FixOk(hp, fix) /\ BagHolds(hpbag, c, m)
    BY DEF HeapInv
  <1>2. /\ m \in Nat /\ \A i \in 0..m - 1 : c[i] \in HeapVals
        /\ \A i \in 0..m - 1 : c[i] = IF i = fix.pos THEN hp.data[hp.size] ELSE hp.data[i]
    BY <1>1, HeapFacts
  <1>3. \A i \in 0..m - 1 : HeapElem(i) = c[i]
    BY <1>2 DEF HeapElem, Scratch, vector_at
  <1> HIDE DEF c
  <1>4. \A e \in HeapVals : Cardinality({i \in 0..m - 1 : HeapElem(i) = e}) = HeapRef!Copies(e)
    <2> TAKE e \in HeapVals
    <2>1. {i \in 0..m - 1 : HeapElem(i) = e} = Where(c, m, e)
      BY <1>3 DEF Where
    <2>2. CopiesOf(hpbag, e) = Cardinality(Where(c, m, e))
      BY <1>1 DEF BagHolds, Times
    <2>3. CopiesOf(hpbag, e) = HeapRef!Copies(e)
      BY DEF CopiesOf, HeapRef!Copies
    <2> QED
      BY <2>1, <2>2, <2>3
  <1>5. \A i \in 0..m - 1 : HeapElem(i) \in DOMAIN hpbag
    <2> TAKE i \in 0..m - 1
    <2>1. i \in Where(c, m, c[i])
      BY DEF Where
    <2>2. IsFiniteSet(Where(c, m, c[i]))
      BY <1>2, TimesMore
    <2>3. Times(c, m, c[i]) # 0
      BY <2>1, <2>2, FS_EmptySet DEF Times
    <2>4. CopiesOf(hpbag, c[i]) # 0
      BY <1>1, <1>2, <2>3 DEF BagHolds
    <2> QED
      BY <1>3, <2>4 DEF CopiesOf
  <1>6. fix = NoFix /\ m > 0 => heap_top = HeapRef!Least
    BY TopIsLeast DEF heap_top, vector_front, vector_at
  <1> QED
    BY <1>4, <1>5, <1>6 DEF HeapIsPrioQueue

(* heap_t is a priority queue for any values and any number of elements: a    *)
(* push and a pop move elements by copying them over each other, through the  *)
(* cell behind the last, and lose and double none at any point of it; when no *)
(* call is under way heap_top gives a least one, which heap_pop takes.        *)
THEOREM HeapIsPrioQueueHolds == HeapSpec => []HeapIsPrioQueue
  <1>1. HeapInit => HeapInv
    BY HeapStart
  <1>2. HeapInv /\ [HeapNext]_hpvars => HeapInv'
    <2> SUFFICES ASSUME HeapInv, [HeapNext]_hpvars PROVE HeapInv'
      OBVIOUS
    <2>1. CASE UNCHANGED hpvars
      BY <2>1 DEF hpvars, HeapInv
    <2> QED
      BY <2>1, PushStep, PopStep, UpStep, DownStep, BackStep DEF HeapNext
  <1>3. HeapInv => HeapIsPrioQueue
    BY QueueOut
  <1> QED
    BY <1>1, <1>2, <1>3, PTL DEF HeapSpec

=============================================================================
