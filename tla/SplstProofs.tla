----------------------------- MODULE SplstProofs -----------------------------
(* Facts about linked lists of any length. Reach is a least closed set, so    *)
(* they follow from its leastness and its closure, without induction.         *)
EXTENDS Splst, Integers, WellFoundedInduction, TLAPS

\* No element is behind itself.
Acyclic(nxt) == \A a \in DOMAIN nxt : a \notin Reach(nxt, nxt[a])

(* The elements of a list: its first, and with each the next. *)
LEMMA ReachHolds ==
  ASSUME NEW n, NEW x
  PROVE  Reach(n, x) \subseteq DOMAIN n /\ Holds(n, x, Reach(n, x))
  BY DEF Reach, Holds

(* And no others. *)
LEMMA ReachLeast ==
  ASSUME NEW n, NEW x, NEW S \in SUBSET DOMAIN n, Holds(n, x, S)
  PROVE  Reach(n, x) \subseteq S
  BY DEF Reach

(* The end of a list has no elements. *)
LEMMA ReachEnd ==
  ASSUME NEW n, NEW x, x \notin DOMAIN n
  PROVE  Reach(n, x) = {}
  <1>1. Holds(n, x, {})
    BY DEF Holds
  <1> QED
    BY <1>1, ReachLeast

(* A list from an element of another on is part of it. *)
LEMMA ReachFrom ==
  ASSUME NEW n, NEW x, NEW a \in Reach(n, x)
  PROVE  Reach(n, a) \subseteq Reach(n, x)
  <1>1. Holds(n, a, Reach(n, x)) /\ Reach(n, x) \in SUBSET DOMAIN n
    BY ReachHolds DEF Holds
  <1> QED
    BY <1>1, ReachLeast

(* A list is its first element and the rest. *)
LEMMA ReachUnfold ==
  ASSUME NEW n, NEW x \in DOMAIN n
  PROVE  Reach(n, x) = {x} \cup Reach(n, n[x])
  <1> DEFINE T == {x} \cup Reach(n, n[x])
  <1>1. T \in SUBSET DOMAIN n
    BY ReachHolds
  <1>2. Holds(n, x, T)
    BY ReachHolds DEF Holds
  <1>3. Reach(n, x) \subseteq T
    BY <1>1, <1>2, ReachLeast
  <1>4. x \in Reach(n, x)
    BY ReachHolds DEF Holds
  <1>5. Reach(n, n[x]) \subseteq Reach(n, x)
    <2>1. CASE n[x] \in DOMAIN n
      <3>1. n[x] \in Reach(n, x)
        BY <1>4, <2>1, ReachHolds DEF Holds
      <3> QED
        BY <3>1, ReachFrom
    <2>2. CASE n[x] \notin DOMAIN n
      BY <2>2, ReachEnd
    <2> QED
      BY <2>1, <2>2
  <1> QED
    BY <1>3, <1>4, <1>5

(* Writing the next pointer of an element that is not on a list does not      *)
(* change the list.                                                           *)
LEMMA ReachFrame ==
  ASSUME NEW n, NEW m, NEW x, DOMAIN m = DOMAIN n, \A a \in Reach(n, x) : m[a] = n[a]
  PROVE  Reach(m, x) = Reach(n, x)
  <1>1. Reach(m, x) \subseteq Reach(n, x)
    <2>1. Holds(m, x, Reach(n, x)) /\ Reach(n, x) \in SUBSET DOMAIN m
      BY ReachHolds DEF Holds
    <2> QED
      BY <2>1, ReachLeast
  <1>2. Reach(n, x) \subseteq Reach(m, x)
    <2>1. Holds(n, x, Reach(m, x)) /\ Reach(m, x) \in SUBSET DOMAIN n
      BY <1>1, ReachHolds DEF Holds
    <2> QED
      BY <2>1, ReachLeast
  <1> QED
    BY <1>1, <1>2

(* The rest of a list without cycle is the list without its first element.    *)
LEMMA ReachRest ==
  ASSUME NEW n, NEW x \in DOMAIN n, Acyclic(n)
  PROVE  Reach(n, n[x]) = Reach(n, x) \ {x}
  BY ReachUnfold DEF Acyclic

(* splst_del takes its element out of the list and no other. *)
LEMMA ReachUnlinked ==
  ASSUME NEW n, NEW x, NEW a \in DOMAIN n, Acyclic(n)
  PROVE  Reach(Unlinked(n, x, a), IF x = a THEN n[a] ELSE x) = Reach(n, x) \ {a}
  <1> DEFINE m == Unlinked(n, x, a)
             y == IF x = a THEN n[a] ELSE x
             R == Reach(n, x)
             T == Reach(m, y)
  <1>1. DOMAIN m = DOMAIN n
        /\ \A b \in DOMAIN n : m[b] = IF b \in R /\ n[b] = a THEN n[a] ELSE n[b]
    BY DEF Unlinked
  <1>2. R \subseteq DOMAIN n /\ Holds(n, x, R)
    BY ReachHolds
  <1>3. n[a] # a
    <2>1. a \notin Reach(n, n[a])
      BY DEF Acyclic
    <2> QED
      BY <2>1, ReachUnfold
  <1> HIDE DEF m, R
  <1>4. T \subseteq R \ {a}
    <2>1. R \ {a} \in SUBSET DOMAIN m
      BY <1>1, <1>2
    <2>2. y \in DOMAIN m => y \in R \ {a}
      BY <1>1, <1>2, <1>3 DEF Holds
    <2>3. ASSUME NEW b \in R \ {a}, m[b] \in DOMAIN m PROVE m[b] \in R \ {a}
      <3>1. CASE n[b] = a
        <4>1. a \in R /\ m[b] = n[a]
          BY <3>1, <1>1, <1>2 DEF Holds
        <4> QED
          BY <4>1, <2>3, <1>1, <1>2, <1>3 DEF Holds
      <3>2. CASE n[b] # a
        <4>1. m[b] = n[b]
          BY <3>2, <1>1, <1>2
        <4> QED
          BY <3>2, <4>1, <2>3, <1>1, <1>2 DEF Holds
      <3> QED
        BY <3>1, <3>2
    <2>4. Holds(m, y, R \ {a})
      BY <2>2, <2>3 DEF Holds
    <2> QED
      BY <2>1, <2>4, ReachLeast
  <1>5. T \subseteq DOMAIN n /\ Holds(m, y, T)
    BY <1>1, ReachHolds
  <1> HIDE DEF T
  <1>6. ASSUME a \in R, x # a PROVE \E b \in T : n[b] = a
    <2> SUFFICES ASSUME \A b \in T : n[b] # a PROVE FALSE
      OBVIOUS
    <2>1. Holds(n, x, T)
      <3>1. x \in DOMAIN n => x \in T
        BY <1>1, <1>5, <1>6 DEF Holds
      <3>2. \A b \in T : m[b] = n[b]
        BY <1>1, <1>5
      <3> QED
        BY <3>1, <3>2, <1>1, <1>5 DEF Holds
    <2>2. R \subseteq T
      BY <2>1, <1>5, ReachLeast DEF R
    <2> QED
      BY <2>2, <1>4, <1>6
  <1>7. R \ {a} \subseteq T
    <2>1. CASE a \in R
      <3>1. n[a] \in DOMAIN n => n[a] \in T
        <4>1. CASE x = a
          BY <4>1, <1>1, <1>5 DEF Holds
        <4>2. CASE x # a
          <5>1. PICK b \in T : n[b] = a
            BY <2>1, <4>2, <1>6
          <5>2. m[b] = n[a]
            BY <5>1, <1>1, <1>4, <1>5
          <5> QED
            BY <5>2, <1>1, <1>5 DEF Holds
        <4> QED
          BY <4>1, <4>2
      <3>2. x \in DOMAIN n => x \in T \cup {a}
        BY <1>1, <1>5 DEF Holds
      <3>3. ASSUME NEW b \in T, n[b] \in DOMAIN n PROVE n[b] \in T \cup {a}
        <4>1. CASE n[b] # a
          <5>1. m[b] = n[b]
            BY <4>1, <1>1, <1>5
          <5> QED
            BY <5>1, <3>3, <1>1, <1>5 DEF Holds
        <4> QED
          BY <4>1
      <3>4. Holds(n, x, T \cup {a})
        BY <3>1, <3>2, <3>3 DEF Holds
      <3>5. R \subseteq T \cup {a}
        BY <3>4, <1>5, ReachLeast DEF R
      <3> QED
        BY <3>5
    <2>2. CASE a \notin R
      <3>1. \A b \in R : n[b] # a
        BY <2>2, <1>2 DEF Holds
      <3>2. \A b \in R : m[b] = n[b]
        BY <3>1, <1>1, <1>2
      <3>3. x # a
        BY <2>2, <1>2 DEF Holds
      <3>4. Reach(m, x) = R
        BY <3>2, <1>1, ReachFrame DEF R
      <3> QED
        BY <3>3, <3>4 DEF T
    <2> QED
      BY <2>1, <2>2
  <1> QED
    BY <1>4, <1>7 DEF R, T, m

(* And makes no cycle. *)
LEMMA UnlinkedAcyclic ==
  ASSUME NEW n, NEW x, NEW a \in DOMAIN n, Acyclic(n)
  PROVE  Acyclic(Unlinked(n, x, a))
  <1> DEFINE m == Unlinked(n, x, a)
  <1>1. DOMAIN m = DOMAIN n
        /\ \A b \in DOMAIN n : m[b] = n[b] \/ (n[b] = a /\ m[b] = n[a])
    BY DEF Unlinked
  <1> HIDE DEF m
  <1> SUFFICES ASSUME NEW c \in DOMAIN n PROVE c \notin Reach(m, m[c])
    BY <1>1 DEF Acyclic, m
  <1> DEFINE R == Reach(n, n[c])
  <1>2. R \subseteq DOMAIN n /\ Holds(n, n[c], R)
    BY ReachHolds
  <1>3. c \notin R
    BY DEF Acyclic
  <1> HIDE DEF R
  <1>4. Holds(m, m[c], R)
    <2>1. m[c] \in DOMAIN m => m[c] \in R
      BY <1>1, <1>2 DEF Holds
    <2>2. \A b \in R : m[b] \in DOMAIN m => m[b] \in R
      BY <1>1, <1>2 DEF Holds
    <2> QED
      BY <2>1, <2>2 DEF Holds
  <1>5. Reach(m, m[c]) \subseteq R
    BY <1>1, <1>2, <1>4, ReachLeast
  <1> QED
    BY <1>3, <1>5

(* Neither does splst_add of an element that no pointer leads to. *)
LEMMA AddedAcyclic ==
  ASSUME NEW n, NEW x, NEW a \in DOMAIN n, Acyclic(n), x # a,
         \A b \in DOMAIN n : n[b] # a
  PROVE  /\ Acyclic([n EXCEPT ![a] = x])
         /\ \A y : y # a => Reach([n EXCEPT ![a] = x], y) = Reach(n, y)
  <1> DEFINE m == [n EXCEPT ![a] = x]
  <1>1. DOMAIN m = DOMAIN n /\ m[a] = x /\ \A b \in DOMAIN n \ {a} : m[b] = n[b]
    OBVIOUS
  <1> HIDE DEF m
  <1>2. ASSUME NEW y, y # a PROVE a \notin Reach(n, y) /\ Reach(m, y) = Reach(n, y)
    <2>1. Reach(n, y) \subseteq DOMAIN n
      BY ReachHolds
    <2>2. Holds(n, y, Reach(n, y) \ {a})
      BY <1>2, ReachHolds DEF Holds
    <2>3. a \notin Reach(n, y)
      BY <2>1, <2>2, ReachLeast
    <2>4. \A b \in Reach(n, y) : m[b] = n[b]
      BY <1>1, <2>1, <2>3
    <2> QED
      BY <2>3, <2>4, <1>1, ReachFrame
  <1>3. \A c \in DOMAIN n : c \notin Reach(m, m[c])
    <2> TAKE c \in DOMAIN n
    <2>1. CASE c = a
      BY <2>1, <1>1, <1>2
    <2>2. CASE c # a
      <3>1. m[c] = n[c] /\ n[c] # a
        BY <2>2, <1>1
      <3> QED
        BY <3>1, <1>2 DEF Acyclic
    <2> QED
      BY <2>1, <2>2
  <1> QED
    BY <1>1, <1>2, <1>3 DEF Acyclic, m

-----------------------------------------------------------------------------
(* Of two elements of a list one comes after the other.                       *)
LEMMA ReachOrder ==
  ASSUME NEW n, NEW x, NEW a \in Reach(n, x), NEW b \in Reach(n, x)
  PROVE  b \in Reach(n, a) \/ a \in Reach(n, b)
  <1> DEFINE S == {c \in Reach(n, x) : a \in Reach(n, c) \/ c \in Reach(n, a)}
  <1>1. Reach(n, x) \subseteq DOMAIN n /\ Holds(n, x, Reach(n, x))
    BY ReachHolds
  <1>2. ASSUME NEW c \in S, n[c] \in DOMAIN n PROVE n[c] \in S
    <2>1. c \in DOMAIN n /\ n[c] \in Reach(n, x)
      BY <1>1, <1>2 DEF Holds
    <2>2. CASE a \in Reach(n, n[c])
      BY <2>1, <2>2
    <2>3. CASE c \in Reach(n, a)
      BY <1>2, <2>1, <2>3, ReachHolds DEF Holds
    <2>4. a \in Reach(n, c) => a = c \/ a \in Reach(n, n[c])
      BY <2>1, ReachUnfold
    <2>5. a = c => c \in Reach(n, a)
      BY <2>1, ReachUnfold
    <2> QED
      BY <2>2, <2>3, <2>4, <2>5
  <1>3. Holds(n, x, S)
    BY <1>1, <1>2 DEF Holds
  <1> QED
    BY <1>1, <1>3, ReachLeast

(* Every element but the first is the next of another.                        *)
LEMMA ReachPred ==
  ASSUME NEW n, NEW x, NEW b \in Reach(n, x), b # x
  PROVE  \E a \in Reach(n, x) : n[a] = b
  <1> SUFFICES ASSUME \A a \in Reach(n, x) : n[a] # b PROVE FALSE
    OBVIOUS
  <1> DEFINE S == Reach(n, x) \ {b}
  <1>1. S \in SUBSET DOMAIN n /\ Holds(n, x, S)
    BY ReachHolds DEF Holds
  <1> QED
    BY <1>1, ReachLeast

(* Nothing is the next of two elements.                                       *)
LEMMA ReachInjective ==
  ASSUME NEW n, NEW x, Acyclic(n), NEW a \in Reach(n, x), NEW b \in Reach(n, x),
         n[a] = n[b], n[a] \in DOMAIN n
  PROVE  a = b
  <1>1. a \in DOMAIN n /\ b \in DOMAIN n
    BY ReachHolds
  <1>2. Reach(n, a) = {a} \cup Reach(n, n[a]) /\ Reach(n, b) = {b} \cup Reach(n, n[b])
    BY <1>1, ReachUnfold
  <1>3. b \in Reach(n, a) \/ a \in Reach(n, b)
    BY ReachOrder
  <1> QED
    BY <1>1, <1>2, <1>3 DEF Acyclic

(* A list has one end.                                                        *)
LEMMA ReachOneEnd ==
  ASSUME NEW n, NEW x, NEW a \in Reach(n, x), NEW b \in Reach(n, x),
         n[a] \notin DOMAIN n, n[b] \notin DOMAIN n
  PROVE  a = b
  <1>1. a \in DOMAIN n /\ b \in DOMAIN n
    BY ReachHolds
  <1>2. Reach(n, a) = {a} /\ Reach(n, b) = {b}
    BY <1>1, ReachUnfold, ReachEnd
  <1> QED
    BY <1>2, ReachOrder
-----------------------------------------------------------------------------
(* Lists of numbers *)

(* A list that goes down from hi to lo holds all the elements in between:  *)
(* what a new block's objects become when they are added one by one.          *)
LEMMA DownChain ==
  ASSUME NEW m, NEW lo \in Nat, NEW hi \in Nat, lo <= hi,
         lo..hi \subseteq DOMAIN m, m[lo] \notin DOMAIN m,
         \A o \in lo + 1..hi : m[o] = o - 1
  PROVE  Reach(m, hi) = lo..hi
  <1> DEFINE S == Reach(m, hi)
  <1>1. S \subseteq lo..hi
    <2>1. Holds(m, hi, lo..hi)
      BY DEF Holds
    <2> QED
      BY <2>1, ReachLeast
  <1>2. hi \in S /\ \A o \in S : m[o] \in DOMAIN m => m[o] \in S
    BY ReachHolds DEF Holds
  <1>3. ASSUME NEW x \in lo..hi, x \notin S PROVE FALSE
    <2> HIDE DEF S
    <2> DEFINE T == {n \in Nat : n <= hi - lo /\ hi - n \notin S}
    <2>1. T \subseteq Nat /\ T # {}
      <3>1. hi - x \in T
        BY <1>3
      <3> QED
        BY <3>1
    <2> HIDE DEF T
    <2>2. PICK n \in T : \A k \in T : <<k, n>> \notin OpToRel(<, Nat)
      BY <2>1, WFMin, NatLessThanWellFounded, Zenon
    <2>3. n \in Nat /\ n <= hi - lo /\ hi - n \notin S
      BY DEF T
    <2>4. n # 0
      BY <1>2, <2>3
    <2>5. n - 1 \notin T
      <3>1. n - 1 \in Nat /\ n \in Nat /\ n - 1 < n
        BY <2>3, <2>4
      <3> QED
        BY <2>2, <3>1 DEF OpToRel
    <2>6. hi - (n - 1) \in S
      BY <2>3, <2>4, <2>5 DEF T
    <2>7. hi - (n - 1) = (hi - n) + 1 /\ hi - n \in lo..hi /\ (hi - n) + 1 \in lo + 1..hi
      BY <2>3, <2>4
    <2>8. m[(hi - n) + 1] = hi - n
      BY <2>7
    <2> QED
      BY <1>2, <2>3, <2>6, <2>7, <2>8
  <1> QED
    BY <1>1, <1>3

(* A list of which every pointer leads down has no circle.                    *)
LEMMA DownAcyclic ==
  ASSUME NEW m, DOMAIN m \subseteq Nat, \A o \in DOMAIN m : m[o] \in DOMAIN m => m[o] < o
  PROVE  Acyclic(m)
  <1> SUFFICES ASSUME NEW a \in DOMAIN m PROVE a \notin Reach(m, m[a])
    BY DEF Acyclic
  <1> DEFINE S == {o \in DOMAIN m : o < a}
  <1>1. Holds(m, m[a], S)
    BY DEF Holds
  <1>2. Reach(m, m[a]) \subseteq S
    BY <1>1, ReachLeast
  <1> QED
    BY <1>2

(* Nor has one of which every pointer leads up.                               *)
LEMMA UpAcyclic ==
  ASSUME NEW m, DOMAIN m \subseteq Nat, \A o \in DOMAIN m : m[o] \in DOMAIN m => m[o] > o
  PROVE  Acyclic(m)
  <1> SUFFICES ASSUME NEW a \in DOMAIN m PROVE a \notin Reach(m, m[a])
    BY DEF Acyclic
  <1> DEFINE S == {o \in DOMAIN m : o > a}
  <1>1. Holds(m, m[a], S)
    BY DEF Holds
  <1>2. Reach(m, m[a]) \subseteq S
    BY <1>1, ReachLeast
  <1> QED
    BY <1>2

(* A list of which every pointer leads down comes to an end.                  *)
LEMMA DownEnds ==
  ASSUME NEW m, NEW x \in DOMAIN m, DOMAIN m \subseteq Nat,
         \A o \in DOMAIN m : m[o] \in DOMAIN m => m[o] < o
  PROVE  \E a \in Reach(m, x) : m[a] \notin DOMAIN m
  <1> DEFINE R == Reach(m, x)
  <1>1. R \subseteq Nat /\ R # {} /\ \A a \in R : m[a] \in DOMAIN m => m[a] \in R
    BY ReachHolds DEF Holds
  <1>2. \A a \in R : m[a] \in DOMAIN m => m[a] < a
    BY ReachHolds
  <1> HIDE DEF R
  <1>3. PICK a \in R : \A b \in R : <<b, a>> \notin OpToRel(<, Nat)
    BY <1>1, WFMin, NatLessThanWellFounded, Zenon
  <1>4. m[a] \notin DOMAIN m
    BY <1>1, <1>2, <1>3 DEF OpToRel
  <1> QED
    BY <1>4 DEF R

(* So does one of which every pointer leads up, with numbers that are bounded. *)
LEMMA UpEnds ==
  ASSUME NEW m, NEW x \in DOMAIN m, NEW c \in Nat, DOMAIN m \subseteq 0..c,
         \A o \in DOMAIN m : m[o] \in DOMAIN m => m[o] > o
  PROVE  \E a \in Reach(m, x) : m[a] \notin DOMAIN m
  <1> DEFINE R == Reach(m, x)
  <1>1. R \subseteq 0..c /\ x \in R /\ \A a \in R : m[a] \in DOMAIN m => m[a] \in R
    BY ReachHolds DEF Holds
  <1>2. \A a \in R : m[a] \in DOMAIN m => m[a] > a
    BY ReachHolds
  <1> HIDE DEF R
  <1> DEFINE T == {k \in Nat : k <= c /\ c - k \in R}
  <1>3. T \subseteq Nat /\ T # {}
    <2>1. c - x \in T
      BY <1>1
    <2> QED
      BY <2>1
  <1> HIDE DEF T
  <1>4. PICK k \in T : \A l \in T : <<l, k>> \notin OpToRel(<, Nat)
    BY <1>3, WFMin, NatLessThanWellFounded, Zenon
  <1>5. k \in Nat /\ k <= c /\ c - k \in R
    BY DEF T
  <1>6. ASSUME m[c - k] \in DOMAIN m PROVE FALSE
    <2>1. m[c - k] \in R /\ m[c - k] > c - k /\ m[c - k] \in 0..c
      BY <1>1, <1>2, <1>5, <1>6
    <2>2. c - m[c - k] \in T /\ c - m[c - k] \in Nat /\ c - m[c - k] < k
      BY <1>5, <2>1 DEF T
    <2> QED
      BY <1>4, <1>5, <2>2 DEF OpToRel
  <1> QED
    BY <1>5, <1>6 DEF R
=============================================================================
