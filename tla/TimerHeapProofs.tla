-------------------------- MODULE TimerHeapProofs ---------------------------
(* HeapConsistent for any finite set of timers and any expiry times.          *)
(*                                                                            *)
(* A fix-up or a fix-down moves the timers of a path by one cell. That it     *)
(* loses none and that heap_pos follows is a fact about paths (ShiftMoves);   *)
(* that it restores the order rests on what push and delete leave in order:   *)
(* everything but the cell they have filled, and the cells below it against   *)
(* the one above it.                                                          *)
EXTENDS TimerHeap, SplstProofs, FiniteSetTheorems, TLAPS

\* The first cnt cells hold different timers.
Filled(h) ==
    /\ DOMAIN h = {"at", "cnt", "size", "heap_pos"}
    /\ h.cnt \in 0..Cardinality(HeapTimers)
    /\ h.at \in [HeapIndex -> HeapTimers \cup {NoTimer}]
    /\ h.heap_pos \in [HeapTimers -> Nat]
    /\ \A i \in 1..h.cnt : h.at[i] \in HeapTimers
    /\ \A i, j \in 1..h.cnt : h.at[i] = h.at[j] => i = j

Elems(h) == {h.at[i] : i \in 1..h.cnt}

\* No timer is before its parent.
Ordered(h) == \A i \in 2..h.cnt : ~comp(h.at[i], h.at[i \div 2])

\* They are in order but for the timer at pos, and the children of pos come not
\* before its parent.
OrderedBut(h, pos) ==
    /\ \A i \in 2..h.cnt : i # pos /\ i \div 2 # pos => ~comp(h.at[i], h.at[i \div 2])
    /\ pos > 1 => \A i \in 2..h.cnt : i \div 2 = pos => ~comp(h.at[i], h.at[pos \div 2])

ThInv ==
    /\ Filled(th) /\ Ordered(th)
    /\ Elems(th) = inheap /\ th.cnt = Cardinality(inheap)
    /\ \A i \in 1..th.cnt : th.heap_pos[th.at[i]] = i
    /\ \A t \in HeapTimers \ inheap : th.heap_pos[t] = 0
    /\ th.size \in Nat \ {0} /\ (th.cnt > 0 => th.cnt < th.size)
-----------------------------------------------------------------------------
(* RSHIFT and LCHILD.                                                         *)
LEMMA Halves ==
  /\ \A i \in Nat : i > 1 => /\ i \div 2 \in Nat /\ i \div 2 >= 1 /\ i \div 2 < i
                             /\ i = 2 * (i \div 2) \/ i = 2 * (i \div 2) + 1
  /\ \A i \in Nat : (2 * i) \div 2 = i /\ (2 * i + 1) \div 2 = i
  OBVIOUS

(* The heap's cells are cells of the array.                                   *)
LEMMA CellsInArray ==
  /\ Cardinality(HeapTimers) \in Nat
  /\ \A c \in 0..Cardinality(HeapTimers) : 1..c \subseteq HeapIndex
  <1>1. Cardinality(HeapTimers) \in Nat
    BY FS_CardinalityType, HeapTimersAssumption
  <1> QED
    BY <1>1 DEF HeapIndex

\* g is h with the timers of the path from pos on moved by one cell.
Shifted(h, pos, to, g) ==
    LET P == Reach(to, pos)
    IN  /\ Filled(g) /\ Elems(g) = Elems(h) /\ g.cnt = h.cnt /\ g.size = h.size
        /\ \A i \in 1..h.cnt :
              g.at[i] = h.at[IF i \notin P THEN i ELSE IF to[i] \in P THEN to[i] ELSE pos]
        /\ \A i \in P : g.heap_pos[g.at[i]] = i
        /\ \A i \in (1..h.cnt) \ P : g.heap_pos[g.at[i]] = h.heap_pos[h.at[i]]
        /\ \A t \in HeapTimers \ Elems(h) : g.heap_pos[t] = h.heap_pos[t]

(* Moving the timers of a path by one cell loses none, and heap_pos follows.  *)
LEMMA ShiftMoves ==
  ASSUME NEW h, Filled(h), NEW pos \in 1..h.cnt, NEW to \in [1..h.cnt -> 0..h.cnt],
         Acyclic(to), \E a \in Reach(to, pos) : to[a] \notin DOMAIN to
  PROVE  Shifted(h, pos, to, Shift(h, pos, to))
  <1> DEFINE g == Shift(h, pos, to)
             P == Reach(to, pos)
             C == 1..h.cnt
             src(i) == IF i \notin P THEN i ELSE IF to[i] \in P THEN to[i] ELSE pos
             new == [i \in HeapIndex |-> h.at[src(i)]]
             hp == [t \in HeapTimers |-> IF \E i \in P : new[i] = t
                                         THEN CHOOSE i \in P : new[i] = t ELSE h.heap_pos[t]]
  <1>1. /\ DOMAIN g = {"at", "cnt", "size", "heap_pos"} /\ g.cnt = h.cnt /\ g.size = h.size
        /\ g.at = new /\ g.heap_pos = hp
    BY DEF Shift, Filled
  <1>2. C \subseteq HeapIndex /\ DOMAIN to = C /\ h.cnt \in Nat
    BY CellsInArray DEF Filled
  <1>3. /\ P \subseteq C /\ pos \in P
        /\ \A i \in P : to[i] \in DOMAIN to => to[i] \in P
    BY <1>2, ReachHolds DEF Holds
  <1>4. \A i \in C : src(i) \in C
    BY <1>3
  <1>5. ASSUME NEW i \in C, NEW j \in C, src(i) = src(j) PROVE i = j
    <2>1. CASE i \notin P \/ j \notin P
      BY <1>3, <1>5, <2>1
    <2>2. CASE i \in P /\ j \in P /\ to[i] \in P /\ to[j] \in P
      BY <1>3, <1>5, <2>2, ReachInjective
    <2>3. ASSUME NEW k \in P, to[k] = pos PROVE FALSE
      BY <1>2, <1>3, <2>3 DEF Acyclic
    <2>4. CASE i \in P /\ j \in P /\ to[i] \notin P /\ to[j] \notin P
      <3>1. to[i] \notin DOMAIN to /\ to[j] \notin DOMAIN to
        BY <1>3, <2>4
      <3> QED
        BY <2>4, <3>1, ReachOneEnd
    <2> QED
      BY <1>5, <2>1, <2>2, <2>3, <2>4
  <1>6. ASSUME NEW k \in C PROVE \E i \in C : src(i) = k
    <2>1. CASE k \notin P
      BY <2>1
    <2>2. CASE k \in P /\ k # pos
      <3>1. PICK i \in P : to[i] = k
        BY <2>2, ReachPred
      <3> QED
        BY <1>3, <2>2, <3>1
    <2>3. CASE k = pos
      <3>1. PICK a \in P : to[a] \notin DOMAIN to
        OBVIOUS
      <3> QED
        BY <1>2, <1>3, <2>3, <3>1
    <2> QED
      BY <2>1, <2>2, <2>3
  <1>7. \A i \in C : new[i] = h.at[src(i)]
    BY <1>2
  <1>9. \A i \in HeapIndex \ C : new[i] = h.at[i]
    BY <1>3
  <1>10. \A t \in HeapTimers : hp[t] = IF \E i \in P : new[i] = t
                                       THEN CHOOSE i \in P : new[i] = t ELSE h.heap_pos[t]
    OBVIOUS
  <1>11. new \in [HeapIndex -> HeapTimers \cup {NoTimer}]
    <2>1. ASSUME NEW i \in HeapIndex PROVE new[i] \in HeapTimers \cup {NoTimer}
      <3> HIDE DEF src, new
      <3>1. CASE i \in C
        BY <1>4, <1>7, <3>1 DEF Filled
      <3>2. CASE i \notin C
        <4>1. new[i] = h.at[i]
          BY <1>9, <2>1, <3>2
        <4> QED
          BY <2>1, <4>1 DEF Filled
      <3> QED
        BY <3>1, <3>2
    <2> QED
      BY <2>1
  <1>12. \A i \in C : new[i] \in HeapTimers
    <2> HIDE DEF src, new
    <2> QED
      BY <1>4, <1>7 DEF Filled
  <1>13. \A i, j \in C : new[i] = new[j] => i = j
    <2> HIDE DEF src, new, P
    <2> SUFFICES ASSUME NEW i \in C, NEW j \in C, new[i] = new[j] PROVE i = j
      OBVIOUS
    <2>1. h.at[src(i)] = h.at[src(j)] /\ src(i) \in C /\ src(j) \in C
      BY <1>4, <1>7
    <2>2. src(i) = src(j)
      BY <2>1 DEF Filled
    <2> QED
      BY <2>2, <1>5
  <1> HIDE DEF src, new, P, hp, g
  <1>14. \A t \in HeapTimers : hp[t] \in Nat
    <2> SUFFICES ASSUME NEW t \in HeapTimers PROVE hp[t] \in Nat
      OBVIOUS
    <2>1. CASE \E i \in P : new[i] = t
      <3>1. hp[t] \in P
        BY <1>10, <2>1
      <3> QED
        <4>1. P \subseteq C
          BY <1>3
        <4>2. C \subseteq Nat
          BY <1>2
        <4> QED
          BY <3>1, <4>1, <4>2, Zenon
    <2>2. CASE ~\E i \in P : new[i] = t
      BY <1>10, <2>2 DEF Filled
    <2> QED
      BY <2>1, <2>2
  <1>15. hp \in [HeapTimers -> Nat]
    BY <1>14 DEF hp
  <1>16. Filled(g)
    BY <1>1, <1>11, <1>12, <1>13, <1>15 DEF Filled
  <1>17. Elems(g) = Elems(h)
    <2>1. \A i \in C : new[i] \in Elems(h)
      BY <1>4, <1>7 DEF Elems
    <2>2. \A k \in C : \E i \in C : new[i] = h.at[k]
      BY <1>6, <1>7
    <2> QED
      <3>1. Elems(g) = {new[i] : i \in C} /\ Elems(h) = {h.at[i] : i \in C}
        BY <1>1 DEF Elems
      <3> QED
        <4>1. \A x \in Elems(g) : x \in Elems(h)
          BY <2>1, <3>1
        <4>2. ASSUME NEW x \in Elems(h) PROVE x \in Elems(g)
          <5>1. PICK k \in C : x = h.at[k]
            BY <3>1
          <5>2. PICK i \in C : new[i] = h.at[k]
            BY <2>2
          <5> QED
            BY <3>1, <5>1, <5>2
        <4> QED
          BY <4>1, <4>2
  <1>18. \A i \in P : hp[new[i]] = i
    BY <1>3, <1>10, <1>12, <1>13
  <1>19. \A i \in C \ P : hp[new[i]] = h.heap_pos[h.at[i]]
    <2>1. \A i \in C \ P : new[i] = h.at[i]
      BY <1>7 DEF src
    <2> QED
      BY <1>3, <1>10, <1>12, <1>13, <2>1
  <1>20. \A t \in HeapTimers \ Elems(h) : hp[t] = h.heap_pos[t]
    BY <1>1, <1>3, <1>10, <1>17 DEF Elems
  <1>21. \A i \in C :
            new[i] = h.at[IF i \notin P THEN i ELSE IF to[i] \in P THEN to[i] ELSE pos]
    BY <1>7 DEF src
  <1> QED
    <2>1. Shifted(h, pos, to, g)
      BY <1>1, <1>16, <1>17, <1>18, <1>19, <1>20, <1>21 DEF P, Shifted
    <2> QED
      BY <2>1 DEF g

\* g is h with the timer at pos moved to another cell and those between moved to
\* make room, and heap_pos right if it was right but for pos.
Moved(h, pos, g) ==
    /\ Filled(g) /\ Elems(g) = Elems(h) /\ g.cnt = h.cnt /\ g.size = h.size
    /\ (\A i \in (1..h.cnt) \ {pos} : h.heap_pos[h.at[i]] = i)
          => \A i \in 1..g.cnt : g.heap_pos[g.at[i]] = i
    /\ \A t \in HeapTimers \ Elems(h) : g.heap_pos[t] = h.heap_pos[t]

(* What push and delete need of the cells on no path.                         *)
LEMMA ShiftMoved ==
  ASSUME NEW h, Filled(h), NEW pos \in 1..h.cnt, NEW to \in [1..h.cnt -> 0..h.cnt],
         Acyclic(to), \E a \in Reach(to, pos) : to[a] \notin DOMAIN to
  PROVE  Moved(h, pos, Shift(h, pos, to))
  <1> DEFINE g == Shift(h, pos, to)
             P == Reach(to, pos)
  <1>0. Shifted(h, pos, to, g)
    BY ShiftMoves
  <1> HIDE DEF g
  <1>1. /\ Filled(g) /\ Elems(g) = Elems(h) /\ g.cnt = h.cnt /\ g.size = h.size
        /\ \A i \in P : g.heap_pos[g.at[i]] = i
        /\ \A i \in (1..h.cnt) \ P : g.heap_pos[g.at[i]] = h.heap_pos[h.at[i]]
        /\ \A t \in HeapTimers \ Elems(h) : g.heap_pos[t] = h.heap_pos[t]
    BY <1>0 DEF Shifted
  <1>2. pos \in P
    BY ReachHolds DEF Holds
  <1> HIDE DEF P
  <1> QED
    BY <1>1, <1>2 DEF Moved, g

(* The loop of spheap_fix_up leads up to the root at most.                    *)
LEMMA UpPath ==
  ASSUME NEW h, Filled(h), NEW val
  PROVE  LET to == Up(h, val)
         IN  /\ to \in [1..h.cnt -> 0..h.cnt] /\ DOMAIN to = 1..h.cnt
             /\ \A i \in 1..h.cnt :
                   \/ to[i] = Stop /\ (i > 1 => ~comp(val, h.at[i \div 2]))
                   \/ to[i] = i \div 2 /\ i > 1 /\ to[i] \in 1..h.cnt /\ to[i] < i
                        /\ comp(val, h.at[i \div 2])
             /\ Acyclic(to)
             /\ \A pos \in 1..h.cnt : \E a \in Reach(to, pos) : to[a] \notin DOMAIN to
  <1> DEFINE to == Up(h, val)
  <1>0. h.cnt \in Nat
    BY CellsInArray DEF Filled
  <1>1. DOMAIN to = 1..h.cnt
    BY DEF Up
  <1>2. \A i \in 1..h.cnt :
           \/ to[i] = Stop /\ (i > 1 => ~comp(val, h.at[i \div 2]))
           \/ to[i] = i \div 2 /\ i > 1 /\ comp(val, h.at[i \div 2])
    BY DEF Up
  <1>3. \A i \in 1..h.cnt : i > 1 => i \div 2 \in 1..h.cnt /\ i \div 2 < i
    BY <1>0, Halves
  <1>4. \A i \in 1..h.cnt : to[i] \in 0..h.cnt
    BY <1>0, <1>2, <1>3 DEF Stop
  <1>5. to \in [1..h.cnt -> 0..h.cnt]
    BY <1>1, <1>4 DEF Up
  <1>6. DOMAIN to \subseteq Nat /\ \A i \in DOMAIN to : to[i] \in DOMAIN to => to[i] < i
    BY <1>0, <1>1, <1>2, <1>3 DEF Stop
  <1> HIDE DEF to
  <1>7. Acyclic(to) /\ \A pos \in 1..h.cnt : \E a \in Reach(to, pos) : to[a] \notin DOMAIN to
    BY <1>1, <1>6, DownAcyclic, DownEnds
  <1> QED
    BY <1>1, <1>2, <1>3, <1>5, <1>7 DEF to

(* The loop of spheap_fix_down leads to a child of each cell, the earlier one. *)
LEMMA DownPath ==
  ASSUME NEW h, Filled(h), NEW val
  PROVE  LET to == Down(h, val)
         IN  /\ to \in [1..h.cnt -> 0..h.cnt] /\ DOMAIN to = 1..h.cnt
             /\ \A i \in 1..h.cnt :
                   \/ to[i] = Stop /\ (2 * i <= h.cnt => comp(val, h.at[Child(h, i)]))
                   \/ to[i] = Child(h, i) /\ 2 * i <= h.cnt /\ ~comp(val, h.at[Child(h, i)])
             /\ \A i \in 1..h.cnt : 2 * i <= h.cnt =>
                   /\ Child(h, i) \in 1..h.cnt /\ Child(h, i) \div 2 = i /\ Child(h, i) > i
                   /\ \A j \in 2..h.cnt : j \div 2 = i => ~comp(h.at[j], h.at[Child(h, i)])
             /\ Acyclic(to)
             /\ \A pos \in 1..h.cnt : \E a \in Reach(to, pos) : to[a] \notin DOMAIN to
  <1> DEFINE to == Down(h, val)
  <1>0. h.cnt \in Nat
    BY CellsInArray DEF Filled
  <1>1. DOMAIN to = 1..h.cnt
    BY DEF Down
  <1>2. \A i \in 1..h.cnt :
           \/ to[i] = Stop /\ (2 * i <= h.cnt => comp(val, h.at[Child(h, i)]))
           \/ to[i] = Child(h, i) /\ 2 * i <= h.cnt /\ ~comp(val, h.at[Child(h, i)])
    BY <1>0 DEF Down
  <1>3. ASSUME NEW i \in 1..h.cnt, 2 * i <= h.cnt
        PROVE  /\ Child(h, i) \in 1..h.cnt /\ Child(h, i) \div 2 = i /\ Child(h, i) > i
               /\ \A j \in 2..h.cnt : j \div 2 = i => ~comp(h.at[j], h.at[Child(h, i)])
    <2>1. /\ Child(h, i) = 2 * i \/ (Child(h, i) = 2 * i + 1 /\ 2 * i + 1 <= h.cnt)
          /\ (2 * i) \div 2 = i /\ (2 * i + 1) \div 2 = i
      BY <1>0, Halves DEF Child
    <2>2. ASSUME NEW j \in 2..h.cnt, j \div 2 = i
          PROVE  ~comp(h.at[j], h.at[Child(h, i)])
      <3>1. j = 2 * i \/ j = 2 * i + 1
        BY <1>0, <2>2, Halves
      <3>2. Stamp[h.at[2 * i]] \in Int /\ Stamp[h.at[j]] \in Int
        BY <1>0, <1>3, HeapTimersAssumption DEF Filled
      <3>3. CASE j = 2 * i
        <4>1. 2 * i + 1 <= h.cnt => Stamp[h.at[2 * i + 1]] \in Int
          BY <1>0, HeapTimersAssumption DEF Filled
        <4> QED
          BY <3>2, <3>3, <4>1 DEF Child, comp
      <3>4. CASE j = 2 * i + 1
        <4>1. 2 * i + 1 <= h.cnt
          BY <3>4
        <4> QED
          BY <3>2, <3>4, <4>1 DEF Child, comp
      <3> QED
        BY <3>1, <3>3, <3>4
    <2> QED
      BY <1>0, <1>3, <2>1, <2>2
  <1>4. \A i \in 1..h.cnt : to[i] \in 0..h.cnt
    BY <1>0, <1>2, <1>3 DEF Stop
  <1>5. to \in [1..h.cnt -> 0..h.cnt]
    BY <1>1, <1>4 DEF Down
  <1>6. DOMAIN to \subseteq 0..h.cnt /\ \A i \in DOMAIN to : to[i] \in DOMAIN to => to[i] > i
    BY <1>0, <1>1, <1>2, <1>3 DEF Stop
  <1> HIDE DEF to
  <1>7. Acyclic(to)
    BY <1>0, <1>1, <1>6, UpAcyclic
  <1>8. \A pos \in 1..h.cnt : \E a \in Reach(to, pos) : to[a] \notin DOMAIN to
    BY <1>0, <1>1, <1>6, UpEnds
  <1> QED
    BY <1>1, <1>2, <1>3, <1>5, <1>7, <1>8 DEF to
-----------------------------------------------------------------------------
(* spheap_fix_up puts a timer in order that comes before no child.            *)
LEMMA FixUp ==
  ASSUME NEW h, Filled(h), NEW pos \in 1..h.cnt, OrderedBut(h, pos),
         \A i \in 2..h.cnt : i \div 2 = pos => ~comp(h.at[i], h.at[pos])
  PROVE  LET g == spheap_fix_up(h, pos) IN Moved(h, pos, g) /\ Ordered(g)
  <1> DEFINE to == Up(h, h.at[pos])
             P == Reach(to, pos)
             g == Shift(h, pos, to)
             key(i) == Stamp[h.at[i]]
             val == Stamp[h.at[pos]]
  <1>0. h.cnt \in Nat /\ \A i \in 1..h.cnt : key(i) \in Int
    BY CellsInArray, HeapTimersAssumption DEF Filled
  <1>1. /\ to \in [1..h.cnt -> 0..h.cnt] /\ DOMAIN to = 1..h.cnt /\ Acyclic(to)
        /\ \E a \in Reach(to, pos) : to[a] \notin DOMAIN to
    BY UpPath
  <1>2. \A i \in 1..h.cnt :
           \/ to[i] = Stop /\ (i > 1 => ~(val < key(i \div 2)))
           \/ to[i] = i \div 2 /\ i > 1 /\ to[i] \in 1..h.cnt /\ to[i] < i /\ val < key(i \div 2)
    BY UpPath DEF comp
  <1> HIDE DEF to
  <1>3. /\ Moved(h, pos, g) /\ g.cnt = h.cnt
        /\ \A i \in 1..h.cnt :
              g.at[i] = h.at[IF i \notin P THEN i ELSE IF to[i] \in P THEN to[i] ELSE pos]
    <2>1. Moved(h, pos, g) /\ Shifted(h, pos, to, g)
      BY <1>1, ShiftMoves, ShiftMoved
    <2> HIDE DEF g
    <2> QED
      BY <2>1 DEF Shifted
  <1>4. /\ P \subseteq 1..h.cnt /\ pos \in P
        /\ \A i \in P : to[i] \in 1..h.cnt => to[i] \in P
    BY <1>1, ReachHolds DEF Holds
  <1>5. \A p \in P : p # pos => \E j \in P : to[j] = p
    BY ReachPred
  <1>6. \A i \in P : to[i] = Stop => i \div 2 \notin P
    <2> SUFFICES ASSUME NEW i \in P, to[i] = Stop, i \div 2 \in P PROVE FALSE
      OBVIOUS
    <2>1. i > 1 /\ i \div 2 < i /\ i \div 2 # i
      BY <1>0, <1>4, Halves
    <2>2. Reach(to, i) = {i}
      <3>1. i \in DOMAIN to /\ to[i] \notin DOMAIN to
        BY <1>1, <1>4 DEF Stop
      <3> QED
        BY <3>1, ReachUnfold, ReachEnd
    <2>3. i \in Reach(to, i \div 2)
      BY <2>1, <2>2, ReachOrder
    <2>4. Reach(to, i \div 2) \subseteq {j \in 1..h.cnt : j <= i \div 2}
      <3> DEFINE S == {j \in 1..h.cnt : j <= i \div 2}
      <3>1. Holds(to, i \div 2, S)
        BY <1>0, <1>1, <1>2, <1>4 DEF Holds, Stop
      <3>2. S \in SUBSET DOMAIN to
        BY <1>1
      <3> HIDE DEF S
      <3> QED
        BY <3>1, <3>2, ReachLeast DEF S
    <2> QED
      BY <1>0, <2>1, <2>3, <2>4
  <1> DEFINE nkey(i) == Stamp[g.at[i]]
  <1>7. \A i \in 1..h.cnt :
           /\ i \notin P => nkey(i) = key(i)
           /\ i \in P /\ to[i] # Stop => nkey(i) = key(i \div 2) /\ i > 1 /\ i \div 2 \in P
                                           /\ val < key(i \div 2)
           /\ i \in P /\ to[i] = Stop => nkey(i) = val /\ (i > 1 => ~(val < key(i \div 2)))
    BY <1>2, <1>3, <1>4 DEF Stop
  <1>8. \A i \in 2..h.cnt : /\ i # pos /\ i \div 2 # pos => key(i) >= key(i \div 2)
                            /\ i \div 2 = pos => key(i) >= val
                            /\ i \div 2 = pos /\ pos > 1 => key(i) >= key(pos \div 2)
                            /\ i \div 2 \in 1..h.cnt
    <2> SUFFICES ASSUME NEW i \in 2..h.cnt
                 PROVE  /\ i # pos /\ i \div 2 # pos => key(i) >= key(i \div 2)
                        /\ i \div 2 = pos => key(i) >= val
                        /\ i \div 2 = pos /\ pos > 1 => key(i) >= key(pos \div 2)
                        /\ i \div 2 \in 1..h.cnt
      OBVIOUS
    <2>1. i \in 1..h.cnt /\ i \div 2 \in 1..h.cnt /\ (pos > 1 => pos \div 2 \in 1..h.cnt)
      BY <1>0, Halves
    <2>2. key(i) \in Int /\ key(i \div 2) \in Int /\ (pos > 1 => key(pos \div 2) \in Int)
          /\ val \in Int
      BY <1>0, <2>1
    <2>3. /\ i # pos /\ i \div 2 # pos => ~(key(i) < key(i \div 2))
          /\ i \div 2 = pos => ~(key(i) < val)
          /\ i \div 2 = pos /\ pos > 1 => ~(key(i) < key(pos \div 2))
      BY DEF OrderedBut, comp
    <2> HIDE DEF key, val
    <2> QED
      BY <2>1, <2>2, <2>3
  <1> HIDE DEF P, g, key, val, nkey
  <1>9. val \in Int
    BY <1>0 DEF val, key
  <1>10. ASSUME NEW i \in 2..h.cnt PROVE nkey(i) >= nkey(i \div 2)
    <2> DEFINE p == i \div 2
    <2>0. p \in 1..h.cnt /\ i \in 1..h.cnt /\ key(i) \in Int /\ key(p) \in Int
      BY <1>0, <1>8
    <2>g. p > 1 => p \div 2 \in 1..h.cnt /\ key(p \div 2) \in Int
      BY <1>0, <1>8, <2>0
    <2>1. CASE i \in P /\ to[i] # Stop
      <3>1. nkey(i) = key(p) /\ p \in P /\ val < key(p)
        BY <1>7, <2>0, <2>1
      <3>2. CASE to[p] = Stop
        BY <1>7, <1>9, <2>0, <3>1, <3>2
      <3>3. CASE to[p] # Stop
        <4>1. nkey(p) = key(p \div 2) /\ p > 1
          BY <1>7, <2>0, <3>1, <3>3
        <4>2. p # pos
          BY <1>9, <3>1 DEF key, val
        <4>3. p \div 2 # pos
          <5>1. val < key(p \div 2)
            BY <1>7, <2>0, <3>1, <3>3
          <5> QED
            BY <1>9, <5>1 DEF key, val
        <4>4. key(p) >= key(p \div 2)
          BY <1>0, <1>8, <2>0, <4>1, <4>2, <4>3
        <4> QED
          BY <3>1, <4>1, <4>4
      <3> QED
        BY <3>2, <3>3
    <2>2. CASE i \in P /\ to[i] = Stop
      <3>1. nkey(i) = val /\ ~(val < key(p)) /\ p \notin P
        BY <1>0, <1>6, <1>7, <2>0, <2>2
      <3>2. nkey(p) = key(p)
        BY <1>7, <2>0, <3>1
      <3> QED
        BY <1>9, <2>0, <3>1, <3>2
    <2>3. CASE i \notin P /\ p \notin P
      <3>1. i # pos /\ p # pos
        BY <1>4, <2>3
      <3> QED
        BY <1>7, <1>8, <2>0, <2>3, <3>1
    <2>4. CASE i \notin P /\ p \in P
      <3>0. i # pos /\ nkey(i) = key(i)
        BY <1>4, <1>7, <2>0, <2>4
      <3>1. CASE to[p] = Stop
        <4>1. nkey(p) = val
          BY <1>7, <2>0, <2>4, <3>1
        <4>2. CASE p = pos
          BY <1>8, <3>0, <4>1, <4>2
        <4>3. CASE p # pos
          <5>1. PICK j \in P : to[j] = p
            BY <1>5, <2>4, <4>3
          <5>2. val < key(p)
            BY <1>2, <1>4, <2>0, <5>1 DEF Stop
          <5>3. key(i) >= key(p)
            BY <1>8, <3>0, <4>3
          <5> QED
            BY <1>9, <2>0, <3>0, <4>1, <5>2, <5>3
        <4> QED
          BY <4>2, <4>3
      <3>2. CASE to[p] # Stop
        <4>1. nkey(p) = key(p \div 2) /\ p > 1 /\ val < key(p \div 2)
          BY <1>7, <2>0, <2>4, <3>2
        <4>2. CASE p = pos
          BY <1>8, <3>0, <4>1, <4>2
        <4>3. CASE p # pos
          <5>1. p \div 2 # pos
            BY <1>9, <4>1 DEF key, val
          <5>2. key(i) >= key(p) /\ key(p) >= key(p \div 2)
            BY <1>0, <1>8, <2>0, <3>0, <4>1, <4>3, <5>1
          <5> QED
            BY <2>0, <2>g, <3>0, <4>1, <5>2
        <4> QED
          BY <4>2, <4>3
      <3> QED
        BY <3>1, <3>2
    <2> QED
      BY <2>1, <2>2, <2>3, <2>4
  <1>11. \A i \in 1..h.cnt : nkey(i) \in Int
    BY <1>3, HeapTimersAssumption DEF Moved, Filled, nkey
  <1>12. Ordered(g)
    BY <1>0, <1>3, <1>8, <1>10, <1>11 DEF Ordered, comp, nkey
  <1> QED
    BY <1>3, <1>12 DEF spheap_fix_up, g, to

(* spheap_fix_down puts a timer in order that comes not before its parent.    *)
LEMMA FixDown ==
  ASSUME NEW h, Filled(h), NEW pos \in 1..h.cnt, OrderedBut(h, pos),
         pos > 1 => ~comp(h.at[pos], h.at[pos \div 2])
  PROVE  LET g == spheap_fix_down(h, pos) IN Moved(h, pos, g) /\ Ordered(g)
  <1> DEFINE to == Down(h, h.at[pos])
             P == Reach(to, pos)
             g == Shift(h, pos, to)
             key(i) == Stamp[h.at[i]]
             val == Stamp[h.at[pos]]
  <1>0. h.cnt \in Nat /\ \A i \in 1..h.cnt : key(i) \in Int
    BY CellsInArray, HeapTimersAssumption DEF Filled
  <1>1. /\ to \in [1..h.cnt -> 0..h.cnt] /\ DOMAIN to = 1..h.cnt /\ Acyclic(to)
        /\ \E a \in Reach(to, pos) : to[a] \notin DOMAIN to
    BY DownPath
  <1>2. \A i \in 1..h.cnt :
           \/ to[i] = Stop /\ (2 * i <= h.cnt => val < key(Child(h, i)))
           \/ to[i] = Child(h, i) /\ 2 * i <= h.cnt /\ ~(val < key(Child(h, i)))
    BY DownPath DEF comp
  <1>c. \A i \in 1..h.cnt : 2 * i <= h.cnt =>
           /\ Child(h, i) \in 1..h.cnt /\ Child(h, i) \div 2 = i /\ Child(h, i) > i
           /\ \A j \in 2..h.cnt : j \div 2 = i => ~(key(j) < key(Child(h, i)))
    BY DownPath DEF comp
  <1> HIDE DEF to
  <1>3. /\ Moved(h, pos, g) /\ g.cnt = h.cnt
        /\ \A i \in 1..h.cnt :
              g.at[i] = h.at[IF i \notin P THEN i ELSE IF to[i] \in P THEN to[i] ELSE pos]
    <2>1. Moved(h, pos, g) /\ Shifted(h, pos, to, g)
      BY <1>1, ShiftMoves, ShiftMoved
    <2> HIDE DEF g
    <2> QED
      BY <2>1 DEF Shifted
  <1>4. /\ P \subseteq 1..h.cnt /\ pos \in P
        /\ \A i \in P : to[i] \in 1..h.cnt => to[i] \in P
    BY <1>1, ReachHolds DEF Holds
  <1> DEFINE nkey(i) == Stamp[g.at[i]]
  <1>5. \A i \in 1..h.cnt :
           /\ i \notin P => nkey(i) = key(i)
           /\ i \in P /\ to[i] # Stop =>
                 /\ to[i] \in P /\ to[i] = Child(h, i) /\ 2 * i <= h.cnt
                 /\ nkey(i) = key(to[i]) /\ ~(val < key(to[i]))
           /\ i \in P /\ to[i] = Stop => nkey(i) = val
    BY <1>2, <1>3, <1>4, <1>c DEF Stop
  <1>6. \A i \in 2..h.cnt : /\ i # pos /\ i \div 2 # pos => key(i) >= key(i \div 2)
                            /\ i \div 2 = pos /\ pos > 1 => key(i) >= key(pos \div 2)
                            /\ i \div 2 \in 1..h.cnt
    BY <1>0, Halves DEF OrderedBut, comp
  <1>7. pos > 1 => val >= key(pos \div 2)
    BY <1>0, <1>6 DEF comp
  <1>8. \A i \in P : i # pos => i \div 2 \in P /\ to[i \div 2] = i
    <2> SUFFICES ASSUME NEW i \in P, i # pos PROVE i \div 2 \in P /\ to[i \div 2] = i
      OBVIOUS
    <2>1. PICK j \in P : to[j] = i
      BY ReachPred
    <2>2. i \div 2 = j
      BY <1>2, <1>4, <1>c, <2>1 DEF Stop
    <2> QED
      BY <2>1, <2>2
  <1>9. \A i \in P : i >= pos
    <2> DEFINE S == {i \in 1..h.cnt : i >= pos}
    <2>1. S \in SUBSET DOMAIN to
      BY <1>1
    <2>2. Holds(to, pos, S)
      <3>1. \A i \in 1..h.cnt : to[i] \in 1..h.cnt => to[i] > i
        BY <1>2, <1>c DEF Stop
      <3> QED
        BY <1>0, <1>1, <3>1 DEF Holds
    <2>3. P \subseteq S
      BY <2>1, <2>2, ReachLeast
    <2> QED
      BY <2>3
  <1> HIDE DEF P, g, key, val, nkey
  <1>10. val \in Int
    BY <1>0 DEF val, key
  <1>11. ASSUME NEW i \in 2..h.cnt PROVE nkey(i) >= nkey(i \div 2)
    <2> DEFINE p == i \div 2
    <2>0. p \in 1..h.cnt /\ i \in 1..h.cnt /\ key(i) \in Int /\ key(p) \in Int /\ p < i
      BY <1>0, <1>6, Halves
    <2>1. CASE i \in P /\ i # pos
      <3>1. p \in P /\ to[p] = i /\ i # Stop
        BY <1>8, <2>0, <2>1 DEF Stop
      <3>2. nkey(p) = key(i) /\ ~(val < key(i))
        BY <1>5, <2>0, <3>1
      <3>3. CASE to[i] = Stop
        BY <1>5, <1>10, <2>0, <2>1, <3>2, <3>3
      <3>4. CASE to[i] # Stop
        <4>1. /\ nkey(i) = key(to[i]) /\ to[i] \in 2..h.cnt /\ to[i] \div 2 = i /\ to[i] \in P
              /\ to[i] > i
          BY <1>0, <1>5, <1>c, <2>0, <2>1, <3>4
        <4>2. to[i] # pos
          BY <1>9, <2>0, <2>1, <4>1
        <4>3. key(to[i]) >= key(i)
          BY <1>6, <2>1, <4>1, <4>2
        <4> QED
          BY <3>2, <4>1, <4>3
      <3> QED
        BY <3>3, <3>4
    <2>2. CASE i = pos
      <3>1. p \notin P
        BY <1>4, <1>9, <2>0, <2>2
      <3>2. nkey(p) = key(p) /\ pos > 1 /\ val >= key(p) /\ i \in P
        BY <1>4, <1>5, <1>7, <2>0, <2>2, <3>1
      <3>3. CASE to[i] = Stop
        BY <1>5, <2>0, <3>2, <3>3
      <3>4. CASE to[i] # Stop
        <4>1. nkey(i) = key(to[i]) /\ to[i] \in 2..h.cnt /\ to[i] \div 2 = pos
          BY <1>0, <1>5, <1>c, <2>0, <2>2, <3>2, <3>4
        <4>2. key(to[i]) >= key(p)
          BY <1>6, <2>2, <3>2, <4>1
        <4> QED
          BY <3>2, <4>1, <4>2
      <3> QED
        BY <3>3, <3>4
    <2>3. CASE i \notin P /\ p \notin P
      <3>1. i # pos /\ p # pos
        BY <1>4, <2>3
      <3> QED
        BY <1>5, <1>6, <2>0, <2>3, <3>1
    <2>4. CASE i \notin P /\ p \in P
      <3>0. nkey(i) = key(i) /\ 2 * p <= h.cnt
        BY <1>0, <1>5, <2>0, <2>4, Halves
      <3>1. ~(key(i) < key(Child(h, p))) /\ Child(h, p) \in 1..h.cnt
        BY <1>c, <2>0, <3>0
      <3>2. key(Child(h, p)) \in Int
        BY <1>0, <3>1
      <3>3. CASE to[p] = Stop
        <4>1. nkey(p) = val /\ val < key(Child(h, p))
          BY <1>2, <1>5, <1>c, <2>0, <2>4, <3>0, <3>3 DEF Stop
        <4> QED
          BY <1>10, <2>0, <3>0, <3>1, <3>2, <4>1
      <3>4. CASE to[p] # Stop
        <4>1. nkey(p) = key(Child(h, p))
          BY <1>5, <2>0, <2>4, <3>4
        <4> QED
          BY <2>0, <3>0, <3>1, <3>2, <4>1
      <3> QED
        BY <3>3, <3>4
    <2> QED
      BY <2>1, <2>2, <2>3, <2>4
  <1>12. \A i \in 1..h.cnt : nkey(i) \in Int
    BY <1>3, HeapTimersAssumption DEF Moved, Filled, nkey
  <1>13. Ordered(g)
    BY <1>0, <1>3, <1>6, <1>11, <1>12 DEF Ordered, comp, nkey
  <1> QED
    BY <1>3, <1>13 DEF spheap_fix_down, g, to
-----------------------------------------------------------------------------
(* spheap_push adds a timer.                                                  *)
LEMMA Push ==
  ASSUME NEW h, Filled(h), Ordered(h), h.cnt < Cardinality(HeapTimers),
         \A i \in 1..h.cnt : h.heap_pos[h.at[i]] = i,
         NEW t \in HeapTimers \ Elems(h)
  PROVE  LET g == spheap_push(h, t)
         IN  /\ Filled(g) /\ Ordered(g) /\ g.cnt = h.cnt + 1 /\ g.size = h.size
             /\ Elems(g) = Elems(h) \cup {t}
             /\ \A i \in 1..g.cnt : g.heap_pos[g.at[i]] = i
             /\ \A u \in HeapTimers \ Elems(g) : g.heap_pos[u] = h.heap_pos[u]
  <1> DEFINE n == h.cnt + 1
             f == [h EXCEPT !.cnt = @ + 1, !.at[h.cnt + 1] = t]
             g == spheap_fix_up(f, n)
  <1>0. h.cnt \in Nat /\ n \in 0..Cardinality(HeapTimers) /\ n \in HeapIndex
        /\ 1..h.cnt \subseteq HeapIndex
    BY CellsInArray DEF Filled
  <1>1. /\ DOMAIN f = {"at", "cnt", "size", "heap_pos"} /\ f.cnt = n /\ f.size = h.size
        /\ f.heap_pos = h.heap_pos /\ f.at = [h.at EXCEPT ![n] = t]
    BY DEF Filled
  <1>2. f.at[n] = t /\ \A i \in 1..h.cnt : f.at[i] = h.at[i]
    BY <1>0, <1>1 DEF Filled
  <1>3. f.at \in [HeapIndex -> HeapTimers \cup {NoTimer}]
    BY <1>0, <1>1 DEF Filled
  <1>4. \A i \in 1..n : i = n \/ i \in 1..h.cnt
    BY <1>0
  <1>5. \A i \in 1..h.cnt : h.at[i] # t /\ h.at[i] \in HeapTimers
    BY DEF Elems, Filled
  <1> HIDE DEF f
  <1>6. Filled(f)
    <2>1. \A i \in 1..n : f.at[i] \in HeapTimers
      BY <1>2, <1>4, <1>5
    <2>2. \A i, j \in 1..n : f.at[i] = f.at[j] => i = j
      BY <1>2, <1>4, <1>5 DEF Filled
    <2> QED
      BY <1>0, <1>1, <1>3, <2>1, <2>2 DEF Filled
  <1>7. Elems(f) = Elems(h) \cup {t}
    <2>1. Elems(f) = {f.at[i] : i \in 1..n}
      BY <1>1 DEF Elems
    <2>2. n \in 1..n /\ 1..h.cnt \subseteq 1..n
      BY <1>0
    <2> QED
      BY <1>2, <1>4, <2>1, <2>2 DEF Elems
  <1>8. \A i \in 2..n : i \div 2 \in 1..h.cnt /\ i \div 2 # n /\ (i # n => i \in 2..h.cnt)
    BY <1>0, Halves
  <1>9. OrderedBut(f, n) /\ \A i \in 2..n : i \div 2 # n
    BY <1>1, <1>2, <1>8 DEF OrderedBut, Ordered
  <1>10. Moved(f, n, g) /\ Ordered(g)
    BY <1>0, <1>1, <1>6, <1>9, FixUp
  <1>11. \A i \in 1..f.cnt : i # n => f.heap_pos[f.at[i]] = i
    BY <1>1, <1>2, <1>4
  <1>12. spheap_push(h, t) = g
    BY DEF spheap_push, f
  <1> HIDE DEF g
  <1> QED
    BY <1>1, <1>7, <1>10, <1>11, <1>12 DEF Moved

(* spheap_delete removes the timer at pos; the last one takes its cell and    *)
(* goes up or down from there.                                                *)
LEMMA Delete ==
  ASSUME NEW h, Filled(h), Ordered(h), NEW pos \in 1..h.cnt,
         \A i \in 1..h.cnt : h.heap_pos[h.at[i]] = i
  PROVE  LET g == spheap_delete(h, pos)
         IN  /\ Filled(g) /\ Ordered(g) /\ g.cnt = h.cnt - 1 /\ g.size = h.size
             /\ Elems(g) = Elems(h) \ {h.at[pos]}
             /\ \A i \in 1..g.cnt : g.heap_pos[g.at[i]] = i
             /\ g.heap_pos[h.at[pos]] = 0
             /\ \A u \in HeapTimers \ Elems(h) : g.heap_pos[u] = h.heap_pos[u]
  <1> DEFINE a == h.at[pos]
             n == h.cnt - 1
             f == [h EXCEPT !.heap_pos[h.at[pos]] = 0, !.at[pos] = h.at[h.cnt], !.cnt = @ - 1]
             g == spheap_delete(h, pos)
  <1>0. /\ h.cnt \in Nat /\ n \in 0..Cardinality(HeapTimers) /\ 1..h.cnt \subseteq HeapIndex
        /\ a \in HeapTimers /\ h.cnt \in 1..h.cnt
        /\ \A i \in 1..n : i \in 1..h.cnt /\ i # h.cnt
    BY CellsInArray DEF Filled
  <1>1. /\ DOMAIN f = {"at", "cnt", "size", "heap_pos"} /\ f.cnt = n /\ f.size = h.size
        /\ f.heap_pos = [h.heap_pos EXCEPT ![a] = 0] /\ f.at = [h.at EXCEPT ![pos] = h.at[h.cnt]]
    BY DEF Filled
  <1>2. f.at[pos] = h.at[h.cnt] /\ \A i \in HeapIndex : i # pos => f.at[i] = h.at[i]
    BY <1>0, <1>1 DEF Filled
  <1>3. f.heap_pos[a] = 0 /\ \A u \in HeapTimers : u # a => f.heap_pos[u] = h.heap_pos[u]
    BY <1>0, <1>1 DEF Filled
  <1>4. /\ f.at \in [HeapIndex -> HeapTimers \cup {NoTimer}]
        /\ f.heap_pos \in [HeapTimers -> Nat]
    BY <1>0, <1>1 DEF Filled
  <1>5. g = IF n = pos - 1 THEN f
            ELSE IF pos > 1 /\ comp(f.at[pos], f.at[pos \div 2])
            THEN spheap_fix_up(f, pos) ELSE spheap_fix_down(f, pos)
    BY <1>1 DEF spheap_delete
  <1> HIDE DEF f
  <1> DEFINE src(i) == IF i = pos THEN h.cnt ELSE i
  <1>6. \A i \in 1..n : f.at[i] = h.at[src(i)] /\ src(i) \in 1..h.cnt
    BY <1>0, <1>2
  <1>7. Filled(f)
    <2>1. \A i \in 1..n : f.at[i] \in HeapTimers
      BY <1>6 DEF Filled
    <2>2. \A i, j \in 1..n : f.at[i] = f.at[j] => i = j
      <3> SUFFICES ASSUME NEW i \in 1..n, NEW j \in 1..n, f.at[i] = f.at[j] PROVE i = j
        OBVIOUS
      <3>1. src(i) = src(j)
        BY <1>6 DEF Filled
      <3> QED
        BY <1>0, <3>1
    <2> QED
      BY <1>0, <1>1, <1>4, <2>1, <2>2 DEF Filled
  <1>8. Elems(f) = Elems(h) \ {a}
    <2>1. Elems(f) = {f.at[i] : i \in 1..n} /\ Elems(h) = {h.at[i] : i \in 1..h.cnt}
      BY <1>1 DEF Elems
    <2>2. \A i \in 1..n : src(i) # pos
      BY <1>0
    <2>3. \A i \in 1..n : f.at[i] \in Elems(h) /\ f.at[i] # a
      BY <1>6, <2>1, <2>2 DEF Filled
    <2>4. ASSUME NEW k \in 1..h.cnt, k # pos PROVE \E i \in 1..n : f.at[i] = h.at[k]
      <3>1. CASE k = h.cnt
        <4>1. pos \in 1..n /\ src(pos) = k
          BY <1>0, <2>4, <3>1
        <4> QED
          BY <1>6, <4>1
      <3>2. CASE k # h.cnt
        <4>1. k \in 1..n /\ src(k) = k
          BY <1>0, <2>4, <3>2
        <4> QED
          BY <1>6, <4>1
      <3> QED
        BY <3>1, <3>2
    <2>5. \A x \in Elems(h) \ {a} : x \in Elems(f)
      <3> SUFFICES ASSUME NEW x \in Elems(h) \ {a} PROVE x \in Elems(f)
        OBVIOUS
      <3>1. PICK k \in 1..h.cnt : x = h.at[k]
        BY <2>1
      <3>2. PICK i \in 1..n : f.at[i] = h.at[k]
        BY <2>4, <3>1
      <3> QED
        BY <2>1, <3>1, <3>2
    <2>6. \A x \in Elems(f) : x \in Elems(h) \ {a}
      BY <2>1, <2>3
    <2> QED
      BY <2>5, <2>6
  <1>9. \A i \in (1..n) \ {pos} : f.heap_pos[f.at[i]] = i
    <2>1. \A i \in (1..n) \ {pos} : f.at[i] = h.at[i] /\ i \in 1..h.cnt /\ h.at[i] # a
      BY <1>0, <1>2 DEF Filled
    <2> QED
      BY <1>3, <2>1 DEF Filled
  <1>10. a \notin Elems(f) /\ \A u \in HeapTimers \ Elems(h) : u # a /\ u \notin Elems(f)
    BY <1>8 DEF Elems
  <1>11. CASE n = pos - 1
    <2>1. n + 1 = pos /\ \A i \in 1..n : i # pos
      BY <1>0, <1>11
    <2>2. Ordered(f)
      <3>1. \A i \in 2..n : i \in 2..h.cnt /\ i \div 2 \in 1..n /\ i \in 1..n
        BY <1>0, Halves
      <3>2. \A i \in 1..n : f.at[i] = h.at[i]
        BY <1>0, <1>2, <2>1
      <3> QED
        BY <1>1, <3>1, <3>2 DEF Ordered
    <2>3. g = f
      BY <1>5, <1>11
    <2> HIDE DEF g
    <2> QED
      BY <1>1, <1>3, <1>7, <1>8, <1>9, <1>10, <2>1, <2>2, <2>3 DEF g
  <1>12. CASE n # pos - 1
    <2>0. pos \in 1..n
      BY <1>0, <1>12
    <2>1. \A i \in 2..n : /\ i \in 2..h.cnt /\ i \div 2 \in 1..n /\ i \in 1..n
                          /\ i \div 2 \in 1..h.cnt /\ i \div 2 # i
      BY <1>0, Halves
    <2>2. \A i \in 1..n : i # pos => f.at[i] = h.at[i]
      BY <1>0, <1>2
    <2>3. \A i \in 1..h.cnt : Stamp[h.at[i]] \in Int
      BY HeapTimersAssumption DEF Filled
    <2>4. pos > 1 => pos \in 2..n /\ pos \div 2 # pos
      BY <1>0, <2>0, <2>1
    <2>5. OrderedBut(f, pos)
      <3>1. \A i \in 2..n : i # pos /\ i \div 2 # pos => ~comp(f.at[i], f.at[i \div 2])
        BY <2>1, <2>2 DEF Ordered
      <3>2. ASSUME pos > 1, NEW i \in 2..n, i \div 2 = pos
            PROVE  ~comp(f.at[i], f.at[pos \div 2])
        <4>1. ~comp(h.at[i], h.at[pos]) /\ ~comp(h.at[pos], h.at[pos \div 2])
          BY <2>1, <2>4, <3>2 DEF Ordered
        <4>2. f.at[i] = h.at[i] /\ f.at[pos \div 2] = h.at[pos \div 2]
          BY <2>1, <2>2, <2>4, <3>2
        <4>3. Stamp[h.at[i]] \in Int /\ Stamp[h.at[pos]] \in Int /\ Stamp[h.at[pos \div 2]] \in Int
          BY <2>1, <2>3, <2>4, <3>2
        <4> QED
          BY <4>1, <4>2, <4>3 DEF comp
      <3> QED
        BY <1>1, <3>1, <3>2 DEF OrderedBut
    <2>6. Moved(f, pos, g) /\ Ordered(g)
      <3>1. CASE pos > 1 /\ comp(f.at[pos], f.at[pos \div 2])
        <4>1. \A i \in 2..n : i \div 2 = pos => ~comp(f.at[i], f.at[pos])
          <5> SUFFICES ASSUME NEW i \in 2..n, i \div 2 = pos PROVE ~comp(f.at[i], f.at[pos])
            OBVIOUS
          <5>1. ~comp(f.at[i], f.at[pos \div 2])
            BY <1>1, <2>5, <3>1 DEF OrderedBut
          <5>2. /\ Stamp[f.at[i]] \in Int /\ Stamp[f.at[pos]] \in Int
                /\ Stamp[f.at[pos \div 2]] \in Int
            BY <1>1, <1>7, <2>0, <2>1, <2>4, <3>1, HeapTimersAssumption DEF Filled
          <5> QED
            BY <3>1, <5>1, <5>2 DEF comp
        <4>2. g = spheap_fix_up(f, pos)
          BY <1>5, <1>12, <3>1
        <4> HIDE DEF g
        <4> QED
          BY <1>1, <1>7, <2>0, <2>5, <4>1, <4>2, FixUp
      <3>2. CASE ~(pos > 1 /\ comp(f.at[pos], f.at[pos \div 2]))
        <4>1. g = spheap_fix_down(f, pos)
          BY <1>5, <1>12, <3>2
        <4> HIDE DEF g
        <4> QED
          BY <1>1, <1>7, <2>0, <2>5, <3>2, <4>1, FixDown
      <3> QED
        BY <3>1, <3>2
    <2> HIDE DEF g
    <2>7. /\ Filled(g) /\ Ordered(g) /\ Elems(g) = Elems(f) /\ g.cnt = n /\ g.size = h.size
          /\ \A i \in 1..g.cnt : g.heap_pos[g.at[i]] = i
      BY <1>1, <1>9, <2>6 DEF Moved
    <2>8. g.heap_pos[a] = 0
      BY <1>0, <1>3, <1>10, <2>6 DEF Moved
    <2>9. \A u \in HeapTimers \ Elems(h) : g.heap_pos[u] = h.heap_pos[u]
      BY <1>3, <1>10, <2>6 DEF Moved
    <2> QED
      BY <1>8, <2>7, <2>8, <2>9 DEF g
  <1> QED
    BY <1>11, <1>12
-----------------------------------------------------------------------------
(* Forgetting the pointers behind the heap changes nothing.                   *)
LEMMA Settled ==
  ASSUME NEW h, Filled(h), Ordered(h)
  PROVE  LET g == Settle(h)
         IN  /\ Filled(g) /\ Ordered(g) /\ Elems(g) = Elems(h)
             /\ g.cnt = h.cnt /\ g.size = h.size /\ g.heap_pos = h.heap_pos
             /\ \A i \in 1..h.cnt : g.at[i] = h.at[i]
  <1> DEFINE new == [i \in HeapIndex |-> IF i <= h.cnt THEN h.at[i] ELSE NoTimer]
             g == Settle(h)
  <1>0. h.cnt \in Nat /\ 1..h.cnt \subseteq HeapIndex
    BY CellsInArray DEF Filled
  <1>1. /\ DOMAIN g = {"at", "cnt", "size", "heap_pos"} /\ g.cnt = h.cnt /\ g.size = h.size
        /\ g.heap_pos = h.heap_pos /\ g.at = new
    BY DEF Settle, Filled
  <1>2. \A i \in 1..h.cnt : new[i] = h.at[i]
    BY <1>0
  <1>3. new \in [HeapIndex -> HeapTimers \cup {NoTimer}]
    BY DEF Filled
  <1> HIDE DEF new, g
  <1>4. Filled(g)
    BY <1>1, <1>2, <1>3 DEF Filled
  <1>5. Elems(g) = Elems(h)
    BY <1>1, <1>2 DEF Elems
  <1>6. Ordered(g)
    <2>1. \A i \in 2..h.cnt : i \in 1..h.cnt /\ i \div 2 \in 1..h.cnt
      BY <1>0, Halves
    <2> QED
      BY <1>1, <1>2, <2>1 DEF Ordered
  <1> QED
    BY <1>1, <1>2, <1>4, <1>5, <1>6 DEF g

(* check_and_expand_array makes room for the root's index and one more timer. *)
LEMMA ExpandFits ==
  ASSUME NEW size \in Nat \ {0}, NEW cnt \in Nat, cnt > 0 => cnt < size
  PROVE  Expand(size, cnt + 2) \in Nat \ {0} /\ cnt + 1 < Expand(size, cnt + 2)
  BY DEF Expand

(* The empty heap.                                                            *)
LEMMA ThInitInv == ThInit => ThInv
  <1> SUFFICES ASSUME ThInit PROVE ThInv
    OBVIOUS
  <1>1. th = th_init /\ inheap = {} /\ Cardinality({}) = 0
    BY FS_EmptySet DEF ThInit
  <1>2. Filled(th)
    BY <1>1, CellsInArray DEF th_init, Filled
  <1>3. th.cnt = 0 /\ th.size = InitEvtSize /\ \A t \in HeapTimers : th.heap_pos[t] = 0
    BY <1>1 DEF th_init
  <1> QED
    BY <1>1, <1>2, <1>3, HeapTimersAssumption DEF ThInv, Ordered, Elems

(* The set of started timers is a finite set of timers.                       *)
LEMMA InHeapFinite ==
  ASSUME ThInv
  PROVE  inheap \subseteq HeapTimers /\ IsFiniteSet(inheap) /\ Cardinality(inheap) \in Nat
  <1>1. inheap \subseteq HeapTimers
    BY DEF ThInv, Filled, Elems
  <1>2. IsFiniteSet(inheap)
    BY <1>1, FS_Subset, HeapTimersAssumption
  <1> QED
    BY <1>1, <1>2, FS_CardinalityType

(* evt_timer_start.                                                           *)
LEMMA StartKeeps ==
  ASSUME ThInv, NEW t \in HeapTimers, TimerStart(t)
  PROVE  ThInv'
  <1> DEFINE h == [th EXCEPT !.size = Expand(@, th.cnt + 2)]
             g == spheap_push(h, t)
  <1>0. th.cnt \in Nat /\ inheap \subseteq HeapTimers /\ IsFiniteSet(inheap)
    BY InHeapFinite, CellsInArray DEF ThInv, Filled
  <1>1. t \notin inheap
    <2> SUFFICES ASSUME t \in inheap PROVE FALSE
      OBVIOUS
    <2>1. PICK i \in 1..th.cnt : th.at[i] = t
      BY DEF ThInv, Elems
    <2> QED
      BY <1>0, <2>1 DEF ThInv, TimerStart
  <1>2. /\ Cardinality(inheap \cup {t}) = th.cnt + 1
        /\ th.cnt + 1 <= Cardinality(HeapTimers)
    <2>1. Cardinality(inheap \cup {t}) = Cardinality(inheap) + 1
      BY <1>0, <1>1, FS_AddElement
    <2>2. Cardinality(inheap \cup {t}) <= Cardinality(HeapTimers)
      <3>1. inheap \cup {t} \subseteq HeapTimers
        BY <1>0
      <3> QED
        BY <3>1, FS_Subset, HeapTimersAssumption
    <2> QED
      BY <2>1, <2>2 DEF ThInv
  <1>3. /\ DOMAIN h = DOMAIN th /\ h.at = th.at /\ h.cnt = th.cnt /\ h.heap_pos = th.heap_pos
        /\ h.size = Expand(th.size, th.cnt + 2)
    BY DEF ThInv, Filled
  <1>4. th' = g /\ inheap' = inheap \cup {t}
    BY DEF TimerStart
  <1>5. h.size \in Nat \ {0} /\ th.cnt + 1 < h.size
    BY <1>0, <1>3, ExpandFits DEF ThInv
  <1> HIDE DEF h
  <1>6. Filled(h) /\ Ordered(h) /\ Elems(h) = inheap /\ h.cnt < Cardinality(HeapTimers)
    BY <1>0, <1>2, <1>3, CellsInArray DEF ThInv, Filled, Ordered, Elems
  <1>7. \A i \in 1..h.cnt : h.heap_pos[h.at[i]] = i
    BY <1>3 DEF ThInv
  <1>8. /\ Filled(g) /\ Ordered(g) /\ g.cnt = h.cnt + 1 /\ g.size = h.size
        /\ Elems(g) = Elems(h) \cup {t}
        /\ \A i \in 1..g.cnt : g.heap_pos[g.at[i]] = i
        /\ \A u \in HeapTimers \ Elems(g) : g.heap_pos[u] = h.heap_pos[u]
    BY <1>1, <1>6, <1>7, Push
  <1> HIDE DEF g
  <1>9. \A u \in HeapTimers \ inheap' : g.heap_pos[u] = 0
    BY <1>3, <1>4, <1>6, <1>8 DEF ThInv
  <1>10. Filled(th') /\ Ordered(th') /\ Elems(th') = inheap' /\ th'.cnt = Cardinality(inheap')
    BY <1>2, <1>3, <1>4, <1>6, <1>8
  <1>11. th'.size \in Nat \ {0} /\ (th'.cnt > 0 => th'.cnt < th'.size)
    BY <1>3, <1>4, <1>5, <1>8
  <1>12. ThInv'  = ( /\ Filled(th') /\ Ordered(th')
                     /\ Elems(th') = inheap' /\ th'.cnt = Cardinality(inheap')
                     /\ \A i \in 1..th'.cnt : th'.heap_pos[th'.at[i]] = i
                     /\ \A u \in HeapTimers \ inheap' : th'.heap_pos[u] = 0
                     /\ th'.size \in Nat \ {0} /\ (th'.cnt > 0 => th'.cnt < th'.size))
    BY DEF ThInv, Filled, Ordered, Elems
  <1> QED
    BY <1>4, <1>8, <1>9, <1>10, <1>11, <1>12

(* Taking the timer at pos out of the heap: evt_timer_stop and the expiry.    *)
LEMMA RemoveKeeps ==
  ASSUME ThInv, NEW pos \in 1..th.cnt, th' = Settle(spheap_delete(th, pos)),
         inheap' = inheap \ {th.at[pos]}
  PROVE  ThInv'
  <1> DEFINE g == spheap_delete(th, pos)
             k == Settle(g)
             a == th.at[pos]
  <1>0. th.cnt \in Nat /\ inheap \subseteq HeapTimers /\ IsFiniteSet(inheap)
    BY InHeapFinite, CellsInArray DEF ThInv, Filled
  <1>1. a \in inheap /\ a \in HeapTimers
    BY <1>0 DEF ThInv, Elems
  <1>2. Cardinality(inheap \ {a}) = th.cnt - 1
    <2> HIDE DEF a
    <2>1. Cardinality(inheap \ {a}) = Cardinality(inheap) - 1
      BY <1>0, <1>1, FS_RemoveElement
    <2> QED
      BY <2>1 DEF ThInv
  <1>3. /\ Filled(g) /\ Ordered(g) /\ g.cnt = th.cnt - 1 /\ g.size = th.size
        /\ Elems(g) = Elems(th) \ {a}
        /\ \A i \in 1..g.cnt : g.heap_pos[g.at[i]] = i
        /\ g.heap_pos[a] = 0
        /\ \A u \in HeapTimers \ Elems(th) : g.heap_pos[u] = th.heap_pos[u]
    BY Delete DEF ThInv
  <1> HIDE DEF g
  <1>4. /\ Filled(k) /\ Ordered(k) /\ Elems(k) = Elems(g)
        /\ k.cnt = g.cnt /\ k.size = g.size /\ k.heap_pos = g.heap_pos
        /\ \A i \in 1..g.cnt : k.at[i] = g.at[i]
    BY <1>3, Settled
  <1>5. th' = k
    BY DEF g
  <1> HIDE DEF k, a
  <1>6. \A u \in HeapTimers \ inheap' : k.heap_pos[u] = 0
    BY <1>3, <1>4 DEF ThInv, a
  <1>7. Filled(th') /\ Ordered(th') /\ Elems(th') = inheap' /\ th'.cnt = Cardinality(inheap')
    BY <1>2, <1>3, <1>4, <1>5 DEF ThInv, a
  <1>8. th'.size \in Nat \ {0} /\ (th'.cnt > 0 => th'.cnt < th'.size)
    BY <1>0, <1>3, <1>4, <1>5 DEF ThInv
  <1>9. \A i \in 1..th'.cnt : th'.heap_pos[th'.at[i]] = i
    BY <1>3, <1>4, <1>5
  <1>10. ThInv' = ( /\ Filled(th') /\ Ordered(th')
                    /\ Elems(th') = inheap' /\ th'.cnt = Cardinality(inheap')
                    /\ \A i \in 1..th'.cnt : th'.heap_pos[th'.at[i]] = i
                    /\ \A u \in HeapTimers \ inheap' : th'.heap_pos[u] = 0
                    /\ th'.size \in Nat \ {0} /\ (th'.cnt > 0 => th'.cnt < th'.size))
    BY DEF ThInv, Filled, Ordered, Elems
  <1> QED
    BY <1>5, <1>6, <1>7, <1>8, <1>9, <1>10

(* ThInv is an invariant of the heap.                                         *)
LEMMA ThInvariant == ThSpec => []ThInv
  <1>1. ThInit => ThInv
    BY ThInitInv
  <1>2. ThInv /\ [ThNext]_thvars => ThInv'
    <2> SUFFICES ASSUME ThInv, [ThNext]_thvars PROVE ThInv'
      OBVIOUS
    <2>1. ASSUME NEW t \in HeapTimers, TimerStart(t) PROVE ThInv'
      BY <2>1, StartKeeps
    <2>2. ASSUME NEW t \in HeapTimers, TimerStop(t) PROVE ThInv'
      <3>1. t \in inheap
        BY <2>2 DEF TimerStop, ThInv, Filled
      <3>2. PICK i \in 1..th.cnt : th.at[i] = t
        BY <3>1 DEF ThInv, Elems
      <3>3. th.heap_pos[t] = i
        BY <3>2 DEF ThInv
      <3> QED
        BY <2>2, <3>2, <3>3, RemoveKeeps DEF TimerStop
    <2>3. CASE TimerExpire
      <3>1. 1 \in 1..th.cnt
        BY <2>3, CellsInArray DEF TimerExpire, ThInv, Filled
      <3> QED
        BY <2>3, <3>1, RemoveKeeps DEF TimerExpire, spheap_pop
    <2>4. CASE UNCHANGED thvars
      BY <2>4 DEF thvars, ThInv, Filled, Ordered, Elems
    <2> QED
      BY <2>1, <2>2, <2>3, <2>4 DEF ThNext
  <1> QED
    BY <1>1, <1>2, PTL DEF ThSpec

(* The heap's array is the set of the timers that were started and neither    *)
(* stopped nor expired, in heap order, with heap_pos true of every one of     *)
(* them, within the array (evt_timer_start, evt_timer_stop and the expiry).   *)
THEOREM HeapKept == ThSpec => []HeapConsistent
  <1>1. ThInv => HeapConsistent
    <2> SUFFICES ASSUME ThInv PROVE HeapConsistent
      OBVIOUS
    <2>1. ASSUME NEW t \in inheap PROVE th.at[th.heap_pos[t]] = t
      <3>1. PICK i \in 1..th.cnt : th.at[i] = t
        BY DEF ThInv, Elems
      <3> QED
        BY <3>1 DEF ThInv
    <2>2. \A t \in HeapTimers \ inheap : th.heap_pos[t] = 0
      BY DEF ThInv
    <2> QED
      BY <2>1, <2>2 DEF ThInv, HeapConsistent, Elems, Ordered
  <1> QED
    BY <1>1, ThInvariant, PTL

(* The timer that the loop takes for the next to expire is an earliest one:   *)
(* no started timer comes before the top of the heap, by which the loop       *)
(* computes how long to wait in epoll and which timers to expire (evt.c).     *)
THEOREM TopIsEarliest == ThSpec => [](th.cnt > 0 => \A t \in inheap : ~comp(t, th.at[1]))
  <1>1. ThInv => (th.cnt > 0 => \A t \in inheap : ~comp(t, th.at[1]))
    <2> SUFFICES ASSUME ThInv, th.cnt > 0, NEW t \in inheap PROVE ~comp(t, th.at[1])
      OBVIOUS
    <2> DEFINE Bad == {i \in 1..th.cnt : comp(th.at[i], th.at[1])}
    <2>0. th.cnt \in Nat /\ \A i \in 1..th.cnt : Stamp[th.at[i]] \in Int
      BY CellsInArray, HeapTimersAssumption DEF ThInv, Filled
    <2>1. Bad = {}
      <3> SUFFICES ASSUME Bad # {} PROVE FALSE
        OBVIOUS
      <3>1. Bad \subseteq Nat
        BY <2>0
      <3> HIDE DEF Bad
      <3>2. PICK i \in Bad : \A j \in Bad : ~(<<j, i>> \in OpToRel(<, Nat))
        BY <3>1, WFMin, NatLessThanWellFounded, Zenon
      <3>3. \A j \in Bad : ~(j < i)
        BY <3>1, <3>2 DEF OpToRel
      <3>4. i \in 1..th.cnt /\ i # 1 /\ 1 \in 1..th.cnt /\ Stamp[th.at[i]] < Stamp[th.at[1]]
        BY <2>0 DEF Bad, comp
      <3>5. i \div 2 \in 1..th.cnt /\ i \div 2 < i /\ i \in 2..th.cnt
        BY <2>0, <3>4, Halves
      <3>6. ~(Stamp[th.at[i]] < Stamp[th.at[i \div 2]])
        BY <3>5 DEF ThInv, Ordered, comp
      <3>7. /\ Stamp[th.at[i]] \in Int /\ Stamp[th.at[i \div 2]] \in Int
            /\ Stamp[th.at[1]] \in Int
        BY <2>0, <3>4, <3>5
      <3>8. Stamp[th.at[i \div 2]] < Stamp[th.at[1]]
        BY <3>4, <3>6, <3>7
      <3> QED
        BY <3>3, <3>5, <3>8 DEF Bad, comp
    <2>2. PICK k \in 1..th.cnt : th.at[k] = t
      BY DEF ThInv, Elems
    <2> QED
      BY <2>1, <2>2
  <1> QED
    BY <1>1, ThInvariant, PTL
=============================================================================
