----------------------------- MODULE TimerHeap ------------------------------
(* The heap of a loop's timers: the spheap macros of container.h as           *)
(* evt_timer_start, evt_timer_stop and the expiry of timers use them (evt.c). *)
(* Elements are timers from index 1 on; each keeps its index in heap_pos, by  *)
(* which it is deleted, and 0 when it is not in the heap.                     *)
EXTENDS Integers, FiniteSets, Splst
CONSTANTS HeapTimers, Stamp,
          InitEvtSize   \* _LOOP_INIT_EVTSIZE

ASSUME HeapTimersAssumption ==
    IsFiniteSet(HeapTimers) /\ Stamp \in [HeapTimers -> Int] /\ InitEvtSize \in Nat \ {0}

VARIABLES th,    \* at: the array timer_heap, cnt, size (its capacity), heap_pos
          inheap \* the set of timers that takes the same calls

thvars == <<th, inheap>>

NoTimer == 0
HeapIndex == 1..2 * Cardinality(HeapTimers) + 2
comp(a, b) == Stamp[a] < Stamp[b]

th_init == [at |-> [i \in HeapIndex |-> NoTimer], cnt |-> 0, size |-> InitEvtSize,
            heap_pos |-> [t \in HeapTimers |-> 0]]

\* A loop of spheap_fix_up or spheap_fix_down: from pos on it goes from cell i
\* to cell to[i], copies the timer there to i and sets its heap_pos; the timer
\* that was at pos ends up in the last cell. The loops read a cell before they
\* write it.
Shift(h, pos, to) ==
    LET path == Reach(to, pos)
        at   == [i \in HeapIndex |->
                    h.at[IF i \notin path THEN i ELSE IF to[i] \in path THEN to[i] ELSE pos]]
    IN  [h EXCEPT !.at = at,
                  !.heap_pos = [t \in HeapTimers |->
                      IF \E i \in path : at[i] = t THEN CHOOSE i \in path : at[i] = t ELSE @[t]]]

Stop == 0

\* To the parent while it is later than val.
Up(h, val) ==
    [i \in 1..h.cnt |-> IF i > 1 /\ comp(val, h.at[i \div 2]) THEN i \div 2 ELSE Stop]
spheap_fix_up(h, pos) == Shift(h, pos, Up(h, h.at[pos]))

\* The child to compare with: the right one if it is earlier.
Child(h, i) == IF 2 * i + 1 <= h.cnt /\ comp(h.at[2 * i + 1], h.at[2 * i]) THEN 2 * i + 1 ELSE 2 * i

\* To the child unless it is later than val.
Down(h, val) ==
    [i \in 1..h.cnt |->
        IF 2 * i > h.cnt \/ comp(val, h.at[Child(h, i)]) THEN Stop ELSE Child(h, i)]
spheap_fix_down(h, pos) == Shift(h, pos, Down(h, h.at[pos]))

\* check_and_expand_array with expand_multi_two. Its loop makes one round at
\* most, as it is called for every timer: HeapConsistent would tell otherwise.
Expand(size, need) == IF size >= need THEN size ELSE IF size = 0 THEN 1 ELSE 2 * size

spheap_push(h, t) ==
    spheap_fix_up([h EXCEPT !.cnt = @ + 1, !.at[h.cnt + 1] = t], h.cnt + 1)

\* The last element never moves up from the hole.
OnlyDown(h, pos) ==
    LET h1 == [h EXCEPT !.heap_pos[h.at[pos]] = 0, !.at[pos] = h.at[h.cnt], !.cnt = @ - 1]
    IN  IF h1.cnt = pos - 1 THEN h1 ELSE spheap_fix_down(h1, pos)

spheap_delete(h, pos) ==
    LET h1 == [h EXCEPT !.heap_pos[h.at[pos]] = 0, !.at[pos] = h.at[h.cnt], !.cnt = @ - 1]
    IN  IF h1.cnt = pos - 1 THEN h1
        ELSE IF pos > 1 /\ comp(h1.at[pos], h1.at[pos \div 2])
        THEN spheap_fix_up(h1, pos) ELSE spheap_fix_down(h1, pos)

spheap_pop(h) == spheap_delete(h, 1)

\* The cells behind the heap keep old pointers, which are not used.
Settle(h) == [h EXCEPT !.at = [i \in HeapIndex |-> IF i <= h.cnt THEN h.at[i] ELSE NoTimer]]
-----------------------------------------------------------------------------
\* The array is expanded for the root's index 1 and the new element.
TimerStart(t) ==
    /\ th.heap_pos[t] = 0
    /\ th' = spheap_push([th EXCEPT !.size = Expand(@, th.cnt + 2)], t)
    /\ inheap' = inheap \cup {t}

TimerStop(t) ==
    /\ th.heap_pos[t] > 0
    /\ th' = Settle(spheap_delete(th, th.heap_pos[t]))
    /\ inheap' = inheap \ {t}

\* The top is queued as pending and popped.
TimerExpire ==
    /\ th.cnt > 0
    /\ inheap' = inheap \ {th.at[1]}
    /\ th' = Settle(spheap_pop(th))

ThInit == th = th_init /\ inheap = {}

ThNext == TimerExpire \/ \E t \in HeapTimers : TimerStart(t) \/ TimerStop(t)

ThSpec == ThInit /\ [][ThNext]_thvars
-----------------------------------------------------------------------------
(* The array is the set of timers that EvtLoop takes it for: it holds the     *)
(* timers that were started and neither stopped nor expired, heap_pos of each *)
(* is its index (or evt_timer_stop would delete another timer), no timer is   *)
(* before its parent, so that the top is an earliest one, and the highest     *)
(* index is inside the array.                                                 *)
HeapConsistent ==
    /\ {th.at[i] : i \in 1..th.cnt} = inheap /\ th.cnt = Cardinality(inheap)
    /\ \A t \in HeapTimers :
          IF t \in inheap THEN th.at[th.heap_pos[t]] = t ELSE th.heap_pos[t] = 0
    /\ \A i \in 2..th.cnt : ~comp(th.at[i], th.at[i \div 2])
    /\ th.cnt > 0 => th.cnt < th.size
=============================================================================
