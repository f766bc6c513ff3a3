--------------------------- MODULE EvtLoopProofs ----------------------------
(* The invariants of the event loop, for any sets of watchers and             *)
(* descriptors, any delays and periods and any length of the clock.           *)
(*                                                                            *)
(* None of the properties is inductive by itself: that a slot names a watcher *)
(* that is active rests on the lists and the heap holding active watchers     *)
(* only, that on no list being walked while client code runs, and what epoll  *)
(* knows rests on the change queue.  LoopInv is their conjunction with these  *)
(* parts; one lemma for each group of conjuncts shows that every step of Next *)
(* keeps it.                                                                  *)
EXTENDS EvtLoop, TLAPS

\* A watcher in the pending queue is active.
PendingActive == \A w \in Watchers : pendpos[w] # 0 => active[w]

\* The list that is being walked holds active watchers, none of them a timer;
\* between two walks it is empty: no client code runs while one is under way.
WalkActive ==
    /\ \A w \in Elems(todo) : active[w] /\ w \notin Timers
    /\ todo # << >> => pc \in {"before", "dispatch", "after"}

\* A timer in the heap is active, and its deadline is not before the one it
\* was started with.
HeapActive == \A t \in heap : active[t]
NotBeforeStart == \A t \in heap : started[t] <= timestamp[t]

\* A descriptor's list holds watchers of this descriptor.
QueueOfFd == \A f \in Fds : \A w \in Elems(evq[f]) : FdOf[w] = f

\* The loop goes to sleep with an empty change queue.
PollSettled == pc = "poll" => fds_change = << >>

\* epoll has at least the mask evt.c believes it gave it.
RegisteredUnlessReused == \A f \in open \ reused : event[f] \subseteq reg[f]

-----------------------------------------------------------------------------
(* The list macros *)

(* A list holds the elements of the set it is a list of. *)
LEMMA ElemsType ==
  ASSUME NEW S, NEW l \in Seq(S)
  PROVE  Elems(l) \subseteq S
  BY DEF Elems

(* The empty list holds nothing. *)
LEMMA ElemsEmpty == << >> \in Seq({}) /\ Elems(<< >>) = {} /\ NoDuplicates(<< >>)
  BY DEF Elems, NoDuplicates

(* What Append does to the elements of a list. *)
LEMMA ElemsAppend ==
  ASSUME NEW S, NEW l \in Seq(S), NEW e \in S
  PROVE  /\ Append(l, e) \in Seq(S)
         /\ Elems(Append(l, e)) = Elems(l) \cup {e}
         /\ NoDuplicates(l) /\ e \notin Elems(l) => NoDuplicates(Append(l, e))
  <1>1. Append(l, e) \in Seq(S) /\ Len(Append(l, e)) = Len(l) + 1
    OBVIOUS
  <1>2. \A i \in 1 .. Len(l) + 1 : Append(l, e)[i] = IF i <= Len(l) THEN l[i] ELSE e
    OBVIOUS
  <1>3. Elems(Append(l, e)) = Elems(l) \cup {e}
    BY <1>1, <1>2 DEF Elems
  <1>4. NoDuplicates(l) /\ e \notin Elems(l) => NoDuplicates(Append(l, e))
    BY <1>1, <1>2 DEF Elems, NoDuplicates
  <1> QED
    BY <1>1, <1>3, <1>4

(* splst_add puts the element in front. *)
LEMMA ElemsAdd ==
  ASSUME NEW S, NEW l \in Seq(S), NEW e \in S
  PROVE  /\ splst_add(l, e) \in Seq(S)
         /\ Elems(splst_add(l, e)) = Elems(l) \cup {e}
         /\ NoDuplicates(l) /\ e \notin Elems(l) => NoDuplicates(splst_add(l, e))
  <1> DEFINE m == splst_add(l, e)
  <1>1. m \in Seq(S) /\ Len(m) = Len(l) + 1
    BY DEF splst_add
  <1>2. m[1] = e /\ \A i \in 1 .. Len(l) : m[i + 1] = l[i]
    BY DEF splst_add
  <1> HIDE DEF m
  <1>3. Elems(m) \subseteq Elems(l) \cup {e}
    <2>1. ASSUME NEW i \in 1 .. Len(l) + 1 PROVE m[i] \in Elems(l) \cup {e}
      <3>1. CASE i = 1
        BY <3>1, <1>2
      <3>2. CASE i # 1
        <4>1. i - 1 \in 1 .. Len(l) /\ i = (i - 1) + 1
          BY <3>2
        <4> QED
          BY <4>1, <1>2 DEF Elems
      <3> QED
        BY <3>1, <3>2
    <2> QED
      BY <2>1, <1>1 DEF Elems
  <1>4. Elems(l) \cup {e} \subseteq Elems(m)
    <2>1. e \in Elems(m)
      BY <1>1, <1>2 DEF Elems
    <2>2. ASSUME NEW i \in 1 .. Len(l) PROVE l[i] \in Elems(m)
      BY <1>1, <1>2 DEF Elems
    <2> QED
      BY <2>1, <2>2 DEF Elems
  <1>5. ASSUME NoDuplicates(l), e \notin Elems(l),
               NEW h \in 1 .. Len(l) + 1, NEW i \in 1 .. Len(l) + 1, m[h] = m[i]
        PROVE  h = i
    <2>1. \A k \in 2 .. Len(l) + 1 : m[k] = l[k - 1] /\ k - 1 \in 1 .. Len(l)
      <3> TAKE k \in 2 .. Len(l) + 1
      <3>1. k - 1 \in 1 .. Len(l) /\ k = (k - 1) + 1
        OBVIOUS
      <3> QED
        BY <3>1, <1>2
    <2>2. \A k \in 2 .. Len(l) + 1 : m[k] # e
      BY <2>1, <1>5 DEF Elems
    <2>3. CASE h = 1 \/ i = 1
      BY <2>2, <2>3, <1>2, <1>5
    <2>4. CASE h # 1 /\ i # 1
      <3>1. h \in 2 .. Len(l) + 1 /\ i \in 2 .. Len(l) + 1
        BY <2>4
      <3>2. l[h - 1] = l[i - 1] /\ h - 1 \in 1 .. Len(l) /\ i - 1 \in 1 .. Len(l)
        BY <3>1, <2>1, <1>5
      <3>3. h - 1 = i - 1
        BY <3>2, <1>5 DEF NoDuplicates
      <3> QED
        BY <3>3
    <2> QED
      BY <2>3, <2>4
  <1> QED
    BY <1>1, <1>3, <1>4, <1>5 DEF m, NoDuplicates

(* splst_del takes the only occurrence out and leaves the others. *)
LEMMA ElemsDel ==
  ASSUME NEW S, NEW l \in Seq(S), NEW e, NoDuplicates(l)
  PROVE  /\ splst_del(l, e) \in Seq(S)
         /\ Elems(splst_del(l, e)) = Elems(l) \ {e}
         /\ NoDuplicates(splst_del(l, e))
  <1>1. CASE e \notin Elems(l)
    BY <1>1 DEF splst_del
  <1>2. CASE e \in Elems(l)
    <2> DEFINE First(i) == l[i] = e /\ \A h \in 1 .. (i - 1) : l[h] # e
               k == CHOOSE i \in 1 .. Len(l) : First(i)
               m == [i \in 1 .. (Len(l) - 1) |-> IF i < k THEN l[i] ELSE l[i + 1]]
    <2>1. splst_del(l, e) = m
      BY <1>2 DEF splst_del
    <2>2. PICK i \in 1 .. Len(l) : l[i] = e
      BY <1>2 DEF Elems
    <2>3. \A h \in 1 .. (i - 1) : l[h] # e
      BY <2>2 DEF NoDuplicates
    <2>4. k \in 1 .. Len(l) /\ l[k] = e
      <3>1. First(i)
        BY <2>2, <2>3
      <3> HIDE DEF First
      <3>2. k \in 1 .. Len(l) /\ First(k)
        BY <3>1
      <3> QED
        BY <3>2 DEF First
    <2> HIDE DEF k
    <2>5. Len(l) - 1 \in Nat
      BY <2>2
    <2>6. /\ m \in Seq(S) /\ Len(m) = Len(l) - 1
          /\ \A h \in 1 .. Len(l) - 1 : m[h] = IF h < k THEN l[h] ELSE l[h + 1]
      <3>1. \A h \in 1 .. Len(l) - 1 : (IF h < k THEN l[h] ELSE l[h + 1]) \in S
        BY <2>4, <2>5
      <3>2. m \in [1 .. Len(l) - 1 -> S]
        BY <3>1
      <3> QED
        BY <3>2, <2>5
    <2> HIDE DEF m
    <2>7. Elems(m) \subseteq Elems(l) \ {e}
      <3> SUFFICES ASSUME NEW h \in 1 .. Len(l) - 1 PROVE m[h] \in Elems(l) \ {e}
        BY <2>6 DEF Elems
      <3>1. CASE h < k
        <4>1. h \in 1 .. Len(l) /\ h # k
          BY <3>1, <2>4
        <4> QED
          BY <4>1, <3>1, <2>4, <2>6 DEF Elems, NoDuplicates
      <3>2. CASE ~(h < k)
        <4>1. h + 1 \in 1 .. Len(l) /\ h + 1 # k
          BY <3>2, <2>4
        <4> QED
          BY <4>1, <3>2, <2>4, <2>6 DEF Elems, NoDuplicates
      <3> QED
        BY <3>1, <3>2
    <2>8. Elems(l) \ {e} \subseteq Elems(m)
      <3> SUFFICES ASSUME NEW h \in 1 .. Len(l), l[h] # e PROVE l[h] \in Elems(m)
        BY DEF Elems
      <3>1. CASE h < k
        <4>1. h \in 1 .. Len(l) - 1
          BY <3>1, <2>4
        <4> QED
          BY <4>1, <3>1, <2>6 DEF Elems
      <3>2. CASE h > k
        <4>1. h - 1 \in 1 .. Len(l) - 1 /\ ~(h - 1 < k) /\ (h - 1) + 1 = h
          BY <3>2, <2>4
        <4> QED
          BY <4>1, <2>6 DEF Elems
      <3> QED
        BY <3>1, <3>2, <2>4
    <2>9. NoDuplicates(m)
      <3> SUFFICES ASSUME NEW g \in 1 .. Len(l) - 1, NEW h \in 1 .. Len(l) - 1, m[g] = m[h]
                   PROVE  g = h
        BY <2>6 DEF NoDuplicates
      <3> DEFINE Src(x) == IF x < k THEN x ELSE x + 1
      <3>1. Src(g) \in 1 .. Len(l) /\ Src(h) \in 1 .. Len(l)
        BY <2>4
      <3>2. m[g] = l[Src(g)] /\ m[h] = l[Src(h)]
        BY <2>6
      <3>3. Src(g) = Src(h)
        BY <3>1, <3>2 DEF NoDuplicates
      <3> QED
        BY <3>3, <2>4
    <2> QED
      BY <2>1, <2>6, <2>7, <2>8, <2>9
  <1> QED
    BY <1>1, <1>2

(* One step of a for_splst_each. *)
LEMMA ElemsTail ==
  ASSUME NEW S, NEW l \in Seq(S), l # << >>
  PROVE  /\ Tail(l) \in Seq(S) /\ Elems(Tail(l)) \subseteq Elems(l)
         /\ Head(l) \in Elems(l)
  <1>1. Tail(l) \in Seq(S) /\ Len(Tail(l)) = Len(l) - 1
    OBVIOUS
  <1>2. \A i \in 1 .. Len(l) - 1 : Tail(l)[i] = l[i + 1] /\ i + 1 \in 1 .. Len(l)
    OBVIOUS
  <1>3. Head(l) = l[1] /\ 1 \in 1 .. Len(l)
    OBVIOUS
  <1> QED
    BY <1>1, <1>2, <1>3 DEF Elems

(* A deadline stays whole periods away from the first one. *)
LEMMA OnePeriodMore ==
  ASSUME NEW x \in Nat, NEW r \in Nat, r > 0, x % r = 0
  PROVE  (x + r) % r = 0
  <1> DEFINE q == x \div r
  <1>1. q \in Nat /\ x = r * q
    OBVIOUS
  <1> HIDE DEF q
  <1>2. x + r = r * (q + 1)
    BY <1>1
  <1>3. \A k \in Nat : (r * k) % r = 0
    OBVIOUS
  <1> QED
    BY <1>1, <1>2, <1>3

-----------------------------------------------------------------------------
(* Types *)

(* evt_append_pending and Unpend keep the types of the pending queue. *)
LEMMA PendType ==
  ASSUME pendpos \in [Watchers -> Nat], pending \in Seq(Watchers \cup {Empty}),
         NEW w \in Watchers, evt_append_pending(w) \/ Unpend(w)
  PROVE  pendpos' \in [Watchers -> Nat] /\ pending' \in Seq(Watchers \cup {Empty})
  <1>1. CASE evt_append_pending(w)
    <2>1. Append(pending, w) \in Seq(Watchers \cup {Empty}) /\ Len(pending) + 1 \in Nat
      OBVIOUS
    <2> QED
      BY <1>1, <2>1 DEF evt_append_pending
  <1>2. CASE Unpend(w)
    BY <1>2 DEF Unpend
  <1> QED
    BY <1>1, <1>2

(* evt_fd_change keeps the types of the change queue. *)
LEMMA ChangeType ==
  ASSUME changed \in [Fds -> BOOLEAN], fds_change \in Seq(Fds), NEW f \in Fds,
         evt_fd_change(f)
  PROVE  changed' \in [Fds -> BOOLEAN] /\ fds_change' \in Seq(Fds)
  <1>1. fds_change' \in Seq(Fds)
    BY DEF evt_fd_change
  <1>2. changed' \in [Fds -> BOOLEAN]
    BY Zenon DEF evt_fd_change
  <1> QED
    BY <1>1, <1>2

(* Executing a slot, whatever it holds, keeps the type of pendpos. *)
LEMMA ExecuteType ==
  ASSUME pendpos \in [Watchers -> Nat], ExecuteNext
  PROVE  pendpos' \in [Watchers -> Nat]
  <1>1. \A v : [pendpos EXCEPT ![v] = 0] \in [Watchers -> Nat]
    OBVIOUS
  <1>2. pendpos' = pendpos \/ pendpos' = [pendpos EXCEPT ![pending[j + 1]] = 0]
    BY DEF ExecuteNext
  <1> QED
    BY <1>1, <1>2, Zenon

(* A loop that evt_loop_init_flag has set up is well typed. *)
LEMMA TypeInit == evt_loop_init => TypeOK
  <1> SUFFICES ASSUME evt_loop_init PROVE TypeOK
    OBVIOUS
  <1> USE TimeAssumption DEF evt_loop_init
  <1>1. /\ quiting \in BOOLEAN /\ active \in [Watchers -> BOOLEAN]
        /\ changed \in [Fds -> BOOLEAN]
    BY Zenon
  <1>2. /\ pendpos \in [Watchers -> Nat] /\ pending \in Seq(Watchers \cup {Empty})
        /\ todo \in Seq(Watchers) /\ evq \in [Fds -> Seq(Io)]
        /\ before_evtq \in Seq(Befores) /\ after_evtq \in Seq(Afters)
        /\ fds_change \in Seq(Fds)
    OBVIOUS
  <1>3. /\ pc \in LoopPC /\ j \in Nat /\ catime \in 0 .. MaxTime
        /\ event \in [Fds -> SUBSET Ev] /\ revent \in [Fds -> SUBSET Ev]
        /\ reg \in [Fds -> SUBSET Ev] /\ open \subseteq Fds /\ reused \subseteq Fds
        /\ ready \subseteq Fds /\ heap \subseteq Timers
        /\ timestamp \in [Timers -> Nat] /\ started \in [Timers -> Nat]
        /\ noticed \in [Timers -> Nat \cup {NotYet}]
    BY DEF LoopPC
  <1> QED
    BY <1>1, <1>2, <1>3 DEF TypeOK

(* Every step keeps the types; splst_del does so on a list without            *)
(* duplicates.                                                                *)
LEMMA TypeNext == TypeOK /\ LinkedIffActive /\ [Next]_vars => TypeOK'
  <1> SUFFICES ASSUME TypeOK, LinkedIffActive, [Next]_vars PROVE TypeOK'
    OBVIOUS
  <1> USE IoAssumption, TimeAssumption
      DEF TypeOK, loopVars, pendVars, ioVars, listVars, epollVars, timerVars, Watchers
  <1>1. ASSUME NEW w \in Io, evt_io_start(w) PROVE TypeOK'
    <2> USE <1>1 DEF evt_io_start
    <2>1. changed' \in [Fds -> BOOLEAN] /\ fds_change' \in Seq(Fds)
      BY ChangeType
    <2>2. active' \in [Watchers -> BOOLEAN]
      BY Zenon
    <2>3. evq' \in [Fds -> Seq(Io)]
      BY ElemsAdd
    <2> QED
      BY <2>1, <2>2, <2>3
  <1>2. ASSUME NEW w \in Io, evt_io_stop(w) PROVE TypeOK'
    <2> USE <1>2 DEF evt_io_stop
    <2>1. changed' \in [Fds -> BOOLEAN] /\ fds_change' \in Seq(Fds)
      BY ChangeType
    <2>2. active' \in [Watchers -> BOOLEAN]
      BY Zenon
    <2>3. evq' \in [Fds -> Seq(Io)]
      BY ElemsDel DEF LinkedIffActive
    <2>4. pendpos' \in [Watchers -> Nat] /\ pending' \in Seq(Watchers \cup {Empty})
      BY PendType
    <2> QED
      BY <2>1, <2>2, <2>3, <2>4
  <1>3. ASSUME NEW w \in Befores, evt_before_start(w) PROVE TypeOK'
    <2> USE <1>3 DEF evt_before_start
    <2>1. active' \in [Watchers -> BOOLEAN]
      BY Zenon
    <2>2. before_evtq' \in Seq(Befores)
      BY ElemsAdd
    <2> QED
      BY <2>1, <2>2
  <1>4. ASSUME NEW w \in Befores, evt_before_stop(w) PROVE TypeOK'
    <2> USE <1>4 DEF evt_before_stop
    <2>1. active' \in [Watchers -> BOOLEAN]
      BY Zenon
    <2>2. before_evtq' \in Seq(Befores)
      BY ElemsDel DEF LinkedIffActive
    <2>3. pendpos' \in [Watchers -> Nat] /\ pending' \in Seq(Watchers \cup {Empty})
      BY PendType
    <2> QED
      BY <2>1, <2>2, <2>3
  <1>5. ASSUME NEW w \in Afters, evt_after_start(w) PROVE TypeOK'
    <2> USE <1>5 DEF evt_after_start
    <2>1. active' \in [Watchers -> BOOLEAN]
      BY Zenon
    <2>2. after_evtq' \in Seq(Afters)
      BY ElemsAdd
    <2> QED
      BY <2>1, <2>2
  <1>6. ASSUME NEW w \in Afters, evt_after_stop(w) PROVE TypeOK'
    <2> USE <1>6 DEF evt_after_stop
    <2>1. active' \in [Watchers -> BOOLEAN]
      BY Zenon
    <2>2. after_evtq' \in Seq(Afters)
      BY ElemsDel DEF LinkedIffActive
    <2>3. pendpos' \in [Watchers -> Nat] /\ pending' \in Seq(Watchers \cup {Empty})
      BY PendType
    <2> QED
      BY <2>1, <2>2, <2>3
  <1>7. ASSUME NEW t \in Timers, evt_timer_init(t) PROVE TypeOK'
    <2> USE <1>7 DEF evt_timer_init
    <2>1. active' \in [Watchers -> BOOLEAN]
      BY Zenon
    <2>2. timestamp' \in [Timers -> Nat]
      OBVIOUS
    <2> QED
      BY <2>1, <2>2
  <1>8. ASSUME NEW t \in Timers, evt_timer_start(t) PROVE TypeOK'
    <2> USE <1>8 DEF evt_timer_start
    <2>1. active' \in [Watchers -> BOOLEAN]
      BY Zenon
    <2>2. /\ timestamp' \in [Timers -> Nat] /\ started' \in [Timers -> Nat]
          /\ noticed' \in [Timers -> Nat \cup {NotYet}]
      OBVIOUS
    <2> QED
      BY <2>1, <2>2
  <1>9. ASSUME NEW t \in Timers, evt_timer_stop(t) PROVE TypeOK'
    <2> USE <1>9 DEF evt_timer_stop
    <2>1. active' \in [Watchers -> BOOLEAN]
      BY Zenon
    <2>2. pendpos' \in [Watchers -> Nat] /\ pending' \in Seq(Watchers \cup {Empty})
      BY PendType
    <2> QED
      BY <2>1, <2>2
  <1>10. CASE evt_loop_quit
    BY <1>10 DEF evt_loop_quit
  <1>11. ASSUME NEW f \in Fds, CloseFd(f) \/ OpenFd(f) PROVE TypeOK'
    BY <1>11 DEF CloseFd, OpenFd
  <1>12. CASE evt_loop_run
    BY <1>12 DEF evt_loop_run, LoopPC
  <1>13. CASE LoopTop
    BY <1>13 DEF LoopTop, LoopPC, UpdateCatime
  <1>14. CASE QueueNext
    <2> USE <1>14 DEF QueueNext
    <2>1. todo' \in Seq(Watchers) /\ Head(todo) \in Watchers
      BY ElemsTail
    <2>2. pendpos' \in [Watchers -> Nat] /\ pending' \in Seq(Watchers \cup {Empty})
      BY <2>1, PendType
    <2> QED
      BY <2>1, <2>2
  <1>15. CASE QueueEnd \/ CallbackReturns \/ LoopEnd
    BY <1>15 DEF QueueEnd, CallbackReturns, LoopEnd, LoopPC
  <1>16. CASE ExecuteNext
    <2>1. pendpos' \in [Watchers -> Nat]
      BY <1>16, ExecuteType
    <2>2. pc' \in LoopPC /\ j' \in Nat
      BY <1>16 DEF ExecuteNext, LoopPC
    <2> QED
      BY <2>1, <2>2, <1>16 DEF ExecuteNext
  <1>17. CASE ExecuteEnd
    BY <1>17 DEF ExecuteEnd, LoopPC
  <1>18. CASE evt_update_fdchanges
    <2>1. \A f \in Fds : Want(f) \subseteq Ev
      BY ElemsType DEF Want
    <2>2. /\ event' \in [Fds -> SUBSET Ev] /\ reg' \in [Fds -> SUBSET Ev]
          /\ reused' \subseteq Fds
      BY <1>18, <2>1 DEF evt_update_fdchanges, epoll_update
    <2>3. changed' \in [Fds -> BOOLEAN]
      BY <1>18, Zenon DEF evt_update_fdchanges
    <2>4. pc' \in LoopPC /\ catime' \in 0 .. MaxTime /\ fds_change' \in Seq(Fds)
      BY <1>18 DEF evt_update_fdchanges, UpdateCatime, LoopPC
    <2>5. UNCHANGED <<quiting, todo, active, pendVars, evq, listVars, revent, ready,
                      timerVars, open>>
      BY <1>18 DEF evt_update_fdchanges
    <2> QED
      BY <2>2, <2>3, <2>4, <2>5
  <1>19. CASE epoll_wait
    BY <1>19 DEF epoll_wait, LoopPC
  <1>20. CASE DispatchEnd
    BY <1>20 DEF DispatchEnd, LoopPC, UpdateCatime
  <1>21. ASSUME NEW f \in Fds, epoll_dispatch(f) PROVE TypeOK'
    BY <1>21 DEF epoll_dispatch
  <1>22. ASSUME NEW t \in Timers, ExpireTimer(t) PROVE TypeOK'
    <2> USE <1>22 DEF ExpireTimer
    <2>1. pendpos' \in [Watchers -> Nat] /\ pending' \in Seq(Watchers \cup {Empty})
      BY PendType
    <2>2. timestamp' \in [Timers -> Nat]
      <3>1. \A n \in Nat : [timestamp EXCEPT ![t] = n] \in [Timers -> Nat]
        OBVIOUS
      <3>2. timestamp[t] + RepeatOf[t] \in Nat
        OBVIOUS
      <3> QED
        BY <3>1, <3>2
    <2>3. heap' \subseteq Timers /\ noticed' \in [Timers -> Nat \cup {NotYet}]
      OBVIOUS
    <2> QED
      BY <2>1, <2>2, <2>3
  <1>23. CASE ExpireEnd
    BY <1>23 DEF ExpireEnd, LoopPC
  <1>24. CASE UNCHANGED vars
    BY <1>24 DEF vars
  <1> QED
    BY <1>1, <1>2, <1>3, <1>4, <1>5, <1>6, <1>7, <1>8, <1>9, <1>10, <1>11, <1>12, <1>13,
       <1>14, <1>15, <1>16, <1>17, <1>18, <1>19, <1>20, <1>21, <1>22, <1>23, <1>24
    DEF Next, Client, LoopStep
-----------------------------------------------------------------------------
(* The pending queue *)

(* _evt_append_pending keeps slots and positions in agreement. *)
LEMMA AppendPending ==
  ASSUME TypeOK, PendingConsistent, NEW w \in Watchers, evt_append_pending(w), j' = j
  PROVE  /\ PendingConsistent' /\ pendpos'[w] # 0
         /\ \A v \in Watchers \ {w} : pendpos'[v] = pendpos[v]
  <1>1. CASE pendpos[w] # 0
    BY <1>1 DEF evt_append_pending, PendingConsistent
  <1>2. CASE pendpos[w] = 0
    <2> DEFINE n == Len(pending)
    <2>1. n \in Nat /\ j \in Nat /\ j <= n /\ pendpos \in [Watchers -> Nat]
      BY DEF TypeOK, PendingConsistent
    <2>2. /\ Len(pending') = n + 1 /\ pending'[n + 1] = w
          /\ \A i \in 1 .. n : pending'[i] = pending[i]
      <3>1. pending' = Append(pending, w)
        BY <1>2 DEF evt_append_pending
      <3>2. pending \in Seq(Watchers \cup {Empty}) /\ w \in Watchers \cup {Empty}
        BY DEF TypeOK
      <3> QED
        BY <3>1, <3>2
    <2>3. /\ pendpos'[w] = n + 1
          /\ \A v \in Watchers \ {w} : pendpos'[v] = pendpos[v]
      BY <1>2, <2>1 DEF evt_append_pending
    <2>4. \A i \in 1 .. n : pending[i] \in Watchers \cup {Empty}
      BY DEF TypeOK
    <2> HIDE DEF n
    <2>5. ASSUME NEW v \in Watchers, pendpos'[v] # 0
          PROVE  pendpos'[v] \in (j + 1) .. n + 1 /\ pending'[pendpos'[v]] = v
      <3>1. CASE v = w
        BY <3>1, <2>1, <2>2, <2>3
      <3>2. CASE v # w
        <4>1. pendpos'[v] = pendpos[v]
          BY <3>2, <2>3
        <4>2. pendpos[v] \in (j + 1) .. n /\ pending[pendpos[v]] = v
          BY <4>1, <2>5 DEF PendingConsistent, n
        <4> QED
          BY <4>1, <4>2, <2>1, <2>2
      <3> QED
        BY <3>1, <3>2
    <2>6. ASSUME NEW i \in (j + 1) .. n + 1, pending'[i] # Empty
          PROVE  pendpos'[pending'[i]] = i
      <3>1. CASE i = n + 1
        BY <3>1, <2>2, <2>3
      <3>2. CASE i # n + 1
        <4>1. i \in (j + 1) .. n /\ i \in 1 .. n /\ pending'[i] = pending[i]
          BY <3>2, <2>1, <2>2
        <4>2. pending[i] \in Watchers /\ pendpos[pending[i]] = i
          BY <4>1, <2>4, <2>6 DEF PendingConsistent, n
        <4>3. pending[i] # w
          BY <4>1, <4>2, <1>2
        <4> QED
          BY <4>1, <4>2, <4>3, <2>3
      <3> QED
        BY <3>1, <3>2
    <2>7. j' <= Len(pending') /\ (j' + 1) .. Len(pending') = (j + 1) .. n + 1
      BY <2>1, <2>2
    <2>8. PendingConsistent'
      BY <2>5, <2>6, <2>7 DEF PendingConsistent
    <2> QED
      BY <2>1, <2>3, <2>8
  <1> QED
    BY <1>1, <1>2

(* So does the emptying of a slot by a stop. *)
LEMMA UnpendPending ==
  ASSUME TypeOK, PendingConsistent, NEW w \in Watchers, Unpend(w), j' = j
  PROVE  /\ PendingConsistent' /\ pendpos'[w] = 0
         /\ \A v \in Watchers \ {w} : pendpos'[v] = pendpos[v]
  <1>1. CASE pendpos[w] = 0
    BY <1>1 DEF Unpend, PendingConsistent
  <1>2. CASE pendpos[w] # 0
    <2> DEFINE n == Len(pending)
               k == pendpos[w]
    <2>1. n \in Nat /\ j \in Nat /\ j <= n /\ pendpos \in [Watchers -> Nat]
      BY DEF TypeOK, PendingConsistent
    <2>2. k \in (j + 1) .. n /\ pending[k] = w /\ k \in 1 .. n
      BY <1>2, <2>1 DEF PendingConsistent
    <2>3. /\ Len(pending') = n /\ pending'[k] = Empty
          /\ \A i \in 1 .. n : i # k => pending'[i] = pending[i]
      BY <1>2, <2>2 DEF Unpend, TypeOK
    <2>4. /\ pendpos'[w] = 0
          /\ \A v \in Watchers \ {w} : pendpos'[v] = pendpos[v]
      BY <1>2, <2>1 DEF Unpend
    <2>5. \A i \in 1 .. n : pending[i] \in Watchers \cup {Empty}
      BY DEF TypeOK
    <2> HIDE DEF n, k
    <2>6. ASSUME NEW v \in Watchers, pendpos'[v] # 0
          PROVE  pendpos'[v] \in (j + 1) .. n /\ pending'[pendpos'[v]] = v
      <3>1. v # w /\ pendpos'[v] = pendpos[v]
        BY <2>4, <2>6
      <3>2. pendpos[v] \in (j + 1) .. n /\ pending[pendpos[v]] = v
        BY <3>1, <2>6 DEF PendingConsistent, n
      <3>3. pendpos[v] # k
        BY <3>1, <3>2, <2>2
      <3> QED
        BY <3>1, <3>2, <3>3, <2>1, <2>3
    <2>7. ASSUME NEW i \in (j + 1) .. n, pending'[i] # Empty
          PROVE  pendpos'[pending'[i]] = i
      <3>1. i # k /\ i \in 1 .. n /\ pending'[i] = pending[i]
        BY <2>1, <2>3, <2>7
      <3>2. pending[i] \in Watchers /\ pendpos[pending[i]] = i
        BY <3>1, <2>5, <2>7 DEF PendingConsistent, n
      <3>3. pending[i] # w
        BY <3>1, <3>2 DEF k
      <3> QED
        BY <3>1, <3>2, <3>3, <2>4
    <2> QED
      BY <2>1, <2>3, <2>4, <2>6, <2>7 DEF PendingConsistent
  <1> QED
    BY <1>1, <1>2

(* A watcher's own slot is given up before its callback runs. *)
LEMMA ExecutePending ==
  ASSUME TypeOK, PendingConsistent, ExecuteNext
  PROVE  PendingConsistent' /\ \A v \in Watchers : pendpos'[v] \in {0, pendpos[v]}
  <1> DEFINE n == Len(pending)
             eb == pending[j + 1]
  <1>1. n \in Nat /\ j \in Nat /\ j < n /\ pendpos \in [Watchers -> Nat]
    BY DEF TypeOK, ExecuteNext
  <1>2. j' = j + 1 /\ pending' = pending
    BY DEF ExecuteNext
  <1>3. \A i \in 1 .. n : pending[i] \in Watchers \cup {Empty}
    BY DEF TypeOK
  <1>4. j + 1 \in (j + 1) .. n /\ j + 1 \in 1 .. n
    BY <1>1
  <1>5. eb # Empty => eb \in Watchers /\ pendpos[eb] = j + 1
    BY <1>3, <1>4 DEF PendingConsistent
  <1>6. \A v \in Watchers : pendpos'[v] = IF v = eb /\ eb # Empty THEN 0 ELSE pendpos[v]
    BY <1>1 DEF ExecuteNext
  <1> HIDE DEF n, eb
  <1>7. ASSUME NEW v \in Watchers, pendpos'[v] # 0
        PROVE  pendpos'[v] \in (j + 2) .. n /\ pending[pendpos'[v]] = v
    <2>1. pendpos'[v] = pendpos[v] /\ (v = eb => eb = Empty)
      BY <1>6, <1>7
    <2>2. pendpos[v] \in (j + 1) .. n /\ pending[pendpos[v]] = v
      BY <2>1, <1>7 DEF PendingConsistent, n
    <2>3. pendpos[v] # j + 1
      BY <2>1, <2>2, WatchersAssumption DEF eb
    <2> QED
      BY <2>1, <2>2, <2>3, <1>1
  <1>8. ASSUME NEW i \in (j + 2) .. n, pending[i] # Empty
        PROVE  pendpos'[pending[i]] = i
    <2>1. i \in (j + 1) .. n /\ i \in 1 .. n /\ i # j + 1
      BY <1>1
    <2>2. pending[i] \in Watchers /\ pendpos[pending[i]] = i
      BY <2>1, <1>3, <1>8 DEF PendingConsistent, n
    <2>3. pending[i] = eb => eb = Empty
      BY <2>1, <2>2, <1>5
    <2> QED
      BY <2>2, <2>3, <1>6
  <1>9. (j + 1) + 1 = j + 2 /\ j + 1 <= n
    BY <1>1
  <1> QED
    BY <1>2, <1>6, <1>7, <1>8, <1>9 DEF PendingConsistent, n
-----------------------------------------------------------------------------
(* Active watchers *)

(* What a start or a stop of w does to ev->active. *)
LEMMA ActiveSet ==
  ASSUME TypeOK, NEW w \in Watchers
  PROVE  /\ active' = [active EXCEPT ![w] = TRUE] =>
              active'[w] /\ \A v \in Watchers \ {w} : active'[v] <=> active[v]
         /\ active' = [active EXCEPT ![w] = FALSE] =>
              ~active'[w] /\ \A v \in Watchers \ {w} : active'[v] <=> active[v]
  <1>1. active \in [Watchers -> BOOLEAN]
    BY DEF TypeOK
  <1> QED
    BY <1>1, Zenon

(* No walk over a list is under way while the client may call. *)
LEMMA NoWalkInClient ==
  ASSUME WalkActive, ClientMay PROVE todo = << >>
  BY DEF WalkActive, ClientMay

(* The pending queue through every step: starts leave it alone, stops empty   *)
(* the slot, the walks and the heap append active watchers, the executor      *)
(* gives slots up in order.                                                   *)
LEMMA PendingNext ==
  ASSUME TypeOK, PendingConsistent, PendingActive, WalkActive, HeapActive, [Next]_vars
  PROVE  PendingConsistent' /\ PendingActive'
  <1> USE DEF loopVars, pendVars, ioVars, listVars, epollVars, timerVars
  <1> DEFINE Goal == PendingConsistent' /\ PendingActive'
  <1>0. Io \subseteq Watchers /\ Timers \subseteq Watchers /\ Befores \subseteq Watchers
        /\ Afters \subseteq Watchers
    BY DEF Watchers
  <1>1. ASSUME NEW w \in Watchers, active' = [active EXCEPT ![w] = TRUE], UNCHANGED pendVars
        PROVE  Goal
    BY <1>1, ActiveSet DEF PendingConsistent, PendingActive
  <1>2. ASSUME NEW w \in Watchers, active' = [active EXCEPT ![w] = FALSE], Unpend(w), j' = j
        PROVE  Goal
    BY <1>2, ActiveSet, UnpendPending DEF PendingActive
  <1>3. ASSUME NEW w \in Watchers, active[w], evt_append_pending(w), UNCHANGED <<j, active>>
        PROVE  Goal
    BY <1>3, AppendPending DEF PendingActive
  <1>4. ASSUME UNCHANGED <<active, pendVars>> PROVE Goal
    BY <1>4 DEF PendingConsistent, PendingActive
  <1>5. ASSUME NEW w \in Io, evt_io_start(w) \/ evt_io_stop(w) PROVE Goal
    BY <1>0, <1>1, <1>2, <1>5 DEF evt_io_start, evt_io_stop
  <1>6. ASSUME NEW w \in Befores, evt_before_start(w) \/ evt_before_stop(w) PROVE Goal
    BY <1>0, <1>1, <1>2, <1>6 DEF evt_before_start, evt_before_stop
  <1>7. ASSUME NEW w \in Afters, evt_after_start(w) \/ evt_after_stop(w) PROVE Goal
    BY <1>0, <1>1, <1>2, <1>7 DEF evt_after_start, evt_after_stop
  <1>8. ASSUME NEW t \in Timers, evt_timer_start(t) \/ evt_timer_stop(t) PROVE Goal
    BY <1>0, <1>1, <1>2, <1>8 DEF evt_timer_start, evt_timer_stop
  <1>9. ASSUME NEW t \in Timers, evt_timer_init(t) PROVE Goal
    <2>1. pendpos[t] = 0 /\ UNCHANGED pendVars /\ active' = [active EXCEPT ![t] = FALSE]
      BY <1>9 DEF evt_timer_init
    <2> QED
      BY <2>1, <1>0, ActiveSet DEF PendingConsistent, PendingActive
  <1>10. ASSUME NEW f \in Fds, CloseFd(f) \/ OpenFd(f) \/ epoll_dispatch(f) PROVE Goal
    BY <1>4, <1>10 DEF CloseFd, OpenFd, epoll_dispatch
  <1>11. CASE evt_loop_quit \/ evt_loop_run \/ LoopTop \/ QueueEnd \/ CallbackReturns
    BY <1>4, <1>11 DEF evt_loop_quit, evt_loop_run, LoopTop, QueueEnd, CallbackReturns
  <1>12. CASE evt_update_fdchanges \/ epoll_wait \/ DispatchEnd \/ ExpireEnd \/ LoopEnd
    BY <1>4, <1>12 DEF evt_update_fdchanges, epoll_wait, DispatchEnd, ExpireEnd, LoopEnd
  <1>13. CASE QueueNext
    <2>1. Head(todo) \in Watchers /\ active[Head(todo)]
      <3>1. todo \in Seq(Watchers) /\ todo # << >>
        BY <1>13 DEF QueueNext, TypeOK
      <3> QED
        BY <3>1, ElemsTail, ElemsType DEF WalkActive
    <2> QED
      BY <1>13, <2>1, <1>3, <1>4 DEF QueueNext
  <1>14. CASE ExecuteNext
    <2>1. PendingConsistent' /\ \A v \in Watchers : pendpos'[v] \in {0, pendpos[v]}
      BY <1>14, ExecutePending
    <2>2. active' = active
      BY <1>14 DEF ExecuteNext
    <2> QED
      BY <2>1, <2>2 DEF PendingActive
  <1>15. CASE ExecuteEnd
    <2>1. \A v \in Watchers : pendpos[v] = 0
      <3>1. j = Len(pending) /\ j \in Nat
        BY <1>15 DEF ExecuteEnd, TypeOK
      <3> QED
        BY <3>1 DEF PendingConsistent
    <2>2. pendpos' = pendpos /\ j' = 0 /\ pending' = << >>
      BY <1>15 DEF ExecuteEnd
    <2> QED
      BY <2>1, <2>2 DEF PendingConsistent, PendingActive
  <1>16. ASSUME NEW t \in Timers, ExpireTimer(t) PROVE Goal
    <2>1. active[t]
      BY <1>16 DEF ExpireTimer, HeapActive
    <2> QED
      BY <2>1, <1>0, <1>3, <1>16 DEF ExpireTimer
  <1>17. CASE UNCHANGED vars
    BY <1>4, <1>17 DEF vars
  <1> QED
    BY <1>5, <1>6, <1>7, <1>8, <1>9, <1>10, <1>11, <1>12, <1>13, <1>14, <1>15, <1>16, <1>17
    DEF Next, Client, LoopStep

(* A walk starts on a list of active watchers and ends before client code     *)
(* runs.                                                                      *)
LEMMA WalkNext ==
  ASSUME TypeOK, LinkedIffActive, QueueOfFd, WalkActive, [Next]_vars
  PROVE  WalkActive'
  <1> USE DEF loopVars, pendVars, ioVars, listVars, epollVars, timerVars
  <1>1. ASSUME todo' = << >> PROVE WalkActive'
    BY <1>1, ElemsEmpty DEF WalkActive
  <1>2. ASSUME UNCHANGED <<todo, active, pc>> PROVE WalkActive'
    BY <1>2 DEF WalkActive
  <1>3. ASSUME NEW w \in Io, evt_io_start(w) \/ evt_io_stop(w) PROVE WalkActive'
    BY <1>1, <1>3, NoWalkInClient DEF evt_io_start, evt_io_stop
  <1>4. ASSUME NEW w \in Befores, evt_before_start(w) \/ evt_before_stop(w) PROVE WalkActive'
    BY <1>1, <1>4, NoWalkInClient DEF evt_before_start, evt_before_stop
  <1>5. ASSUME NEW w \in Afters, evt_after_start(w) \/ evt_after_stop(w) PROVE WalkActive'
    BY <1>1, <1>5, NoWalkInClient DEF evt_after_start, evt_after_stop
  <1>6. ASSUME NEW t \in Timers, evt_timer_init(t) \/ evt_timer_start(t) \/ evt_timer_stop(t)
        PROVE  WalkActive'
    BY <1>1, <1>6, NoWalkInClient DEF evt_timer_init, evt_timer_start, evt_timer_stop
  <1>7. ASSUME NEW f \in Fds, CloseFd(f) \/ OpenFd(f) PROVE WalkActive'
    BY <1>1, <1>7, NoWalkInClient DEF CloseFd, OpenFd
  <1>8. CASE evt_loop_quit
    BY <1>2, <1>8 DEF evt_loop_quit
  <1>9. CASE evt_loop_run \/ QueueEnd \/ ExecuteNext \/ CallbackReturns \/ ExecuteEnd
    BY <1>1, <1>9
    DEF WalkActive, evt_loop_run, QueueEnd, ExecuteNext, CallbackReturns, ExecuteEnd
  <1>10. CASE evt_update_fdchanges \/ epoll_wait \/ DispatchEnd \/ LoopEnd
    BY <1>1, <1>10 DEF WalkActive, evt_update_fdchanges, epoll_wait, DispatchEnd, LoopEnd
  <1>11. CASE LoopTop
    <2>1. CASE quiting
      BY <1>1, <1>11, <2>1 DEF LoopTop, WalkActive
    <2>2. CASE ~quiting
      <3>1. pc' = "before" /\ todo' = before_evtq /\ active' = active
        BY <1>11, <2>2 DEF LoopTop
      <3>2. \A w \in Elems(before_evtq) : w \in Befores /\ active[w]
        BY ElemsType DEF TypeOK, LinkedIffActive
      <3> QED
        BY <3>1, <3>2, WatchersAssumption DEF WalkActive
    <2> QED
      BY <2>1, <2>2
  <1>12. CASE QueueNext
    <2>1. todo \in Seq(Watchers) /\ todo # << >> /\ todo' = Tail(todo)
          /\ UNCHANGED <<pc, active>> /\ pc \in {"before", "dispatch", "after"}
      BY <1>12 DEF QueueNext, TypeOK
    <2>2. Elems(Tail(todo)) \subseteq Elems(todo)
      BY <2>1, ElemsTail
    <2> QED
      BY <2>1, <2>2 DEF WalkActive
  <1>13. ASSUME NEW f \in Fds, epoll_dispatch(f) PROVE WalkActive'
    <2>1. pc' = "dispatch" /\ todo' = evq[f] /\ active' = active
      BY <1>13 DEF epoll_dispatch
    <2>2. \A w \in Elems(evq[f]) : w \in Io /\ FdOf[w] = f /\ active[w]
      <3>1. evq[f] \in Seq(Io)
        BY DEF TypeOK
      <3> QED
        BY <3>1, ElemsType DEF LinkedIffActive, QueueOfFd
    <2> QED
      BY <2>1, <2>2, WatchersAssumption DEF WalkActive
  <1>14. ASSUME NEW t \in Timers, ExpireTimer(t) PROVE WalkActive'
    BY <1>2, <1>14 DEF ExpireTimer
  <1>15. CASE ExpireEnd
    <2>1. pc' = "after" /\ todo' = after_evtq /\ active' = active
      BY <1>15 DEF ExpireEnd
    <2>2. \A w \in Elems(after_evtq) : w \in Afters /\ active[w]
      BY ElemsType DEF TypeOK, LinkedIffActive
    <2> QED
      BY <2>1, <2>2, WatchersAssumption DEF WalkActive
  <1>16. CASE UNCHANGED vars
    BY <1>2, <1>16 DEF vars
  <1> QED
    BY <1>3, <1>4, <1>5, <1>6, <1>7, <1>8, <1>9, <1>10, <1>11, <1>12, <1>13, <1>14, <1>15,
       <1>16
    DEF Next, Client, LoopStep
-----------------------------------------------------------------------------
(* Lists and heap *)

(* Start and stop link and unlink exactly the watcher they mark, in the list  *)
(* of its kind and of its descriptor; a timer leaves the heap without being   *)
(* stopped only when it expires, and a repeating one does not.                *)
LEMMA LinkedNext ==
  ASSUME TypeOK, LinkedIffActive, QueueOfFd, HeapActive, PendingActive,
         NotBeforeStart, [Next]_vars
  PROVE  LinkedIffActive' /\ QueueOfFd'
  <1> USE DEF loopVars, pendVars, ioVars, listVars, epollVars, timerVars
  <1> DEFINE Goal == LinkedIffActive' /\ QueueOfFd'
  <1>0. Io \subseteq Watchers /\ Timers \subseteq Watchers /\ Befores \subseteq Watchers
        /\ Afters \subseteq Watchers
    BY DEF Watchers
  <1>1. ASSUME UNCHANGED <<active, evq, listVars, timerVars>> PROVE Goal
    BY <1>1 DEF LinkedIffActive, QueueOfFd
  <1>2. ASSUME NEW w \in Io, NEW l \in Seq(Io),
               evq' = [evq EXCEPT ![FdOf[w]] = l], UNCHANGED <<listVars, timerVars>>,
               active'[w] <=> w \in Elems(l), NoDuplicates(l),
               Elems(l) \ {w} = Elems(evq[FdOf[w]]) \ {w},
               \A v \in Watchers \ {w} : active'[v] <=> active[v]
        PROVE  Goal
    <2> DEFINE f == FdOf[w]
    <2>1. f \in Fds /\ evq \in [Fds -> Seq(Io)]
      BY IoAssumption DEF TypeOK
    <2>2. evq'[f] = l /\ \A g \in Fds \ {f} : evq'[g] = evq[g]
      BY <2>1, <1>2
    <2>3. \A v \in Io : active'[v] <=> v \in Elems(evq'[FdOf[v]])
      <3> TAKE v \in Io
      <3>1. CASE v = w
        BY <3>1, <2>2, <1>2
      <3>2. CASE v # w /\ FdOf[v] = f
        BY <3>2, <2>2, <1>0, <1>2 DEF LinkedIffActive
      <3>3. CASE v # w /\ FdOf[v] # f
        <4>1. evq'[FdOf[v]] = evq[FdOf[v]]
          BY <3>3, <2>2, IoAssumption
        <4> QED
          BY <3>3, <4>1, <1>0, <1>2 DEF LinkedIffActive
      <3> QED
        BY <3>1, <3>2, <3>3
    <2>4. \A g \in Fds : NoDuplicates(evq'[g])
      BY <2>2, <1>2 DEF LinkedIffActive
    <2>5. QueueOfFd'
      <3> SUFFICES ASSUME NEW g \in Fds, NEW v \in Elems(evq'[g]) PROVE FdOf[v] = g
        BY DEF QueueOfFd
      <3>1. CASE g = f
        BY <3>1, <2>2, <1>2 DEF QueueOfFd
      <3>2. CASE g # f
        BY <3>2, <2>2 DEF QueueOfFd
      <3> QED
        BY <3>1, <3>2
    <2>6. \A v \in Befores \cup Afters \cup Timers : active'[v] <=> active[v]
      BY <1>0, <1>2, WatchersAssumption
    <2>7. before_evtq' = before_evtq /\ after_evtq' = after_evtq /\ UNCHANGED timerVars
      BY <1>2
    <2> QED
      BY <2>3, <2>4, <2>5, <2>6, <2>7 DEF LinkedIffActive
  <1>3. ASSUME NEW w \in Io, evt_io_start(w) PROVE Goal
    <2>1. evq[FdOf[w]] \in Seq(Io) /\ NoDuplicates(evq[FdOf[w]]) /\ w \notin Elems(evq[FdOf[w]])
      BY <1>3, IoAssumption DEF TypeOK, LinkedIffActive, evt_io_start
    <2>2. active'[w] /\ \A v \in Watchers \ {w} : active'[v] <=> active[v]
      BY <1>0, <1>3, ActiveSet DEF evt_io_start
    <2>3. evq' = [evq EXCEPT ![FdOf[w]] = splst_add(evq[FdOf[w]], w)]
      BY <1>3 DEF evt_io_start
    <2>4. UNCHANGED <<listVars, timerVars>>
      BY <1>3 DEF evt_io_start
    <2> DEFINE l == splst_add(evq[FdOf[w]], w)
    <2>5. l \in Seq(Io) /\ NoDuplicates(l) /\ Elems(l) = Elems(evq[FdOf[w]]) \cup {w}
      BY <2>1, ElemsAdd
    <2> HIDE DEF l
    <2> QED
      BY <2>2, <2>3, <2>4, <2>5, <1>2 DEF l
  <1>4. ASSUME NEW w \in Io, evt_io_stop(w) PROVE Goal
    <2>1. evq[FdOf[w]] \in Seq(Io) /\ NoDuplicates(evq[FdOf[w]])
      BY <1>4, IoAssumption DEF TypeOK, LinkedIffActive
    <2>2. ~active'[w] /\ \A v \in Watchers \ {w} : active'[v] <=> active[v]
      BY <1>0, <1>4, ActiveSet DEF evt_io_stop
    <2>3. evq' = [evq EXCEPT ![FdOf[w]] = splst_del(evq[FdOf[w]], w)]
      BY <1>4 DEF evt_io_stop
    <2>4. UNCHANGED <<listVars, timerVars>>
      BY <1>4 DEF evt_io_stop
    <2> DEFINE l == splst_del(evq[FdOf[w]], w)
    <2>5. l \in Seq(Io) /\ NoDuplicates(l) /\ Elems(l) = Elems(evq[FdOf[w]]) \ {w}
      BY <2>1, ElemsDel
    <2> HIDE DEF l
    <2> QED
      BY <2>2, <2>3, <2>4, <2>5, <1>2 DEF l
  <1>5. ASSUME NEW w \in Befores, evt_before_start(w) \/ evt_before_stop(w) PROVE Goal
    <2>1. before_evtq \in Seq(Befores) /\ NoDuplicates(before_evtq)
      BY DEF TypeOK, LinkedIffActive
    <2>2. /\ \A v \in Watchers \ {w} : active'[v] <=> active[v]
          /\ UNCHANGED <<evq, after_evtq, timerVars>>
      BY <1>0, <1>5, ActiveSet DEF evt_before_start, evt_before_stop
    <2>3. /\ NoDuplicates(before_evtq') /\ (active'[w] <=> w \in Elems(before_evtq'))
          /\ Elems(before_evtq') \ {w} = Elems(before_evtq) \ {w}
      <3>1. CASE evt_before_start(w)
        <4>1. active'[w] /\ ~active[w] /\ before_evtq' = splst_add(before_evtq, w)
          BY <1>0, <3>1, ActiveSet DEF evt_before_start
        <4>2. w \notin Elems(before_evtq)
          BY <4>1 DEF LinkedIffActive
        <4> QED
          BY <4>1, <4>2, <2>1, ElemsAdd
      <3>2. CASE evt_before_stop(w)
        <4>1. ~active'[w] /\ before_evtq' = splst_del(before_evtq, w)
          BY <1>0, <3>2, ActiveSet DEF evt_before_stop
        <4> QED
          BY <4>1, <2>1, ElemsDel
      <3> QED
        BY <1>5, <3>1, <3>2
    <2>4. \A v \in Io \cup Afters \cup Timers : active'[v] <=> active[v]
      BY <1>0, <2>2, WatchersAssumption
    <2>5. \A v \in Befores : active'[v] <=> v \in Elems(before_evtq')
      BY <1>0, <2>2, <2>3 DEF LinkedIffActive
    <2> QED
      BY <2>2, <2>3, <2>4, <2>5 DEF LinkedIffActive, QueueOfFd
  <1>6. ASSUME NEW w \in Afters, evt_after_start(w) \/ evt_after_stop(w) PROVE Goal
    <2>1. after_evtq \in Seq(Afters) /\ NoDuplicates(after_evtq)
      BY DEF TypeOK, LinkedIffActive
    <2>2. /\ \A v \in Watchers \ {w} : active'[v] <=> active[v]
          /\ UNCHANGED <<evq, before_evtq, timerVars>>
      BY <1>0, <1>6, ActiveSet DEF evt_after_start, evt_after_stop
    <2>3. /\ NoDuplicates(after_evtq') /\ (active'[w] <=> w \in Elems(after_evtq'))
          /\ Elems(after_evtq') \ {w} = Elems(after_evtq) \ {w}
      <3>1. CASE evt_after_start(w)
        <4>1. active'[w] /\ ~active[w] /\ after_evtq' = splst_add(after_evtq, w)
          BY <1>0, <3>1, ActiveSet DEF evt_after_start
        <4>2. w \notin Elems(after_evtq)
          BY <4>1 DEF LinkedIffActive
        <4> QED
          BY <4>1, <4>2, <2>1, ElemsAdd
      <3>2. CASE evt_after_stop(w)
        <4>1. ~active'[w] /\ after_evtq' = splst_del(after_evtq, w)
          BY <1>0, <3>2, ActiveSet DEF evt_after_stop
        <4> QED
          BY <4>1, <2>1, ElemsDel
      <3> QED
        BY <1>6, <3>1, <3>2
    <2>4. \A v \in Io \cup Befores \cup Timers : active'[v] <=> active[v]
      BY <1>0, <2>2, WatchersAssumption
    <2>5. \A v \in Afters : active'[v] <=> v \in Elems(after_evtq')
      BY <1>0, <2>2, <2>3 DEF LinkedIffActive
    <2> QED
      BY <2>2, <2>3, <2>4, <2>5 DEF LinkedIffActive, QueueOfFd
  <1>7. ASSUME NEW t \in Timers, evt_timer_init(t) \/ evt_timer_start(t) \/ evt_timer_stop(t)
        PROVE  Goal
    <2>1. \A v \in Watchers \ {t} : active'[v] <=> active[v]
      BY <1>0, <1>7, ActiveSet DEF evt_timer_init, evt_timer_start, evt_timer_stop
    <2>2. \A v \in Io \cup Befores \cup Afters : active'[v] <=> active[v]
      BY <1>0, <2>1, WatchersAssumption
    <2>3. UNCHANGED <<evq, listVars>> /\ heap \ {t} = heap' \ {t}
      BY <1>7 DEF evt_timer_init, evt_timer_start, evt_timer_stop
    <2>4. active'[t] => t \in heap'
      BY <1>0, <1>7, ActiveSet DEF evt_timer_init, evt_timer_start, evt_timer_stop
    <2>5. \A u \in Timers \ {t} : started'[u] = started[u] /\ noticed'[u] = noticed[u]
      BY <1>7 DEF evt_timer_init, evt_timer_start, evt_timer_stop, TypeOK
    <2>6. \A u \in Timers : active'[u]
                            => u \in heap' \/ (RepeatOf[u] = 0 /\ started'[u] <= noticed'[u])
      BY <1>0, <2>1, <2>3, <2>4, <2>5 DEF LinkedIffActive
    <2> QED
      BY <2>2, <2>3, <2>6 DEF LinkedIffActive, QueueOfFd
  <1>8. ASSUME NEW f \in Fds, CloseFd(f) \/ OpenFd(f) \/ epoll_dispatch(f) PROVE Goal
    BY <1>1, <1>8 DEF CloseFd, OpenFd, epoll_dispatch
  <1>9. CASE evt_loop_quit \/ evt_loop_run \/ LoopTop \/ QueueEnd \/ CallbackReturns
    BY <1>1, <1>9 DEF evt_loop_quit, evt_loop_run, LoopTop, QueueEnd, CallbackReturns
  <1>10. CASE evt_update_fdchanges \/ epoll_wait \/ DispatchEnd \/ ExpireEnd \/ LoopEnd
    BY <1>1, <1>10 DEF evt_update_fdchanges, epoll_wait, DispatchEnd, ExpireEnd, LoopEnd
  <1>11. CASE QueueNext \/ ExecuteNext \/ ExecuteEnd
    BY <1>1, <1>11 DEF QueueNext, ExecuteNext, ExecuteEnd
  <1>12. ASSUME NEW t \in Timers, ExpireTimer(t) PROVE Goal
    <2>1. UNCHANGED <<active, evq, listVars>>
      BY <1>12 DEF ExpireTimer
    <2>2. heap' = heap \/ (heap' = heap \ {t} /\ RepeatOf[t] = 0)
      BY <1>12, TimeAssumption DEF ExpireTimer
    <2>3. started' = started /\ noticed'[t] = catime
          /\ \A u \in Timers \ {t} : noticed'[u] = noticed[u]
      BY <1>12 DEF ExpireTimer, TypeOK
    <2>4. started[t] <= catime
      <3>1. started[t] \in Nat /\ timestamp[t] \in Nat /\ catime \in Int
        BY TimeAssumption DEF TypeOK
      <3>2. started[t] <= timestamp[t] /\ timestamp[t] <= catime
        BY <1>12 DEF ExpireTimer, NotBeforeStart
      <3> QED
        BY <3>1, <3>2
    <2>5. \A u \in Timers : active'[u]
                            => u \in heap' \/ (RepeatOf[u] = 0 /\ started'[u] <= noticed'[u])
      BY <2>1, <2>2, <2>3, <2>4 DEF LinkedIffActive
    <2> QED
      BY <2>1, <2>5 DEF LinkedIffActive, QueueOfFd
  <1>13. CASE UNCHANGED vars
    BY <1>1, <1>13 DEF vars
  <1> QED
    BY <1>3, <1>4, <1>5, <1>6, <1>7, <1>8, <1>9, <1>10, <1>11, <1>12, <1>13
    DEF Next, Client, LoopStep

\* What is known of timers: the heap holds active ones, whose deadlines are
\* theirs, and a timer is queued only when its deadline has come.
TimersInv == HeapActive /\ NotBeforeStart /\ TimerNotEarly /\ PeriodKept

(* Expiry moves a repeating timer by one period from its own deadline, and    *)
(* nothing else moves the deadline of a timer that is in the heap.            *)
LEMMA TimersNext ==
  ASSUME TypeOK, TimersInv, PendingConsistent, PendingActive, WalkActive, [Next]_vars
  PROVE  TimersInv'
  <1> USE DEF loopVars, pendVars, ioVars, listVars, epollVars, timerVars
  <1>0. Io \subseteq Watchers /\ Timers \subseteq Watchers /\ Befores \subseteq Watchers
        /\ Afters \subseteq Watchers
    BY DEF Watchers
  <1>1. ASSUME UNCHANGED timerVars,
               \A v \in Timers : active[v] => active'[v],
               \A v \in Timers : pendpos'[v] # 0 => pendpos[v] # 0
        PROVE  TimersInv'
    <2>1. heap \subseteq Timers
      BY DEF TypeOK
    <2>2. HeapActive' /\ NotBeforeStart'
      BY <1>1, <2>1 DEF HeapActive, NotBeforeStart, TimersInv
    <2>3. TimerNotEarly'
      BY <1>1 DEF TimerNotEarly, TimersInv
    <2>4. PeriodKept'
      BY <1>1 DEF PeriodKept, TimersInv
    <2> QED
      BY <2>2, <2>3, <2>4 DEF TimersInv
  <1>2. catime \in Nat
    BY TimeAssumption DEF TypeOK
  <1>3. ASSUME NEW w \in Watchers \ Timers, UNCHANGED <<timerVars, j>>,
               \/ active' = [active EXCEPT ![w] = TRUE] /\ UNCHANGED <<pending, pendpos>>
               \/ active' = [active EXCEPT ![w] = FALSE] /\ Unpend(w)
        PROVE  TimersInv'
    <2>1. \A v \in Timers : active[v] => active'[v]
      BY <1>0, <1>3, ActiveSet
    <2>2. \A v \in Timers : pendpos'[v] = pendpos[v]
      BY <1>0, <1>3, UnpendPending
    <2> QED
      BY <2>1, <2>2, <1>1, <1>3
  <1>4. ASSUME NEW w \in Io, evt_io_start(w) \/ evt_io_stop(w) PROVE TimersInv'
    <2>1. w \in Watchers \ Timers
      BY <1>0, WatchersAssumption
    <2> QED
      BY <2>1, <1>3, <1>4 DEF evt_io_start, evt_io_stop
  <1>5. ASSUME NEW w \in Befores, evt_before_start(w) \/ evt_before_stop(w) PROVE TimersInv'
    <2>1. w \in Watchers \ Timers
      BY <1>0, WatchersAssumption
    <2> QED
      BY <2>1, <1>3, <1>5 DEF evt_before_start, evt_before_stop
  <1>6. ASSUME NEW w \in Afters, evt_after_start(w) \/ evt_after_stop(w) PROVE TimersInv'
    <2>1. w \in Watchers \ Timers
      BY <1>0, WatchersAssumption
    <2> QED
      BY <2>1, <1>3, <1>6 DEF evt_after_start, evt_after_stop
  <1>7. ASSUME UNCHANGED <<timerVars, active, pendpos>> PROVE TimersInv'
    BY <1>1, <1>7
  <1>8. ASSUME NEW f \in Fds, CloseFd(f) \/ OpenFd(f) \/ epoll_dispatch(f) PROVE TimersInv'
    BY <1>7, <1>8 DEF CloseFd, OpenFd, epoll_dispatch
  <1>9. CASE evt_loop_quit \/ evt_loop_run \/ LoopTop \/ QueueEnd \/ CallbackReturns
    BY <1>7, <1>9
    DEF evt_loop_quit, evt_loop_run, LoopTop, QueueEnd, CallbackReturns
  <1>10. CASE evt_update_fdchanges \/ epoll_wait \/ DispatchEnd \/ ExpireEnd \/ LoopEnd
    BY <1>7, <1>10
    DEF evt_update_fdchanges, epoll_wait, DispatchEnd, ExpireEnd, LoopEnd
  <1>11. CASE QueueNext
    <2>1. Head(todo) \in Watchers \ Timers
      <3>1. todo \in Seq(Watchers) /\ todo # << >>
        BY <1>11 DEF QueueNext, TypeOK
      <3> QED
        BY <3>1, ElemsTail, ElemsType DEF WalkActive
    <2>2. \A v \in Timers : pendpos'[v] = pendpos[v]
      BY <2>1, <1>0, <1>11, AppendPending DEF QueueNext
    <2> QED
      BY <2>2, <1>1, <1>11 DEF QueueNext
  <1>12. CASE ExecuteNext
    <2>1. \A v \in Timers : pendpos'[v] \in {0, pendpos[v]}
      BY <1>0, <1>12, ExecutePending
    <2> QED
      BY <2>1, <1>1, <1>12 DEF ExecuteNext
  <1>13. CASE ExecuteEnd
    BY <1>7, <1>13 DEF ExecuteEnd
  <1>14. ASSUME NEW t \in Timers, evt_timer_init(t) PROVE TimersInv'
    <2>1. /\ t \notin heap /\ UNCHANGED <<heap, started, noticed, pendpos>>
          /\ timestamp' = [timestamp EXCEPT ![t] = AfterOf[t]]
          /\ timestamp \in [Timers -> Nat] /\ heap \subseteq Timers
      BY <1>14 DEF evt_timer_init, TypeOK
    <2>2. \A u \in heap : u # t /\ timestamp'[u] = timestamp[u] /\ (active[u] => active'[u])
      BY <2>1, <1>0, <1>14, ActiveSet DEF evt_timer_init
    <2> QED
      BY <2>1, <2>2
      DEF TimersInv, HeapActive, NotBeforeStart, TimerNotEarly, PeriodKept
  <1>15. ASSUME NEW t \in Timers, evt_timer_start(t) PROVE TimersInv'
    <2>1. /\ heap' = heap \cup {t} /\ pendpos' = pendpos
          /\ timestamp' = [timestamp EXCEPT ![t] = timestamp[t] + catime]
          /\ started' = [started EXCEPT ![t] = timestamp[t] + catime]
          /\ noticed' = [noticed EXCEPT ![t] = NotYet]
          /\ active' = [active EXCEPT ![t] = TRUE] /\ ~active[t]
      BY <1>15 DEF evt_timer_start
    <2>2. /\ timestamp \in [Timers -> Nat] /\ started \in [Timers -> Nat]
          /\ noticed \in [Timers -> Nat \cup {NotYet}] /\ heap \subseteq Timers
      BY DEF TypeOK
    <2>3. pendpos[t] = 0 /\ t \notin heap
      BY <2>1, <1>0 DEF PendingActive, TimersInv, HeapActive
    <2>4. timestamp'[t] = started'[t] /\ started'[t] \in Nat
      BY <2>1, <2>2, <1>2
    <2>5. \A u \in Timers \ {t} : /\ timestamp'[u] = timestamp[u] /\ started'[u] = started[u]
                                  /\ noticed'[u] = noticed[u]
      BY <2>1, <2>2
    <2>6. HeapActive'
      BY <2>1, <2>2, <1>0, ActiveSet DEF TimersInv, HeapActive
    <2>7. NotBeforeStart'
      BY <2>1, <2>2, <2>3, <2>4, <2>5 DEF TimersInv, NotBeforeStart
    <2>8. TimerNotEarly'
      BY <2>1, <2>3, <2>5 DEF TimersInv, TimerNotEarly
    <2>9. PeriodKept'
      <3> SUFFICES ASSUME NEW u \in heap', RepeatOf[u] > 0
                   PROVE  /\ timestamp'[u] >= started'[u]
                          /\ (timestamp'[u] - started'[u]) % RepeatOf[u] = 0
                          /\ timestamp'[u] > started'[u]
                                => timestamp'[u] <= noticed'[u] + RepeatOf[u]
        BY DEF PeriodKept
      <3>1. CASE u = t
        <4>1. timestamp'[u] - started'[u] = 0
          BY <3>1, <2>4
        <4>2. \A r \in Nat : r > 0 => 0 % r = 0
          OBVIOUS
        <4>3. RepeatOf[u] \in Nat
          BY <3>1, TimeAssumption
        <4> QED
          BY <3>1, <4>1, <4>2, <4>3, <2>4
      <3>2. CASE u # t
        BY <3>2, <2>1, <2>2, <2>5 DEF TimersInv, PeriodKept
      <3> QED
        BY <3>1, <3>2
    <2> QED
      BY <2>6, <2>7, <2>8, <2>9 DEF TimersInv
  <1>16. ASSUME NEW t \in Timers, evt_timer_stop(t) PROVE TimersInv'
    <2>1. /\ heap' = heap \ {t} /\ UNCHANGED <<started, timestamp, noticed>>
          /\ heap \subseteq Timers
      BY <1>16 DEF evt_timer_stop, TypeOK
    <2>2. \A u \in heap' : active[u] => active'[u]
      BY <2>1, <1>0, <1>16, ActiveSet DEF evt_timer_stop
    <2>3. \A v \in Timers : pendpos'[v] \in {0, pendpos[v]}
      BY <1>0, <1>16, UnpendPending DEF evt_timer_stop
    <2> QED
      BY <2>1, <2>2, <2>3
      DEF TimersInv, HeapActive, NotBeforeStart, TimerNotEarly, PeriodKept
  <1>17. ASSUME NEW t \in Timers, ExpireTimer(t) PROVE TimersInv'
    <2>1. /\ timestamp \in [Timers -> Nat] /\ started \in [Timers -> Nat]
          /\ noticed \in [Timers -> Nat \cup {NotYet}] /\ heap \subseteq Timers
          /\ RepeatOf \in [Timers -> Nat]
      BY TimeAssumption DEF TypeOK
    <2>2. /\ t \in heap /\ timestamp[t] <= catime
          /\ UNCHANGED <<active, started>> /\ heap' \subseteq heap
          /\ noticed' = [noticed EXCEPT ![t] = catime]
      BY <1>17 DEF ExpireTimer
    <2>3. \A v \in Timers \ {t} : pendpos'[v] = pendpos[v]
      BY <1>0, <1>17, AppendPending DEF ExpireTimer
    <2>4. /\ started[t] <= catime /\ noticed'[t] = catime
          /\ \A u \in Timers \ {t} : noticed'[u] = noticed[u]
      BY <2>1, <2>2, <1>2 DEF TimersInv, NotBeforeStart
    <2>5. TimerNotEarly'
      BY <2>2, <2>3, <2>4 DEF TimersInv, TimerNotEarly
    <2>6. HeapActive'
      BY <2>2 DEF TimersInv, HeapActive
    <2>7. CASE RepeatOf[t] > 0
      <3>1. timestamp' = [timestamp EXCEPT ![t] = timestamp[t] + RepeatOf[t]]
        BY <1>17, <2>7 DEF ExpireTimer
      <3>2. /\ timestamp'[t] = timestamp[t] + RepeatOf[t]
            /\ \A u \in Timers \ {t} : timestamp'[u] = timestamp[u]
        BY <3>1, <2>1
      <3>3. NotBeforeStart'
        <4>1. started[t] <= timestamp[t] + RepeatOf[t]
          BY <2>1, <2>2 DEF TimersInv, NotBeforeStart
        <4> QED
          BY <4>1, <3>2, <2>1, <2>2 DEF TimersInv, NotBeforeStart
      <3>4. PeriodKept'
        <4> SUFFICES ASSUME NEW u \in heap', RepeatOf[u] > 0
                     PROVE  /\ timestamp'[u] >= started'[u]
                            /\ (timestamp'[u] - started'[u]) % RepeatOf[u] = 0
                            /\ timestamp'[u] > started'[u]
                                  => timestamp'[u] <= noticed'[u] + RepeatOf[u]
          BY DEF PeriodKept
        <4>1. CASE u = t
          <5> DEFINE x == timestamp[t] - started[t]
          <5>1. timestamp[t] >= started[t] /\ x % RepeatOf[t] = 0
            BY <2>2, <2>7 DEF TimersInv, PeriodKept
          <5>2. x \in Nat
            BY <2>1, <5>1
          <5>3. timestamp'[t] - started'[t] = x + RepeatOf[t]
            BY <2>1, <2>2, <3>2
          <5> HIDE DEF x
          <5>4. (x + RepeatOf[t]) % RepeatOf[t] = 0
            BY <5>1, <5>2, <2>1, <2>7, OnePeriodMore
          <5>5. timestamp'[t] >= started'[t] /\ timestamp'[t] <= noticed'[t] + RepeatOf[t]
            BY <5>1, <3>2, <2>1, <2>2, <2>4, <1>2
          <5> QED
            BY <4>1, <5>3, <5>4, <5>5
        <4>2. CASE u # t
          BY <4>2, <3>2, <2>1, <2>2, <2>4 DEF TimersInv, PeriodKept
        <4> QED
          BY <4>1, <4>2
      <3> QED
        BY <2>5, <2>6, <3>3, <3>4 DEF TimersInv
    <2>8. CASE ~(RepeatOf[t] > 0)
      <3>1. timestamp' = timestamp
        BY <1>17, <2>8 DEF ExpireTimer
      <3>2. heap' = heap \ {t}
        BY <1>17, <2>8 DEF ExpireTimer
      <3>3. NotBeforeStart'
        BY <3>1, <2>2 DEF TimersInv, NotBeforeStart
      <3>4. PeriodKept'
        BY <3>1, <3>2, <2>1, <2>2, <2>4 DEF TimersInv, PeriodKept
      <3> QED
        BY <2>5, <2>6, <3>3, <3>4 DEF TimersInv
    <2> QED
      BY <2>7, <2>8
  <1>18. CASE UNCHANGED vars
    BY <1>7, <1>18 DEF vars
  <1> QED
    BY <1>4, <1>5, <1>6, <1>8, <1>9, <1>10, <1>11, <1>12, <1>13, <1>14, <1>15, <1>16, <1>17,
       <1>18
    DEF Next, Client, LoopStep
-----------------------------------------------------------------------------
(* Changed descriptors and the backend *)

\* What the loop knows of the masks it gave to epoll.
MaskInv == ChangesQueued /\ PollSettled /\ RegisteredUnlessReused

(* _evt_fd_change puts the descriptor into the queue, once. *)
LEMMA FdChange ==
  ASSUME TypeOK, ChangesQueued, NEW f \in Fds, evt_fd_change(f)
  PROVE  /\ Elems(fds_change') = Elems(fds_change) \cup {f}
         /\ NoDuplicates(fds_change')
         /\ \A g \in Fds : changed'[g] <=> g \in Elems(fds_change')
  <1>1. fds_change \in Seq(Fds) /\ changed \in [Fds -> BOOLEAN]
    BY DEF TypeOK
  <1>2. CASE changed[f]
    BY <1>2 DEF evt_fd_change, ChangesQueued
  <1>3. CASE ~changed[f]
    <2>1. fds_change' = Append(fds_change, f) /\ f \notin Elems(fds_change)
      BY <1>3 DEF evt_fd_change, ChangesQueued
    <2>2. Elems(fds_change') = Elems(fds_change) \cup {f} /\ NoDuplicates(fds_change')
      BY <2>1, <1>1, ElemsAppend DEF ChangesQueued
    <2>3. changed'[f] /\ \A g \in Fds \ {f} : changed'[g] <=> changed[g]
      BY <1>1, <1>3, Zenon DEF evt_fd_change
    <2> QED
      BY <2>2, <2>3 DEF ChangesQueued
  <1> QED
    BY <1>2, <1>3

(* Every change of a descriptor's list queues the descriptor, and the update  *)
(* brings mask, backend and queue into line before the loop sleeps.           *)
LEMMA MaskNext ==
  ASSUME TypeOK, MaskInv, [Next]_vars
  PROVE  MaskInv'
  <1> USE DEF loopVars, pendVars, ioVars, listVars, epollVars, timerVars
  <1>1. ASSUME UNCHANGED <<ioVars, event, reg, reused, open>>, pc' = "poll" => pc = "poll"
        PROVE  MaskInv'
    BY <1>1 DEF MaskInv, ChangesQueued, Want, PollSettled, RegisteredUnlessReused
  <1>2. ASSUME NEW w \in Io, evt_io_start(w) \/ evt_io_stop(w) PROVE MaskInv'
    <2> DEFINE f == FdOf[w]
    <2>1. f \in Fds /\ evq \in [Fds -> Seq(Io)]
      BY IoAssumption DEF TypeOK
    <2>2. evt_fd_change(f) /\ \A g \in Fds \ {f} : evq'[g] = evq[g]
      BY <1>2, <2>1 DEF evt_io_start, evt_io_stop
    <2>3. UNCHANGED <<event, reg, reused, open>> /\ pc' # "poll"
      BY <1>2 DEF evt_io_start, evt_io_stop, ClientMay
    <2> HIDE DEF f
    <2>4. /\ Elems(fds_change') = Elems(fds_change) \cup {f} /\ NoDuplicates(fds_change')
          /\ \A g \in Fds : changed'[g] <=> g \in Elems(fds_change')
      BY <2>1, <2>2, FdChange DEF MaskInv
    <2>5. \A g \in Fds \ {f} : Want(g)' = Want(g)
      BY <2>2 DEF Want
    <2>6. \A g \in Fds : Want(g)' # event'[g] => g \in Elems(fds_change')
      BY <2>3, <2>4, <2>5 DEF MaskInv, ChangesQueued
    <2>7. ChangesQueued'
      BY <2>4, <2>6 DEF ChangesQueued
    <2> QED
      BY <2>3, <2>7 DEF MaskInv, PollSettled, RegisteredUnlessReused
  <1>3. ASSUME NEW f \in Fds, CloseFd(f) \/ OpenFd(f) PROVE MaskInv'
    <2>1. UNCHANGED <<ioVars, event>> /\ pc' # "poll"
      BY <1>3 DEF CloseFd, OpenFd, ClientMay
    <2>2. ChangesQueued' /\ PollSettled'
      BY <2>1 DEF MaskInv, ChangesQueued, Want, PollSettled
    <2>3. RegisteredUnlessReused'
      <3>1. CASE CloseFd(f)
        <4>1. /\ open' = open \ {f} /\ reused' = reused /\ reg \in [Fds -> SUBSET Ev]
              /\ reg' = [reg EXCEPT ![f] = {}] /\ open \subseteq Fds
          BY <3>1 DEF CloseFd, TypeOK
        <4> QED
          BY <4>1, <2>1 DEF MaskInv, RegisteredUnlessReused
      <3>2. CASE OpenFd(f)
        <4>1. /\ open' = open \cup {f} /\ reg' = reg
              /\ reused' = IF event[f] # {} THEN reused \cup {f} ELSE reused
          BY <3>2 DEF OpenFd
        <4> QED
          BY <4>1, <2>1 DEF MaskInv, RegisteredUnlessReused
      <3> QED
        BY <1>3, <3>1, <3>2
    <2> QED
      BY <2>2, <2>3 DEF MaskInv
  <1>4. ASSUME NEW w \in Befores, evt_before_start(w) \/ evt_before_stop(w) PROVE MaskInv'
    BY <1>1, <1>4 DEF evt_before_start, evt_before_stop
  <1>5. ASSUME NEW w \in Afters, evt_after_start(w) \/ evt_after_stop(w) PROVE MaskInv'
    BY <1>1, <1>5 DEF evt_after_start, evt_after_stop
  <1>6. ASSUME NEW t \in Timers, evt_timer_init(t) \/ evt_timer_start(t) \/ evt_timer_stop(t)
                                 \/ ExpireTimer(t)
        PROVE  MaskInv'
    BY <1>1, <1>6 DEF evt_timer_init, evt_timer_start, evt_timer_stop, ExpireTimer
  <1>7. CASE evt_loop_quit \/ evt_loop_run \/ LoopTop \/ QueueEnd \/ CallbackReturns
    BY <1>1, <1>7 DEF evt_loop_quit, evt_loop_run, LoopTop, QueueEnd, CallbackReturns
  <1>8. CASE epoll_wait \/ DispatchEnd \/ ExpireEnd \/ LoopEnd
    BY <1>1, <1>8 DEF epoll_wait, DispatchEnd, ExpireEnd, LoopEnd
  <1>9. CASE QueueNext \/ ExecuteNext \/ ExecuteEnd
    BY <1>1, <1>9 DEF QueueNext, ExecuteNext, ExecuteEnd
  <1>10. CASE evt_update_fdchanges
    <2> DEFINE differs == {f \in Elems(fds_change) : event[f] # Want(f)}
    <2>1. /\ event' = [f \in Fds |-> IF f \in differs THEN Want(f) ELSE event[f]]
          /\ reg' = [f \in Fds |-> IF f \in differs
                                   THEN epoll_update(f, event[f], Want(f)) ELSE reg[f]]
          /\ reused' = reused \ differs
          /\ changed' = [f \in Fds |-> IF f \in Elems(fds_change) THEN FALSE ELSE changed[f]]
          /\ fds_change' = << >> /\ evq' = evq /\ open' = open
      BY <1>10 DEF evt_update_fdchanges
    <2>2. Elems(fds_change') = {} /\ NoDuplicates(fds_change')
      BY <2>1, ElemsEmpty
    <2>3. \A f \in Fds : Want(f)' = Want(f)
      BY <2>1 DEF Want
    <2>4. \A f \in Fds : event'[f] = Want(f)
      BY <2>1 DEF MaskInv, ChangesQueued
    <2>5. \A f \in Fds : ~changed'[f]
      <3> TAKE f \in Fds
      <3>1. CASE f \in Elems(fds_change)
        BY <3>1, <2>1, Zenon
      <3>2. CASE f \notin Elems(fds_change)
        <4>1. ~changed[f]
          BY <3>2 DEF MaskInv, ChangesQueued
        <4>2. changed'[f] = changed[f]
          BY <3>2, <2>1
        <4> QED
          BY <4>1, <4>2
      <3> QED
        BY <3>1, <3>2
    <2>6. RegisteredUnlessReused'
      <3> SUFFICES ASSUME NEW f \in open \ reused' PROVE event'[f] \subseteq reg'[f]
        BY <2>1 DEF RegisteredUnlessReused
      <3>1. f \in Fds
        BY DEF TypeOK
      <3>2. CASE f \in differs
        <4>1. event'[f] = Want(f) /\ reg'[f] = epoll_update(f, event[f], Want(f))
          BY <3>1, <3>2, <2>1
        <4> QED
          BY <4>1 DEF epoll_update
      <3>3. CASE f \notin differs
        <4>1. event'[f] = event[f] /\ reg'[f] = reg[f] /\ f \notin reused
          BY <3>1, <3>3, <2>1
        <4> QED
          BY <4>1 DEF MaskInv, RegisteredUnlessReused
      <3> QED
        BY <3>2, <3>3
    <2>7. ChangesQueued'
      BY <2>2, <2>3, <2>4, <2>5 DEF ChangesQueued
    <2> QED
      BY <2>1, <2>6, <2>7 DEF MaskInv, PollSettled
  <1>11. ASSUME NEW f \in Fds, epoll_dispatch(f) PROVE MaskInv'
    <2>1. UNCHANGED <<ioVars, event, reused, open, pc>> /\ pc # "poll"
      BY <1>11 DEF epoll_dispatch
    <2>2. ChangesQueued' /\ PollSettled'
      BY <2>1 DEF MaskInv, ChangesQueued, Want, PollSettled
    <2>3. \A g \in Fds : reg'[g] = reg[g] \/ reg'[g] = event[g]
      BY <1>11 DEF epoll_dispatch, TypeOK
    <2>4. RegisteredUnlessReused'
      BY <2>1, <2>3 DEF MaskInv, RegisteredUnlessReused, TypeOK
    <2> QED
      BY <2>2, <2>4 DEF MaskInv
  <1>12. CASE UNCHANGED vars
    BY <1>1, <1>12 DEF vars
  <1> QED
    BY <1>2, <1>3, <1>4, <1>5, <1>6, <1>7, <1>8, <1>9, <1>10, <1>11, <1>12
    DEF Next, Client, LoopStep

-----------------------------------------------------------------------------
(* The theorems *)

\* All of it together is inductive.
LoopInv ==
    /\ TypeOK
    /\ PendingConsistent /\ PendingActive /\ WalkActive
    /\ LinkedIffActive /\ QueueOfFd
    /\ TimersInv
    /\ MaskInv

(* evt_loop_init_flag establishes the invariant. *)
LEMMA LoopInit == evt_loop_init => LoopInv
  <1> SUFFICES ASSUME evt_loop_init PROVE LoopInv
    OBVIOUS
  <1>1. TypeOK
    BY TypeInit
  <1>2. PendingConsistent /\ PendingActive
    BY DEF evt_loop_init, PendingConsistent, PendingActive
  <1>3. /\ WalkActive /\ LinkedIffActive /\ QueueOfFd
    <2>1. \A w \in Watchers : ~active[w]
      BY Zenon DEF evt_loop_init
    <2>2. /\ todo = << >> /\ before_evtq = << >> /\ after_evtq = << >>
          /\ \A f \in Fds : evq[f] = << >>
      BY DEF evt_loop_init
    <2>3. \A w \in Io : FdOf[w] \in Fds
      BY IoAssumption
    <2> QED
      BY <2>1, <2>2, <2>3, ElemsEmpty DEF WalkActive, LinkedIffActive, QueueOfFd, Watchers
  <1>4. TimersInv
    BY DEF evt_loop_init, TimersInv, HeapActive, NotBeforeStart, TimerNotEarly, PeriodKept,
           Watchers
  <1>5. MaskInv
    <2>1. \A f \in Fds : ~changed[f]
      BY Zenon DEF evt_loop_init
    <2>2. \A f \in Fds : Want(f) = {} /\ event[f] = {}
      BY ElemsEmpty DEF evt_loop_init, Want
    <2> QED
      BY <2>1, <2>2, ElemsEmpty
      DEF evt_loop_init, MaskInv, ChangesQueued, PollSettled, RegisteredUnlessReused
  <1> QED
    BY <1>1, <1>2, <1>3, <1>4, <1>5 DEF LoopInv

(* The inductive invariant holds in every state of the loop. *)
THEOREM LoopInvariant == Spec => []LoopInv
  <1>1. LoopInv /\ [Next]_vars => LoopInv'
    BY TypeNext, PendingNext, WalkNext, LinkedNext, TimersNext, MaskNext
    DEF LoopInv, TimersInv
  <1> QED
    BY LoopInit, <1>1, PTL DEF Spec

(* Every variable keeps its type. *)
THEOREM TypeCorrect == Spec => []TypeOK
  <1>1. LoopInv => TypeOK
    BY DEF LoopInv
  <1> QED
    BY <1>1, LoopInvariant, PTL

(* pendpos of a watcher and the slots not yet executed name each other.       *)
THEOREM PendingAgrees == Spec => []PendingConsistent
  <1>1. LoopInv => PendingConsistent
    BY DEF LoopInv
  <1> QED
    BY <1>1, LoopInvariant, PTL

(* The lists hold exactly the active watchers of their kind, each once, after *)
(* any sequence of starts and stops, inside callbacks too; an active timer is *)
(* in the heap, or is a one-shot timer that evt_loop_run took out of it when  *)
(* the time was at its deadline or past it.                                   *)
THEOREM Linked == Spec => []LinkedIffActive
  <1>1. LoopInv => LinkedIffActive
    BY DEF LoopInv
  <1> QED
    BY <1>1, LoopInvariant, PTL

(* After evt_*_stop the loop holds no reference to the watcher, in no list, no *)
(* slot and no walk under way: the client may free it.                        *)
THEOREM NoReferenceToStopped == Spec => []NoDanglingReference
  <1>1. LoopInv => NoDanglingReference
    <2> SUFFICES ASSUME LoopInv, NEW w \in Referenced PROVE active[w]
      BY DEF NoDanglingReference
    <2>1. CASE w \in {pending[i] : i \in (j + 1) .. Len(pending)} \ {Empty}
      <3>1. PICK i \in (j + 1) .. Len(pending) : w = pending[i] /\ w # Empty
        BY <2>1
      <3>2. i \in 1 .. Len(pending) /\ i # 0
        BY DEF LoopInv, TypeOK
      <3>3. w \in Watchers
        BY <3>1, <3>2 DEF LoopInv, TypeOK
      <3>4. pendpos[w] = i
        BY <3>1 DEF LoopInv, PendingConsistent
      <3> QED
        BY <3>2, <3>3, <3>4 DEF LoopInv, PendingActive
    <2>2. CASE w \in Elems(todo) \cup heap
      BY <2>2 DEF LoopInv, WalkActive, TimersInv, HeapActive
    <2>3. CASE w \in Elems(before_evtq) \cup Elems(after_evtq)
      BY <2>3, ElemsType DEF LoopInv, LinkedIffActive, TypeOK
    <2>4. ASSUME NEW f \in Fds, w \in Elems(evq[f]) PROVE active[w]
      <3>1. evq[f] \in Seq(Io)
        BY DEF LoopInv, TypeOK
      <3>2. w \in Io /\ FdOf[w] = f
        BY <2>4, <3>1, ElemsType DEF LoopInv, QueueOfFd
      <3> QED
        BY <2>4, <3>2 DEF LoopInv, LinkedIffActive
    <2> QED
      BY <2>1, <2>2, <2>3, <2>4 DEF Referenced
  <1> QED
    BY <1>1, LoopInvariant, PTL

(* A descriptor whose watchers want something other than what the backend was *)
(* told is in the change queue, once.                                         *)
THEOREM NoChangeLost == Spec => []ChangesQueued
  <1>1. LoopInv => ChangesQueued
    BY DEF LoopInv, MaskInv
  <1> QED
    BY <1>1, LoopInvariant, PTL

(* Whenever the loop sleeps in epoll_wait, epoll watches all that the started *)
(* watchers want, except on the descriptors that were closed and reopened     *)
(* behind the loop's back.                                                    *)
THEOREM Watched == Spec => []WatchedUnlessReused
  <1>1. LoopInv => WatchedUnlessReused
    <2> SUFFICES ASSUME LoopInv, pc = "poll", NEW f \in open \ reused
                 PROVE  Want(f) \subseteq reg[f]
      BY DEF WatchedUnlessReused
    <2>1. f \in Fds /\ Elems(fds_change) = {}
      BY ElemsEmpty DEF LoopInv, TypeOK, MaskInv, PollSettled
    <2>2. Want(f) = event[f]
      BY <2>1 DEF LoopInv, MaskInv, ChangesQueued
    <2> QED
      BY <2>2 DEF LoopInv, MaskInv, RegisteredUnlessReused
  <1> QED
    BY <1>1, LoopInvariant, PTL

(* A timer's callback is never queued before the time has been at its         *)
(* deadline, however the time of day is set.                                  *)
THEOREM NotEarly == Spec => []TimerNotEarly
  <1>1. LoopInv => TimerNotEarly
    BY DEF LoopInv, TimersInv
  <1> QED
    BY <1>1, LoopInvariant, PTL

(* A repeating timer keeps its phase however late the loop is. *)
THEOREM Period == Spec => []PeriodKept
  <1>1. LoopInv => PeriodKept
    BY DEF LoopInv, TimersInv
  <1> QED
    BY <1>1, LoopInvariant, PTL

(* _evt_execute_pending calls back active watchers only, and a timer only if  *)
(* the time had reached the deadline of its last start when the loop queued   *)
(* it: between the queueing and the call neither a stop nor a restart inside  *)
(* another callback can break this.                                           *)
THEOREM CallsAreDue ==
  Spec => [][ExecuteNext => LET eb == pending[j + 1]
                            IN  \/ eb = Empty
                                \/ /\ active[eb]
                                   /\ eb \in Timers => started[eb] <= noticed[eb]]_vars
  <1> DEFINE eb == pending[j + 1]
             Due == eb = Empty \/ (active[eb] /\ (eb \in Timers => started[eb] <= noticed[eb]))
  <1>1. LoopInv /\ [Next]_vars => [ExecuteNext => Due]_vars
    <2> SUFFICES ASSUME LoopInv, ExecuteNext, eb # Empty
                 PROVE  active[eb] /\ (eb \in Timers => started[eb] <= noticed[eb])
      OBVIOUS
    <2>1. j + 1 \in (j + 1) .. Len(pending) /\ j + 1 \in 1 .. Len(pending) /\ j + 1 # 0
      BY DEF LoopInv, TypeOK, ExecuteNext
    <2>2. eb \in Watchers /\ pendpos[eb] = j + 1
      BY <2>1 DEF LoopInv, TypeOK, PendingConsistent
    <2> QED
      BY <2>1, <2>2 DEF LoopInv, PendingActive, TimersInv, TimerNotEarly
  <1> QED
    BY <1>1, LoopInvariant, PTL DEF Spec
=============================================================================
