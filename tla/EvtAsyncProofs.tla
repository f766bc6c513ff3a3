--------------------------- MODULE EvtAsyncProofs ---------------------------
(* The invariants of what other threads ask of a loop, for any number of      *)
(* threads and asyncs.                                                        *)
(*                                                                            *)
(* AsyncInv says how the loop's list and the detached one hang together while *)
(* a call is between two of its steps: who has the mutex, that a started      *)
(* async belongs to one call until it is linked, that the pointers make no    *)
(* circle and that the two lists have no async in common. Nothing can be lost *)
(* or run twice because of these. EndInv adds why status can be trusted at    *)
(* the end of the loop when the loop is destroyed by its own thread or while  *)
(* it does not run.                                                           *)
EXTENDS EvtAsync, SplstProofs, TLAPS

\* Asyncs are started by other threads, on a loop that has an owner: every
\* caller of evt_async_start takes the lock.
LockedStarts == ~EarlyStart /\ ~LoopStart

Starting == {"lock", "add", "link"}

\* Whoever changes the list has the mutex.
MutexHeld ==
    /\ \A t \in AllThreads : tpc[t] \in {"add", "link", "unlink"} => mutex = t
    /\ lpc \in {"take", "takenull"} => mutex = Loop

\* A call under way has the async to itself until it is linked.
Calling ==
    /\ tpc[Loop] \notin Starting \cup {"wakeup", "stoplock", "unlink"}
    /\ \A t \in AllThreads :
          /\ tpc[t] \in Starting => ev[t] \in Asyncs \ added /\ active[ev[t]]
          /\ tpc[t] = "link" => next[ev[t]] = head
          /\ tpc[t] = "wakeup" => ev[t] \in added
          /\ tpc[t] \in {"stoplock", "unlink"} => ev[t] \in woken
    /\ \A t, u \in AllThreads :
          tpc[t] \in Starting /\ tpc[u] \in Starting /\ ev[t] = ev[u] => t = u

\* The pointers lead to asyncs that were linked and never in a circle.
Linked ==
    /\ Acyclic(next)
    /\ \A b \in Asyncs : next[b] \in added \cup {Nil}
    /\ head \in added \cup {Nil} /\ async_head \in added \cup {Nil}

\* The loop's list and the detached one have no async in common, except while
\* _evt_do_wakeup moves the one to the other.
Detached ==
    /\ async_head # Nil => lpc \in {"takenull", "walk", "callback", "freed"}
    /\ async_now # Nil => lpc \in {"callback", "freed"}
    /\ lpc = "callback" /\ async_now = Nil => async_head = Nil
    /\ lpc = "takenull" => async_head = head
    /\ lpc \notin {"takenull", "freed"} => Chain(head) \cap Chain(async_head) = {}

\* What is listed has neither run nor been cleaned; what has run is cleaned
\* unless its callback is still running.
Once ==
    \A a \in Asyncs :
        /\ called[a] <= 1 /\ cleaned[a] <= 1
        /\ called[a] # 0 \/ cleaned[a] # 0 => a \in added
        /\ ~Freed => /\ a \in Chain(head) \cup Chain(async_head) =>
                            called[a] = 0 /\ cleaned[a] = 0
                     /\ async_now = a <=> called[a] = 1 /\ cleaned[a] = 0

ListInv == Linked /\ Detached /\ Once /\ NoAsyncLost /\ WakeupPending

AsyncInv == TypeOK /\ MutexHeld /\ Calling /\ ListInv

-----------------------------------------------------------------------------
(* A freed loop changes no more. *)
LEMMA FreedFrozen == ASSUME Freed, [Next]_vars PROVE UNCHANGED vars
  <1> USE DEF Freed
  <1>1. ASSUME NEW t \in AllThreads, Call(t) PROVE FALSE
    BY <1>1 DEF Call, evt_async_start, evt_async_stop, evt_loop_quit, evt_loop_destroy, MayCall
  <1>2. ASSUME NEW t \in AllThreads, CallStep(t) PROVE FALSE
    BY <1>2 DEF CallStep, Goto, StartLock, AddNext, AddHead, evt_loop_wakeup, StopLock,
       StopUnlink, QuitLoad, QuitStore, QuitWakeup, WaitDestroyLoad, WaitDestroyStore,
       DestroyFree
  <1>3. CASE evt_loop_run \/ PollOther
    BY <1>3 DEF evt_loop_run, PollOther, LoopGoto
  <1>4. CASE LoopStep
    BY <1>4 DEF LoopStep, LoopGoto, RunStatus, TestQuit, PollHit, TestQuitPolled, DoWakeup,
       ReadEvtfd, TakeLock, TakeHead, TakeNull, Walk, WalkEnd, CallbackReturns, EndLoad,
       EndStore, RunReturns
  <1> QED
    BY <1>1, <1>2, <1>3, <1>4 DEF Next

(* A loop is freed by the end of evt_loop_destroy or of evt_loop_run. *)
LEMMA FreeingSteps ==
  ASSUME ~Freed, Next, Freed'
  PROVE  \/ \E t \in AllThreads : DestroyFree(t)
         \/ RunReturns /\ "WAITDESTROY" \in status /\ "RUNNING" \notin status
  <1> USE DEF Freed, loopVars
  <1>1. ASSUME NEW t \in AllThreads, Call(t) PROVE FALSE
    BY <1>1 DEF Call, evt_async_start, evt_async_stop, evt_loop_quit, evt_loop_destroy
  <1>2. ASSUME NEW t \in AllThreads, CallStep(t) PROVE DestroyFree(t)
    BY <1>2 DEF CallStep, StartLock, AddNext, AddHead, evt_loop_wakeup, StopLock,
       StopUnlink, QuitLoad, QuitStore, QuitWakeup, WaitDestroyLoad, WaitDestroyStore
  <1>3. CASE evt_loop_run \/ PollOther
    BY <1>3 DEF evt_loop_run, PollOther, LoopGoto
  <1>4. CASE LoopStep
    BY <1>4 DEF LoopStep, LoopGoto, RunStatus, TestQuit, PollHit, TestQuitPolled, DoWakeup,
       ReadEvtfd, TakeLock, TakeHead, TakeNull, Walk, WalkEnd, CallbackReturns, EndLoad,
       EndStore, RunReturns
  <1> QED
    BY <1>1, <1>2, <1>3, <1>4 DEF Next

(* A loop just initialised satisfies the invariant. *)
LEMMA AsyncInit == Init => AsyncInv
  <1> SUFFICES ASSUME Init PROVE AsyncInv
    OBVIOUS
  <1> USE ThreadsAssumption, BoundAssumption DEF Init
  <1>1. TypeOK
    <2>1. evtfd \in BOOLEAN /\ hit \in BOOLEAN /\ active \in [Asyncs -> BOOLEAN]
      BY Zenon
    <2>2. /\ tpc \in [AllThreads -> ThreadPC] /\ ev \in [AllThreads -> Asyncs \cup {Nil}]
          /\ tmp \in [AllThreads -> SUBSET StatusBits]
      BY DEF ThreadPC
    <2>3. /\ called \in [Asyncs -> Nat] /\ cleaned \in [Asyncs -> Nat] /\ runs \in 0 .. MaxRuns
          /\ next \in [Asyncs -> Asyncs \cup {Nil}]
      OBVIOUS
    <2>4. lpc \in LoopPC /\ status \subseteq StatusBits
      BY DEF LoopPC, StatusBits
    <2> QED
      BY <2>1, <2>2, <2>3, <2>4 DEF TypeOK
  <1>2. MutexHeld /\ Calling
    BY DEF MutexHeld, Calling, Starting, AllThreads
  <1>3. Chain(head) = {} /\ Chain(async_head) = {}
    BY ReachEnd DEF Chain
  <1>4. Linked
    <2>1. DOMAIN next = Asyncs /\ \A a \in Asyncs : next[a] = Nil
      OBVIOUS
    <2>2. Acyclic(next)
      BY <2>1, ReachEnd DEF Acyclic
    <2> QED
      BY <2>1, <2>2 DEF Linked
  <1>5. Detached /\ NoAsyncLost /\ WakeupPending
    BY <1>3 DEF Detached, NoAsyncLost, WakeupPending
  <1>6. Once
    BY <1>3 DEF Once
  <1> QED
    BY <1>1, <1>2, <1>4, <1>5, <1>6 DEF AsyncInv, ListInv

(* Every step keeps the types. *)
LEMMA AsyncType == ASSUME TypeOK, Calling, Detached, [Next]_vars PROVE TypeOK'
  <1> USE ThreadsAssumption, BoundAssumption
      DEF TypeOK, Goto, LoopGoto, listVars, histVars, loopVars, threadVars
  <1>0. Loop \in AllThreads
    BY DEF AllThreads
  <1>1. ASSUME NEW t \in AllThreads, NEW a \in Asyncs, evt_async_start(t, a) \/ evt_async_stop(t, a)
        PROVE  TypeOK'
    <2>1. active' \in [Asyncs -> BOOLEAN]
      BY <1>1, Zenon DEF evt_async_start, evt_async_stop
    <2>2. tpc' \in [AllThreads -> ThreadPC] /\ ev' \in [AllThreads -> Asyncs \cup {Nil}]
      BY <1>1 DEF evt_async_start, evt_async_stop, ThreadPC
    <2>3. UNCHANGED <<owner, status, evtfd, head, next, mutex, loopVars, tmp, histVars>>
      BY <1>1 DEF evt_async_start, evt_async_stop
    <2> QED
      BY <2>1, <2>2, <2>3
  <1>2. ASSUME NEW t \in AllThreads, evt_loop_quit(t) \/ evt_loop_destroy(t) PROVE TypeOK'
    BY <1>2 DEF evt_loop_quit, evt_loop_destroy, ThreadPC
  <1>3. ASSUME NEW t \in AllThreads, StartLock(t) \/ StopLock(t) PROVE TypeOK'
    BY <1>3 DEF StartLock, StopLock, ThreadPC
  <1>4. ASSUME NEW t \in AllThreads, AddNext(t) PROVE TypeOK'
    BY <1>4 DEF AddNext, ThreadPC
  <1>5. ASSUME NEW t \in AllThreads, AddHead(t) PROVE TypeOK'
    <2>1. ev[t] \in Asyncs
      BY <1>5 DEF AddHead, Calling, Starting
    <2> QED
      BY <1>5, <2>1 DEF AddHead, ThreadPC
  <1>6. ASSUME NEW t \in AllThreads, evt_loop_wakeup(t) PROVE TypeOK'
    <2>1. ev[t] \in added /\ evtfd' = TRUE
      BY <1>6 DEF evt_loop_wakeup, Calling
    <2> QED
      BY <1>6, <2>1 DEF evt_loop_wakeup, ThreadPC
  <1>7. ASSUME NEW t \in AllThreads, StopUnlink(t) PROVE TypeOK'
    <2>1. ev[t] \in woken
      BY <1>7 DEF StopUnlink, Calling
    <2>2. next' \in [Asyncs -> Asyncs \cup {Nil}]
      BY <1>7, <2>1 DEF StopUnlink, Unlinked
    <2>3. head' \in Asyncs \cup {Nil}
      BY <1>7, <2>1 DEF StopUnlink
    <2>4. stopped' = stopped \cup {ev[t]} /\ tpc' = [tpc EXCEPT ![t] = "idle"] /\ mutex' = Nil
          /\ ev' = [ev EXCEPT ![t] = Nil]
          /\ UNCHANGED <<owner, status, evtfd, active, loopVars, tmp, added, woken,
                         called, cleaned>>
      BY <1>7 DEF StopUnlink
    <2> QED
      BY <2>1, <2>2, <2>3, <2>4 DEF ThreadPC
  <1>8. ASSUME NEW t \in AllThreads, QuitLoad(t) \/ WaitDestroyLoad(t) PROVE TypeOK'
    BY <1>8 DEF QuitLoad, WaitDestroyLoad, ThreadPC
  <1>9. ASSUME NEW t \in AllThreads, QuitStore(t) \/ WaitDestroyStore(t) PROVE TypeOK'
    BY <1>9 DEF QuitStore, WaitDestroyStore, ThreadPC, StatusBits
  <1>10. ASSUME NEW t \in AllThreads, QuitWakeup(t) PROVE TypeOK'
    <2>1. evtfd' \in BOOLEAN
      BY <1>10, Zenon DEF QuitWakeup
    <2> QED
      BY <1>10, <2>1 DEF QuitWakeup, ThreadPC
  <1>11. ASSUME Destroyed PROVE lpc' \in LoopPC /\ cleaned' \in [Asyncs -> Nat]
    BY <1>11 DEF Destroyed, LoopPC
  <1>12. ASSUME NEW t \in AllThreads, DestroyFree(t) PROVE TypeOK'
    BY <1>11, <1>12 DEF DestroyFree, ThreadPC
  <1>13. CASE evt_loop_run
    BY <1>13 DEF evt_loop_run, LoopPC
  <1>14. CASE RunStatus
    BY <1>14 DEF RunStatus, LoopPC, StatusBits
  <1>15. CASE PollHit \/ PollOther \/ TestQuitPolled
    <2>1. hit' \in BOOLEAN
      BY <1>15, Zenon DEF PollHit, PollOther, TestQuitPolled
    <2> QED
      BY <1>15, <2>1 DEF PollHit, PollOther, TestQuitPolled, LoopPC
  <1>16. CASE TestQuit \/ DoWakeup \/ WalkEnd
    BY <1>16 DEF TestQuit, DoWakeup, WalkEnd, LoopPC
  <1>17. CASE ReadEvtfd
    BY <1>17 DEF ReadEvtfd, LoopPC
  <1>18. CASE TakeLock \/ TakeHead \/ TakeNull
    BY <1>0, <1>18 DEF TakeLock, TakeHead, TakeNull, LoopPC
  <1>19. CASE Walk
    BY <1>19 DEF Walk, LoopPC
  <1>20. CASE CallbackReturns
    BY <1>20 DEF CallbackReturns, LoopPC
  <1>21. CASE EndLoad
    BY <1>0, <1>21 DEF EndLoad, LoopPC
  <1>22. CASE EndStore
    BY <1>0, <1>22 DEF EndStore, LoopPC, StatusBits
  <1>23. CASE RunReturns
    <2>1. tpc' \in [AllThreads -> ThreadPC]
      BY <1>0, <1>23 DEF RunReturns, ThreadPC
    <2>2. lpc' \in LoopPC /\ cleaned' \in [Asyncs -> Nat]
      BY <1>11, <1>23 DEF RunReturns, LoopPC
    <2> QED
      BY <1>23, <2>1, <2>2 DEF RunReturns
  <1>24. CASE UNCHANGED vars
    BY <1>24 DEF vars
  <1> QED
    BY <1>1, <1>2, <1>3, <1>4, <1>5, <1>6, <1>7, <1>8, <1>9, <1>10, <1>12, <1>13, <1>14,
       <1>15, <1>16, <1>17, <1>18, <1>19, <1>20, <1>21, <1>22, <1>23, <1>24
    DEF Next, Call, CallStep, LoopStep
-----------------------------------------------------------------------------
(* The mutex and the calls *)

(* A step of thread t moves t only. *)
LEMMA Moved ==
  ASSUME TypeOK, NEW t \in AllThreads, NEW to, tpc' = [tpc EXCEPT ![t] = to]
  PROVE  tpc'[t] = to /\ \A u \in AllThreads \ {t} : tpc'[u] = tpc[u]
  BY DEF TypeOK

(* Every step leaves the mutex with the thread that changes the list. *)
LEMMA MutexNext ==
  ASSUME LockedStarts, TypeOK, MutexHeld, Calling, [Next]_vars
  PROVE  MutexHeld'
  <1> USE ThreadsAssumption DEF listVars, histVars, loopVars, threadVars
  <1> DEFINE InList == {"add", "link", "unlink"}
  <1>0. Loop \in AllThreads /\ Nil \notin AllThreads
    BY DEF AllThreads
  <1>1. ASSUME NEW t \in AllThreads, NEW to, tpc' = [tpc EXCEPT ![t] = to],
               to \in InList => mutex' = t,
               mutex' = mutex \/ mutex = Nil \/ (mutex = t /\ t # Loop), lpc' = lpc
        PROVE  MutexHeld'
    <2>1. /\ tpc'[t] = to /\ \A u \in AllThreads \ {t} : tpc'[u] = tpc[u]
      BY <1>1, Moved
    <2> QED
      BY <2>1, <1>0, <1>1 DEF MutexHeld
  <1>2. ASSUME NEW t \in AllThreads, NEW a \in Asyncs, evt_async_start(t, a) PROVE MutexHeld'
    <2>1. t # Loop /\ owner # Nil /\ owner \in {Nil, Loop}
      BY <1>2 DEF evt_async_start, LockedStarts, TypeOK
    <2>2. tpc' = [tpc EXCEPT ![t] = "lock"]
      BY <1>2, <2>1 DEF evt_async_start
    <2> QED
      BY <1>1, <1>2, <2>2 DEF evt_async_start
  <1>3. ASSUME NEW t \in AllThreads, NEW a \in Asyncs, evt_async_stop(t, a) PROVE MutexHeld'
    BY <1>1, <1>3 DEF evt_async_stop
  <1>4. ASSUME NEW t \in AllThreads, evt_loop_quit(t) PROVE MutexHeld'
    BY <1>1, <1>4 DEF evt_loop_quit, Goto
  <1>5. ASSUME NEW t \in AllThreads, evt_loop_destroy(t) PROVE MutexHeld'
    <2>1. \/ tpc' = [tpc EXCEPT ![t] = "waitload"]
          \/ tpc' = [tpc EXCEPT ![t] = "destroy"]
      BY <1>5 DEF evt_loop_destroy, Goto
    <2> QED
      BY <1>1, <1>5, <2>1 DEF evt_loop_destroy
  <1>6. ASSUME NEW t \in AllThreads, StartLock(t) \/ StopLock(t) PROVE MutexHeld'
    BY <1>1, <1>6 DEF StartLock, StopLock, Goto
  <1>7. ASSUME NEW t \in AllThreads, AddNext(t) PROVE MutexHeld'
    <2>1. mutex = t
      BY <1>7 DEF AddNext, Goto, MutexHeld
    <2> QED
      BY <1>1, <1>7, <2>1 DEF AddNext, Goto
  <1>8. ASSUME NEW t \in AllThreads, AddHead(t) \/ StopUnlink(t) PROVE MutexHeld'
    <2>1. mutex = t /\ t # Loop
      BY <1>8 DEF AddHead, StopUnlink, Goto, MutexHeld, Calling, Starting
    <2> QED
      BY <1>1, <1>8, <2>1 DEF AddHead, StopUnlink, Goto
  <1>9. ASSUME NEW t \in AllThreads, evt_loop_wakeup(t) \/ QuitLoad(t) \/ QuitStore(t)
                                     \/ QuitWakeup(t)
        PROVE  MutexHeld'
    BY <1>1, <1>9 DEF evt_loop_wakeup, QuitLoad, QuitStore, QuitWakeup, Goto
  <1>10. ASSUME NEW t \in AllThreads, WaitDestroyLoad(t) \/ WaitDestroyStore(t)
         PROVE  MutexHeld'
    BY <1>1, <1>10 DEF WaitDestroyLoad, WaitDestroyStore, Goto
  <1>11. ASSUME NEW t \in AllThreads, DestroyFree(t) PROVE MutexHeld'
    <2>1. /\ tpc'[t] = "idle" /\ \A u \in AllThreads \ {t} : tpc'[u] = tpc[u]
          /\ mutex' = mutex /\ lpc' = "freed"
      BY <1>11, Moved DEF DestroyFree, Destroyed, Goto
    <2> QED
      BY <2>1 DEF MutexHeld
  <1>12. CASE evt_loop_run \/ RunStatus \/ TestQuit \/ PollHit \/ PollOther \/ TestQuitPolled
              \/ DoWakeup \/ ReadEvtfd
    <2>1. UNCHANGED <<tpc, mutex>> /\ lpc' \notin {"take", "takenull"}
      BY <1>12 DEF evt_loop_run, RunStatus, TestQuit, PollHit, PollOther, TestQuitPolled,
         DoWakeup, ReadEvtfd, LoopGoto
    <2> QED
      BY <2>1 DEF MutexHeld
  <1>13. CASE Walk \/ WalkEnd \/ CallbackReturns \/ EndLoad \/ EndStore
    <2>1. UNCHANGED <<tpc, mutex>> /\ lpc' \notin {"take", "takenull"}
      BY <1>13 DEF Walk, WalkEnd, CallbackReturns, EndLoad, EndStore, LoopGoto
    <2> QED
      BY <2>1 DEF MutexHeld
  <1>14. CASE TakeLock \/ TakeHead
    BY <1>0, <1>14 DEF TakeLock, TakeHead, LoopGoto, MutexHeld
  <1>15. CASE TakeNull
    <2>1. UNCHANGED tpc /\ mutex = Loop /\ lpc' = "walk"
      BY <1>15 DEF TakeNull, LoopGoto, MutexHeld
    <2>2. tpc[Loop] \notin InList
      BY DEF Calling, Starting
    <2> QED
      BY <2>1, <2>2 DEF MutexHeld
  <1>16. CASE UNCHANGED vars
    BY <1>16 DEF vars, MutexHeld
  <1>17. CASE RunReturns
    <2>1. /\ mutex' = mutex /\ lpc' \notin {"take", "takenull"}
          /\ tpc' = tpc \/ tpc' = [tpc EXCEPT ![Loop] = "waitload"]
      BY <1>17 DEF RunReturns, Destroyed
    <2>2. \A u \in AllThreads : tpc'[u] \in {tpc[u], "waitload"}
      BY <2>1, <1>0, Moved
    <2> QED
      BY <2>1, <2>2 DEF MutexHeld
  <1> QED
    BY <1>2, <1>3, <1>4, <1>5, <1>6, <1>7, <1>8, <1>9, <1>10, <1>11, <1>12, <1>13, <1>14,
       <1>15, <1>16, <1>17
    DEF Next, Call, CallStep, LoopStep

(* Every step leaves the asyncs of the other calls alone. *)
LEMMA CallingNext ==
  ASSUME LockedStarts, TypeOK, MutexHeld, Calling, [Next]_vars
  PROVE  Calling'
  <1> USE ThreadsAssumption DEF listVars, histVars, loopVars, threadVars
  <1>0. Loop \in AllThreads /\ Nil \notin AllThreads
    BY DEF AllThreads
  <1>1. ASSUME UNCHANGED <<tpc, ev, next, head, active, added, woken>> PROVE Calling'
    BY <1>1 DEF Calling
  <1>2. ASSUME NEW t \in AllThreads, NEW to, tpc' = [tpc EXCEPT ![t] = to],
               to \notin Starting \cup {"wakeup", "stoplock", "unlink"},
               UNCHANGED <<ev, next, head, active, added, woken>>
        PROVE  Calling'
    <2>1. tpc'[t] = to /\ \A u \in AllThreads \ {t} : tpc'[u] = tpc[u]
      BY <1>2, Moved
    <2> QED
      BY <2>1, <1>0, <1>2 DEF Calling, Starting
  <1>3. ASSUME NEW t \in AllThreads, NEW a \in Asyncs, evt_async_start(t, a) PROVE Calling'
    <2>1. t # Loop /\ owner # Nil /\ owner \in {Nil, Loop}
      BY <1>3 DEF evt_async_start, LockedStarts, TypeOK
    <2>2. tpc' = [tpc EXCEPT ![t] = "lock"] /\ ev' = [ev EXCEPT ![t] = a]
          /\ active' = [active EXCEPT ![a] = TRUE] /\ UNCHANGED <<next, head, added, woken>>
          /\ ~active[a] /\ a \notin added
      BY <1>3, <2>1 DEF evt_async_start
    <2>3. tpc'[t] = "lock" /\ \A u \in AllThreads \ {t} : tpc'[u] = tpc[u]
      BY <2>2, Moved
    <2>4. ev'[t] = a /\ \A u \in AllThreads \ {t} : ev'[u] = ev[u]
      BY <2>2 DEF TypeOK
    <2>5. active'[a] /\ \A b \in Asyncs : active[b] => active'[b]
      <3>1. active \in [Asyncs -> BOOLEAN]
        BY DEF TypeOK
      <3> QED
        BY <2>2, <3>1, Zenon
    <2>6. \A u \in AllThreads \ {t} : tpc[u] \in Starting => ev[u] # a
      BY <2>2 DEF Calling
    <2> QED
      BY <2>1, <2>2, <2>3, <2>4, <2>5, <2>6, <1>0 DEF Calling, Starting
  <1>4. ASSUME NEW t \in AllThreads, NEW a \in Asyncs, evt_async_stop(t, a) PROVE Calling'
    <2>1. t # Loop /\ a \in woken /\ UNCHANGED <<next, head, added, woken>>
          /\ active' = [active EXCEPT ![a] = FALSE]
      BY <1>4 DEF evt_async_stop
    <2>2. tpc'[t] = "stoplock" /\ \A u \in AllThreads \ {t} : tpc'[u] = tpc[u]
      BY <1>4, Moved DEF evt_async_stop
    <2>3. ev'[t] = a /\ \A u \in AllThreads \ {t} : ev'[u] = ev[u]
      BY <1>4 DEF evt_async_stop, TypeOK
    <2>4. \A b \in Asyncs \ {a} : active'[b] <=> active[b]
      <3>1. active \in [Asyncs -> BOOLEAN]
        BY DEF TypeOK
      <3> QED
        BY <2>1, <3>1, Zenon
    <2>5. \A b \in Asyncs \ added : b # a
      BY <2>1 DEF TypeOK
    <2> QED
      BY <2>1, <2>2, <2>3, <2>4, <2>5, <1>0 DEF Calling, Starting
  <1>5. ASSUME NEW t \in AllThreads, evt_loop_quit(t) PROVE Calling'
    BY <1>2, <1>5 DEF evt_loop_quit, Goto, Starting
  <1>6. ASSUME NEW t \in AllThreads, evt_loop_destroy(t) PROVE Calling'
    <2>1. \/ tpc' = [tpc EXCEPT ![t] = "waitload"]
          \/ tpc' = [tpc EXCEPT ![t] = "destroy"]
      BY <1>6 DEF evt_loop_destroy, Goto
    <2> QED
      BY <1>2, <1>6, <2>1 DEF evt_loop_destroy, Starting
  <1>7. ASSUME NEW t \in AllThreads, StartLock(t) \/ StopLock(t) PROVE Calling'
    <2>1. \/ tpc[t] = "lock" /\ tpc'[t] = "add"
          \/ tpc[t] = "stoplock" /\ tpc'[t] = "unlink"
      BY <1>7, Moved DEF StartLock, StopLock, Goto
    <2>2. \A u \in AllThreads \ {t} : tpc'[u] = tpc[u]
      BY <1>7, Moved DEF StartLock, StopLock, Goto
    <2>3. UNCHANGED <<ev, next, head, active, added, woken>>
      BY <1>7 DEF StartLock, StopLock
    <2> QED
      BY <2>1, <2>2, <2>3, <1>0 DEF Calling, Starting
  <1>8. ASSUME NEW t \in AllThreads, AddNext(t) PROVE Calling'
    <2>1. tpc[t] = "add" /\ tpc'[t] = "link" /\ \A u \in AllThreads \ {t} : tpc'[u] = tpc[u]
      BY <1>8, Moved DEF AddNext, Goto
    <2>2. UNCHANGED <<ev, head, active, added, woken>> /\ next' = [next EXCEPT ![ev[t]] = head]
      BY <1>8 DEF AddNext
    <2>3. ev[t] \in Asyncs
      BY <2>1 DEF Calling, Starting
    <2>4. next'[ev[t]] = head
      BY <2>2, <2>3 DEF TypeOK
    <2>5. \A u \in AllThreads \ {t} : tpc[u] # "link"
      BY <2>1 DEF MutexHeld
    <2> QED
      BY <2>1, <2>2, <2>4, <2>5, <1>0 DEF Calling, Starting
  <1>9. ASSUME NEW t \in AllThreads, AddHead(t) PROVE Calling'
    <2>1. tpc[t] = "link" /\ tpc'[t] = "wakeup" /\ \A u \in AllThreads \ {t} : tpc'[u] = tpc[u]
      BY <1>9, Moved DEF AddHead, Goto
    <2>2. UNCHANGED <<ev, next, active, woken>> /\ added' = added \cup {ev[t]}
      BY <1>9 DEF AddHead
    <2>3. \A u \in AllThreads \ {t} : tpc[u] # "link"
      BY <2>1 DEF MutexHeld
    <2>4. \A u \in AllThreads \ {t} : tpc[u] \in Starting => ev[u] # ev[t]
      BY <2>1 DEF Calling, Starting
    <2>5. t # Loop
      BY <2>1 DEF Calling, Starting
    <2> QED
      BY <2>1, <2>2, <2>3, <2>4, <2>5, <1>0 DEF Calling, Starting
  <1>10. ASSUME NEW t \in AllThreads, evt_loop_wakeup(t) PROVE Calling'
    <2>1. tpc'[t] = "idle" /\ \A u \in AllThreads \ {t} : tpc'[u] = tpc[u]
      BY <1>10, Moved DEF evt_loop_wakeup, Goto
    <2>2. UNCHANGED <<head, next, active, added>> /\ woken \subseteq woken'
          /\ \A u \in AllThreads \ {t} : ev'[u] = ev[u]
      BY <1>10 DEF evt_loop_wakeup, TypeOK
    <2> QED
      BY <2>1, <2>2, <1>0 DEF Calling, Starting
  <1>11. ASSUME NEW t \in AllThreads, StopUnlink(t) PROVE Calling'
    <2>1. tpc[t] = "unlink" /\ tpc'[t] = "idle" /\ \A u \in AllThreads \ {t} : tpc'[u] = tpc[u]
      BY <1>11, Moved DEF StopUnlink, Goto
    <2>2. UNCHANGED <<active, added, woken>> /\ \A u \in AllThreads \ {t} : ev'[u] = ev[u]
      BY <1>11 DEF StopUnlink, TypeOK
    <2>3. \A u \in AllThreads \ {t} : tpc[u] # "link"
      BY <2>1 DEF MutexHeld
    <2> QED
      BY <2>1, <2>2, <2>3, <1>0 DEF Calling, Starting
  <1>12. ASSUME NEW t \in AllThreads, QuitLoad(t) \/ QuitStore(t) \/ QuitWakeup(t)
         PROVE  Calling'
    BY <1>2, <1>12 DEF QuitLoad, QuitStore, QuitWakeup, Goto, Starting
  <1>13. ASSUME NEW t \in AllThreads, WaitDestroyLoad(t) \/ WaitDestroyStore(t) \/ DestroyFree(t)
         PROVE  Calling'
    BY <1>2, <1>13 DEF WaitDestroyLoad, WaitDestroyStore, DestroyFree, Goto, Starting
  <1>14. CASE evt_loop_run \/ RunStatus \/ TestQuit \/ PollHit \/ PollOther \/ TestQuitPolled
              \/ DoWakeup \/ ReadEvtfd \/ TakeLock \/ TakeHead
    BY <1>1, <1>14 DEF evt_loop_run, RunStatus, TestQuit, PollHit, PollOther, TestQuitPolled,
       DoWakeup, ReadEvtfd, TakeLock, TakeHead
  <1>15. CASE Walk \/ WalkEnd \/ CallbackReturns \/ EndLoad \/ EndStore
    BY <1>1, <1>15 DEF Walk, WalkEnd, CallbackReturns, EndLoad, EndStore
  <1>16. CASE TakeNull
    <2>1. UNCHANGED <<tpc, ev, next, active, added, woken>> /\ mutex = Loop
      BY <1>16 DEF TakeNull, LoopGoto, MutexHeld
    <2>2. \A u \in AllThreads : tpc[u] # "link"
      BY <2>1 DEF MutexHeld, Calling, Starting
    <2> QED
      BY <2>1, <2>2 DEF Calling
  <1>17. CASE UNCHANGED vars
    BY <1>1, <1>17 DEF vars
  <1>18. CASE RunReturns
    <2>1. CASE tpc' = tpc
      BY <1>1, <1>18, <2>1 DEF RunReturns
    <2>2. CASE tpc' = [tpc EXCEPT ![Loop] = "waitload"]
      BY <1>0, <1>2, <1>18, <2>2 DEF RunReturns, Starting
    <2> QED
      BY <1>18, <2>1, <2>2 DEF RunReturns
  <1> QED
    BY <1>3, <1>4, <1>5, <1>6, <1>7, <1>8, <1>9, <1>10, <1>11, <1>12, <1>13, <1>14,
       <1>15, <1>16, <1>17, <1>18
    DEF Next, Call, CallStep, LoopStep
-----------------------------------------------------------------------------
(* The lists *)

(* Lists hold asyncs that were linked. *)
LEMMA ChainAdded ==
  ASSUME TypeOK, Linked, NEW x \in added \cup {Nil}
  PROVE  Chain(x) \subseteq added
  <1>1. DOMAIN next = Asyncs /\ added \subseteq Asyncs
    BY DEF TypeOK
  <1>2. Holds(next, x, added)
    BY <1>1, ThreadsAssumption DEF Holds, Linked
  <1> QED
    BY <1>1, <1>2, ReachLeast DEF Chain

(* A step that leaves both lists and the history alone. *)
LEMMA ListFrame ==
  ASSUME ListInv, Linked',
         Chain(head)' = Chain(head), Chain(async_head)' = Chain(async_head),
         UNCHANGED <<head, async_head, async_now, histVars>>, evtfd => evtfd',
         \/ lpc' = lpc
         \/ lpc = "takelock" /\ lpc' = "take"
         \/ /\ lpc \notin {"takelock", "take", "takenull", "walk", "callback", "freed"}
            /\ lpc' \notin {"takenull", "freed"}
  PROVE  ListInv'
  <1> USE DEF histVars
  <1>1. async_head # Nil \/ async_now # Nil => lpc' = lpc
    BY DEF ListInv, Detached
  <1>2. Detached'
    BY <1>1 DEF ListInv, Detached
  <1>3. Freed => Freed'
    BY DEF Freed
  <1>4. Once' /\ NoAsyncLost'
    BY <1>3 DEF ListInv, Once, NoAsyncLost
  <1>5. WakeupPending'
    BY <1>3 DEF ListInv, WakeupPending
  <1> QED
    BY <1>2, <1>4, <1>5 DEF ListInv

(* splst_add, first half: the new async points at the list. *)
LEMMA AddNextList ==
  ASSUME TypeOK, MutexHeld, Calling, ListInv, NEW t \in AllThreads, AddNext(t)
  PROVE  ListInv'
  <1> USE DEF histVars, loopVars
  <1> DEFINE a == ev[t]
  <1>1. /\ a \in Asyncs /\ a \notin added /\ next' = [next EXCEPT ![a] = head]
        /\ UNCHANGED <<head, async_head, async_now, histVars, lpc, evtfd>>
    BY DEF AddNext, Goto, Calling, Starting
  <1> HIDE DEF a
  <1>2. DOMAIN next = Asyncs /\ DOMAIN next' = Asyncs
    BY <1>1 DEF TypeOK
  <1>3. a # Nil /\ head # a /\ async_head # a /\ \A b \in Asyncs : next[b] # a
    BY <1>1, ThreadsAssumption DEF ListInv, Linked
  <1>4. Acyclic(next') /\ \A y : y # a => Reach(next', y) = Reach(next, y)
    <2>1. a \in DOMAIN next /\ Acyclic(next) /\ head # a /\ \A b \in DOMAIN next : next[b] # a
      BY <1>1, <1>2, <1>3 DEF ListInv, Linked
    <2>2. /\ Acyclic([next EXCEPT ![a] = head])
          /\ \A y : y # a => Reach([next EXCEPT ![a] = head], y) = Reach(next, y)
      BY <2>1, AddedAcyclic, Zenon
    <2> QED
      BY <1>1, <2>2, Zenon
  <1>5. Chain(head)' = Chain(head) /\ Chain(async_head)' = Chain(async_head)
    BY <1>1, <1>3, <1>4 DEF Chain
  <1>6. \A b \in Asyncs : next'[b] \in {next[b], head}
    BY <1>1, <1>2
  <1>7. Linked'
    BY <1>1, <1>4, <1>6 DEF ListInv, Linked
  <1> QED
    BY <1>1, <1>5, <1>7, ListFrame

(* splst_add, second half: the async is on the loop's list, in front. *)
LEMMA AddHeadList ==
  ASSUME TypeOK, MutexHeld, Calling, ListInv, NEW t \in AllThreads, AddHead(t)
  PROVE  ListInv'
  <1> USE DEF histVars, loopVars
  <1> DEFINE a == ev[t]
             H == Chain(head)
             A == Chain(async_head)
  <1>1. /\ a \in Asyncs /\ a \notin added /\ next[a] = head /\ mutex = t /\ t # Loop /\ ~Freed
        /\ head' = a /\ added' = added \cup {a}
        /\ UNCHANGED <<next, async_head, async_now, woken, stopped, called, cleaned, lpc, evtfd>>
    BY DEF AddHead, Goto, Calling, Starting, MutexHeld
  <1>2. DOMAIN next = Asyncs
    BY DEF TypeOK
  <1>3. Chain(head)' = H \cup {a} /\ Chain(async_head)' = A
    BY <1>1, <1>2, ReachUnfold DEF Chain
  <1>4. H \subseteq added /\ A \subseteq added
    BY ChainAdded DEF ListInv, Linked
  <1>5. lpc \notin {"take", "takenull", "freed"} /\ ~Freed'
    BY <1>1 DEF MutexHeld, Freed
  <1> HIDE DEF a, H, A
  <1>6. Linked'
    BY <1>1 DEF ListInv, Linked
  <1>7. Detached'
    <2>1. H \cap A = {}
      BY <1>5 DEF ListInv, Detached, H, A
    <2>2. Chain(head)' \cap Chain(async_head)' = {}
      BY <2>1, <1>1, <1>3, <1>4
    <2> QED
      BY <2>2, <1>1, <1>5 DEF ListInv, Detached
  <1>8. Once'
    <2> SUFFICES ASSUME NEW b \in Asyncs
                 PROVE  /\ called[b] <= 1 /\ cleaned[b] <= 1
                        /\ called[b] # 0 \/ cleaned[b] # 0 => b \in added'
                        /\ b \in H \cup {a} \cup A => called[b] = 0 /\ cleaned[b] = 0
                        /\ async_now = b <=> called[b] = 1 /\ cleaned[b] = 0
      BY <1>1, <1>3 DEF Once
    <2>1. called[a] = 0 /\ cleaned[a] = 0
      BY <1>1 DEF ListInv, Once
    <2> QED
      BY <2>1, <1>1 DEF ListInv, Once, H, A
  <1>9. NoAsyncLost'
    BY <1>1, <1>3 DEF ListInv, NoAsyncLost, H, A
  <1>10. WakeupPending'
    <2>1. a \notin woken
      BY <1>1 DEF TypeOK
    <2> QED
      BY <2>1, <1>1, <1>3 DEF ListInv, WakeupPending, H
  <1> QED
    BY <1>6, <1>7, <1>8, <1>9, <1>10 DEF ListInv

(* splst_del in evt_async_stop: the async leaves the loop's list if it is     *)
(* there; the detached list is not touched.                                   *)
LEMMA StopUnlinkList ==
  ASSUME TypeOK, MutexHeld, Calling, ListInv, NEW t \in AllThreads, StopUnlink(t)
  PROVE  ListInv'
  <1> USE DEF histVars, loopVars
  <1> DEFINE a == ev[t]
             H == Chain(head)
             A == Chain(async_head)
  <1>1. /\ a \in Asyncs /\ a \in added /\ mutex = t /\ t # Loop /\ ~Freed
        /\ head' = (IF head = a THEN next[a] ELSE head)
        /\ next' = Unlinked(next, head, a)
        /\ stopped' = stopped \cup {a}
        /\ UNCHANGED <<async_head, async_now, added, woken, called, cleaned, lpc, evtfd>>
    BY DEF StopUnlink, Goto, Calling, Starting, MutexHeld, TypeOK
  <1> HIDE DEF a
  <1>2. DOMAIN next = Asyncs /\ Acyclic(next)
    BY DEF TypeOK, ListInv, Linked
  <1>3. lpc \notin {"take", "takenull", "freed"} /\ ~Freed'
    BY <1>1 DEF MutexHeld, Freed
  <1>4. Chain(head)' = H \ {a}
    BY <1>1, <1>2, ReachUnlinked DEF Chain
  <1>5. H \cap A = {} /\ A \subseteq Asyncs
    BY <1>2, <1>3, ReachHolds DEF ListInv, Detached, Chain
  <1>6. /\ DOMAIN next' = Asyncs
        /\ \A b \in Asyncs : next'[b] = IF b \in H /\ next[b] = a THEN next[a] ELSE next[b]
    BY <1>1, <1>2 DEF Unlinked, Chain
  <1>7. Chain(async_head)' = A
    <2>1. \A b \in A : next'[b] = next[b]
      BY <1>5, <1>6
    <2> QED
      BY <2>1, <1>1, <1>2, <1>6, ReachFrame DEF Chain
  <1> HIDE DEF H, A
  <1>8. Linked'
    <2>1. Acyclic(next')
      BY <1>1, <1>2, UnlinkedAcyclic
    <2>2. \A b \in Asyncs : next'[b] \in added \cup {Nil}
      BY <1>1, <1>6 DEF ListInv, Linked
    <2>3. head' \in added \cup {Nil}
      BY <1>1 DEF ListInv, Linked
    <2> QED
      BY <2>1, <2>2, <2>3, <1>1 DEF ListInv, Linked
  <1>9. Detached'
    <2>1. Chain(head)' \cap Chain(async_head)' = {}
      BY <1>4, <1>5, <1>7
    <2> QED
      BY <2>1, <1>1, <1>3 DEF ListInv, Detached
  <1>10. Once'
    BY <1>1, <1>3, <1>4, <1>7 DEF ListInv, Once, H, A
  <1>11. NoAsyncLost'
    BY <1>1, <1>4, <1>7 DEF ListInv, NoAsyncLost, H, A
  <1>12. WakeupPending'
    BY <1>1, <1>4 DEF ListInv, WakeupPending, H
  <1> QED
    BY <1>8, <1>9, <1>10, <1>11, <1>12 DEF ListInv

(* _evt_do_wakeup reads the list's head ... *)
LEMMA TakeHeadList ==
  ASSUME TypeOK, ListInv, TakeHead
  PROVE  ListInv'
  <1> USE DEF histVars, listVars
  <1>1. /\ lpc = "take" /\ lpc' = "takenull" /\ async_head' = head
        /\ UNCHANGED <<head, next, async_now, histVars, evtfd>>
    BY DEF TakeHead, LoopGoto
  <1>2. async_head = Nil /\ async_now = Nil
    BY <1>1 DEF ListInv, Detached
  <1>3. DOMAIN next = Asyncs
    BY DEF TypeOK
  <1>4. Chain(async_head) = {}
    BY <1>2, <1>3, ReachEnd, ThreadsAssumption DEF Chain
  <1>5. Chain(head)' = Chain(head) /\ Chain(async_head)' = Chain(head)
    BY <1>1 DEF Chain
  <1>6. ~Freed /\ ~Freed'
    BY <1>1 DEF Freed
  <1>7. Linked' /\ Detached'
    BY <1>1, <1>2 DEF ListInv, Linked, Detached
  <1>8. Once' /\ NoAsyncLost' /\ WakeupPending'
    BY <1>1, <1>4, <1>5, <1>6 DEF ListInv, Once, NoAsyncLost, WakeupPending
  <1> QED
    BY <1>7, <1>8 DEF ListInv

(* ... and clears it: what was on it is on the detached list. *)
LEMMA TakeNullList ==
  ASSUME TypeOK, ListInv, TakeNull
  PROVE  ListInv'
  <1> USE DEF histVars
  <1>1. /\ lpc = "takenull" /\ lpc' = "walk" /\ head' = Nil
        /\ UNCHANGED <<async_head, next, async_now, histVars, evtfd>>
    BY DEF TakeNull, LoopGoto
  <1>2. async_head = head /\ async_now = Nil
    BY <1>1 DEF ListInv, Detached
  <1>3. DOMAIN next = Asyncs
    BY DEF TypeOK
  <1>4. Chain(head)' = {}
    BY <1>1, <1>3, ReachEnd, ThreadsAssumption DEF Chain
  <1>5. Chain(async_head)' = Chain(async_head) /\ Chain(async_head) = Chain(head)
    BY <1>1, <1>2 DEF Chain
  <1>6. ~Freed /\ ~Freed'
    BY <1>1 DEF Freed
  <1>7. Linked' /\ Detached'
    BY <1>1, <1>2, <1>4 DEF ListInv, Linked, Detached
  <1>8. Once' /\ NoAsyncLost' /\ WakeupPending'
    BY <1>1, <1>4, <1>5, <1>6 DEF ListInv, Once, NoAsyncLost, WakeupPending
  <1> QED
    BY <1>7, <1>8 DEF ListInv

(* The walk takes the first async off the detached list and calls it. *)
LEMMA WalkList ==
  ASSUME TypeOK, ListInv, Walk
  PROVE  ListInv'
  <1> USE DEF histVars, listVars
  <1> DEFINE x == async_head
             H == Chain(head)
             A == Chain(async_head)
  <1>1. /\ x # Nil /\ lpc = "walk" /\ lpc' = "callback" /\ async_now' = x
        /\ async_head' = next[x] /\ called' = [called EXCEPT ![x] = called[x] + 1]
        /\ UNCHANGED <<head, next, added, woken, stopped, cleaned, evtfd>>
    BY DEF Walk, LoopGoto
  <1>2. DOMAIN next = Asyncs /\ Acyclic(next) /\ x \in Asyncs /\ called \in [Asyncs -> Nat]
    BY <1>1 DEF TypeOK, ListInv, Linked
  <1>3. Chain(head)' = H /\ Chain(async_head)' = A \ {x}
    BY <1>1, <1>2, ReachRest DEF Chain
  <1>4. x \in A /\ x \notin H /\ H \cap A = {}
    <2>1. x \in A
      BY <1>2, ReachHolds DEF Chain, Holds
    <2> QED
      BY <2>1, <1>1 DEF ListInv, Detached
  <1>5. ~Freed /\ ~Freed' /\ async_now = Nil
    BY <1>1 DEF Freed, ListInv, Detached
  <1>6. called[x] = 0 /\ cleaned[x] = 0
    BY <1>2, <1>4, <1>5 DEF ListInv, Once
  <1>7. called'[x] = 1 /\ \A b \in Asyncs \ {x} : called'[b] = called[b]
    BY <1>1, <1>2, <1>6
  <1>8. x \in added
    BY <1>1 DEF ListInv, Linked
  <1> HIDE DEF H, A, x
  <1>9. Linked'
    BY <1>1, <1>2 DEF ListInv, Linked
  <1>10. Detached'
    BY <1>1, <1>3, <1>4 DEF ListInv, Detached
  <1>11. Once'
    <2> SUFFICES ASSUME NEW b \in Asyncs
                 PROVE  /\ called'[b] <= 1 /\ cleaned[b] <= 1
                        /\ called'[b] # 0 \/ cleaned[b] # 0 => b \in added
                        /\ b \in H \cup (A \ {x}) => called'[b] = 0 /\ cleaned[b] = 0
                        /\ x = b <=> called'[b] = 1 /\ cleaned[b] = 0
      BY <1>1, <1>3, <1>5 DEF Once
    <2>1. CASE b = x
      BY <2>1, <1>4, <1>6, <1>7, <1>8
    <2>2. CASE b # x
      <3>1. b # Nil
        BY ThreadsAssumption
      <3> QED
        BY <2>2, <3>1, <1>5, <1>7 DEF ListInv, Once, H, A
    <2> QED
      BY <2>1, <2>2
  <1>12. NoAsyncLost'
    BY <1>1, <1>3, <1>5, <1>7 DEF ListInv, NoAsyncLost, H, A, TypeOK
  <1>13. WakeupPending'
    BY <1>1, <1>3, <1>5 DEF ListInv, WakeupPending, H
  <1> QED
    BY <1>9, <1>10, <1>11, <1>12, <1>13 DEF ListInv

(* The callback returns and its async is cleaned. *)
LEMMA CallbackReturnsList ==
  ASSUME TypeOK, ListInv, CallbackReturns
  PROVE  ListInv'
  <1> USE DEF histVars, listVars
  <1>1. /\ lpc = "callback" /\ lpc' = (IF async_now = Nil THEN "while" ELSE "walk")
        /\ async_now' = Nil
        /\ UNCHANGED <<head, next, async_head, evtfd, added, woken, stopped, called>>
    BY DEF CallbackReturns, LoopGoto
  <1>2. Chain(head)' = Chain(head) /\ Chain(async_head)' = Chain(async_head)
    BY <1>1 DEF Chain
  <1>3. ~Freed /\ ~Freed'
    BY <1>1 DEF Freed
  <1>4. Linked' /\ Detached'
    BY <1>1, <1>2 DEF ListInv, Linked, Detached
  <1>5. NoAsyncLost' /\ WakeupPending'
    BY <1>1, <1>2, <1>3 DEF ListInv, NoAsyncLost, WakeupPending
  <1>6. Once'
    <2> SUFFICES ASSUME NEW b \in Asyncs
                 PROVE  /\ called[b] <= 1 /\ cleaned'[b] <= 1
                        /\ called[b] # 0 \/ cleaned'[b] # 0 => b \in added
                        /\ b \in Chain(head) \cup Chain(async_head) =>
                              called[b] = 0 /\ cleaned'[b] = 0
                        /\ ~(called[b] = 1 /\ cleaned'[b] = 0)
      <3>1. \A b \in Asyncs : async_now' # b
        BY <1>1, ThreadsAssumption
      <3> QED
        BY <3>1, <1>1, <1>2, <1>3 DEF Once
    <2>1. CASE b # async_now
      <3>1. cleaned'[b] = cleaned[b]
        BY <2>1 DEF CallbackReturns, TypeOK
      <3> QED
        BY <2>1, <3>1, <1>3 DEF ListInv, Once
    <2>2. CASE b = async_now
      <3>1. async_now # Nil
        BY <2>2, ThreadsAssumption
      <3>2. called[b] = 1 /\ cleaned[b] = 0
        BY <2>2, <1>3 DEF ListInv, Once
      <3>3. cleaned' = [cleaned EXCEPT ![b] = cleaned[b] + 1]
        BY <2>2, <3>1 DEF CallbackReturns
      <3>4. cleaned'[b] = 1
        BY <3>2, <3>3 DEF TypeOK
      <3> QED
        BY <3>2, <3>4, <1>3 DEF ListInv, Once
    <2> QED
      BY <2>1, <2>2
  <1> QED
    BY <1>4, <1>5, <1>6 DEF ListInv

(* evt_loop_destroy cleans what is still on the loop's list, once. *)
LEMMA DestroyedList ==
  ASSUME TypeOK, ListInv, ~Freed, Destroyed, UNCHANGED listVars,
         UNCHANGED <<async_head, async_now, added, woken, stopped, called, evtfd>>
  PROVE  ListInv'
  <1> USE DEF listVars
  <1>1. Freed' /\ lpc' = "freed"
    BY DEF Destroyed, Freed
  <1>2. Linked' /\ Detached'
    BY <1>1 DEF ListInv, Linked, Detached
  <1>3. NoAsyncLost' /\ WakeupPending'
    BY <1>1 DEF NoAsyncLost, WakeupPending
  <1>4. \A b \in Asyncs : cleaned'[b] = IF b \in Chain(head) THEN cleaned[b] + 1 ELSE cleaned[b]
    BY DEF Destroyed
  <1>5. Chain(head) \subseteq added
    BY ChainAdded DEF ListInv, Linked
  <1>6. Once'
    BY <1>1, <1>4, <1>5 DEF ListInv, Once
  <1> QED
    BY <1>2, <1>3, <1>6 DEF ListInv

(* Every step keeps the lists in order. *)
LEMMA ListNext ==
  ASSUME TypeOK, MutexHeld, Calling, ListInv, ~Freed, Next
  PROVE  ListInv'
  <1> USE DEF histVars, loopVars, listVars, threadVars
  <1>1. ASSUME UNCHANGED <<head, next, async_head, async_now, histVars>>, evtfd => evtfd',
               \/ lpc' = lpc
               \/ lpc = "takelock" /\ lpc' = "take"
               \/ /\ lpc \notin {"takelock", "take", "takenull", "walk", "callback", "freed"}
                  /\ lpc' \notin {"takenull", "freed"}
        PROVE  ListInv'
    <2>1. Chain(head)' = Chain(head) /\ Chain(async_head)' = Chain(async_head)
      BY <1>1 DEF Chain
    <2>2. Linked'
      BY <1>1 DEF ListInv, Linked
    <2> QED
      BY <2>1, <2>2, <1>1, ListFrame
  <1>2. ASSUME NEW t \in AllThreads, NEW a \in Asyncs, evt_async_start(t, a) \/ evt_async_stop(t, a)
        PROVE  ListInv'
    BY <1>1, <1>2 DEF evt_async_start, evt_async_stop
  <1>3. ASSUME NEW t \in AllThreads, evt_loop_quit(t) \/ evt_loop_destroy(t) PROVE ListInv'
    BY <1>1, <1>3 DEF evt_loop_quit, evt_loop_destroy
  <1>4. ASSUME NEW t \in AllThreads, StartLock(t) \/ StopLock(t) PROVE ListInv'
    BY <1>1, <1>4 DEF StartLock, StopLock
  <1>5. ASSUME NEW t \in AllThreads, AddNext(t) \/ AddHead(t) \/ StopUnlink(t) PROVE ListInv'
    BY <1>5, AddNextList, AddHeadList, StopUnlinkList
  <1>6. ASSUME NEW t \in AllThreads, evt_loop_wakeup(t) PROVE ListInv'
    <2>1. /\ evtfd' /\ lpc' = lpc
          /\ UNCHANGED <<head, next, async_head, async_now, added, stopped, called, cleaned>>
      BY <1>6 DEF evt_loop_wakeup
    <2>2. Chain(head)' = Chain(head) /\ Chain(async_head)' = Chain(async_head)
      BY <2>1 DEF Chain
    <2>3. Linked' /\ Detached'
      BY <2>1, <2>2 DEF ListInv, Linked, Detached
    <2>4. Once' /\ NoAsyncLost' /\ WakeupPending'
      BY <2>1, <2>2 DEF ListInv, Once, NoAsyncLost, WakeupPending, Freed
    <2> QED
      BY <2>3, <2>4 DEF ListInv
  <1>7. ASSUME NEW t \in AllThreads, QuitLoad(t) \/ QuitStore(t) \/ QuitWakeup(t) PROVE ListInv'
    BY <1>1, <1>7 DEF QuitLoad, QuitStore, QuitWakeup
  <1>8. ASSUME NEW t \in AllThreads, WaitDestroyLoad(t) \/ WaitDestroyStore(t) PROVE ListInv'
    BY <1>1, <1>8 DEF WaitDestroyLoad, WaitDestroyStore
  <1>9. ASSUME NEW t \in AllThreads, DestroyFree(t) PROVE ListInv'
    BY <1>9, DestroyedList DEF DestroyFree
  <1>10. CASE evt_loop_run \/ RunStatus \/ TestQuit \/ PollHit \/ PollOther
    BY <1>1, <1>10 DEF evt_loop_run, RunStatus, TestQuit, PollHit, PollOther, LoopGoto
  <1>11. CASE TestQuitPolled \/ DoWakeup
    BY <1>1, <1>11 DEF TestQuitPolled, DoWakeup, LoopGoto
  <1>12. CASE ReadEvtfd
    <2>1. /\ lpc = "read" /\ lpc' = "takelock"
          /\ UNCHANGED <<head, next, async_head, async_now, histVars>>
      BY <1>12 DEF ReadEvtfd, LoopGoto
    <2>2. Chain(head)' = Chain(head) /\ Chain(async_head)' = Chain(async_head)
      BY <2>1 DEF Chain
    <2>3. Linked' /\ Detached'
      BY <2>1, <2>2 DEF ListInv, Linked, Detached
    <2>4. Once' /\ NoAsyncLost' /\ WakeupPending'
      BY <2>1, <2>2 DEF ListInv, Once, NoAsyncLost, WakeupPending, Freed
    <2> QED
      BY <2>3, <2>4 DEF ListInv
  <1>13. CASE TakeLock
    BY <1>1, <1>13 DEF TakeLock, LoopGoto
  <1>14. CASE TakeHead \/ TakeNull \/ Walk \/ CallbackReturns
    BY <1>14, TakeHeadList, TakeNullList, WalkList, CallbackReturnsList
  <1>15. CASE WalkEnd
    <2>1. /\ lpc = "walk" /\ lpc' = "while" /\ async_head = Nil
          /\ UNCHANGED <<head, next, async_head, async_now, histVars, evtfd>>
      BY <1>15 DEF WalkEnd, LoopGoto
    <2>2. Chain(head)' = Chain(head) /\ Chain(async_head)' = Chain(async_head)
      BY <2>1 DEF Chain
    <2>3. Linked' /\ Detached'
      BY <2>1, <2>2 DEF ListInv, Linked, Detached
    <2>4. Once' /\ NoAsyncLost' /\ WakeupPending'
      BY <2>1, <2>2 DEF ListInv, Once, NoAsyncLost, WakeupPending, Freed
    <2> QED
      BY <2>3, <2>4 DEF ListInv
  <1>16. CASE EndLoad \/ EndStore
    BY <1>1, <1>16 DEF EndLoad, EndStore, LoopGoto
  <1>17. CASE RunReturns
    <2>1. CASE "WAITDESTROY" \in status /\ "RUNNING" \notin status
      BY <1>17, <2>1, DestroyedList DEF RunReturns
    <2>2. CASE ~("WAITDESTROY" \in status /\ "RUNNING" \notin status)
      BY <1>1, <1>17, <2>2 DEF RunReturns
    <2> QED
      BY <2>1, <2>2
  <1> QED
    BY <1>2, <1>3, <1>4, <1>5, <1>6, <1>7, <1>8, <1>9, <1>10, <1>11, <1>12, <1>13, <1>14,
       <1>15, <1>16, <1>17
    DEF Next, Call, CallStep, LoopStep

-----------------------------------------------------------------------------
(* The theorems *)

(* One step of Next keeps the invariant. *)
LEMMA AsyncStep ==
  ASSUME LockedStarts, AsyncInv, [Next]_vars PROVE AsyncInv'
  <1>1. CASE UNCHANGED vars
    BY <1>1
    DEF AsyncInv, TypeOK, MutexHeld, Calling, ListInv, Linked, Detached, Once, NoAsyncLost,
        WakeupPending, Freed, Chain, vars, listVars, loopVars, threadVars, histVars
  <1>2. CASE ~Freed /\ Next
    BY <1>2, AsyncType, MutexNext, CallingNext, ListNext DEF AsyncInv, ListInv
  <1> QED
    BY <1>1, <1>2, FreedFrozen

(* The invariant holds in every state, whoever quits and destroys the loop.   *)
THEOREM AsyncInvariant == ASSUME LockedStarts PROVE Spec => []AsyncInv
  <1>1. AsyncInv /\ [Next]_vars => AsyncInv'
    BY LockedStarts, AsyncStep
  <1> QED
    BY <1>1, AsyncInit, PTL DEF Spec

(* Every variable keeps its type. *)
THEOREM AsyncTypeCorrect == ASSUME LockedStarts PROVE Spec => []TypeOK
  <1>1. AsyncInv => TypeOK
    BY DEF AsyncInv
  <1> QED
    BY <1>1, LockedStarts, AsyncInvariant, PTL

(* No async that evt_async_start has linked is lost, with any number of       *)
(* threads that start and stop asyncs while the loop takes its list.          *)
THEOREM NothingLost == ASSUME LockedStarts PROVE Spec => []NoAsyncLost
  <1>1. AsyncInv => NoAsyncLost
    BY DEF AsyncInv, ListInv
  <1> QED
    BY <1>1, LockedStarts, AsyncInvariant, PTL

(* An async runs once and is cleaned once, and nothing that was cleaned is    *)
(* still on a list.                                                           *)
THEOREM AtMostOnce == ASSUME LockedStarts PROVE Spec => []RunAtMostOnce
  <1>1. AsyncInv => RunAtMostOnce
    <2> SUFFICES ASSUME AsyncInv, NEW a \in Asyncs
                 PROVE  /\ called[a] <= 1 /\ cleaned[a] <= 1
                        /\ cleaned[a] = 1 /\ ~Freed =>
                              a \notin Chain(head) \cup Chain(async_head)
      BY DEF RunAtMostOnce
    <2> QED
      BY DEF AsyncInv, ListInv, Once
  <1> QED
    BY <1>1, LockedStarts, AsyncInvariant, PTL

(* The wake-up of a started async is not consumed by a round that misses it.  *)
THEOREM WakeupKept == ASSUME LockedStarts PROVE Spec => []WakeupPending
  <1>1. AsyncInv => WakeupPending
    BY DEF AsyncInv, ListInv
  <1> QED
    BY <1>1, LockedStarts, AsyncInvariant, PTL
-----------------------------------------------------------------------------
(* The end of the loop *)

\* Quits and destroys come when the loop's status can be trusted: not before
\* evt_loop_run has set it, and a running loop is destroyed by a callback.
OwnDestroy == ~EarlyQuit /\ ~CrossDestroy

Running == {"while", "poll", "polled", "wakeup", "read", "takelock", "take", "takenull",
            "walk", "callback", "end", "endstore"}
Quitting == {"quit", "quitstore", "quitwake"}
Destroying == {"waitload", "waitstore", "destroy"}

ThreadsIdle == \A t \in Threads : tpc[t] = "idle"

\* No update of status by load and store loses RUNNING while the loop runs, so
\* a destroy in a callback sees it, and none brings it back for the destroy that
\* evt_loop_run makes at its end.
StatusKept ==
    /\ lpc \in Running => "RUNNING" \in status
    /\ lpc \in Running =>
          \A t \in AllThreads : tpc[t] \in {"quitstore", "waitstore"} => "RUNNING" \in tmp[t]
    /\ lpc = "entered" => \A t \in Threads : tpc[t] \notin Quitting \cup Destroying
    /\ lpc = "ended" /\ "WAITDESTROY" \in status => "RUNNING" \notin status

\* Where a destroy can stand.
DestroyPlace ==
    /\ tpc[Loop] # "idle" => lpc \in {"callback", "freed"}
    /\ tpc[Loop] # "destroy"
    /\ \A t \in Threads : tpc[t] \in Destroying => lpc \in {"out", "freed"}

\* A destroyer is alone, and WAITDESTROY tells the truth.
Alone ==
    /\ \A t \in AllThreads : tpc[t] \in Destroying =>
          \A u \in AllThreads \ {t} : tpc[u] = "idle"
    /\ "WAITDESTROY" \in status => lpc \in {"out", "freed"} \/ (lpc # "entered" /\ ThreadsIdle)
    /\ \A t \in Threads : tpc[t] = "quitstore" /\ "WAITDESTROY" \in tmp[t] =>
          lpc \in {"out", "freed"}
    /\ (tpc[Loop] = "quitstore" \/ lpc = "endstore") /\ "WAITDESTROY" \in tmp[Loop] =>
          ThreadsIdle /\ "WAITDESTROY" \in status

EndInv == TypeOK /\ StatusKept /\ DestroyPlace /\ Alone

(* A client's step that leaves status alone and does not load it. *)
LEMMA EndMove ==
  ASSUME EndInv, ~Freed, NEW t \in AllThreads, NEW to,
         tpc' = [tpc EXCEPT ![t] = to], UNCHANGED <<status, lpc, tmp>>,
         \/ MayCall(t)
         \/ tpc[t] # "idle",
         to \notin {"quitstore", "waitstore"} \cup Destroying,
         to \in Quitting => \/ tpc[t] \in Quitting
                            \/ lpc \notin {"out", "entered"} /\ MayCall(t)
  PROVE  StatusKept' /\ DestroyPlace' /\ Alone'
  <1> USE ThreadsAssumption DEF EndInv, Freed
  <1>0. Loop \in AllThreads /\ Threads = AllThreads \ {Loop} /\ ~Freed'
    BY DEF AllThreads
  <1>1. tpc'[t] = to /\ \A u \in AllThreads \ {t} : tpc'[u] = tpc[u]
    BY Moved
  <1>2. StatusKept'
    BY <1>0, <1>1 DEF StatusKept, Quitting, Destroying, MayCall, InCallback
  <1>3. DestroyPlace'
    BY <1>0, <1>1 DEF DestroyPlace, Destroying, MayCall, InCallback
  <1>4. \A u \in AllThreads : tpc[u] \in Destroying => u = t
    BY <1>0 DEF Alone, Destroying, MayCall
  <1>5. "WAITDESTROY" \in status /\ ThreadsIdle /\ t # Loop => FALSE
    BY <1>0 DEF ThreadsIdle, MayCall
  <1>6. ThreadsIdle /\ t = Loop => ThreadsIdle'
    BY <1>0, <1>1 DEF ThreadsIdle
  <1>7. Alone'
    <2>1. \A u \in AllThreads : tpc'[u] \notin Destroying
      BY <1>1, <1>4
    <2>2. "WAITDESTROY" \in status => lpc \in {"out", "freed"} \/ (lpc # "entered" /\ ThreadsIdle')
      BY <1>5, <1>6 DEF Alone
    <2>3. \A u \in Threads : tpc'[u] = "quitstore" => tpc[u] = "quitstore"
      BY <1>0, <1>1
    <2>4. tpc'[Loop] = "quitstore" => tpc[Loop] = "quitstore"
      BY <1>0, <1>1
    <2>5. (tpc'[Loop] = "quitstore" \/ lpc = "endstore") /\ "WAITDESTROY" \in tmp[Loop] =>
             ThreadsIdle' /\ "WAITDESTROY" \in status
      BY <2>4, <1>5, <1>6 DEF Alone
    <2> QED
      BY <2>1, <2>2, <2>3, <2>5 DEF Alone
  <1> QED
    BY <1>0, <1>2, <1>3, <1>7

(* A step of the loop's thread that leaves status and the calls alone. *)
LEMMA EndLoopMove ==
  ASSUME EndInv, ~Freed, ~Freed', UNCHANGED <<tpc, status, tmp>>,
         lpc' \notin {"entered", "endstore", "freed"}, lpc # "out",
         lpc' = "callback" \/ lpc # "callback" \/ tpc[Loop] = "idle",
         lpc' \in Running => lpc \in Running,
         lpc' = "out" \/ lpc' \in Running
  PROVE  StatusKept' /\ DestroyPlace' /\ Alone'
  <1> USE DEF EndInv, Freed
  <1>1. StatusKept'
    BY DEF StatusKept, Running
  <1>2. DestroyPlace'
    BY DEF DestroyPlace
  <1>3. Alone'
    BY DEF Alone, ThreadsIdle
  <1> QED
    BY <1>1, <1>2, <1>3

(* Every step of a client and of the loop keeps it. *)
LEMMA EndNext ==
  ASSUME OwnDestroy, EndInv, ~Freed, Next
  PROVE  StatusKept' /\ DestroyPlace' /\ Alone'
  <1> USE ThreadsAssumption DEF EndInv, listVars, histVars, loopVars, threadVars
  <1> DEFINE Goal == StatusKept' /\ DestroyPlace' /\ Alone'
  <1>0. Loop \in AllThreads /\ Threads = AllThreads \ {Loop}
    BY DEF AllThreads
  <1>1. ASSUME NEW t \in AllThreads, NEW a \in Asyncs, evt_async_start(t, a) PROVE Goal
    <2>1. tpc' = [tpc EXCEPT ![t] = "lock"] \/ tpc' = [tpc EXCEPT ![t] = "add"]
      BY <1>1 DEF evt_async_start
    <2> QED
      BY <1>1, <2>1, EndMove DEF evt_async_start, Quitting, Destroying
  <1>2. ASSUME NEW t \in AllThreads, NEW a \in Asyncs, evt_async_stop(t, a) PROVE Goal
    BY <1>2, EndMove DEF evt_async_stop, Quitting, Destroying
  <1>3. ASSUME NEW t \in AllThreads, evt_loop_quit(t) PROVE Goal
    BY <1>3, EndMove DEF evt_loop_quit, Goto, OwnDestroy, Quitting, Destroying
  <1>4. ASSUME NEW t \in AllThreads, StartLock(t) \/ AddNext(t) \/ AddHead(t) \/ StopLock(t)
        PROVE  Goal
    BY <1>4, EndMove DEF StartLock, AddNext, AddHead, StopLock, Goto, Quitting, Destroying
  <1>5. ASSUME NEW t \in AllThreads, evt_loop_wakeup(t) \/ StopUnlink(t) \/ QuitWakeup(t)
        PROVE  Goal
    BY <1>5, EndMove DEF evt_loop_wakeup, StopUnlink, QuitWakeup, Goto, Quitting, Destroying
  <1>6. ASSUME NEW t \in AllThreads, evt_loop_destroy(t) PROVE Goal
    <2>1. /\ MayCall(t) /\ tpc[t] = "idle" /\ \A o \in AllThreads \ {t} : tpc[o] = "idle"
          /\ t # Loop => lpc = "out"
          /\ tpc' = [tpc EXCEPT ![t] = IF "RUNNING" \in status THEN "waitload" ELSE "destroy"]
          /\ UNCHANGED <<status, lpc, tmp>>
      BY <1>6 DEF evt_loop_destroy, OwnDestroy, Goto
    <2>2. \A u \in AllThreads \ {t} : tpc'[u] = "idle"
      BY <2>1, Moved
    <2>3. tpc'[t] = IF "RUNNING" \in status THEN "waitload" ELSE "destroy"
      BY <2>1, Moved
    <2>4. t = Loop => lpc = "callback" /\ tpc'[t] = "waitload"
      BY <2>1, <2>3 DEF MayCall, InCallback, StatusKept, Running
    <2>5. "WAITDESTROY" \notin status
      BY <2>1 DEF MayCall
    <2>6. tpc'[t] \in {"waitload", "destroy"}
      BY <2>3
    <2>7. StatusKept'
      BY <2>1, <2>2, <2>4, <2>6, <1>0 DEF StatusKept, Running
    <2>8. DestroyPlace'
      BY <2>1, <2>2, <2>4, <2>6, <1>0 DEF DestroyPlace, Destroying
    <2>9. Alone'
      <3>1. lpc = "endstore" => t # Loop
        BY <2>4
      <3> QED
        BY <2>1, <2>2, <2>4, <2>5, <2>6, <1>0, <3>1 DEF Alone, Destroying, ThreadsIdle
    <2> QED
      BY <2>1, <2>7, <2>8, <2>9
  <1>7. ASSUME NEW t \in AllThreads, QuitLoad(t) PROVE Goal
    <2>1. /\ tpc[t] = "quit" /\ tpc'[t] = "quitstore"
          /\ \A u \in AllThreads \ {t} : tpc'[u] = tpc[u]
      BY <1>7, Moved DEF QuitLoad, Goto
    <2>2. /\ tmp'[t] = status /\ \A u \in AllThreads \ {t} : tmp'[u] = tmp[u]
          /\ UNCHANGED <<status, lpc>> /\ ~Freed'
      BY <1>7 DEF QuitLoad, TypeOK, Goto, Freed
    <2>3. StatusKept'
      BY <2>1, <2>2, <1>0 DEF StatusKept, Quitting
    <2>4. DestroyPlace'
      BY <2>1, <2>2, <1>0 DEF DestroyPlace, Destroying
    <2>5. Alone'
      <3>1. ThreadsIdle => t = Loop /\ ThreadsIdle'
        BY <2>1, <1>0 DEF ThreadsIdle
      <3>2. \A u \in AllThreads : tpc'[u] \notin Destroying
        BY <2>1, <1>0 DEF Alone, Destroying
      <3>3. "WAITDESTROY" \in status =>
               lpc \in {"out", "freed"} \/ (lpc # "entered" /\ ThreadsIdle')
        BY <3>1 DEF Alone
      <3>4. ASSUME NEW u \in Threads, tpc'[u] = "quitstore", "WAITDESTROY" \in tmp'[u]
            PROVE  lpc \in {"out", "freed"}
        <4>1. CASE u = t
          BY <4>1, <3>1, <3>4, <2>2, <1>0 DEF Alone
        <4>2. CASE u # t
          BY <4>2, <3>4, <2>1, <2>2, <1>0 DEF Alone
        <4> QED
          BY <4>1, <4>2
      <3>5. ASSUME tpc'[Loop] = "quitstore" \/ lpc = "endstore", "WAITDESTROY" \in tmp'[Loop]
            PROVE  ThreadsIdle' /\ "WAITDESTROY" \in status
        <4>1. CASE t = Loop
          <5>1. lpc = "callback"
            BY <4>1, <2>1 DEF DestroyPlace, Freed
          <5> QED
            BY <4>1, <5>1, <3>1, <3>5, <2>2 DEF Alone
        <4>2. CASE t # Loop
          BY <4>2, <3>1, <3>5, <2>1, <2>2, <1>0 DEF Alone
        <4> QED
          BY <4>1, <4>2
      <3> QED
        BY <3>2, <3>3, <3>4, <3>5, <2>2 DEF Alone
    <2> QED
      BY <2>2, <2>3, <2>4, <2>5
  <1>8. ASSUME NEW t \in AllThreads, QuitStore(t) PROVE Goal
    <2>1. /\ tpc[t] = "quitstore" /\ tpc'[t] = "quitwake"
          /\ \A u \in AllThreads \ {t} : tpc'[u] = tpc[u]
      BY <1>8, Moved DEF QuitStore, Goto
    <2>2. /\ status' = tmp[t] \cup {"QUITING"} /\ tmp'[t] = {}
          /\ \A u \in AllThreads \ {t} : tmp'[u] = tmp[u]
          /\ UNCHANGED lpc /\ ~Freed'
      BY <1>8 DEF QuitStore, TypeOK, Goto, Freed
    <2>3. StatusKept'
      <3>1. lpc = "ended" /\ "WAITDESTROY" \in status' => FALSE
        BY <2>1, <2>2, <1>0 DEF Alone, DestroyPlace
      <3> QED
        BY <2>1, <2>2, <1>0, <3>1 DEF StatusKept, Quitting
    <2>4. DestroyPlace'
      BY <2>1, <2>2, <1>0 DEF DestroyPlace, Destroying
    <2>5. Alone'
      <3>1. ThreadsIdle => t = Loop /\ ThreadsIdle'
        BY <2>1, <1>0 DEF ThreadsIdle
      <3>2. \A u \in AllThreads : tpc'[u] \notin Destroying
        BY <2>1, <1>0 DEF Alone, Destroying
      <3>3. "WAITDESTROY" \in status' =>
               lpc \in {"out", "freed"} \/ (lpc # "entered" /\ ThreadsIdle')
        <4>1. "WAITDESTROY" \in status' => "WAITDESTROY" \in tmp[t]
          BY <2>2
        <4>2. CASE t = Loop
          <5>1. lpc = "callback"
            BY <4>2, <2>1 DEF DestroyPlace, Freed
          <5> QED
            BY <4>1, <4>2, <5>1, <3>1, <2>1 DEF Alone
        <4>3. CASE t # Loop
          BY <4>1, <4>3, <2>1, <1>0 DEF Alone
        <4> QED
          BY <4>2, <4>3
      <3>4. \A u \in Threads : tpc'[u] = "quitstore" /\ "WAITDESTROY" \in tmp'[u] =>
               lpc \in {"out", "freed"}
        BY <2>1, <2>2, <1>0 DEF Alone
      <3>5. ASSUME tpc'[Loop] = "quitstore" \/ lpc = "endstore", "WAITDESTROY" \in tmp'[Loop]
            PROVE  ThreadsIdle' /\ "WAITDESTROY" \in status'
        BY <3>1, <3>5, <2>1, <2>2, <1>0 DEF Alone
      <3> QED
        BY <3>2, <3>3, <3>4, <3>5, <2>2 DEF Alone
    <2> QED
      BY <2>2, <2>3, <2>4, <2>5
  <1>9. ASSUME NEW t \in AllThreads, WaitDestroyLoad(t) PROVE Goal
    <2>1. /\ tpc[t] = "waitload" /\ tpc'[t] = "waitstore"
          /\ \A u \in AllThreads \ {t} : tpc'[u] = tpc[u] /\ tpc[u] = "idle"
      BY <1>9, Moved DEF WaitDestroyLoad, Goto, Alone, Destroying
    <2>2. /\ tmp'[t] = status /\ \A u \in AllThreads \ {t} : tmp'[u] = tmp[u]
          /\ UNCHANGED <<status, lpc>> /\ ~Freed'
      BY <1>9 DEF WaitDestroyLoad, TypeOK, Goto, Freed
    <2>3. StatusKept'
      BY <2>1, <2>2, <1>0 DEF StatusKept, Destroying
    <2>4. DestroyPlace'
      BY <2>1, <2>2, <1>0 DEF DestroyPlace, Destroying
    <2>5. t = Loop => lpc = "callback"
      BY <2>1 DEF DestroyPlace, Freed
    <2>6. t # Loop => lpc = "out"
      BY <2>1, <1>0 DEF DestroyPlace, Destroying, Freed
    <2>7. Alone'
      BY <2>1, <2>2, <2>5, <2>6, <1>0 DEF Alone, Destroying, ThreadsIdle
    <2> QED
      BY <2>2, <2>3, <2>4, <2>7
  <1>10. ASSUME NEW t \in AllThreads, WaitDestroyStore(t) PROVE Goal
    <2>1. /\ tpc[t] = "waitstore" /\ tpc'[t] = "quit"
          /\ \A u \in AllThreads \ {t} : tpc'[u] = tpc[u] /\ tpc[u] = "idle"
      BY <1>10, Moved DEF WaitDestroyStore, Goto, Alone, Destroying
    <2>2. /\ status' = tmp[t] \cup {"WAITDESTROY"} /\ tmp'[t] = {}
          /\ \A u \in AllThreads \ {t} : tmp'[u] = tmp[u]
          /\ UNCHANGED lpc /\ ~Freed'
      BY <1>10 DEF WaitDestroyStore, TypeOK, Goto, Freed
    <2>3. t = Loop => lpc = "callback"
      BY <2>1 DEF DestroyPlace, Freed
    <2>4. t # Loop => lpc = "out"
      BY <2>1, <1>0 DEF DestroyPlace, Destroying, Freed
    <2>5. StatusKept'
      BY <2>1, <2>2, <2>3, <2>4, <1>0 DEF StatusKept
    <2>6. DestroyPlace'
      BY <2>1, <2>2, <1>0 DEF DestroyPlace, Destroying
    <2>7. Alone'
      BY <2>1, <2>2, <2>3, <2>4, <1>0 DEF Alone, Destroying, ThreadsIdle
    <2> QED
      BY <2>2, <2>5, <2>6, <2>7
  <1>11. ASSUME NEW t \in AllThreads, DestroyFree(t) PROVE Goal
    <2>1. \A u \in AllThreads : tpc'[u] = "idle"
      BY <1>11, Moved DEF DestroyFree, Goto, Alone, Destroying
    <2>2. lpc' = "freed"
      BY <1>11 DEF DestroyFree, Destroyed
    <2> QED
      BY <2>1, <2>2, <1>0
      DEF StatusKept, Running, DestroyPlace, Destroying, Alone
  <1>12. CASE evt_loop_run
    <2>1. /\ lpc = "out" /\ lpc' = "entered" /\ "WAITDESTROY" \notin status
          /\ \A t \in Threads : tpc[t] \notin Quitting \cup Destroying
          /\ UNCHANGED <<status, tpc, tmp>>
      BY <1>12 DEF evt_loop_run, LoopGoto, OwnDestroy, Quitting, Destroying
    <2>2. StatusKept'
      BY <2>1 DEF StatusKept, Running
    <2>3. DestroyPlace'
      BY <2>1 DEF DestroyPlace
    <2>4. Alone'
      BY <2>1 DEF Alone, Quitting, DestroyPlace
    <2> QED
      BY <2>1, <2>2, <2>3, <2>4
  <1>13. CASE RunStatus
    <2>1. /\ lpc = "entered" /\ lpc' = "while" /\ status' = {"STARTED", "RUNNING"}
          /\ UNCHANGED <<tpc, tmp>>
      BY <1>13 DEF RunStatus, LoopGoto
    <2>2. tpc[Loop] = "idle"
      BY <2>1 DEF DestroyPlace
    <2>3. \A t \in Threads : tpc[t] \notin Quitting \cup Destroying
      BY <2>1 DEF StatusKept
    <2>4. StatusKept'
      BY <2>1, <2>2, <2>3, <1>0 DEF StatusKept, Quitting, Destroying
    <2>5. DestroyPlace'
      BY <2>1, <2>2, <2>3 DEF DestroyPlace
    <2>6. Alone'
      BY <2>1, <2>2, <2>3, <1>0 DEF Alone, Quitting
    <2> QED
      BY <2>1, <2>4, <2>5, <2>6
  <1>14. CASE TestQuit \/ PollHit \/ PollOther \/ TestQuitPolled \/ DoWakeup \/ ReadEvtfd
    BY <1>14, EndLoopMove
    DEF TestQuit, PollHit, PollOther, TestQuitPolled, DoWakeup, ReadEvtfd, LoopGoto, Freed,
        Running
  <1>15. CASE TakeLock \/ TakeHead \/ TakeNull \/ Walk \/ WalkEnd \/ CallbackReturns
    BY <1>15, EndLoopMove
    DEF TakeLock, TakeHead, TakeNull, Walk, WalkEnd, CallbackReturns, LoopGoto, Freed, Running
  <1>16. CASE EndLoad
    <2>1. /\ lpc = "end" /\ lpc' = "endstore" /\ tmp'[Loop] = status
          /\ \A u \in AllThreads \ {Loop} : tmp'[u] = tmp[u]
          /\ UNCHANGED <<tpc, status>>
      BY <1>0, <1>16 DEF EndLoad, LoopGoto, TypeOK
    <2>2. tpc[Loop] = "idle"
      BY <2>1 DEF DestroyPlace
    <2>3. StatusKept'
      BY <2>1, <2>2, <1>0 DEF StatusKept, Running
    <2>4. DestroyPlace'
      BY <2>1, <2>2 DEF DestroyPlace
    <2>5. Alone'
      BY <2>1, <2>2, <1>0 DEF Alone, ThreadsIdle
    <2> QED
      BY <2>1, <2>3, <2>4, <2>5
  <1>17. CASE EndStore
    <2>1. /\ lpc = "endstore" /\ lpc' = "ended" /\ tmp'[Loop] = {}
          /\ status' = (tmp[Loop] \ {"RUNNING", "QUITING"}) \cup {"STOP"}
          /\ \A u \in AllThreads \ {Loop} : tmp'[u] = tmp[u]
          /\ UNCHANGED tpc
      BY <1>0, <1>17 DEF EndStore, LoopGoto, TypeOK
    <2>2. tpc[Loop] = "idle"
      BY <2>1 DEF DestroyPlace
    <2>3. StatusKept'
      BY <2>1 DEF StatusKept, Running
    <2>4. DestroyPlace'
      BY <2>1, <2>2 DEF DestroyPlace
    <2>5. Alone'
      BY <2>1, <2>2, <1>0 DEF Alone, ThreadsIdle
    <2> QED
      BY <2>1, <2>3, <2>4, <2>5
  <1>18. CASE RunReturns
    <2>1. lpc = "ended" /\ UNCHANGED <<status, tmp>>
      BY <1>18 DEF RunReturns
    <2>2. CASE "WAITDESTROY" \in status
      <3>1. "RUNNING" \notin status
        BY <2>1, <2>2 DEF StatusKept
      <3>2. lpc' = "freed" /\ tpc' = tpc
        BY <1>18, <2>2, <3>1 DEF RunReturns, Destroyed
      <3>3. ThreadsIdle /\ tpc[Loop] = "idle"
        BY <2>1, <2>2 DEF Alone, DestroyPlace
      <3>4. \A u \in AllThreads : tpc'[u] = "idle"
        BY <3>2, <3>3, <1>0 DEF ThreadsIdle
      <3> QED
        BY <2>1, <3>2, <3>4, <1>0
        DEF StatusKept, Running, DestroyPlace, Destroying, Alone
    <2>3. CASE "WAITDESTROY" \notin status
      <3>1. lpc' = "out" /\ tpc' = tpc
        BY <1>18, <2>3 DEF RunReturns
      <3> QED
        BY <2>1, <3>1, EndLoopMove DEF Freed, Running
    <2> QED
      BY <2>2, <2>3
  <1> QED
    BY <1>1, <1>2, <1>3, <1>4, <1>5, <1>6, <1>7, <1>8, <1>9, <1>10, <1>11, <1>12, <1>13,
       <1>14, <1>15, <1>16, <1>17, <1>18
    DEF Next, Call, CallStep, LoopStep

(* The same for evt_loop_init. *)
LEMMA EndInit == Init => EndInv
  <1> SUFFICES ASSUME Init PROVE EndInv
    OBVIOUS
  <1>1. TypeOK
    BY AsyncInit DEF AsyncInv
  <1>2. lpc = "out" /\ status = {"INIT"} /\ \A t \in AllThreads : tpc[t] = "idle"
    BY DEF Init
  <1>3. Loop \in AllThreads /\ Threads \subseteq AllThreads
    BY DEF AllThreads
  <1> QED
    BY <1>1, <1>2, <1>3
    DEF EndInv, StatusKept, Running, DestroyPlace, Destroying, Alone, Freed

\* Both invariants, and what they make of a freed loop.
AllInv == AsyncInv /\ EndInv /\ FreeCleansAll

(* The step that frees the loop finds on its list all that is not cleaned. *)
LEMMA FreeStep ==
  ASSUME AsyncInv, ~Freed, lpc \in {"out", "ended"}, Destroyed, UNCHANGED <<added, stopped>>
  PROVE  FreeCleansAll'
  <1>1. async_head = Nil /\ async_now = Nil
    BY DEF AsyncInv, ListInv, Detached
  <1>2. Chain(async_head) = {}
    BY <1>1, ReachEnd, ThreadsAssumption DEF Chain, AsyncInv, TypeOK
  <1> SUFFICES ASSUME NEW a \in added \ stopped PROVE cleaned'[a] = 1
    BY DEF FreeCleansAll
  <1>3. a \in Asyncs /\ called[a] \in Nat /\ cleaned[a] \in Nat
    BY DEF AsyncInv, TypeOK
  <1>4. cleaned'[a] = IF a \in Chain(head) THEN cleaned[a] + 1 ELSE cleaned[a]
    BY <1>3 DEF Destroyed
  <1>5. CASE called[a] = 0
    <2>1. a \in Chain(head)
      BY <1>2, <1>5 DEF AsyncInv, ListInv, NoAsyncLost
    <2> QED
      BY <2>1, <1>3, <1>4 DEF AsyncInv, ListInv, Once
  <1>6. CASE called[a] # 0
    <2>1. called[a] = 1 /\ cleaned[a] <= 1
      BY <1>3, <1>6 DEF AsyncInv, ListInv, Once
    <2>2. a \notin Chain(head) /\ cleaned[a] # 0
      BY <2>1, <1>1, <1>3, ThreadsAssumption DEF AsyncInv, ListInv, Once
    <2> QED
      BY <2>1, <2>2, <1>3, <1>4
  <1> QED
    BY <1>5, <1>6

(* All three together hold in every state. *)
LEMMA AllInvariant == ASSUME LockedStarts, OwnDestroy PROVE Spec => []AllInv
  <1>1. Init => AllInv
    BY AsyncInit, EndInit DEF AllInv, Init, FreeCleansAll, Freed
  <1>2. AllInv /\ [Next]_vars => AllInv'
    <2> SUFFICES ASSUME AllInv, [Next]_vars PROVE AllInv'
      OBVIOUS
    <2>1. AsyncInv'
      BY LockedStarts, AsyncStep DEF AllInv
    <2>2. CASE UNCHANGED vars
      BY <2>1, <2>2
      DEF AllInv, AsyncInv, EndInv, TypeOK, StatusKept, DestroyPlace, Alone, ThreadsIdle,
          FreeCleansAll, Freed, vars, listVars, loopVars, threadVars, histVars
    <2>3. CASE ~Freed /\ Next
      <3>1. EndInv'
        BY <2>1, <2>3, OwnDestroy, EndNext DEF AllInv, AsyncInv, EndInv
      <3>2. FreeCleansAll'
        <4>1. CASE ~Freed'
          BY <4>1 DEF FreeCleansAll
        <4>2. ASSUME NEW t \in AllThreads, DestroyFree(t) PROVE FreeCleansAll'
          <5>1. t \in Threads /\ lpc = "out"
            BY <2>3, <4>2
            DEF DestroyFree, Goto, AllInv, EndInv, DestroyPlace, Destroying, AllThreads, Freed
          <5> QED
            BY <2>3, <4>2, <5>1, FreeStep DEF AllInv, DestroyFree
        <4>3. CASE RunReturns /\ "WAITDESTROY" \in status /\ "RUNNING" \notin status
          BY <2>3, <4>3, FreeStep DEF AllInv, RunReturns
        <4>4. Freed' => (\E t \in AllThreads : DestroyFree(t))
                        \/ (RunReturns /\ "WAITDESTROY" \in status /\ "RUNNING" \notin status)
          BY <2>3, FreeingSteps
        <4> QED
          BY <4>1, <4>2, <4>3, <4>4
      <3> QED
        BY <2>1, <3>1, <3>2 DEF AllInv
    <2> QED
      BY <2>2, <2>3, FreedFrozen
  <1> QED
    BY <1>1, <1>2, PTL DEF Spec

(* When the loop is freed, every async that was started and not stopped has   *)
(* been cleaned, by its run or by evt_loop_destroy: nothing leaks.            *)
THEOREM FreeLeaksNothing == ASSUME LockedStarts, OwnDestroy PROVE Spec => []FreeCleansAll
  <1>1. AllInv => FreeCleansAll
    BY DEF AllInv
  <1> QED
    BY <1>1, LockedStarts, OwnDestroy, AllInvariant, PTL
=============================================================================
