-------------------------- MODULE ThreadPoolProofs --------------------------
(***************************************************************************)
(* Theorems about the thread pool for any number of workers and pushers,    *)
(* any queue size and any number of pushes: the invariants that ThreadPool  *)
(* states, and that the pool implements the bounded FIFO of TaskQueue.      *)
(***************************************************************************)
EXTENDS ThreadPool, Integers, FiniteSetTheorems, SequenceTheorems, TLAPS

-----------------------------------------------------------------------------
(* The ring buffer, as facts about any ring s with indices r and w.         *)

\* Storing at the write index of a ring that is not full appends a task:
\* the arithmetic of thread_pool_push.
LEMMA RingPush ==
    ASSUME NEW s \in [Slots -> Nat], NEW r \in Slots, NEW w \in Slots,
           NEW u \in 0 .. Size, NEW n \in Nat,
           HoldsLast(s, r, w, u, n), u # Size
    PROVE  /\ HoldsLast([s EXCEPT ![w] = n + 1], r, Next1(w), u + 1, n + 1)
           /\ Next1(w) \in Slots
<1>1. Size \in Nat /\ Size > 0
  BY SizeAssumption
<1>2. r \in Nat /\ r < Size /\ u \in Nat /\ u < Size /\ w \in Slots
  BY <1>1 DEF Slots
<1>3. Next1(w) \in Slots /\ Next1(w) = SlotAfter(r, u + 1)
  BY <1>1, <1>2 DEF HoldsLast, SlotAfter, Next1, Slots
<1>4. ASSUME NEW i \in 0 .. u
      PROVE  [s EXCEPT ![w] = n + 1][SlotAfter(r, i)] = n + 1 - (u + 1) + i + 1
  <2>1. SlotAfter(r, i) \in Slots
    BY <1>1, <1>2 DEF SlotAfter, Slots
  <2>2. CASE i = u
    BY <2>1, <2>2, <1>2 DEF HoldsLast
  <2>3. CASE i # u
    <3>1. i \in 0 .. (u - 1) /\ SlotAfter(r, i) # w
      BY <1>1, <1>2, <2>3 DEF HoldsLast, SlotAfter
    <3>2. s[SlotAfter(r, i)] = n - u + i + 1
      BY <3>1 DEF HoldsLast
    <3> QED
      BY <2>1, <3>1, <3>2, <1>2
  <2> QED
    BY <2>2, <2>3
<1> QED
  BY <1>2, <1>3, <1>4 DEF HoldsLast

\* Advancing the read index of a ring that is not empty removes the oldest
\* task: the arithmetic of thread_pool_func.
LEMMA RingPop ==
    ASSUME NEW s \in [Slots -> Nat], NEW r \in Slots, NEW w \in Slots,
           NEW u \in 0 .. Size, NEW n \in Nat,
           HoldsLast(s, r, w, u, n), u > 0
    PROVE  /\ HoldsLast(s, Next1(r), w, u - 1, n)
           /\ Next1(r) \in Slots
           /\ s[r] = n - u + 1
<1>1. Size \in Nat /\ Size > 0
  BY SizeAssumption
<1>2. r \in Nat /\ r < Size /\ u \in Nat /\ u <= Size
  BY <1>1 DEF Slots
<1>3. Next1(r) \in Slots /\ w = SlotAfter(Next1(r), u - 1)
  BY <1>1, <1>2 DEF HoldsLast, SlotAfter, Next1, Slots
<1>4. s[r] = n - u + 1
  <2>1. 0 \in 0 .. (u - 1) /\ SlotAfter(r, 0) = r
    BY <1>1, <1>2 DEF SlotAfter
  <2> QED
    BY <2>1, <1>2 DEF HoldsLast
<1>5. ASSUME NEW i \in 0 .. (u - 1 - 1)
      PROVE  s[SlotAfter(Next1(r), i)] = n - (u - 1) + i + 1
  <2>1. SlotAfter(Next1(r), i) = SlotAfter(r, i + 1) /\ i + 1 \in 0 .. (u - 1)
    BY <1>1, <1>2 DEF SlotAfter, Next1
  <2>2. s[SlotAfter(r, i + 1)] = n - u + (i + 1) + 1
    BY <2>1 DEF HoldsLast
  <2> QED
    BY <2>1, <2>2, <1>2
<1>6. u - 1 <= n
  BY <1>2 DEF HoldsLast
<1> QED
  BY <1>3, <1>4, <1>5, <1>6 DEF HoldsLast

-----------------------------------------------------------------------------
(* The inductive invariant                                                  *)

TypeInv ==
    /\ q \in [Slots -> Nat]
    /\ rind \in Slots /\ wind \in Slots /\ used \in 0 .. Size
    /\ status \in {"STOP", "RUNNING"}
    /\ running \in Int
    /\ lock \in Workers \cup {None}
    /\ mutex \in Workers \cup Pushers \cup {None}
    /\ wpc \in [Workers -> WorkerPC]
    /\ elem \in [Workers -> Nat]
    /\ ppc \in [Pushers -> PusherPC]
    /\ opc \in OwnerPC
    /\ pushed \in Nat
    /\ done \subseteq Nat \ {0}

\* Who is inside a critical section holds its mutex, and nobody else does.
Exclusion ==
    /\ \A w \in Workers : wpc[w] \in {"check", "decide"} <=> mutex = w
    /\ \A p \in Pushers : ppc[p] = "body" <=> mutex = p

\* A worker that passed the inner while with the pool running finds a task:
\* used is never decremented below zero although status is read outside the
\* lock and waits end spuriously.
TakeFindsTask ==
    \A w \in Workers : wpc[w] = "decide" /\ status = "RUNNING" => used > 0

\* The phases of the owner: the status it has set, the workers it has not
\* started yet and the pushers that are gone.
OwnerPhase ==
    /\ status = "RUNNING" <=> opc \in {"spawn", "up"}
    /\ opc = "created" => \A w \in Workers : wpc[w] = "unborn"
    /\ opc \notin {"created", "spawn", "up"} => \A p \in Pushers : ppc[p] = "idle"

\* A worker has a task in its hands exactly while it runs it.
HandWhileRunning == \A w \in Workers : elem[w] # 0 <=> wpc[w] = "run"

QueueInv == TypeInv /\ Exclusion /\ TakeFindsTask /\ OwnerPhase /\ HandWhileRunning
              /\ RingHoldsBacklog /\ TakenOnce

USE DEF vars, queueVars, historyVars

\* The pool as thread_pool_create leaves it satisfies the invariant.
LEMMA QueueInvInit == thread_pool_create => QueueInv
  BY SizeAssumption, ThreadsAssumption
     DEF thread_pool_create, QueueInv, TypeInv, Exclusion, TakeFindsTask, OwnerPhase,
         HandWhileRunning, RingHoldsBacklog, HoldsLast, SlotAfter, TakenOnce,
         Slots, WorkerPC, PusherPC, OwnerPC

\* The part of the invariant that is about control: who stands where.
ControlInv == TypeInv /\ Exclusion /\ TakeFindsTask /\ OwnerPhase /\ HandWhileRunning

\* What a step leaves alone when it neither pushes, takes nor runs a task.
DataUnchanged == UNCHANGED <<queueVars, elem, historyVars>>

\* Steps that leave the tasks alone keep the invariants about them.
LEMMA DataStutter ==
    RingHoldsBacklog /\ TakenOnce /\ DataUnchanged => RingHoldsBacklog' /\ TakenOnce'
  BY DEF DataUnchanged, RingHoldsBacklog, TakenOnce, HoldsLast, SlotAfter

\* The steps of the workers between start and exit, apart from those that
\* take and run a task, keep the control invariant.
LEMMA WorkerControl ==
    ASSUME ControlInv, NEW w \in Workers,
           \/ StartLock(w) \/ StartInc(w) \/ StartUnlock(w) \/ TestStatus(w)
           \/ CondLock(w) \/ CheckWait(w) \/ SpuriousWakeup(w) \/ DecideStop(w)
           \/ EndLock(w) \/ EndDec(w) \/ EndUnlock(w)
    PROVE  ControlInv' /\ DataUnchanged
<1> USE ThreadsAssumption
        DEF ControlInv, TypeInv, Exclusion, TakeFindsTask, OwnerPhase, HandWhileRunning,
            DataUnchanged, WGoto, WorkerPC
<1>1. CASE StartLock(w)
  BY <1>1 DEF StartLock
<1>2. CASE StartInc(w)
  BY <1>2 DEF StartInc
<1>3. CASE StartUnlock(w)
  BY <1>3 DEF StartUnlock
<1>4. CASE TestStatus(w)
  BY <1>4 DEF TestStatus
<1>5. CASE CondLock(w)
  BY <1>5 DEF CondLock
<1>6. CASE CheckWait(w)
  BY <1>6 DEF CheckWait
<1>7. CASE SpuriousWakeup(w)
  BY <1>7 DEF SpuriousWakeup
<1>8. CASE DecideStop(w)
  BY <1>8 DEF DecideStop
<1>9. CASE EndLock(w)
  BY <1>9 DEF EndLock
<1>10. CASE EndDec(w)
  BY <1>10 DEF EndDec
<1>11. CASE EndUnlock(w)
  BY <1>11 DEF EndUnlock
<1> QED
  BY <1>1, <1>2, <1>3, <1>4, <1>5, <1>6, <1>7, <1>8, <1>9, <1>10, <1>11

\* So do the steps of the pushers that store nothing.
LEMMA PusherControl ==
    ASSUME ControlInv, NEW p \in Pushers,
           PushCall(p) \/ PushLock(p) \/ PushFull(p) \/ PushSignal(p)
    PROVE  ControlInv' /\ DataUnchanged
<1> USE ThreadsAssumption
        DEF ControlInv, TypeInv, Exclusion, TakeFindsTask, OwnerPhase, HandWhileRunning,
            DataUnchanged, PGoto, PusherPC, WorkerPC
<1>1. CASE PushCall(p)
  BY <1>1 DEF PushCall
<1>2. CASE PushLock(p)
  BY <1>2 DEF PushLock
<1>3. CASE PushFull(p)
  BY <1>3 DEF PushFull
<1>4. CASE PushSignal(p)
  BY <1>4 DEF PushSignal, Wake, Waiting
<1> QED
  BY <1>1, <1>2, <1>3, <1>4

\* And the steps of the owner.
LEMMA OwnerControl ==
    ASSUME ControlInv,
           thread_pool_run \/ Spawn \/ DestroyCall \/ thread_pool_destroy
    PROVE  ControlInv' /\ DataUnchanged
<1> USE DEF ControlInv, TypeInv, Exclusion, TakeFindsTask, OwnerPhase, HandWhileRunning,
            DataUnchanged, OwnerPC, WorkerPC
<1>1. CASE thread_pool_run
  BY <1>1 DEF thread_pool_run
<1>2. CASE Spawn
  BY <1>2 DEF Spawn
<1>3. CASE DestroyCall
  BY <1>3 DEF DestroyCall
<1>4. CASE DestroyPoll
  BY <1>4 DEF DestroyPoll
<1>5. CASE DestroyBroadcast
  BY <1>5 DEF DestroyBroadcast, Wake, Waiting
<1>6. CASE DestroyFree
  BY <1>6 DEF DestroyFree
<1> QED
  BY <1>1, <1>2, <1>3, <1>4, <1>5, <1>6 DEF thread_pool_destroy

\* A worker takes the oldest task, which nobody has had before.
LEMMA TakeStep ==
    ASSUME QueueInv, NEW w \in Workers, DecideTake(w)
    PROVE  QueueInv' /\ elem'[w] = pushed - used + 1
<1> USE DEF DecideTake, WGoto
<1>1. TypeInv /\ used > 0 /\ elem[w] = 0
  BY DEF QueueInv, TakeFindsTask, HandWhileRunning, TypeInv
<1>2. /\ HoldsLast(q, Next1(rind), wind, used - 1, pushed)
      /\ Next1(rind) \in Slots
      /\ q[rind] = pushed - used + 1
  BY <1>1, RingPop DEF QueueInv, RingHoldsBacklog, TypeInv
<1>3. used <= pushed
  BY DEF QueueInv, RingHoldsBacklog, HoldsLast
<1>4. elem' = [elem EXCEPT ![w] = pushed - used + 1]
  BY <1>2
<1>5. TypeInv'
  <2>1. pushed - used + 1 \in Nat /\ used - 1 \in 0 .. Size
    BY <1>1, <1>3, SizeAssumption DEF TypeInv
  <2>2. elem' \in [Workers -> Nat]
    BY <1>1, <1>4, <2>1 DEF TypeInv
  <2> QED
    BY <1>1, <1>2, <2>1, <2>2 DEF TypeInv, WorkerPC
<1>6. Exclusion' /\ TakeFindsTask' /\ OwnerPhase'
  BY <1>1, ThreadsAssumption
     DEF QueueInv, Exclusion, TakeFindsTask, OwnerPhase, TypeInv
<1>7. HandWhileRunning'
  BY <1>1, <1>3, <1>4 DEF QueueInv, HandWhileRunning, TypeInv
<1>8. RingHoldsBacklog'
  BY <1>2 DEF RingHoldsBacklog
<1>9. TakenOnce'
  <2>1. TakenOnce /\ done' = done /\ pushed' = pushed /\ used' = used - 1
    BY DEF QueueInv
  <2>2. pushed - used \in Nat /\ 1 .. (pushed' - used') = 1 .. (pushed - used) \cup {elem'[w]}
    BY <1>1, <1>3, <1>4, <2>1 DEF TypeInv
  <2>3. elem'[w] \notin done /\ \A v \in Workers : elem[v] # elem'[w]
    BY <1>1, <1>3, <1>4, <2>1, <2>2 DEF TakenOnce, TypeInv
  <2>4. {elem'[v] : v \in Workers} \ {0} = ({elem[v] : v \in Workers} \ {0}) \cup {elem'[w]}
    BY <1>1, <1>3, <1>4, <2>2 DEF TypeInv
  <2>5. ASSUME NEW v \in Workers, NEW x \in Workers, v # x, elem'[v] # 0
        PROVE  elem'[v] # elem'[x]
    BY <1>1, <1>4, <2>1, <2>3, <2>5 DEF TakenOnce, TypeInv
  <2>6. {elem'[v] : v \in Workers} \cap done' \subseteq {0}
    BY <2>1, <2>3, <2>4 DEF TakenOnce
  <2> QED
    BY <2>1, <2>2, <2>4, <2>5, <2>6 DEF TakenOnce
<1> QED
  BY <1>1, <1>4, <1>5, <1>6, <1>7, <1>8, <1>9 DEF QueueInv, TypeInv

\* Running a task moves it from the worker's hands to the executed ones.
LEMMA RunStep ==
    ASSUME QueueInv, NEW w \in Workers, RunTask(w)
    PROVE  QueueInv' /\ elem[w] # 0
<1> USE DEF RunTask, WGoto
<1>1. TypeInv /\ elem[w] \in Nat \ {0}
  BY DEF QueueInv, HandWhileRunning, TypeInv
<1>2. TypeInv'
  BY <1>1 DEF TypeInv, WorkerPC
<1>3. Exclusion' /\ TakeFindsTask' /\ OwnerPhase' /\ HandWhileRunning'
  BY <1>1 DEF QueueInv, Exclusion, TakeFindsTask, OwnerPhase, HandWhileRunning, TypeInv
<1>4. RingHoldsBacklog'
  BY DEF QueueInv, RingHoldsBacklog, HoldsLast, SlotAfter
<1>5. TakenOnce'
  <2>1. TakenOnce /\ done' = done \cup {elem[w]} /\ pushed' = pushed /\ used' = used
    BY DEF QueueInv
  <2>2. {elem'[v] : v \in Workers} \ {0} = ({elem[v] : v \in Workers} \ {0}) \ {elem[w]}
    BY <1>1, <2>1 DEF TakenOnce, TypeInv
  <2>3. \A v, x \in Workers : v # x /\ elem'[v] # 0 => elem'[v] # elem'[x]
    BY <1>1, <2>1 DEF TakenOnce, TypeInv
  <2>4. {elem'[v] : v \in Workers} \cap done' \subseteq {0}
    BY <2>1, <2>2 DEF TakenOnce
  <2>5. 1 .. (pushed' - used') = done' \cup ({elem'[v] : v \in Workers} \ {0})
    BY <1>1, <2>1, <2>2 DEF TakenOnce
  <2> QED
    BY <2>3, <2>4, <2>5 DEF TakenOnce
<1> QED
  BY <1>1, <1>2, <1>3, <1>4, <1>5 DEF QueueInv

\* A push that finds room appends its task to the backlog.
LEMMA PushStep ==
    ASSUME QueueInv, NEW p \in Pushers, PushStore(p)
    PROVE  QueueInv'
<1> USE DEF PushStore, PGoto
<1>1. TypeInv
  BY DEF QueueInv
<1>2. /\ HoldsLast([q EXCEPT ![wind] = pushed + 1], rind, Next1(wind), used + 1, pushed + 1)
      /\ Next1(wind) \in Slots
  BY <1>1, RingPush DEF QueueInv, RingHoldsBacklog, TypeInv
<1>3. TypeInv'
  BY <1>1, <1>2, SizeAssumption DEF TypeInv, PusherPC
<1>4. Exclusion' /\ TakeFindsTask' /\ OwnerPhase' /\ HandWhileRunning'
  BY <1>1, ThreadsAssumption
     DEF QueueInv, Exclusion, TakeFindsTask, OwnerPhase, HandWhileRunning, TypeInv
<1>5. RingHoldsBacklog'
  BY <1>2 DEF RingHoldsBacklog
<1>6. TakenOnce'
  <2>1. pushed' - used' = pushed - used
    BY <1>1 DEF TypeInv
  <2> QED
    BY <2>1 DEF QueueInv, TakenOnce
<1> QED
  BY <1>3, <1>4, <1>5, <1>6 DEF QueueInv

\* Every step of the pool keeps the invariant.
LEMMA QueueInvStep == QueueInv /\ [Next]_vars => QueueInv'
<1> SUFFICES ASSUME QueueInv, [Next]_vars
             PROVE  QueueInv'
  OBVIOUS
<1>1. ControlInv /\ RingHoldsBacklog /\ TakenOnce
  BY DEF QueueInv, ControlInv
<1>2. ASSUME ControlInv', DataUnchanged
      PROVE  QueueInv'
  BY <1>1, <1>2, DataStutter DEF QueueInv, ControlInv
<1>3. CASE thread_pool_run \/ Spawn \/ DestroyCall \/ thread_pool_destroy
  BY <1>1, <1>2, <1>3, OwnerControl
<1>4. ASSUME NEW w \in Workers, thread_pool_func(w) \/ SpuriousWakeup(w)
      PROVE  QueueInv'
  <2>1. CASE DecideTake(w)
    BY <2>1, TakeStep
  <2>2. CASE RunTask(w)
    BY <2>2, RunStep
  <2>3. CASE \/ StartLock(w) \/ StartInc(w) \/ StartUnlock(w) \/ TestStatus(w)
             \/ CondLock(w) \/ CheckWait(w) \/ SpuriousWakeup(w) \/ DecideStop(w)
             \/ EndLock(w) \/ EndDec(w) \/ EndUnlock(w)
    BY <1>1, <1>2, <2>3, WorkerControl
  <2> QED
    BY <1>4, <2>1, <2>2, <2>3 DEF thread_pool_func
<1>5. ASSUME NEW p \in Pushers, PushCall(p) \/ thread_pool_push(p)
      PROVE  QueueInv'
  <2>1. CASE PushStore(p)
    BY <2>1, PushStep
  <2>2. CASE PushCall(p) \/ PushLock(p) \/ PushFull(p) \/ PushSignal(p)
    BY <1>1, <1>2, <2>2, PusherControl
  <2> QED
    BY <1>5, <2>1, <2>2 DEF thread_pool_push
<1>6. CASE UNCHANGED vars
  BY <1>6 DEF QueueInv, TypeInv, Exclusion, TakeFindsTask, OwnerPhase, HandWhileRunning,
              RingHoldsBacklog, HoldsLast, SlotAfter, TakenOnce
<1> QED
  BY <1>3, <1>4, <1>5, <1>6 DEF Next, Terminated

\* The inductive invariant holds in every reachable state.
THEOREM QueueInvariant == Spec => []QueueInv
  BY QueueInvInit, QueueInvStep, PTL DEF Spec

-----------------------------------------------------------------------------
(* pool->running as a count of workers, and what the owner learns from it   *)

\* The workers between running++ and running--.
Counted == {w \in Workers : wpc[w] \notin {"unborn", "start", "inc", "endunlock", "exited"}}

\* running counts them, and an owner that has awaited the start of all the
\* workers finds none of them missing from the count when it polls it.
CountInv ==
    /\ running = Cardinality(Counted)
    /\ AwaitStart /\ opc \in {"poll", "bcast", "free", "freed"} =>
          \A w \in Workers : wpc[w] \notin {"start", "inc"}
    /\ AwaitStart /\ opc \in {"free", "freed"} => Counted = {}

\* Any set of counted workers is finite, no larger than the set of workers,
\* and all of them only if it has as many elements.
LEMMA CountedFinite ==
    ASSUME NEW S \in SUBSET Workers
    PROVE  /\ IsFiniteSet(S) /\ Cardinality(S) \in Nat
           /\ Cardinality(S) <= Cardinality(Workers)
           /\ Cardinality(S) = Cardinality(Workers) => S = Workers
           /\ Cardinality(S) = 0 => S = {}
  BY WorkersAssumption, FS_Subset, FS_CardinalityType, FS_EmptySet

\* No worker is counted in a fresh pool.
LEMMA CountInvInit == thread_pool_create => CountInv
<1> SUFFICES ASSUME thread_pool_create PROVE CountInv
  OBVIOUS
<1>1. Counted = {}
  BY DEF thread_pool_create, Counted
<1> QED
  BY <1>1, FS_EmptySet DEF CountInv, thread_pool_create

\* running++ and running-- happen exactly when a worker enters and leaves
\* the count; no other step moves a worker in or out.
LEMMA CountInvStep == QueueInv /\ CountInv /\ [Next]_vars => CountInv'
<1> SUFFICES ASSUME QueueInv, CountInv, [Next]_vars
             PROVE  CountInv'
  OBVIOUS
<1>1. TypeInv /\ OwnerPhase
  BY DEF QueueInv
<1>2. ASSUME Counted' = Counted, running' = running, opc' = opc,
             \A w \in Workers : wpc'[w] \in {"start", "inc"} =>
                                  wpc[w] \in {"start", "inc"}
      PROVE  CountInv'
  BY <1>2 DEF CountInv
<1>3. ASSUME NEW w \in Workers, thread_pool_func(w) \/ SpuriousWakeup(w)
      PROVE  CountInv'
  <2> USE <1>1 DEF WGoto, TypeInv, Counted
  <2>1. CASE StartInc(w)
    <3>1. Counted' = Counted \cup {w} /\ w \notin Counted
      BY <2>1 DEF StartInc
    <3>2. Cardinality(Counted') = Cardinality(Counted) + 1
      BY <3>1, CountedFinite, FS_AddElement
    <3>3. AwaitStart => opc \notin {"poll", "bcast", "free", "freed"}
      BY <2>1 DEF StartInc, CountInv
    <3> QED
      BY <2>1, <3>2, <3>3 DEF StartInc, CountInv
  <2>2. CASE EndDec(w)
    <3>1. Counted' = Counted \ {w} /\ w \in Counted
      BY <2>2 DEF EndDec
    <3>2. Cardinality(Counted') = Cardinality(Counted) - 1
      <4>1. IsFiniteSet(Counted)
        BY CountedFinite
      <4> HIDE DEF Counted
      <4> QED
        BY <3>1, <4>1, FS_RemoveElement
    <3>3. /\ opc' = opc
          /\ \A v \in Workers : wpc'[v] \in {"start", "inc"} => wpc[v] \in {"start", "inc"}
      BY <2>2 DEF EndDec
    <3> QED
      BY <2>2, <3>1, <3>2, <3>3 DEF EndDec, CountInv
  <2>3. CASE StartLock(w) \/ StartUnlock(w) \/ TestStatus(w) \/ CondLock(w)
    <3>1. /\ Counted' = Counted /\ running' = running /\ opc' = opc
          /\ \A v \in Workers : wpc'[v] \in {"start", "inc"} => wpc[v] \in {"start", "inc"}
      BY <2>3 DEF StartLock, StartUnlock, TestStatus, CondLock
    <3> QED
      BY <1>2, <3>1
  <2>4. CASE CheckWait(w) \/ SpuriousWakeup(w) \/ DecideStop(w) \/ DecideTake(w)
    <3>1. /\ Counted' = Counted /\ running' = running /\ opc' = opc
          /\ \A v \in Workers : wpc'[v] \in {"start", "inc"} => wpc[v] \in {"start", "inc"}
      BY <2>4 DEF CheckWait, SpuriousWakeup, DecideStop, DecideTake
    <3> QED
      BY <1>2, <3>1
  <2>5. CASE RunTask(w) \/ EndLock(w) \/ EndUnlock(w)
    <3>1. /\ Counted' = Counted /\ running' = running /\ opc' = opc
          /\ \A v \in Workers : wpc'[v] \in {"start", "inc"} => wpc[v] \in {"start", "inc"}
      BY <2>5 DEF RunTask, EndLock, EndUnlock
    <3> QED
      BY <1>2, <3>1
  <2> QED
    BY <1>3, <2>1, <2>2, <2>3, <2>4, <2>5 DEF thread_pool_func
<1>4. ASSUME NEW p \in Pushers, PushCall(p) \/ thread_pool_push(p)
      PROVE  CountInv'
  <2>1. /\ Counted' = Counted /\ running' = running /\ opc' = opc
        /\ \A v \in Workers : wpc'[v] \in {"start", "inc"} => wpc[v] \in {"start", "inc"}
    BY <1>1, <1>4 DEF thread_pool_push, PushCall, PushLock, PushFull, PushStore, PushSignal,
                      Wake, Waiting, Counted, TypeInv
  <2> QED
    BY <1>2, <2>1
<1>5. CASE thread_pool_run \/ Spawn
  <2>1. Counted' = Counted /\ running' = running
    BY <1>1, <1>5 DEF thread_pool_run, Spawn, Counted, TypeInv
  <2>2. opc' \notin {"poll", "bcast", "free", "freed"}
    BY <1>5 DEF thread_pool_run, Spawn
  <2> QED
    BY <2>1, <2>2 DEF CountInv
<1>6. CASE DestroyCall
  <2>1. Counted' = Counted /\ running' = running /\ wpc' = wpc /\ opc' = "poll"
    BY <1>6 DEF DestroyCall, Counted
  <2>2. ASSUME AwaitStart PROVE \A w \in Workers : wpc[w] \notin {"start", "inc"}
    <3>1. CASE opc = "created"
      BY <1>1, <3>1 DEF OwnerPhase
    <3>2. CASE opc = "up"
      <4>1. Cardinality(Counted) = Cardinality(Workers)
        BY <1>6, <2>2, <3>2 DEF DestroyCall, CountInv
      <4>2. Counted = Workers
        BY <4>1, CountedFinite DEF Counted
      <4> QED
        BY <4>2 DEF Counted
    <3> QED
      BY <1>6, <3>1, <3>2 DEF DestroyCall
  <2> QED
    BY <2>1, <2>2 DEF CountInv
<1>7. CASE DestroyPoll
  <2>1. Counted' = Counted /\ running' = running /\ wpc' = wpc /\ opc = "poll"
    BY <1>7 DEF DestroyPoll, Counted
  <2>2. running \in Nat /\ (running = 0 => Counted = {})
    BY CountedFinite DEF CountInv, Counted
  <2>3. opc' \in {"free", "freed"} => Counted' = {}
    BY <1>7, <2>1, <2>2 DEF DestroyPoll
  <2> QED
    BY <2>1, <2>3 DEF CountInv
<1>8. CASE DestroyBroadcast
  <2>1. /\ Counted' = Counted /\ running' = running /\ opc = "bcast" /\ opc' = "poll"
        /\ \A v \in Workers : wpc'[v] \in {"start", "inc"} => wpc[v] \in {"start", "inc"}
    BY <1>1, <1>8 DEF DestroyBroadcast, Wake, Waiting, Counted, TypeInv
  <2> QED
    BY <2>1 DEF CountInv
<1>9. CASE DestroyFree
  BY <1>9 DEF DestroyFree, CountInv, Counted
<1>10. CASE UNCHANGED vars
  BY <1>10 DEF CountInv, Counted
<1> QED
  BY <1>3, <1>4, <1>5, <1>6, <1>7, <1>8, <1>9, <1>10 DEF Next, Terminated, thread_pool_destroy

\* The count is right in every reachable state.
THEOREM CountInvariant == Spec => []CountInv
  BY QueueInvariant, CountInvInit, CountInvStep, PTL DEF Spec

-----------------------------------------------------------------------------
(* The properties that ThreadPool states and TLC checks                     *)

\* Type correctness: every field keeps its range; in particular used stays
\* between 0 and size and running between 0 and the number of workers.
THEOREM TypeCorrect == Spec => []TypeOK
<1>1. QueueInv /\ CountInv => TypeOK
  BY CountedFinite DEF QueueInv, TypeInv, CountInv, Counted, TypeOK
<1> QED
  BY <1>1, QueueInvariant, CountInvariant, PTL

\* The ring buffer holds exactly the backlog, in order.
THEOREM RingCorrect == Spec => []RingHoldsBacklog
<1>1. QueueInv => RingHoldsBacklog
  BY DEF QueueInv
<1> QED
  BY <1>1, QueueInvariant, PTL

\* No task is taken twice or lost.
THEOREM NoTaskTwice == Spec => []TakenOnce
<1>1. QueueInv => TakenOnce
  BY DEF QueueInv
<1> QED
  BY <1>1, QueueInvariant, PTL

\* The memory is released only after every worker is done with the queue, if
\* the owner has waited for the workers to start.
THEOREM NoQueueUseAfterFree == Spec => []FreeAfterQueueUse
<1>1. QueueInv /\ CountInv => FreeAfterQueueUse
  BY DEF QueueInv, TypeInv, CountInv, Counted, FreeAfterQueueUse, WorkerPC
<1> QED
  BY <1>1, QueueInvariant, CountInvariant, PTL

-----------------------------------------------------------------------------
(* Refinement: the pool implements TaskQueue                                *)

\* The abstract queue is the interval of task numbers not yet taken.
Interval(n, u) == [i \in 1 .. u |-> n - u + i]

\* Appending the next task number to an interval, and removing its head.
LEMMA IntervalFifo ==
    ASSUME NEW n \in Nat, NEW u \in Nat, u <= n
    PROVE  /\ Interval(n, u) \in Seq(Nat) /\ Len(Interval(n, u)) = u
           /\ Interval(n + 1, u + 1) = Append(Interval(n, u), n + 1)
           /\ u > 0 => /\ Interval(n, u) # << >>
                       /\ Head(Interval(n, u)) = n - u + 1
                       /\ Tail(Interval(n, u)) = Interval(n, u - 1)
<1>1. Interval(n, u) \in Seq(Nat) /\ Len(Interval(n, u)) = u
  BY DEF Interval
<1>2. Interval(n + 1, u + 1) = Append(Interval(n, u), n + 1)
  <2>1. /\ Append(Interval(n, u), n + 1) \in Seq(Nat)
        /\ Len(Append(Interval(n, u), n + 1)) = u + 1
    BY <1>1
  <2>2. /\ Interval(n + 1, u + 1) \in Seq(Nat)
        /\ Len(Interval(n + 1, u + 1)) = u + 1
    BY DEF Interval
  <2>3. \A i \in 1 .. (u + 1) :
            Interval(n + 1, u + 1)[i] = Append(Interval(n, u), n + 1)[i]
    BY <1>1 DEF Interval
  <2> QED
    BY <2>1, <2>2, <2>3, SeqEqual
<1>3. ASSUME u > 0
      PROVE  /\ Interval(n, u) # << >>
             /\ Head(Interval(n, u)) = n - u + 1
             /\ Tail(Interval(n, u)) = Interval(n, u - 1)
  <2>1. Interval(n, u) # << >> /\ Head(Interval(n, u)) = n - u + 1
    BY <1>1, <1>3 DEF Interval
  <2>2. /\ Tail(Interval(n, u)) \in Seq(Nat)
        /\ Len(Tail(Interval(n, u))) = u - 1
    BY <1>1, <1>3, <2>1
  <2>3. /\ Interval(n, u - 1) \in Seq(Nat)
        /\ Len(Interval(n, u - 1)) = u - 1
    BY <1>3 DEF Interval
  <2>4. \A i \in 1 .. (u - 1) : Tail(Interval(n, u))[i] = Interval(n, u - 1)[i]
    BY <1>1, <1>3, <2>1 DEF Interval
  <2> QED
    BY <2>1, <2>2, <2>3, <2>4, <1>3, SeqEqual
<1> QED
  BY <1>1, <1>2, <1>3

\* A ring that holds the last u of n tasks is such an interval.
LEMMA RingInterval ==
    ASSUME NEW s, NEW r, NEW w, NEW u \in Nat, NEW n \in Nat, HoldsLast(s, r, w, u, n)
    PROVE  Backlog(s, r, u) = Interval(n, u) /\ u <= n
<1>1. u <= n /\ \A i \in 1 .. u : s[SlotAfter(r, i - 1)] = n - u + i
  BY DEF HoldsLast
<1> QED
  BY <1>1 DEF Backlog, Interval

\* In every state of the invariant the ring is an interval.
LEMMA BacklogInterval ==
    QueueInv => /\ Backlog(q, rind, used) = Interval(pushed, used)
                /\ used \in Nat /\ pushed \in Nat /\ used <= pushed
<1> SUFFICES ASSUME QueueInv
             PROVE  /\ Backlog(q, rind, used) = Interval(pushed, used)
                    /\ used \in Nat /\ pushed \in Nat /\ used <= pushed
  OBVIOUS
<1>1. used \in Nat /\ pushed \in Nat
  BY SizeAssumption DEF QueueInv, TypeInv
<1>2. HoldsLast(q, rind, wind, used, pushed)
  BY DEF QueueInv, RingHoldsBacklog
<1> QED
  BY <1>1, <1>2, RingInterval

\* A fresh pool is a fresh task queue.
LEMMA RefinementInit == thread_pool_create => Abstract!TQInit
  BY DEF thread_pool_create, Abstract!TQInit, Backlog

\* Every step of the pool is a step of the task queue or leaves it as it is:
\* the push is the store under the mutex, the take is the pop under the
\* mutex, the finish is the task's return, the stop is the store of status.
LEMMA RefinementStep ==
    QueueInv /\ QueueInv' /\ [Next]_vars => [Abstract!TQNext]_(Abstract!tqvars)
<1> SUFFICES ASSUME QueueInv, QueueInv', [Next]_vars
             PROVE  [Abstract!TQNext]_(Abstract!tqvars)
  OBVIOUS
<1>1. /\ Backlog(q, rind, used) = Interval(pushed, used)
      /\ used \in Nat /\ pushed \in Nat /\ used <= pushed
  BY BacklogInterval
<1>2. (Backlog(q, rind, used))' = Interval(pushed', used')
  <2>1. used' \in Nat /\ pushed' \in Nat
    BY SizeAssumption DEF QueueInv, TypeInv
  <2>2. HoldsLast(q', rind', wind', used', pushed')
    BY DEF QueueInv, RingHoldsBacklog
  <2>3. Backlog(q', rind', used') = Interval(pushed', used')
    BY <2>1, <2>2, RingInterval
  <2> QED
    BY <2>3 DEF Backlog, SlotAfter
<1>3. ASSUME UNCHANGED <<q, rind, used, pushed, elem, done>>,
             (opc \notin {"created", "spawn", "up"}) =
                 (opc' \notin {"created", "spawn", "up"})
      PROVE  UNCHANGED Abstract!tqvars
  BY <1>3 DEF Abstract!tqvars, Backlog, SlotAfter
<1>4. ASSUME NEW w \in Workers, thread_pool_func(w) \/ SpuriousWakeup(w)
      PROVE  [Abstract!TQNext]_(Abstract!tqvars)
  <2>1. CASE DecideTake(w)
    <3>1. used > 0 /\ elem[w] = 0
      BY <2>1 DEF DecideTake, WGoto, QueueInv, TakeFindsTask, HandWhileRunning, TypeInv
    <3>2. used' = used - 1 /\ pushed' = pushed /\ done' = done /\ opc' = opc
      BY <2>1 DEF DecideTake
    <3>3. elem' = [elem EXCEPT ![w] = pushed - used + 1]
      BY <2>1, TakeStep DEF DecideTake, WGoto, QueueInv, TypeInv
    <3>4. /\ Interval(pushed, used) # << >>
          /\ Head(Interval(pushed, used)) = pushed - used + 1
          /\ Tail(Interval(pushed, used)) = Interval(pushed', used')
      BY <1>1, <3>1, <3>2, IntervalFifo
    <3>5. Abstract!Take(w)
      BY <1>1, <1>2, <3>1, <3>2, <3>3, <3>4 DEF Abstract!Take
    <3> QED
      BY <3>5 DEF Abstract!TQNext
  <2>2. CASE RunTask(w)
    <3>1. UNCHANGED <<q, rind, used, pushed, opc>>
      BY <2>2 DEF RunTask
    <3>2. Abstract!Finish(w)
      BY <2>2, <3>1, RunStep DEF RunTask, Abstract!Finish, Backlog, SlotAfter
    <3> QED
      BY <3>2 DEF Abstract!TQNext
  <2>3. CASE \/ StartLock(w) \/ StartInc(w) \/ StartUnlock(w) \/ TestStatus(w)
             \/ CondLock(w) \/ CheckWait(w) \/ SpuriousWakeup(w) \/ DecideStop(w)
             \/ EndLock(w) \/ EndDec(w) \/ EndUnlock(w)
    <3>1. UNCHANGED <<q, rind, used, pushed, elem, done, opc>>
      BY <2>3 DEF StartLock, StartInc, StartUnlock, TestStatus, CondLock, CheckWait,
                  SpuriousWakeup, DecideStop, EndLock, EndDec, EndUnlock
    <3> QED
      BY <1>3, <3>1
  <2> QED
    BY <1>4, <2>1, <2>2, <2>3 DEF thread_pool_func
<1>5. ASSUME NEW p \in Pushers, PushCall(p) \/ thread_pool_push(p)
      PROVE  [Abstract!TQNext]_(Abstract!tqvars)
  <2>1. CASE PushStore(p)
    <3>1. /\ used' = used + 1 /\ pushed' = pushed + 1
          /\ UNCHANGED <<elem, done, opc>>
      BY <2>1 DEF PushStore
    <3>2. used < Size /\ opc \in {"created", "spawn", "up"}
      BY <2>1, SizeAssumption DEF PushStore, PGoto, QueueInv, TypeInv, OwnerPhase
    <3>3. /\ Len(Interval(pushed, used)) = used
          /\ Interval(pushed', used') = Append(Interval(pushed, used), pushed + 1)
      BY <1>1, <3>1, IntervalFifo
    <3>4. Abstract!Accept
      BY <1>1, <1>2, <3>1, <3>2, <3>3 DEF Abstract!Accept
    <3> QED
      BY <3>4 DEF Abstract!TQNext
  <2>2. CASE PushCall(p) \/ PushLock(p) \/ PushFull(p) \/ PushSignal(p)
    <3>1. UNCHANGED <<q, rind, used, pushed, elem, done, opc>>
      BY <2>2 DEF PushCall, PushLock, PushFull, PushSignal
    <3> QED
      BY <1>3, <3>1
  <2> QED
    BY <1>5, <2>1, <2>2 DEF thread_pool_push
<1>6. CASE DestroyCall
  <2>1. /\ UNCHANGED <<q, rind, used, pushed, elem, done>>
        /\ opc \in {"created", "spawn", "up"} /\ opc' = "poll"
    BY <1>6 DEF DestroyCall
  <2>2. Abstract!Stop
    BY <2>1 DEF Abstract!Stop, Backlog, SlotAfter
  <2> QED
    BY <2>2 DEF Abstract!TQNext
<1>7. CASE thread_pool_run \/ Spawn \/ thread_pool_destroy
  <2>1. /\ UNCHANGED <<q, rind, used, pushed, elem, done>>
        /\ (opc \notin {"created", "spawn", "up"}) = (opc' \notin {"created", "spawn", "up"})
    BY <1>7 DEF thread_pool_run, Spawn, thread_pool_destroy, DestroyPoll, DestroyBroadcast,
                DestroyFree
  <2> QED
    BY <1>3, <2>1
<1>8. CASE UNCHANGED vars
  BY <1>3, <1>8
<1> QED
  BY <1>4, <1>5, <1>6, <1>7, <1>8 DEF Next, Terminated

\* The thread pool implements the bounded FIFO of TaskQueue.
THEOREM Refinement == Spec => ImplementsTaskQueue
  BY QueueInvariant, RefinementInit, RefinementStep, PTL
     DEF Spec, ImplementsTaskQueue, Abstract!TQSpec
=============================================================================
