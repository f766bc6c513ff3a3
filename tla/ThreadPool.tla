----------------------------- MODULE ThreadPool -----------------------------
(***************************************************************************)
(* The thread pool of ohutil (thread.c): a ring buffer of tasks guarded by  *)
(* the mutex of a condition variable, worker threads that take and execute  *)
(* them, threads that push, and the owner that creates, runs and destroys   *)
(* the pool.                                                                *)
(*                                                                          *)
(* One action is one step that other threads can observe: an acquisition    *)
(* of one of the two mutexes, an unprotected read or write of a shared      *)
(* field, or the whole of a critical section from one such step to the      *)
(* next.  pool->status and, in thread_pool_destroy, pool->running are read  *)
(* and written without a lock, so each of their accesses is a step.         *)
(*                                                                          *)
(* A task is named by its place in the order of successful pushes; its      *)
(* run and clean functions are one step, NULL ones included.                *)
(***************************************************************************)
EXTENDS Naturals, FiniteSets, Sequences

CONSTANTS Workers,    \* the threads that thread_pool_run starts
          Pushers,    \* the threads that call thread_pool_push
          None,       \* "no thread": the holder of a free mutex
          Size,       \* pool->size
          MaxPush,    \* bound: successful pushes and pushes under way
          AwaitStart  \* the owner destroys the pool only after all workers counted themselves

ASSUME SizeAssumption == Size \in Nat \ {0}
ASSUME MaxPushAssumption == MaxPush \in Nat
ASSUME ThreadsAssumption == /\ None \notin Workers \cup Pushers
                            /\ Workers \cap Pushers = {}
ASSUME WorkersAssumption == IsFiniteSet(Workers)
ASSUME AwaitStartAssumption == AwaitStart \in BOOLEAN

VARIABLES q,        \* the ring: q[i] is a task, 0 for memory never written
          rind,     \* pool->rind, next slot to read
          wind,     \* pool->wind, next slot to write
          used,     \* pool->used
          status,   \* pool->status
          running,  \* pool->running, workers between their two critical sections
          lock,     \* holder of pool->lock
          mutex,    \* holder of pool->cond->mutex
          wpc,      \* where each worker stands in thread_pool_func
          elem,     \* each worker's local elem, 0 when it has none
          ppc,      \* where each pusher stands in thread_pool_push
          opc,      \* where the owner stands
          pushed,   \* history: number of successful pushes
          done      \* history: the tasks executed

queueVars == <<q, rind, wind, used>>
historyVars == <<pushed, done>>
vars == <<queueVars, status, running, lock, mutex, wpc, elem, ppc, opc, historyVars>>

Slots == 0 .. (Size - 1)

WorkerPC == {"unborn", "start", "inc", "startunlock", "test", "lock", "check",
             "wait", "decide", "run", "end", "dec", "endunlock", "exited"}
PusherPC == {"idle", "lock", "body", "signal"}
OwnerPC  == {"created", "spawn", "up", "poll", "bcast", "free", "freed"}

\* The pool's memory is released by the last step of thread_pool_destroy.
\* What a thread does with released memory is undefined: the model stops it
\* at that step, and FreedAfterExit is about who may still stand there.
Allocated == opc # "freed"

\* Mutant of Next1: the index wraps one slot too late.
Next1_LateWrap(i) == IF i = Size THEN 0 ELSE i + 1

Next1(i) == IF i + 1 = Size THEN 0 ELSE i + 1   \* the wrap of rind and wind

-----------------------------------------------------------------------------
(* thread_pool_create, thread_pool_run                                      *)

thread_pool_create ==
    /\ q = [i \in Slots |-> 0]
    /\ rind = 0 /\ wind = 0 /\ used = 0
    /\ status = "STOP" /\ running = 0
    /\ lock = None /\ mutex = None
    /\ wpc = [w \in Workers |-> "unborn"]
    /\ elem = [w \in Workers |-> 0]
    /\ ppc = [p \in Pushers |-> "idle"]
    /\ opc = "created"
    /\ pushed = 0 /\ done = {}

thread_pool_run ==
    /\ opc = "created"
    /\ status' = "RUNNING"
    /\ opc' = "spawn"
    /\ UNCHANGED <<queueVars, running, lock, mutex, wpc, elem, ppc, historyVars>>

Spawn ==
    /\ opc = "spawn"
    /\ IF \E w \in Workers : wpc[w] = "unborn"
       THEN /\ \E w \in Workers : /\ wpc[w] = "unborn"
                                  /\ wpc' = [wpc EXCEPT ![w] = "start"]
            /\ opc' = opc
       ELSE /\ opc' = "up"
            /\ wpc' = wpc
    /\ UNCHANGED <<queueVars, status, running, lock, mutex, elem, ppc, historyVars>>

-----------------------------------------------------------------------------
(* thread_pool_func                                                         *)

WGoto(w, from, to) == /\ wpc[w] = from
                      /\ wpc' = [wpc EXCEPT ![w] = to]

\* mutex_lock(pool->lock); running++ ; mutex_unlock
StartLock(w) ==
    /\ Allocated /\ lock = None
    /\ WGoto(w, "start", "inc")
    /\ lock' = w
    /\ UNCHANGED <<queueVars, status, running, mutex, elem, ppc, opc, historyVars>>

StartInc(w) ==
    /\ Allocated
    /\ WGoto(w, "inc", "startunlock")
    /\ running' = running + 1
    /\ UNCHANGED <<queueVars, status, lock, mutex, elem, ppc, opc, historyVars>>

StartUnlock(w) ==
    /\ Allocated
    /\ WGoto(w, "startunlock", "test")
    /\ lock' = None
    /\ UNCHANGED <<queueVars, status, running, mutex, elem, ppc, opc, historyVars>>

\* while (pool->status == RUNNING), read without a lock
TestStatus(w) ==
    /\ Allocated
    /\ WGoto(w, "test", IF status = "RUNNING" THEN "lock" ELSE "end")
    /\ UNCHANGED <<queueVars, status, running, lock, mutex, elem, ppc, opc, historyVars>>

\* Mutant of CondLock: the queue is entered without the mutex.
CondLock_NoLock(w) ==
    /\ Allocated
    /\ WGoto(w, "lock", "check")
    /\ mutex' = w
    /\ UNCHANGED <<queueVars, status, running, lock, elem, ppc, opc, historyVars>>

\* cond_lock, and the reacquisition of the mutex when cond_wait returns
CondLock(w) ==
    /\ Allocated /\ mutex = None
    /\ WGoto(w, "lock", "check")
    /\ mutex' = w
    /\ UNCHANGED <<queueVars, status, running, lock, elem, ppc, opc, historyVars>>

\* the condition of the inner while: wait (releasing the mutex) or go on
CheckWait(w) ==
    /\ Allocated
    /\ IF status = "RUNNING" /\ used = 0
       THEN WGoto(w, "check", "wait") /\ mutex' = None
       ELSE WGoto(w, "check", "decide") /\ mutex' = mutex
    /\ UNCHANGED <<queueVars, status, running, lock, elem, ppc, opc, historyVars>>

\* pthread_cond_wait may return without a signal
SpuriousWakeup(w) ==
    /\ Allocated
    /\ WGoto(w, "wait", "lock")
    /\ UNCHANGED <<queueVars, status, running, lock, mutex, elem, ppc, opc, historyVars>>

\* if (pool->status == STOP) { unlock; break; }, the second read of status
DecideStop(w) ==
    /\ Allocated /\ status = "STOP"
    /\ WGoto(w, "decide", "end")
    /\ mutex' = None
    /\ UNCHANGED <<queueVars, status, running, lock, elem, ppc, opc, historyVars>>

\* Mutant of DecideTake: the newest task is taken instead of the oldest.
DecideTake_Newest(w) ==
    /\ Allocated /\ status = "RUNNING"
    /\ WGoto(w, "decide", "run")
    /\ wind' = IF wind = 0 THEN Size - 1 ELSE wind - 1
    /\ elem' = [elem EXCEPT ![w] = q[wind']]
    /\ used' = used - 1
    /\ mutex' = None
    /\ UNCHANGED <<q, rind, status, running, lock, ppc, opc, historyVars>>

\* elem = q[rind++], wrap, used--, unlock
DecideTake(w) ==
    /\ Allocated /\ status = "RUNNING"
    /\ WGoto(w, "decide", "run")
    /\ elem' = [elem EXCEPT ![w] = q[rind]]
    /\ rind' = Next1(rind)
    /\ used' = used - 1
    /\ mutex' = None
    /\ UNCHANGED <<q, wind, status, running, lock, ppc, opc, historyVars>>

\* elem.run(elem.arg); elem.clean(elem.arg): touches nothing of the pool
RunTask(w) ==
    /\ WGoto(w, "run", "test")
    /\ done' = done \cup {elem[w]}
    /\ elem' = [elem EXCEPT ![w] = 0]
    /\ UNCHANGED <<queueVars, status, running, lock, mutex, ppc, opc, pushed>>

\* mutex_lock(pool->lock); running--; mutex_unlock
EndLock(w) ==
    /\ Allocated /\ lock = None
    /\ WGoto(w, "end", "dec")
    /\ lock' = w
    /\ UNCHANGED <<queueVars, status, running, mutex, elem, ppc, opc, historyVars>>

EndDec(w) ==
    /\ Allocated
    /\ WGoto(w, "dec", "endunlock")
    /\ running' = running - 1
    /\ UNCHANGED <<queueVars, status, lock, mutex, elem, ppc, opc, historyVars>>

\* Not guarded by Allocated: the owner may have seen the decrement and freed
\* the mutex that is being unlocked here.
EndUnlock(w) ==
    /\ WGoto(w, "endunlock", "exited")
    /\ lock' = None
    /\ UNCHANGED <<queueVars, status, running, mutex, elem, ppc, opc, historyVars>>

thread_pool_func(w) ==
    \/ StartLock(w) \/ StartInc(w) \/ StartUnlock(w)
    \/ TestStatus(w)
    \/ CondLock(w) \/ CheckWait(w) \/ DecideStop(w) \/ DecideTake(w)
    \/ RunTask(w)
    \/ EndLock(w) \/ EndDec(w) \/ EndUnlock(w)

-----------------------------------------------------------------------------
(* thread_pool_push                                                         *)

PGoto(p, from, to) == /\ ppc[p] = from
                      /\ ppc' = [ppc EXCEPT ![p] = to]

\* The caller's part of the contract: nobody pushes once destroy is called.
PushCall(p) ==
    /\ opc \in {"created", "spawn", "up"}
    /\ pushed + Cardinality({o \in Pushers : ppc[o] \in {"lock", "body"}}) < MaxPush
    /\ PGoto(p, "idle", "lock")
    /\ UNCHANGED <<queueVars, status, running, lock, mutex, wpc, elem, opc, historyVars>>

PushLock(p) ==
    /\ mutex = None
    /\ PGoto(p, "lock", "body")
    /\ mutex' = p
    /\ UNCHANGED <<queueVars, status, running, lock, wpc, elem, opc, historyVars>>

\* used == size: unlock, return -1
PushFull(p) ==
    /\ used = Size
    /\ PGoto(p, "body", "idle")
    /\ mutex' = None
    /\ UNCHANGED <<queueVars, status, running, lock, wpc, elem, opc, historyVars>>

\* Mutant of PushStore: the test for a full queue is missing.
PushStore_NoFullTest(p) ==
    /\ PGoto(p, "body", "signal")
    /\ q' = [q EXCEPT ![wind] = pushed + 1]
    /\ wind' = Next1(wind)
    /\ used' = used + 1
    /\ pushed' = pushed + 1
    /\ mutex' = None
    /\ UNCHANGED <<rind, status, running, lock, wpc, elem, opc, done>>

PushStore(p) ==
    /\ used # Size
    /\ PGoto(p, "body", "signal")
    /\ q' = [q EXCEPT ![wind] = pushed + 1]
    /\ wind' = Next1(wind)
    /\ used' = used + 1
    /\ pushed' = pushed + 1
    /\ mutex' = None
    /\ UNCHANGED <<rind, status, running, lock, wpc, elem, opc, done>>

Wake(W) == wpc' = [w \in Workers |-> IF w \in W THEN "lock" ELSE wpc[w]]

Waiting == {w \in Workers : wpc[w] = "wait"}

\* Mutant of PushSignal: nobody is woken.
PushSignal_NoSignal(p) ==
    /\ PGoto(p, "signal", "idle")
    /\ UNCHANGED <<queueVars, status, running, lock, mutex, wpc, elem, opc, historyVars>>

\* cond_signal after the unlock: wakes one waiting worker if there is one
PushSignal(p) ==
    /\ PGoto(p, "signal", "idle")
    /\ IF Waiting = {} THEN Wake({}) ELSE \E w \in Waiting : Wake({w})
    /\ UNCHANGED <<queueVars, status, running, lock, mutex, elem, opc, historyVars>>

thread_pool_push(p) == PushLock(p) \/ PushFull(p) \/ PushStore(p) \/ PushSignal(p)

-----------------------------------------------------------------------------
(* thread_pool_destroy                                                      *)

DestroyCall ==
    /\ opc \in {"created", "up"}
    /\ \A p \in Pushers : ppc[p] = "idle"
    /\ AwaitStart /\ opc = "up" => running = Cardinality(Workers)
    /\ status' = "STOP"
    /\ opc' = "poll"
    /\ UNCHANGED <<queueVars, running, lock, mutex, wpc, elem, ppc, historyVars>>

\* Mutant of DestroyPoll: the owner does not wait for the workers.
DestroyPoll_NoWait ==
    /\ opc = "poll"
    /\ opc' = "free"
    /\ UNCHANGED <<queueVars, status, running, lock, mutex, wpc, elem, ppc, historyVars>>

\* while (pool->running > 0), read without a lock
DestroyPoll ==
    /\ opc = "poll"
    /\ opc' = IF running > 0 THEN "bcast" ELSE "free"
    /\ UNCHANGED <<queueVars, status, running, lock, mutex, wpc, elem, ppc, historyVars>>

\* Mutant of DestroyBroadcast: the owner polls running without waking anybody.
DestroyBroadcast_Silent ==
    /\ opc = "bcast"
    /\ opc' = "poll"
    /\ UNCHANGED <<queueVars, status, running, lock, mutex, wpc, elem, ppc, historyVars>>

DestroyBroadcast ==
    /\ opc = "bcast"
    /\ Wake(Waiting)
    /\ opc' = "poll"
    /\ UNCHANGED <<queueVars, status, running, lock, mutex, elem, ppc, historyVars>>

\* cond_destroy, mutex_destroy, ohfree(pool->q), ohfree(pool)
DestroyFree ==
    /\ opc = "free"
    /\ opc' = "freed"
    /\ UNCHANGED <<queueVars, status, running, lock, mutex, wpc, elem, ppc, historyVars>>

thread_pool_destroy == DestroyPoll \/ DestroyBroadcast \/ DestroyFree

\* Not a step of the program: everything has ended.
Terminated ==
    /\ opc = "freed"
    /\ \A w \in Workers : wpc[w] \in {"unborn", "exited"}
    /\ UNCHANGED vars

-----------------------------------------------------------------------------
Next ==
    \/ thread_pool_run \/ Spawn
    \/ \E w \in Workers : thread_pool_func(w) \/ SpuriousWakeup(w)
    \/ \E p \in Pushers : PushCall(p) \/ thread_pool_push(p)
    \/ DestroyCall \/ thread_pool_destroy
    \/ Terminated

Spec == thread_pool_create /\ [][Next]_vars

(* Every started thread keeps running (weak fairness), and a thread that    *)
(* keeps asking for a mutex gets it (strong fairness): the scheduler and    *)
(* the futex queue behind pthread_mutex_lock.  Nothing obliges a client to  *)
(* push, to run or to destroy, and no spurious wake-up is promised.         *)
Fairness ==
    /\ WF_vars(Spawn) /\ WF_vars(thread_pool_destroy)
    /\ \A w \in Workers : /\ WF_vars(thread_pool_func(w))
                          /\ SF_vars(StartLock(w)) /\ SF_vars(CondLock(w))
                          /\ SF_vars(EndLock(w))
    /\ \A p \in Pushers : WF_vars(thread_pool_push(p)) /\ SF_vars(PushLock(p))

FairSpec == Spec /\ Fairness

-----------------------------------------------------------------------------
(* Properties                                                               *)

TypeOK ==
    /\ q \in [Slots -> Nat]
    /\ rind \in Slots /\ wind \in Slots /\ used \in 0 .. Size
    /\ status \in {"STOP", "RUNNING"}
    /\ running \in 0 .. Cardinality(Workers)
    /\ lock \in Workers \cup {None}
    /\ mutex \in Workers \cup Pushers \cup {None}
    /\ wpc \in [Workers -> WorkerPC]
    /\ elem \in [Workers -> Nat]
    /\ ppc \in [Pushers -> PusherPC]
    /\ opc \in OwnerPC
    /\ pushed \in Nat
    /\ done \subseteq Nat \ {0}

\* The slot i places after slot r.
SlotAfter(r, i) == IF r + i < Size THEN r + i ELSE r + i - Size

\* The tasks of u used slots of the ring s, from slot r on.
Backlog(s, r, u) == [i \in 1 .. u |-> s[SlotAfter(r, i - 1)]]

\* The ring s with read index r, write index w and u used slots holds the
\* last u of the tasks 1 .. n, oldest first, and w is the first free slot.
HoldsLast(s, r, w, u, n) ==
    /\ u <= n
    /\ w = SlotAfter(r, u)
    /\ \A i \in 0 .. (u - 1) : s[SlotAfter(r, i)] = (n - u) + i + 1

\* The ring holds exactly the tasks pushed and not yet taken, oldest first,
\* across the wrap of both indices, whatever the workers and pushers do.
RingHoldsBacklog == HoldsLast(q, rind, wind, used, pushed)

\* Every task that left the queue was executed or is in the hands of exactly
\* one worker; none is executed twice or lost by two workers taking at once.
TakenOnce ==
    /\ {elem[w] : w \in Workers} \cap done \subseteq {0}
    /\ \A v, w \in Workers : v # w /\ elem[v] # 0 => elem[v] # elem[w]
    /\ 1 .. (pushed - used) = done \cup ({elem[w] : w \in Workers} \ {0})

\* When the owner waits until all workers have counted themselves before it
\* destroys, the memory is released only after every worker is done with the
\* queue and the condition variable; all that can be left of a worker is the
\* unlock of pool->lock after its decrement.
FreeAfterQueueUse ==
    AwaitStart /\ opc = "freed" =>
        \A w \in Workers : wpc[w] \in {"unborn", "endunlock", "exited"}

\* What the test of the pool assumes by destroying it right after the pushes
\* (tests/ohutil/thread_check.c:13-18): destroy returns with every worker
\* gone.
FreedAfterExit ==
    opc = "freed" => \A w \in Workers : wpc[w] \in {"unborn", "exited"}

\* A task accepted by a running pool is executed unless the pool is stopped:
\* no interleaving of the signal sent after the unlock with waiting workers
\* loses a wake-up.
AcceptedIsRun ==
    \A k \in 1 .. MaxPush : (pushed >= k /\ status = "RUNNING")
                        ~> (k \in done \/ status = "STOP")

\* thread_pool_destroy returns: repeating the broadcast until running is 0
\* makes up for broadcasts that hit no waiter.
DestroyReturns == opc = "poll" ~> opc = "freed"

-----------------------------------------------------------------------------
(* The pool implements the bounded FIFO of TaskQueue.                       *)

Abstract == INSTANCE TaskQueue WITH
    queue    <- Backlog(q, rind, used),
    accepted <- pushed,
    hand     <- elem,
    done     <- done,
    stopping <- opc \notin {"created", "spawn", "up"}

\* Every behaviour of the pool is one of the abstract bounded FIFO: the ring
\* buffer hands out tasks in the order of acceptance, each to one worker.
ImplementsTaskQueue == Abstract!TQSpec
=============================================================================
