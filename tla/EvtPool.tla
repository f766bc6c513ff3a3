------------------------------ MODULE EvtPool -------------------------------
(* evt_pool (evtpool.c): loop 0 runs in the thread that called evt_pool_run,  *)
(* each other loop in a thread of its own. evt_pool_quit and evt_pool_destroy *)
(* are called by a callback of one of the loops while the others run on; a    *)
(* destroy of a running pool is left to evt_pool_run, after its loops ended.  *)
(* The status words are plain bytes: callers do not quit or destroy from two  *)
(* loops at once, and not before every loop has set its status in             *)
(* evt_loop_run, which would overwrite the quit.                              *)
EXTENDS Integers
CONSTANT LoopsNum

ASSUME LoopsNumAssumption == LoopsNum \in Nat \ {0}

VARIABLES pstatus,   \* flags of the pool's status
          freed,     \* the pool and its loops are freed
          runner,    \* where evt_pool_run is: a step and the index of its loop
          loop,      \* per loop: "idle", "thread" (started), "running", "exited"
          quiting,   \* per loop, _LOOP_STATUS_QUITING
          call       \* a call of evt_pool_quit under way: by which loop, next index

evpvars == <<pstatus, freed, runner, loop, quiting, call>>

LoopIds == 0..LoopsNum - 1
NoCall == [by |-> -1, i |-> 0]
At(s) == runner.at = s /\ ~freed
Go(s, i) == runner' = [at |-> s, i |-> i]

\* evt_pool_run, from its first line to the first thread.
PoolRun ==
    /\ At("out") /\ Go("start", 1)
    /\ pstatus' = {"STARTED", "RUNNING"}
    /\ loop' = [l \in LoopIds |-> "idle"]
    /\ UNCHANGED <<freed, quiting, call>>

StartLoop ==
    /\ At("start") /\ runner.i < LoopsNum
    /\ loop' = [loop EXCEPT ![runner.i] = "thread"]
    /\ Go("start", runner.i + 1)
    /\ UNCHANGED <<pstatus, freed, quiting, call>>

RunLoop0 ==
    /\ At("start") /\ runner.i = LoopsNum
    /\ loop' = [loop EXCEPT ![0] = "thread"]
    /\ Go("loop0", 0)
    /\ UNCHANGED <<pstatus, freed, quiting, call>>

\* The first lines of evt_loop_run: the status is assigned.
LoopBegin(l) ==
    /\ loop[l] = "thread"
    /\ loop' = [loop EXCEPT ![l] = "running"]
    /\ quiting' = [quiting EXCEPT ![l] = FALSE]
    /\ UNCHANGED <<pstatus, freed, runner, call>>

\* A running loop that is in no callback sees the flag after at most one poll.
LoopEnd(l) ==
    /\ loop[l] = "running" /\ quiting[l] /\ call.by # l
    /\ loop' = [loop EXCEPT ![l] = "exited"]
    /\ quiting' = [quiting EXCEPT ![l] = FALSE]
    /\ UNCHANGED <<pstatus, freed, runner, call>>

Loop0Ended ==
    /\ At("loop0") /\ loop[0] = "exited"
    /\ Go("join", 1)
    /\ UNCHANGED <<pstatus, freed, loop, quiting, call>>

Join ==
    /\ At("join") /\ runner.i < LoopsNum /\ loop[runner.i] = "exited"
    /\ Go("join", runner.i + 1)
    /\ UNCHANGED <<pstatus, freed, loop, quiting, call>>

\* The last loop is not joined.
QuitEarly ==
    /\ At("join") /\ runner.i >= LoopsNum - 1
    /\ pstatus' = (pstatus \ {"RUNNING", "QUITING"}) \cup {"STOP"}
    /\ freed' = ("WAITDESTROY" \in pstatus)
    /\ Go("out", 0)
    /\ UNCHANGED <<loop, quiting, call>>

\* The end of evt_pool_run, with the evt_pool_destroy that was put off.
PoolQuited ==
    /\ At("join") /\ runner.i = LoopsNum
    /\ pstatus' = (pstatus \ {"RUNNING", "QUITING"}) \cup {"STOP"}
    /\ freed' = ("WAITDESTROY" \in pstatus)
    /\ Go("out", 0)
    /\ UNCHANGED <<loop, quiting, call>>

\* Every loop has begun, and l is in a callback.
CanCall(l) ==
    /\ call = NoCall /\ loop[l] = "running" /\ runner.at \in {"loop0", "join"}
    /\ \A k \in LoopIds : loop[k] # "thread"

\* Loop 0 is forgotten.
QuitFrom1(l, flags) ==
    /\ CanCall(l) /\ ~(flags \cup {"QUITING"} \subseteq pstatus)
    /\ pstatus' = pstatus \cup flags \cup {"QUITING"}
    /\ call' = [by |-> l, i |-> 1]
    /\ UNCHANGED <<freed, runner, loop, quiting>>

\* The call of evt_pool_quit up to its loop, after flags have been set. A call
\* that asks for what has been asked before is left out.
QuitAfter(l, flags) ==
    /\ CanCall(l) /\ ~(flags \cup {"QUITING"} \subseteq pstatus)
    /\ pstatus' = pstatus \cup flags \cup {"QUITING"}
    /\ call' = [by |-> l, i |-> 0]
    /\ UNCHANGED <<freed, runner, loop, quiting>>

evt_pool_quit(l) == QuitAfter(l, {})

\* evt_pool_destroy of a pool that runs.
DestroyRunning(l) == QuitAfter(l, {"WAITDESTROY"})

\* evt_loop_quit of the loops one after the other.
QuitLoop ==
    /\ call # NoCall /\ call.i < LoopsNum
    /\ quiting' = [quiting EXCEPT ![call.i] = TRUE]
    /\ call' = IF call.i + 1 = LoopsNum THEN NoCall ELSE [call EXCEPT !.i = @ + 1]
    /\ UNCHANGED <<pstatus, freed, runner, loop>>

\* By the thread that owns the pool, before or after a run.
DestroyStopped ==
    /\ At("out") /\ "RUNNING" \notin pstatus
    /\ freed' = TRUE
    /\ UNCHANGED <<pstatus, runner, loop, quiting, call>>

\* A pool after evt_pool_init.
EvpInit ==
    /\ pstatus = {"INIT"} /\ freed = FALSE
    /\ runner = [at |-> "out", i |-> 0]
    /\ loop = [l \in LoopIds |-> "idle"]
    /\ quiting = [l \in LoopIds |-> FALSE]
    /\ call = NoCall

Thread0 == StartLoop \/ RunLoop0 \/ Loop0Ended \/ Join \/ PoolQuited
LoopThread(l) == LoopBegin(l) \/ LoopEnd(l)

EvpNext ==
    \/ PoolRun \/ Thread0 \/ QuitLoop \/ DestroyStopped
    \/ \E l \in LoopIds : LoopThread(l) \/ evt_pool_quit(l) \/ DestroyRunning(l)

\* Threads run on, a call goes on in its callback, and a loop checks its flag
\* after each poll, whose wait is bounded.
EvpFairness ==
    WF_evpvars(Thread0) /\ WF_evpvars(QuitLoop) /\ \A l \in LoopIds : WF_evpvars(LoopThread(l))

EvpSpec == EvpInit /\ [][EvpNext]_evpvars /\ EvpFairness
-----------------------------------------------------------------------------
(* The pool and its loops are freed only when no thread uses them: every      *)
(* loop's thread has left evt_loop_run and no evt_pool_quit is in the middle  *)
(* of the loops, in whichever loop the destroy was called.                    *)
FreedAfterLoops ==
    freed => call = NoCall /\ \A l \in LoopIds : loop[l] \in {"idle", "exited"}

(* A destroy of a running pool is carried out: every loop quits, the one      *)
(* whose callback asked for it too, evt_pool_run joins them all and frees the *)
(* pool.                                                                      *)
PoolDestroyCompletes == ("WAITDESTROY" \in pstatus) ~> freed
=============================================================================
