------------------------------ MODULE EvtAsync ------------------------------
(***************************************************************************)
(* The event loop of evt.c as other threads see it: asynchronous events     *)
(* (evt_async_start, evt_async_stop, evt_loop_wakeup, _evt_do_wakeup), and  *)
(* the life of the loop (evt_loop_run, evt_loop_quit, evt_loop_destroy).    *)
(*                                                                          *)
(* Threads share loop->async_evtq, a linked list with a mutex that only     *)
(* some of the callers take, loop->status, a byte that is updated by plain  *)
(* |= and &=, loop->owner_tid, and the eventfd that wakes epoll_wait.  An   *)
(* action is one access to one of these; |= and &= are a load and a store.  *)
(* Everything the loop does with its own watchers is in EvtLoop; here a     *)
(* round of the loop is its wait, its looks at status and the callback of   *)
(* the eventfd's watcher.                                                   *)
(***************************************************************************)
EXTENDS Naturals, FiniteSets, Splst

CONSTANTS Threads,      \* the threads that use the loop from outside
          Loop,         \* the thread that calls evt_loop_run
          Asyncs,       \* the asynchronous events; each is started once
          Nil,          \* NULL, and the holder of a free mutex
          MaxRuns,      \* bound: calls of evt_loop_run
          EarlyStart,   \* clients start asyncs before the loop has an owner
          LoopStart,    \* callbacks start asyncs in the loop's own thread
          EarlyQuit,    \* clients ask to quit before evt_loop_run has set status, or
                        \* are still at it when the loop is run again
          CrossDestroy  \* another thread destroys a loop that is running

ASSUME ThreadsAssumption == Loop \notin Threads /\ Nil \notin Threads \cup {Loop} \cup Asyncs
ASSUME AsyncsAssumption == IsFiniteSet(Asyncs)
ASSUME BoundAssumption == MaxRuns \in Nat
ASSUME FlagsAssumption == {EarlyStart, LoopStart, EarlyQuit, CrossDestroy} \subseteq BOOLEAN

VARIABLES owner,       \* loop->owner_tid, Nil for 0
          status,      \* loop->status, the set of its bits
          evtfd,       \* the eventfd's counter is not zero
          head,        \* loop->async_evtq
          next,        \* ev->next of every async
          active,      \* ev->active of every async
          mutex,       \* holder of loop->async_mutex
          lpc,         \* where the loop's thread stands
          hit,         \* the last epoll_wait reported the eventfd
          async_head,  \* local of _evt_do_wakeup
          async_now,   \* local of _evt_do_wakeup
          tpc,         \* where each thread stands, the loop's client code included
          ev,          \* the async each thread is starting or stopping
          tmp,         \* status as each thread has loaded it for an update
          runs,        \* number of calls of evt_loop_run
          added,       \* history: asyncs whose evt_async_start has linked them
          woken,       \* history: added asyncs whose starter has called evt_loop_wakeup
          stopped,     \* history: asyncs that evt_async_stop was called for
          called,      \* history: how often each async's cb ran
          cleaned      \* history: how often each async's clean ran

listVars == <<head, next, active, mutex>>
histVars == <<added, woken, stopped, called, cleaned>>
loopVars == <<lpc, hit, async_head, async_now, runs>>
threadVars == <<tpc, ev, tmp>>
vars == <<owner, status, evtfd, listVars, loopVars, threadVars, histVars>>

AllThreads == Threads \cup {Loop}
StatusBits == {"INIT", "STARTED", "RUNNING", "QUITING", "STOP", "WAITDESTROY"}

Freed == lpc = "freed"

Init ==
    /\ owner = Nil /\ status = {"INIT"} /\ evtfd = FALSE
    /\ head = Nil /\ next = [a \in Asyncs |-> Nil]
    /\ active = [a \in Asyncs |-> FALSE] /\ mutex = Nil
    /\ lpc = "out" /\ hit = FALSE /\ async_head = Nil /\ async_now = Nil /\ runs = 0
    /\ tpc = [t \in AllThreads |-> "idle"]
    /\ ev = [t \in AllThreads |-> Nil]
    /\ tmp = [t \in AllThreads |-> {}]
    /\ added = {} /\ woken = {} /\ stopped = {}
    /\ called = [a \in Asyncs |-> 0] /\ cleaned = [a \in Asyncs |-> 0]

\* the asyncs on the list from x on
Chain(x) == Reach(next, x)

-----------------------------------------------------------------------------
(* Client calls.  The loop's thread makes them inside a callback.           *)

\* What a thread does with a loop that was freed is undefined: the model
\* stops it there, and FreedWhenUnused is about who may stand there.
Goto(t, from, to) == /\ ~Freed /\ tpc[t] = from
                     /\ tpc' = [tpc EXCEPT ![t] = to]

InCallback(t) == t = Loop => lpc = "callback"

\* Contract: nobody calls into a loop that was destroyed or is being
\* destroyed, apart from the destroyer itself.
MayCall(t) == /\ InCallback(t) /\ ~Freed /\ tpc[t] = "idle"
              /\ \A o \in AllThreads : tpc[o] \notin {"destroy", "waitload", "waitstore"}
              /\ "WAITDESTROY" \notin status

\* Mutant of evt_async_start: the loop is woken up for an async never linked.
evt_async_start_NoAdd(t, a) ==
    /\ MayCall(t)
    /\ t = Loop => LoopStart
    /\ owner # Nil \/ EarlyStart
    /\ ~active[a] /\ a \notin added
    /\ active' = [active EXCEPT ![a] = TRUE]
    /\ ev' = [ev EXCEPT ![t] = a]
    /\ tpc' = [tpc EXCEPT ![t] = "wakeup"]
    /\ UNCHANGED <<owner, status, evtfd, head, next, mutex, loopVars, tmp, histVars>>

\* evt_async_start: active is set and the owner looked at without the lock
evt_async_start(t, a) ==
    /\ MayCall(t)
    /\ t = Loop => LoopStart
    /\ owner # Nil \/ EarlyStart
    /\ ~active[a] /\ a \notin added
    /\ active' = [active EXCEPT ![a] = TRUE]
    /\ ev' = [ev EXCEPT ![t] = a]
    /\ tpc' = [tpc EXCEPT ![t] = IF owner \in {Nil, t} THEN "add" ELSE "lock"]
    /\ UNCHANGED <<owner, status, evtfd, head, next, mutex, loopVars, tmp, histVars>>

\* Mutant of StartLock: the list is changed without the mutex.
StartLock_NoLock(t) ==
    /\ Goto(t, "lock", "add")
    /\ UNCHANGED <<owner, status, evtfd, listVars, loopVars, ev, tmp, histVars>>

StartLock(t) ==
    /\ mutex = Nil
    /\ Goto(t, "lock", "add")
    /\ mutex' = t
    /\ UNCHANGED <<owner, status, evtfd, head, next, active, loopVars, ev, tmp, histVars>>

\* splst_add: elm->next = head
AddNext(t) ==
    /\ Goto(t, "add", "link")
    /\ next' = [next EXCEPT ![ev[t]] = head]
    /\ UNCHANGED <<owner, status, evtfd, head, active, mutex, loopVars, ev, tmp, histVars>>

\* splst_add: head = elm, and the unlock if the lock was taken
AddHead(t) ==
    /\ Goto(t, "link", "wakeup")
    /\ head' = ev[t]
    /\ added' = added \cup {ev[t]}
    /\ mutex' = IF mutex = t THEN Nil ELSE mutex
    /\ UNCHANGED <<owner, status, evtfd, next, active, loopVars, ev, tmp,
                   woken, stopped, called, cleaned>>

\* evt_loop_wakeup, which every caller of evt_async_start makes next
evt_loop_wakeup(t) ==
    /\ Goto(t, "wakeup", "idle")
    /\ evtfd' = TRUE
    /\ woken' = woken \cup {ev[t]}
    /\ ev' = [ev EXCEPT ![t] = Nil]
    /\ UNCHANGED <<owner, status, listVars, loopVars, tmp, added, stopped,
                   called, cleaned>>

\* evt_async_stop by another thread of an async that was started
evt_async_stop(t, a) ==
    /\ t # Loop /\ MayCall(t)
    /\ owner # Nil /\ a \in woken
    /\ active[a]
    /\ active' = [active EXCEPT ![a] = FALSE]
    /\ ev' = [ev EXCEPT ![t] = a]
    /\ tpc' = [tpc EXCEPT ![t] = "stoplock"]
    /\ UNCHANGED <<owner, status, evtfd, head, next, mutex, loopVars, tmp, histVars>>

StopLock(t) ==
    /\ mutex = Nil
    /\ Goto(t, "stoplock", "unlink")
    /\ mutex' = t
    /\ UNCHANGED <<owner, status, evtfd, head, next, active, loopVars, ev, tmp, histVars>>

\* splst_del and unlock; not linked any more means nothing to do
StopUnlink(t) ==
    /\ Goto(t, "unlink", "idle")
    /\ head' = IF head = ev[t] THEN next[head] ELSE head
    /\ next' = Unlinked(next, head, ev[t])
    /\ stopped' = stopped \cup {ev[t]}
    /\ mutex' = Nil
    /\ ev' = [ev EXCEPT ![t] = Nil]
    /\ UNCHANGED <<owner, status, evtfd, active, loopVars, tmp, added, woken,
                   called, cleaned>>

\* evt_loop_quit: status |= QUITING is a load and a store
evt_loop_quit(t) ==
    /\ MayCall(t)
    /\ lpc \notin {"out", "entered"} \/ EarlyQuit
    /\ Goto(t, "idle", "quit")
    /\ UNCHANGED <<owner, status, evtfd, listVars, loopVars, ev, tmp, histVars>>

QuitLoad(t) ==
    /\ Goto(t, "quit", "quitstore")
    /\ tmp' = [tmp EXCEPT ![t] = status]
    /\ UNCHANGED <<owner, status, evtfd, listVars, loopVars, ev, histVars>>

QuitStore(t) ==
    /\ Goto(t, "quitstore", "quitwake")
    /\ status' = tmp[t] \cup {"QUITING"}
    /\ tmp' = [tmp EXCEPT ![t] = {}]
    /\ UNCHANGED <<owner, evtfd, listVars, loopVars, ev, histVars>>

\* Mutant of QuitWakeup: the sleeping loop is not woken up.
QuitWakeup_None(t) ==
    /\ Goto(t, "quitwake", "idle")
    /\ UNCHANGED <<owner, status, evtfd, listVars, loopVars, ev, tmp, histVars>>

\* wake the loop up unless this is the loop's own thread
QuitWakeup(t) ==
    /\ Goto(t, "quitwake", "idle")
    /\ evtfd' = (evtfd \/ owner # t)
    /\ UNCHANGED <<owner, status, listVars, loopVars, ev, tmp, histVars>>

\* evt_loop_destroy, the look at RUNNING
evt_loop_destroy(t) ==
    /\ MayCall(t)
    /\ \A o \in AllThreads \ {t} : tpc[o] = "idle"
    /\ t # Loop => CrossDestroy \/ lpc = "out"
    /\ Goto(t, "idle", IF "RUNNING" \in status THEN "waitload" ELSE "destroy")
    /\ UNCHANGED <<owner, status, evtfd, listVars, loopVars, ev, tmp, histVars>>

\* status |= WAITDESTROY, then evt_loop_quit
WaitDestroyLoad(t) ==
    /\ Goto(t, "waitload", "waitstore")
    /\ tmp' = [tmp EXCEPT ![t] = status]
    /\ UNCHANGED <<owner, status, evtfd, listVars, loopVars, ev, histVars>>

WaitDestroyStore(t) ==
    /\ Goto(t, "waitstore", "quit")
    /\ status' = tmp[t] \cup {"WAITDESTROY"}
    /\ tmp' = [tmp EXCEPT ![t] = {}]
    /\ UNCHANGED <<owner, evtfd, listVars, loopVars, ev, histVars>>

\* Mutant of Destroyed: what is still linked is leaked.
Destroyed_NoClean ==
    /\ lpc' = "freed"
    /\ UNCHANGED cleaned

\* the part of evt_loop_destroy that frees: clean of what is still linked
Destroyed ==
    /\ cleaned' = [a \in Asyncs |-> IF a \in Chain(head) THEN cleaned[a] + 1 ELSE cleaned[a]]
    /\ lpc' = "freed"

DestroyFree(t) ==
    /\ Goto(t, "destroy", "idle")
    /\ Destroyed
    /\ UNCHANGED <<owner, status, evtfd, listVars, hit, async_head, async_now, runs, ev, tmp,
                   added, woken, stopped, called>>

\* the steps of a call that is under way
CallStep(t) ==
    \/ StartLock(t) \/ AddNext(t) \/ AddHead(t) \/ evt_loop_wakeup(t)
    \/ StopLock(t) \/ StopUnlink(t)
    \/ QuitLoad(t) \/ QuitStore(t) \/ QuitWakeup(t)
    \/ WaitDestroyLoad(t) \/ WaitDestroyStore(t) \/ DestroyFree(t)

Call(t) ==
    \/ \E a \in Asyncs : evt_async_start(t, a) \/ evt_async_stop(t, a)
    \/ evt_loop_quit(t) \/ evt_loop_destroy(t)

-----------------------------------------------------------------------------
(* The loop's thread                                                        *)

LoopGoto(from, to) == lpc = from /\ lpc' = to

\* evt_loop_run: owner_tid = thread_tid()
evt_loop_run ==
    /\ runs < MaxRuns /\ tpc[Loop] = "idle" /\ "WAITDESTROY" \notin status
    /\ \A t \in Threads : tpc[t] \notin {"destroy", "waitload", "waitstore"}
    /\ EarlyQuit \/ \A t \in Threads : tpc[t] \notin {"quit", "quitstore", "quitwake"}
    /\ LoopGoto("out", "entered")
    /\ owner' = Loop
    /\ runs' = runs + 1
    /\ UNCHANGED <<status, evtfd, listVars, hit, async_head, async_now, threadVars, histVars>>

\* status = STARTED | RUNNING
RunStatus ==
    /\ LoopGoto("entered", "while")
    /\ status' = {"STARTED", "RUNNING"}
    /\ UNCHANGED <<owner, evtfd, listVars, hit, async_head, async_now, runs, threadVars,
                   histVars>>

\* while (!(status & QUITING)), and the same look after the before events
TestQuit ==
    /\ LoopGoto("while", IF "QUITING" \in status THEN "end" ELSE "poll")
    /\ UNCHANGED <<owner, status, evtfd, listVars, hit, async_head, async_now, runs,
                   threadVars, histVars>>

\* epoll_wait returns because the eventfd is readable
PollHit ==
    /\ evtfd
    /\ LoopGoto("poll", "polled")
    /\ hit' = TRUE
    /\ UNCHANGED <<owner, status, evtfd, listVars, async_head, async_now, runs,
                   threadVars, histVars>>

\* or for something else: another descriptor, a timer, the 30 seconds
PollOther ==
    /\ LoopGoto("poll", "polled")
    /\ hit' = FALSE
    /\ UNCHANGED <<owner, status, evtfd, listVars, async_head, async_now, runs,
                   threadVars, histVars>>

TestQuitPolled ==
    /\ LoopGoto("polled", IF "QUITING" \in status THEN "end"
                          ELSE IF hit THEN "wakeup" ELSE "callback")
    /\ hit' = FALSE
    /\ UNCHANGED <<owner, status, evtfd, listVars, async_head, async_now, runs,
                   threadVars, histVars>>

\* _evt_do_wakeup: nothing is read from the eventfd when the loop quits
DoWakeup ==
    /\ LoopGoto("wakeup", IF "QUITING" \in status THEN "while" ELSE "read")
    /\ UNCHANGED <<owner, status, evtfd, listVars, hit, async_head, async_now, runs,
                   threadVars, histVars>>

ReadEvtfd ==
    /\ LoopGoto("read", "takelock")
    /\ evtfd' = FALSE
    /\ UNCHANGED <<owner, status, listVars, hit, async_head, async_now, runs,
                   threadVars, histVars>>

TakeLock ==
    /\ mutex = Nil
    /\ LoopGoto("takelock", "take")
    /\ mutex' = Loop
    /\ UNCHANGED <<owner, status, evtfd, head, next, active, hit, async_head, async_now,
                   runs, threadVars, histVars>>

\* async_head = async_evtq, async_evtq = NULL, unlock: two accesses to the
\* list head; the second overwrites what was added without the lock between
TakeHead ==
    /\ LoopGoto("take", "takenull")
    /\ async_head' = head
    /\ UNCHANGED <<owner, status, evtfd, listVars, hit, async_now, runs, threadVars, histVars>>

\* Mutant of TakeNull: the taken list stays linked to the loop.
TakeNull_KeepList ==
    /\ LoopGoto("takenull", "walk")
    /\ mutex' = Nil
    /\ UNCHANGED <<owner, status, evtfd, head, next, active, hit, async_head, async_now, runs,
                   threadVars, histVars>>

TakeNull ==
    /\ LoopGoto("takenull", "walk")
    /\ head' = Nil
    /\ mutex' = Nil
    /\ UNCHANGED <<owner, status, evtfd, next, active, hit, async_head, async_now, runs,
                   threadVars, histVars>>

\* the next async of the detached list: its cb runs, then its clean
Walk ==
    /\ async_head # Nil
    /\ LoopGoto("walk", "callback")
    /\ async_now' = async_head
    /\ async_head' = next[async_head]
    /\ called' = [called EXCEPT ![async_head] = @ + 1]
    /\ UNCHANGED <<owner, status, evtfd, listVars, hit, runs, threadVars, added, woken,
                   stopped, cleaned>>

\* Mutant of WalkEnd: the eventfd is drained after the list was taken.
WalkEnd_LateRead ==
    /\ async_head = Nil
    /\ LoopGoto("walk", "while")
    /\ evtfd' = FALSE
    /\ UNCHANGED <<owner, status, listVars, hit, async_head, async_now, runs,
                   threadVars, histVars>>

WalkEnd ==
    /\ async_head = Nil
    /\ LoopGoto("walk", "while")
    /\ UNCHANGED <<owner, status, evtfd, listVars, hit, async_head, async_now, runs,
                   threadVars, histVars>>

\* a callback returns: of an async, which is then cleaned, or of another
\* watcher when the round had nothing to do with the eventfd
CallbackReturns ==
    /\ tpc[Loop] = "idle"
    /\ LoopGoto("callback", IF async_now = Nil THEN "while" ELSE "walk")
    /\ IF async_now = Nil
       THEN UNCHANGED cleaned
       ELSE cleaned' = [cleaned EXCEPT ![async_now] = @ + 1]
    /\ async_now' = Nil
    /\ UNCHANGED <<owner, status, evtfd, listVars, hit, async_head, runs, threadVars,
                   added, woken, stopped, called>>

\* RUNNING, QUITING and SUSPEND off, STOP on: loaded and stored once
EndLoad ==
    /\ LoopGoto("end", "endstore")
    /\ tmp' = [tmp EXCEPT ![Loop] = status]
    /\ UNCHANGED <<owner, status, evtfd, listVars, hit, async_head, async_now, runs, tpc, ev,
                   histVars>>

EndStore ==
    /\ LoopGoto("endstore", "ended")
    /\ status' = (tmp[Loop] \ {"RUNNING", "QUITING"}) \cup {"STOP"}
    /\ tmp' = [tmp EXCEPT ![Loop] = {}]
    /\ UNCHANGED <<owner, evtfd, listVars, hit, async_head, async_now, runs, tpc, ev,
                   histVars>>

\* if (status & WAITDESTROY) evt_loop_destroy, and return.  evt_loop_destroy
\* looks at RUNNING here too: a destroy of another thread that loaded status
\* before EndStore and stored it after has put the bit back, and then the loop
\* is marked to be destroyed once more and evt_loop_run returns.
RunReturns ==
    /\ lpc = "ended"
    /\ IF "WAITDESTROY" \notin status
       THEN lpc' = "out" /\ UNCHANGED <<tpc, cleaned>>
       ELSE IF "RUNNING" \notin status
       THEN Destroyed /\ UNCHANGED tpc
       ELSE lpc' = "out" /\ tpc' = [tpc EXCEPT ![Loop] = "waitload"] /\ UNCHANGED cleaned
    /\ UNCHANGED <<owner, status, evtfd, listVars, hit, async_head, async_now, runs,
                   ev, tmp, added, woken, stopped, called>>

LoopStep ==
    \/ RunStatus \/ TestQuit \/ PollHit \/ TestQuitPolled
    \/ DoWakeup \/ ReadEvtfd \/ TakeLock \/ TakeHead \/ TakeNull
    \/ Walk \/ WalkEnd \/ CallbackReturns
    \/ EndLoad \/ EndStore \/ RunReturns

Next ==
    \/ \E t \in AllThreads : Call(t) \/ CallStep(t)
    \/ evt_loop_run \/ LoopStep \/ PollOther

Spec == Init /\ [][Next]_vars

(* Threads keep running and get a mutex they keep asking for.  The wait in  *)
(* epoll_wait must end once the eventfd is readable; that it ends for       *)
(* another reason may happen and is never relied on.  A callback makes      *)
(* finitely many calls and returns.                                         *)
FairSpec ==
    /\ Spec
    /\ WF_vars(LoopStep) /\ SF_vars(PollHit) /\ SF_vars(TakeLock)
    /\ SF_vars(CallbackReturns)
    /\ \A t \in AllThreads : /\ WF_vars(CallStep(t))
                             /\ SF_vars(StartLock(t)) /\ SF_vars(StopLock(t))

-----------------------------------------------------------------------------
(* Properties                                                               *)

LoopPC == {"out", "entered", "while", "poll", "polled", "wakeup", "read", "takelock", "take",
           "takenull", "walk", "callback", "end", "endstore", "ended", "freed"}
ThreadPC == {"idle", "lock", "add", "link", "wakeup", "stoplock", "unlink",
             "quit", "quitstore", "quitwake", "waitload", "waitstore", "destroy"}

TypeOK ==
    /\ owner \in {Nil, Loop} /\ status \subseteq StatusBits /\ evtfd \in BOOLEAN
    /\ head \in Asyncs \cup {Nil} /\ next \in [Asyncs -> Asyncs \cup {Nil}]
    /\ active \in [Asyncs -> BOOLEAN] /\ mutex \in AllThreads \cup {Nil}
    /\ lpc \in LoopPC /\ hit \in BOOLEAN
    /\ async_head \in Asyncs \cup {Nil} /\ async_now \in Asyncs \cup {Nil}
    /\ runs \in 0 .. MaxRuns
    /\ tpc \in [AllThreads -> ThreadPC] /\ ev \in [AllThreads -> Asyncs \cup {Nil}]
    /\ tmp \in [AllThreads -> SUBSET StatusBits]
    /\ added \subseteq Asyncs /\ woken \subseteq added /\ stopped \subseteq woken
    /\ called \in [Asyncs -> Nat] /\ cleaned \in [Asyncs -> Nat]

\* No async is lost: one that evt_async_start has linked and that has
\* neither been stopped nor run is reachable from the loop's list or from
\* the list _evt_do_wakeup has detached.
NoAsyncLost ==
    \A a \in added \ stopped :
        called[a] = 0 /\ ~Freed => a \in Chain(head) \cup Chain(async_head)

\* No async runs twice, is cleaned twice, or is cleaned while the loop still
\* has it on a list: clean may free it.
RunAtMostOnce ==
    \A a \in Asyncs :
        /\ called[a] <= 1 /\ cleaned[a] <= 1
        /\ cleaned[a] = 1 /\ ~Freed => a \notin Chain(head) \cup Chain(async_head)

\* When the loop is freed every async that was started and not stopped has
\* been cleaned, by its run or by evt_loop_destroy.
FreeCleansAll ==
    Freed => \A a \in added \ stopped : cleaned[a] = 1

\* Between the start of an async and its run the eventfd stays readable, the
\* starter is about to make it so, or the loop is about to take the list:
\* the wake-up cannot be consumed by a round that misses the async.
WakeupPending ==
    \A a \in woken : a \in Chain(head) /\ ~Freed =>
        evtfd \/ lpc \in {"takelock", "take", "takenull"}

\* Every async that was started and announced runs, unless it is stopped or
\* evt_loop_run returns.
AsyncServed ==
    \A a \in Asyncs : a \in woken ~> (called[a] > 0 \/ a \in stopped \/ lpc \in {"out", "freed"})

\* evt_loop_quit called on a loop that is inside evt_loop_run makes it
\* return (evt.c:184: the loop runs until status is set quiting).
QuitHonoured ==
    \A t \in AllThreads : (tpc[t] = "quit" /\ lpc # "out") ~> lpc \in {"out", "freed"}

\* The loop is freed only when no thread is inside a call on it.
FreedWhenUnused == Freed => \A t \in AllThreads : tpc[t] = "idle"
=============================================================================
