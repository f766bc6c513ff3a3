------------------------------ MODULE EvtLoop ------------------------------
(***************************************************************************)
(* One event loop of ohev (evt.c) on the epoll backend (bkepoll.c), as its  *)
(* own thread sees it: io, timer, before and after watchers, the pending    *)
(* queue, the queue of changed descriptors and the kernel's interest list.  *)
(*                                                                          *)
(* The loop's thread is sequential, so the steps are coarse: what the       *)
(* client can interleave with the loop is what it does inside a callback,   *)
(* where it may start, stop and re-initialise any watcher, close            *)
(* descriptors and open new ones.  Calls of other threads are refused by    *)
(* evt.c (owner_tid), except evt_loop_quit, which may come at any time, and *)
(* the asynchronous events of EvtAsync.                                     *)
(*                                                                          *)
(* priority_max is 0 in this library, so there is one pending queue.  The   *)
(* timer heap is the set of its timers, the top any earliest one.           *)
(***************************************************************************)
EXTENDS Integers, Sequences, FiniteSets

CONSTANTS Io, Timers, Befores, Afters,  \* the watchers, by type
          Empty,     \* loop->empty_ev, the watcher that does nothing
          Fds,       \* descriptor numbers
          FdOf,      \* ev->fd of each io watcher
          EvOf,      \* ev->event of each io watcher
          AfterOf,   \* the delay evt_timer_init gives each timer
          RepeatOf,  \* ev->repeat of each timer
          MaxTime    \* bound on the clock and on a timer's deadline when it is started

Ev == {"READ", "WRITE"}
Watchers == Io \cup Timers \cup Befores \cup Afters

ASSUME WatchersAssumption ==
    /\ Io \cap Timers = {} /\ Io \cap Befores = {} /\ Io \cap Afters = {}
    /\ Timers \cap Befores = {} /\ Timers \cap Afters = {} /\ Befores \cap Afters = {}
    /\ Empty \notin Watchers
ASSUME IoAssumption == FdOf \in [Io -> Fds] /\ EvOf \in [Io -> (SUBSET Ev) \ {{}}]
ASSUME TimeAssumption == /\ AfterOf \in [Timers -> Nat]
                         /\ RepeatOf \in [Timers -> Nat]
                         /\ MaxTime \in Nat

VARIABLES pc,           \* where evt_loop_run stands; "out" when it is not running
          quiting,      \* status & _LOOP_STATUS_QUITING
          active,       \* ev->active of every watcher
          pendpos,      \* ev->pendpos of every watcher
          pending,      \* loop->pending[0], up to pending_cnt
          j,            \* number of pending slots already executed
          todo,         \* rest of the list that a for_splst_each walks
          evq,          \* fdi->evq of every descriptor
          before_evtq, after_evtq,
          event,        \* fdi->event: the mask last given to the backend
          revent,       \* fdi->revent: the mask last reported by the backend
          changed,      \* fdi->flag & _FDS_FLAG_CHANGED
          fds_change,   \* the queue of changed descriptors
          ready,        \* descriptors of epd->events not yet dispatched
          heap,         \* the timers in loop->timer_heap
          timestamp,    \* ev->timestamp of every timer
          catime,       \* the cached time of the loop's thread
          open,         \* kernel: the open descriptors
          reg,          \* kernel: epoll's mask for each descriptor, {} if not registered
          reused,       \* history: descriptors reopened while event still described the old file
          started,      \* history: the deadline each timer was started with
          noticed       \* history: the time at which the loop last found it expired
                        \* since its start

loopVars   == <<pc, quiting, todo>>
pendVars   == <<pendpos, pending, j>>
ioVars     == <<evq, changed, fds_change>>
listVars   == <<before_evtq, after_evtq>>
epollVars  == <<event, revent, ready, reg, reused>>
timerVars  == <<heap, timestamp, started, noticed>>
vars == <<loopVars, active, pendVars, ioVars, listVars, epollVars, timerVars, catime, open>>

\* noticed of a timer that has not expired since it was started
NotYet == -1

-----------------------------------------------------------------------------
(* The list macros of container.h                                           *)

Elems(l) == {l[i] : i \in 1 .. Len(l)}

splst_add(l, e) == <<e>> \o l

\* unlinks the first occurrence of e, if there is one
splst_del(l, e) ==
    IF e \notin Elems(l) THEN l
    ELSE LET k == CHOOSE i \in 1 .. Len(l) : l[i] = e /\ \A h \in 1 .. (i - 1) : l[h] # e
         IN  [i \in 1 .. (Len(l) - 1) |-> IF i < k THEN l[i] ELSE l[i + 1]]

-----------------------------------------------------------------------------
(* evt_loop_init_flag                                                       *)

evt_loop_init ==
    /\ pc = "out" /\ quiting = FALSE
    /\ active = [w \in Watchers |-> FALSE]
    /\ pendpos = [w \in Watchers |-> 0]
    /\ pending = << >> /\ j = 0 /\ todo = << >>
    /\ evq = [f \in Fds |-> << >>]
    /\ before_evtq = << >> /\ after_evtq = << >>
    /\ event = [f \in Fds |-> {}] /\ revent = [f \in Fds |-> {}]
    /\ changed = [f \in Fds |-> FALSE]
    /\ fds_change = << >> /\ ready = {}
    /\ heap = {} /\ timestamp = AfterOf
    /\ catime = 0
    /\ open = Fds /\ reg = [f \in Fds |-> {}]
    /\ reused = {} /\ started = AfterOf /\ noticed = [t \in Timers |-> NotYet]

-----------------------------------------------------------------------------
(* Pending queue                                                            *)

\* _evt_append_pending: a watcher that is pending already is not appended
evt_append_pending(w) ==
    IF pendpos[w] = 0
    THEN /\ pending' = Append(pending, w)
         /\ pendpos' = [pendpos EXCEPT ![w] = Len(pending) + 1]
    ELSE UNCHANGED <<pending, pendpos>>

\* Mutant of Unpend: the slot becomes a null pointer instead of empty_ev.
Unpend_Null(w) ==
    IF pendpos[w] # 0
    THEN /\ pending' = [pending EXCEPT ![pendpos[w]] = 0]
         /\ pendpos' = [pendpos EXCEPT ![w] = 0]
    ELSE UNCHANGED <<pending, pendpos>>

\* Mutant of Unpend: the watcher forgets its slot, the slot keeps the watcher.
Unpend_KeepSlot(w) ==
    /\ pendpos' = [pendpos EXCEPT ![w] = 0]
    /\ UNCHANGED pending

\* what every stop does first: the slot of a pending watcher is emptied
Unpend(w) ==
    IF pendpos[w] # 0
    THEN /\ pending' = [pending EXCEPT ![pendpos[w]] = Empty]
         /\ pendpos' = [pendpos EXCEPT ![w] = 0]
    ELSE UNCHANGED <<pending, pendpos>>

\* _evt_fd_change: a descriptor enters the change queue once
evt_fd_change(f) ==
    IF changed[f]
    THEN UNCHANGED <<changed, fds_change>>
    ELSE /\ changed' = [changed EXCEPT ![f] = TRUE]
         /\ fds_change' = Append(fds_change, f)

-----------------------------------------------------------------------------
(* Calls the client makes, before the loop runs or inside a callback.  A    *)
(* call that evt.c refuses with a warning (starting what is active,         *)
(* stopping what is not) changes nothing and is a stuttering step.          *)

ClientMay == pc \in {"out", "cb1", "cb2"}

\* Mutant of evt_io_start: an active watcher is linked a second time.
evt_io_start_Again(w) ==
    /\ ClientMay /\ FdOf[w] \in open
    /\ Len(evq[FdOf[w]]) < 3
    /\ active' = [active EXCEPT ![w] = TRUE]
    /\ evq' = [evq EXCEPT ![FdOf[w]] = splst_add(@, w)]
    /\ evt_fd_change(FdOf[w])
    /\ UNCHANGED <<loopVars, pendVars, listVars, epollVars, timerVars, catime, open>>

evt_io_start(w) ==
    /\ ClientMay /\ FdOf[w] \in open
    /\ ~active[w]
    /\ active' = [active EXCEPT ![w] = TRUE]
    /\ evq' = [evq EXCEPT ![FdOf[w]] = splst_add(@, w)]
    /\ evt_fd_change(FdOf[w])
    /\ UNCHANGED <<loopVars, pendVars, listVars, epollVars, timerVars, catime, open>>

\* Mutant of evt_io_stop: a pending watcher stays in the pending queue.
evt_io_stop_KeepPending(w) ==
    /\ ClientMay
    /\ active[w]
    /\ active' = [active EXCEPT ![w] = FALSE]
    /\ evq' = [evq EXCEPT ![FdOf[w]] = splst_del(@, w)]
    /\ evt_fd_change(FdOf[w])
    /\ UNCHANGED <<loopVars, pendVars, listVars, epollVars, timerVars, catime, open>>

evt_io_stop(w) ==
    /\ ClientMay
    /\ active[w]
    /\ active' = [active EXCEPT ![w] = FALSE]
    /\ Unpend(w)
    /\ evq' = [evq EXCEPT ![FdOf[w]] = splst_del(@, w)]
    /\ evt_fd_change(FdOf[w])
    /\ UNCHANGED <<loopVars, j, listVars, epollVars, timerVars, catime, open>>

evt_before_start(w) ==
    /\ ClientMay
    /\ ~active[w]
    /\ active' = [active EXCEPT ![w] = TRUE]
    /\ before_evtq' = splst_add(before_evtq, w)
    /\ UNCHANGED <<loopVars, pendVars, ioVars, after_evtq, epollVars, timerVars, catime, open>>

evt_before_stop(w) ==
    /\ ClientMay
    /\ active[w]
    /\ active' = [active EXCEPT ![w] = FALSE]
    /\ Unpend(w)
    /\ before_evtq' = splst_del(before_evtq, w)
    /\ UNCHANGED <<loopVars, j, ioVars, after_evtq, epollVars, timerVars, catime, open>>

evt_after_start(w) ==
    /\ ClientMay
    /\ ~active[w]
    /\ active' = [active EXCEPT ![w] = TRUE]
    /\ after_evtq' = splst_add(after_evtq, w)
    /\ UNCHANGED <<loopVars, pendVars, ioVars, before_evtq, epollVars, timerVars, catime, open>>

evt_after_stop(w) ==
    /\ ClientMay
    /\ active[w]
    /\ active' = [active EXCEPT ![w] = FALSE]
    /\ Unpend(w)
    /\ after_evtq' = splst_del(after_evtq, w)
    /\ UNCHANGED <<loopVars, j, ioVars, before_evtq, epollVars, timerVars, catime, open>>

\* evt_timer_init on a timer the loop holds no reference to: stopped, or a
\* one-shot timer that has expired, which evt.c leaves active
evt_timer_init(t) ==
    /\ ClientMay /\ t \notin heap /\ pendpos[t] = 0
    /\ active' = [active EXCEPT ![t] = FALSE]
    /\ timestamp' = [timestamp EXCEPT ![t] = AfterOf[t]]
    /\ UNCHANGED <<loopVars, pendVars, ioVars, listVars, epollVars, heap,
                   started, noticed, catime, open>>

\* timestamp += catime: without evt_timer_init in between, a second start
\* adds the time to a deadline that is absolute already
evt_timer_start(t) ==
    /\ ClientMay /\ timestamp[t] <= MaxTime
    /\ ~active[t]
    /\ active' = [active EXCEPT ![t] = TRUE]
    /\ timestamp' = [timestamp EXCEPT ![t] = @ + catime]
    /\ heap' = heap \cup {t}
    /\ started' = [started EXCEPT ![t] = timestamp[t] + catime]
    /\ noticed' = [noticed EXCEPT ![t] = NotYet]
    /\ UNCHANGED <<loopVars, pendVars, ioVars, listVars, epollVars, catime, open>>

\* Mutant of evt_timer_stop: an expired timer stays in the pending queue.
evt_timer_stop_KeepPending(t) ==
    /\ ClientMay
    /\ active[t]
    /\ active' = [active EXCEPT ![t] = FALSE]
    /\ heap' = heap \ {t}
    /\ UNCHANGED <<loopVars, pendVars, ioVars, listVars, epollVars, timestamp, started,
                   noticed, catime, open>>

\* Mutant of evt_timer_stop: the timer stays in the heap.
evt_timer_stop_KeepHeap(t) ==
    /\ ClientMay
    /\ active[t]
    /\ active' = [active EXCEPT ![t] = FALSE]
    /\ Unpend(t)
    /\ UNCHANGED <<loopVars, j, ioVars, listVars, epollVars, timerVars, catime, open>>

evt_timer_stop(t) ==
    /\ ClientMay
    /\ active[t]
    /\ active' = [active EXCEPT ![t] = FALSE]
    /\ Unpend(t)
    /\ heap' = heap \ {t}
    /\ UNCHANGED <<loopVars, j, ioVars, listVars, epollVars, timestamp, started, noticed,
                   catime, open>>

\* evt_loop_quit, inside a callback or by another thread at any time, between
\* dispatch and execution too
evt_loop_quit ==
    /\ pc # "out"
    /\ quiting' = TRUE
    /\ UNCHANGED <<pc, todo, active, pendVars, ioVars, listVars, epollVars, timerVars,
                   catime, open>>

\* close(fd), after its watchers were stopped; the kernel drops the
\* registration with the file
CloseFd(f) ==
    /\ ClientMay /\ f \in open /\ evq[f] = << >>
    /\ open' = open \ {f}
    /\ reg' = [reg EXCEPT ![f] = {}]
    /\ UNCHANGED <<loopVars, active, pendVars, ioVars, listVars, event, revent, ready,
                   reused, timerVars, catime>>

\* accept or socket returns a descriptor number that is free
OpenFd(f) ==
    /\ ClientMay /\ f \notin open
    /\ open' = open \cup {f}
    /\ reused' = IF event[f] # {} THEN reused \cup {f} ELSE reused
    /\ UNCHANGED <<loopVars, active, pendVars, ioVars, listVars, event, revent, ready,
                   reg, timerVars, catime>>

Client ==
    \/ \E w \in Io : evt_io_start(w) \/ evt_io_stop(w)
    \/ \E w \in Befores : evt_before_start(w) \/ evt_before_stop(w)
    \/ \E w \in Afters : evt_after_start(w) \/ evt_after_stop(w)
    \/ \E t \in Timers : evt_timer_init(t) \/ evt_timer_start(t) \/ evt_timer_stop(t)
    \/ \E f \in Fds : CloseFd(f) \/ OpenFd(f)
    \/ evt_loop_quit

-----------------------------------------------------------------------------
(* evt_loop_run                                                             *)

\* gettimeofday: the time of day may have been set forward or back
UpdateCatime == catime' \in 0 .. MaxTime

\* from the call of evt_loop_run or the end of a round to the walk over the
\* before watchers; the call clears the status, QUITING included
evt_loop_run ==
    /\ pc = "out"
    /\ pc' = "top" /\ quiting' = FALSE
    /\ UNCHANGED <<todo, active, pendVars, ioVars, listVars, epollVars, timerVars,
                   catime, open>>

LoopTop ==
    /\ pc = "top"
    /\ IF quiting
       THEN pc' = "end" /\ UNCHANGED <<todo, catime>>
       ELSE pc' = "before" /\ todo' = before_evtq /\ UpdateCatime
    /\ UNCHANGED <<quiting, active, pendVars, ioVars, listVars, epollVars, timerVars, open>>

\* one iteration of a for_splst_each that appends to the pending queue; the
\* one of _epoll_dispatch appends only the watchers of a reported event
QueueNext ==
    /\ pc \in {"before", "dispatch", "after"} /\ todo # << >>
    /\ IF pc = "dispatch" /\ EvOf[Head(todo)] \cap revent[FdOf[Head(todo)]] = {}
       THEN UNCHANGED <<pending, pendpos>>
       ELSE evt_append_pending(Head(todo))
    /\ todo' = Tail(todo)
    /\ UNCHANGED <<pc, quiting, active, j, ioVars, listVars, epollVars, timerVars,
                   catime, open>>

QueueEnd ==
    /\ pc \in {"before", "after"} /\ todo = << >>
    /\ pc' = IF pc = "before" THEN "exec1" ELSE "exec2"
    /\ UNCHANGED <<quiting, todo, active, pendVars, ioVars, listVars, epollVars,
                   timerVars, catime, open>>

\* _evt_execute_pending: the next slot; its watcher's callback starts
ExecuteNext ==
    /\ pc \in {"exec1", "exec2"} /\ j < Len(pending)
    /\ j' = j + 1
    /\ LET eb == pending[j + 1] IN
       IF eb = Empty
       THEN UNCHANGED <<pendpos, pc>>
       ELSE /\ pendpos' = [pendpos EXCEPT ![eb] = 0]
            /\ pc' = IF pc = "exec1" THEN "cb1" ELSE "cb2"
    /\ UNCHANGED <<quiting, todo, active, pending, ioVars, listVars, epollVars, timerVars,
                   catime, open>>

CallbackReturns ==
    /\ pc \in {"cb1", "cb2"}
    /\ pc' = IF pc = "cb1" THEN "exec1" ELSE "exec2"
    /\ UNCHANGED <<quiting, todo, active, pendVars, ioVars, listVars, epollVars,
                   timerVars, catime, open>>

\* the queue is cleared; after the before watchers QUITING is looked at
ExecuteEnd ==
    /\ pc \in {"exec1", "exec2"} /\ j = Len(pending)
    /\ pending' = << >> /\ j' = 0
    /\ pc' = IF pc = "exec2" THEN "top" ELSE IF quiting THEN "end" ELSE "update"
    /\ UNCHANGED <<quiting, todo, active, pendpos, ioVars, listVars, epollVars,
                   timerVars, catime, open>>

\* the mask the watchers of f want
Want(f) == UNION {EvOf[w] : w \in Elems(evq[f])}

\* Mutant of epoll_update: no ADD when MOD finds the descriptor unregistered.
epoll_update_NoFallback(f, oev, nev) ==
    IF nev = {} \/ f \notin open \/ (oev # {} /\ reg[f] = {}) THEN reg[f] ELSE nev

\* _epoll_update, as the mask epoll has for f afterwards.  MOD of what epoll
\* has forgotten falls back to ADD and ADD of what it knows to MOD; with an
\* empty mask nothing is done, and a closed descriptor cannot be registered.
epoll_update(f, oev, nev) ==
    IF nev = {} \/ f \notin open THEN reg[f] ELSE nev

\* Mutant of evt_update_fdchanges: the CHANGED flag is not cleared.
evt_update_fdchanges_KeepFlag ==
    /\ pc = "update"
    /\ LET differs == {f \in Elems(fds_change) : event[f] # Want(f)} IN
       /\ event' = [f \in Fds |-> IF f \in differs THEN Want(f) ELSE event[f]]
       /\ reg' = [f \in Fds |-> IF f \in differs
                                THEN epoll_update(f, event[f], Want(f)) ELSE reg[f]]
       /\ reused' = reused \ differs
    /\ fds_change' = << >>
    /\ pc' = "poll"
    /\ UpdateCatime
    /\ UNCHANGED <<quiting, todo, active, pendVars, evq, changed, listVars, revent, ready,
                   timerVars, open>>

\* _evt_update_fdchanges: the backend is told only if the mask differs
evt_update_fdchanges ==
    /\ pc = "update"
    /\ LET differs == {f \in Elems(fds_change) : event[f] # Want(f)} IN
       /\ event' = [f \in Fds |-> IF f \in differs THEN Want(f) ELSE event[f]]
       /\ reg' = [f \in Fds |-> IF f \in differs
                                THEN epoll_update(f, event[f], Want(f)) ELSE reg[f]]
       /\ reused' = reused \ differs
    /\ changed' = [f \in Fds |-> IF f \in Elems(fds_change) THEN FALSE ELSE changed[f]]
    /\ fds_change' = << >>
    /\ pc' = "poll"
    /\ UpdateCatime
    /\ UNCHANGED <<quiting, todo, active, pendVars, evq, listVars, revent, ready,
                   timerVars, open>>

\* epoll_wait: any registered descriptors may be reported, with events they
\* are registered for or an error or hang-up, which is READ and WRITE; none
\* is reported when the wait times out or is interrupted
epoll_wait ==
    /\ pc = "poll"
    /\ \E rev \in [Fds -> SUBSET Ev] :
          /\ \A f \in Fds : rev[f] \subseteq reg[f] \/ (rev[f] = Ev /\ reg[f] # {})
          /\ ready' = {f \in Fds : rev[f] # {}}
          /\ revent' = [f \in Fds |-> IF rev[f] # {} THEN rev[f] ELSE revent[f]]
    /\ pc' = "dispatch"
    /\ UNCHANGED <<quiting, todo, active, pendVars, ioVars, listVars, event, reg, reused,
                   timerVars, catime, open>>

\* _epoll_dispatch, one reported descriptor: a mask wider than the wanted one
\* is corrected now (MOD, or DEL when nothing is wanted)
epoll_dispatch(f) ==
    /\ pc = "dispatch" /\ todo = << >> /\ f \in ready
    /\ reg' = IF revent[f] \subseteq event[f] THEN reg ELSE [reg EXCEPT ![f] = event[f]]
    /\ ready' = ready \ {f}
    /\ todo' = evq[f]
    /\ UNCHANGED <<pc, quiting, active, pendVars, ioVars, listVars, event, revent, reused,
                   timerVars, catime, open>>

DispatchEnd ==
    /\ pc = "dispatch" /\ todo = << >> /\ ready = {}
    /\ pc' = IF quiting THEN "end" ELSE "expire"
    /\ UpdateCatime
    /\ UNCHANGED <<quiting, todo, active, pendVars, ioVars, listVars, epollVars,
                   timerVars, open>>

\* Mutant of ExpireTimer: a timer expires one tick before its deadline.
ExpireTimer_Early(t) ==
    /\ pc = "expire"
    /\ t \in heap /\ \A u \in heap : timestamp[t] <= timestamp[u]
    /\ timestamp[t] <= catime + 1
    /\ evt_append_pending(t)
    /\ noticed' = [noticed EXCEPT ![t] = catime]
    /\ IF RepeatOf[t] > 0
       THEN /\ timestamp' = [timestamp EXCEPT ![t] = @ + RepeatOf[t]]
            /\ heap' = heap
       ELSE /\ heap' = heap \ {t}
            /\ timestamp' = timestamp
    /\ UNCHANGED <<loopVars, active, j, ioVars, listVars, epollVars, started, catime, open>>

\* Mutant of ExpireTimer: the period is counted from the late wake-up.
ExpireTimer_FromNow(t) ==
    /\ pc = "expire"
    /\ t \in heap /\ \A u \in heap : timestamp[t] <= timestamp[u]
    /\ timestamp[t] <= catime
    /\ evt_append_pending(t)
    /\ noticed' = [noticed EXCEPT ![t] = catime]
    /\ IF RepeatOf[t] > 0
       THEN /\ timestamp' = [timestamp EXCEPT ![t] = catime + RepeatOf[t]]
            /\ heap' = heap
       ELSE /\ heap' = heap \ {t}
            /\ timestamp' = timestamp
    /\ UNCHANGED <<loopVars, active, j, ioVars, listVars, epollVars, started, catime, open>>

\* one round of the while over the timer heap: t is at the top and due; a
\* repeating timer is started again at its deadline plus its period
ExpireTimer(t) ==
    /\ pc = "expire"
    /\ t \in heap /\ \A u \in heap : timestamp[t] <= timestamp[u]
    /\ timestamp[t] <= catime
    /\ evt_append_pending(t)
    /\ noticed' = [noticed EXCEPT ![t] = catime]
    /\ IF RepeatOf[t] > 0
       THEN /\ timestamp' = [timestamp EXCEPT ![t] = @ + RepeatOf[t]]
            /\ heap' = heap
       ELSE /\ heap' = heap \ {t}
            /\ timestamp' = timestamp
    /\ UNCHANGED <<loopVars, active, j, ioVars, listVars, epollVars, started, catime, open>>

ExpireEnd ==
    /\ pc = "expire"
    /\ \A t \in heap : timestamp[t] > catime
    /\ pc' = "after" /\ todo' = after_evtq
    /\ UNCHANGED <<quiting, active, pendVars, ioVars, listVars, epollVars, timerVars,
                   catime, open>>

\* Mutant of LoopEnd: the pending queue is thrown away, pendpos is not.
LoopEnd_ClearPending ==
    /\ pc = "end"
    /\ pc' = "out" /\ quiting' = FALSE
    /\ pending' = << >> /\ j' = 0
    /\ UNCHANGED <<todo, active, pendpos, ioVars, listVars, epollVars, timerVars,
                   catime, open>>

\* evt_loop_run returns; what is pending stays queued for the next run
LoopEnd ==
    /\ pc = "end"
    /\ pc' = "out" /\ quiting' = FALSE
    /\ UNCHANGED <<todo, active, pendVars, ioVars, listVars, epollVars, timerVars,
                   catime, open>>

LoopStep ==
    \/ LoopTop \/ QueueNext \/ QueueEnd
    \/ ExecuteNext \/ CallbackReturns \/ ExecuteEnd
    \/ evt_update_fdchanges \/ epoll_wait \/ DispatchEnd
    \/ \E f \in Fds : epoll_dispatch(f)
    \/ \E t \in Timers : ExpireTimer(t)
    \/ ExpireEnd \/ LoopEnd

Next == Client \/ evt_loop_run \/ LoopStep

Spec == evt_loop_init /\ [][Next]_vars

\* The loop's thread keeps running and callbacks return.
FairSpec == Spec /\ WF_vars(LoopStep)

-----------------------------------------------------------------------------
(* Properties                                                               *)

LoopPC == {"out", "top", "before", "exec1", "cb1", "update", "poll", "dispatch",
           "expire", "after", "exec2", "cb2", "end"}

TypeOK ==
    /\ pc \in LoopPC /\ quiting \in BOOLEAN
    /\ active \in [Watchers -> BOOLEAN]
    /\ pendpos \in [Watchers -> Nat]
    /\ pending \in Seq(Watchers \cup {Empty})
    /\ j \in Nat
    /\ todo \in Seq(Watchers)
    /\ evq \in [Fds -> Seq(Io)]
    /\ before_evtq \in Seq(Befores) /\ after_evtq \in Seq(Afters)
    /\ event \in [Fds -> SUBSET Ev] /\ revent \in [Fds -> SUBSET Ev]
    /\ changed \in [Fds -> BOOLEAN] /\ fds_change \in Seq(Fds)
    /\ ready \subseteq Fds
    /\ heap \subseteq Timers
    /\ timestamp \in [Timers -> Nat] /\ started \in [Timers -> Nat]
    /\ noticed \in [Timers -> Nat \cup {NotYet}]
    /\ catime \in 0 .. MaxTime
    /\ open \subseteq Fds /\ reg \in [Fds -> SUBSET Ev] /\ reused \subseteq Fds

\* A watcher's pendpos and the slots of the pending queue agree: pendpos
\* names the one slot not yet executed that holds the watcher.  Stops and
\* restarts inside callbacks, a quit between dispatch and execution and a
\* second run of the loop all keep it so.
PendingConsistent ==
    /\ j <= Len(pending)
    /\ \A w \in Watchers : pendpos[w] # 0 =>
          /\ pendpos[w] \in (j + 1) .. Len(pending)
          /\ pending[pendpos[w]] = w
    /\ \A i \in (j + 1) .. Len(pending) :
          pending[i] # Empty => pendpos[pending[i]] = i

NoDuplicates(l) == \A h, i \in 1 .. Len(l) : l[h] = l[i] => h = i

\* The watchers a structure of the loop still points to.
Referenced ==
    ({pending[i] : i \in (j + 1) .. Len(pending)} \ {Empty})
        \cup Elems(todo) \cup Elems(before_evtq) \cup Elems(after_evtq) \cup heap
        \cup UNION {Elems(evq[f]) : f \in Fds}

\* The loop holds no reference to a watcher that is not active: after
\* evt_*_stop returns, inside whichever callback, the client may free the
\* watcher, and no callback of a stopped watcher runs.
NoDanglingReference == \A w \in Referenced : active[w]

\* The lists hold every active watcher of their kind once; a timer that is
\* active and not in the heap is a one-shot timer that has expired since it was
\* last started, at or after its deadline: none is lost before.
LinkedIffActive ==
    /\ \A w \in Io : active[w] <=> w \in Elems(evq[FdOf[w]])
    /\ \A w \in Befores : active[w] <=> w \in Elems(before_evtq)
    /\ \A w \in Afters : active[w] <=> w \in Elems(after_evtq)
    /\ \A t \in Timers : active[t] => t \in heap \/ (RepeatOf[t] = 0 /\ started[t] <= noticed[t])
    /\ \A f \in Fds : NoDuplicates(evq[f])
    /\ NoDuplicates(before_evtq) /\ NoDuplicates(after_evtq)

\* No change of what a descriptor's watchers want is lost: when it differs
\* from the mask last given to the backend, the descriptor is in the change
\* queue, and it is there once.
ChangesQueued ==
    /\ \A f \in Fds : Want(f) # event[f] => f \in Elems(fds_change)
    /\ \A f \in Fds : changed[f] <=> f \in Elems(fds_change)
    /\ NoDuplicates(fds_change)

\* When the loop goes to sleep in epoll_wait, epoll knows of every event some
\* started watcher wants on an open descriptor, except on a descriptor whose
\* number was closed and given out again before the loop had told the
\* backend of the first file's end.
WatchedUnlessReused ==
    pc = "poll" => \A f \in open \ reused : Want(f) \subseteq reg[f]

\* The same without the exception: what evt.c:583 takes for granted when it
\* skips the backend because the mask did not change.
WatchedWhenPolling ==
    pc = "poll" => \A f \in open : Want(f) \subseteq reg[f]

\* A timer never reaches the pending queue before the time was at the deadline
\* it was last started with, whatever was stopped and started again in
\* between and however the time of day was set.
TimerNotEarly == \A t \in Timers : pendpos[t] # 0 => started[t] <= noticed[t]

\* A repeating timer keeps its phase: its next deadline is the one it was
\* started with plus whole periods, and it has advanced past the deadlines
\* only that had come when the loop noticed them, however late that was.
PeriodKept ==
    \A t \in heap : RepeatOf[t] > 0 =>
        /\ timestamp[t] >= started[t]
        /\ (timestamp[t] - started[t]) % RepeatOf[t] = 0
        /\ timestamp[t] > started[t] => timestamp[t] <= noticed[t] + RepeatOf[t]

\* A queued watcher is called or stopped, unless the loop returns first; one
\* left over by a quit is served by the next run.
QueuedIsServed == \A w \in Watchers : pendpos[w] # 0 ~> (pendpos[w] = 0 \/ pc = "out")
=============================================================================
