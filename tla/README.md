# A TLA+ model of libohnet

libohnet is a network library in C. `ohutil` wraps POSIX threads, memory and
time and offers a thread pool and an object pool; `ohev` is an event loop in
the manner of libev with an epoll backend, a pool of loops, buffers and a TCP
server; `ohstl` has containers in the manner of the STL. Paths below are
relative to the repository.

This directory holds TLA+ modules that model the library from its source, TLC
configurations that check them on small instances, and proofs that TLAPS
checks for every instance. Run, in this directory:

    tlc -workers 2 -config MCThreadPool.cfg ThreadPool
    tlc -workers 2 -config MCParts.cfg MCParts
    tlapm ThreadPoolProofs.tla

`PROJECT.json` lists the runs, the theorems, the source lines every definition
stands for, the mutations each property was seen to detect, and the hazards
the properties are for.

## Inventory

| Component | State | Operations | Talks to |
|---|---|---|---|
| thread pool (`src/ohutil/thread.c:197-306`) | ring `q`, `rind`, `wind`, `used`, `status`, `running`, a lock and a condition variable | create, run, push, destroy; the worker function | threads that push; tasks |
| event loop (`src/ohev/evt.c`) | `status`, `owner_tid`, watchers per descriptor, before and after lists, timer heap, pending queue, change queue, async list, eventfd | init, run, quit, destroy, wakeup; start and stop of io, timer, before, after and async watchers | callbacks of the client, epoll backend, other threads through the async list and the eventfd |
| epoll backend (`src/ohev/bkepoll.c`) | epoll descriptor, event array | init, update, dispatch, destroy | the kernel; the loop's pending queue |
| lists, heap, arrays (`include/ohutil/container.h`) | intrusive `next`, `heap_pos` | add, delete, push, pop, expand | event loop, object pool |
| loop pool (`src/ohev/evtpool.c`) | loops, threads, `status` | init, run, quit, destroy | event loops |
| TCP (`src/ohev/tcpsrv.c`) | clients, servers, hubs, flags, connection counts | connect, accept, read, write, send, close, hub start, load balance | event loop, buffers, object pools, the user's callbacks |
| buffer (`src/ohev/buffer.c`) | chain of units with read and write positions | append, read from and write to a descriptor, used | TCP, object pool |
| object pool (`src/ohutil/objpool.c`) | free list, blocks, mutex | get, free, with or without the lock | TCP, buffer |
| time (`src/ohutil/time.c`) | the thread's cached time | update, get, convert | event loop |
| containers (`src/ohstl/`) | red-black tree, list, vector, heap, string, unit allocator | insert, erase, find, iterate | each other |
| memory, descriptors, log, utilities, XML parser | none the others rely on | wrappers | |

What is hard:

- *Thread pool.* `status` and, in destroy, `running` are read and written
  without a lock; the signal is sent after the unlock; destroy polls instead
  of joining.
- *Event loop, own thread.* Callbacks may start, stop and free any watcher
  while the pending queue, which points to watchers, is being executed;
  descriptors may be closed and their numbers given out again; the loop may
  leave with a non-empty pending queue and be run again; timers may be noticed
  late.
- *Event loop, other threads.* The async list is locked by some callers only,
  `status` is a byte updated by `|=` and `&=` from several threads, and the
  loop sleeps in `epoll_wait` until the eventfd wakes it.
- *TCP.* The user's callbacks may close the very client whose callback is
  running; with several loops a client is handed to another thread before the
  accepting thread is done with it.
- *Buffers, heap, tree.* Boundaries: a unit exactly full, the last element
  deleted, the tree rebalanced at the root.

What correctness means, per component: the pool is a bounded FIFO that runs
each accepted task once and whose destroy returns when nobody uses it; the
loop never refers to a stopped watcher, forgets no interest of a started one,
is never early with a timer and never lets one drift; an async event is run
and cleaned exactly once and cannot be slept over; a quit is honoured; a
connection is closed once; a buffer gives back the bytes put in, in order; the
heap and the tree are ordered and keep their back pointers.

## Modules

| Module | Models |
|---|---|
| `TaskQueue` | abstract specification of the thread pool: a bounded FIFO of tasks |
| `ThreadPool` | the thread pool step by step, its properties, and `ImplementsTaskQueue` |
| `ThreadPoolProofs` | the theorems about `ThreadPool` |
| `EvtLoop` | the event loop and the epoll backend as the loop's thread sees them |
| `EvtLoopProofs` | the theorems about `EvtLoop` |
| `MCEvtLoop` | descriptors, masks and delays for TLC |
| `EvtAsync` | the event loop as other threads see it: async events, quit, destroy |
| `EvtAsyncProofs` | the theorems about `EvtAsync` |
| `MCEvtAsync` | the symmetry sets for TLC |
| `Splst`, `SplstProofs` | the linked lists of `container.h`, for `EvtAsync`, `ObjPool` and `CVector`, and what holds of any of them |
| `EvtPool` | a pool of loops: run, quit, destroy |
| `Tcp` | a TCP server, its clients and connecting clients over one or several loops |
| `ServerProofs` | the theorems about `EvtPool` and `Tcp` |
| `SelfLb` | a hub: one server per loop, each balancing its own load |
| `ObjPool` | the object pool, with and without its lock |
| `ByteFifo`, `Buffer` | a queue of bytes, and the chain of units that implements it |
| `StoreProofs` | the theorems about `ObjPool` and `Buffer` |
| `TimerHeap`, `TimerHeapProofs` | the heap of timers with its back pointers, which `EvtLoop` takes for a set; its theorems |
| `Dict`, `RBTree` | a dictionary, and the red-black tree under `set_t` and `map_t` |
| `SeqSpec`, `CList`, `CVector` | a sequence, and the list and the vector that implement it |
| `PrioQueue`, `CHeap` | a bag from which the least element is taken, and the heap over `CVector` that implements it |
| `ContainerProofs` | the theorems about `CVector`, `CList` and `CHeap` |
| `MCParts` | the parts from `EvtPool` on, each explored on its own, for TLC |

Definitions that repeat an operation with one change, such as
`PushStore_NoFullTest` or `NotUncounted`, are mutants: plausible mistakes in the
code, used to see that a property detects them. No specification uses them;
`PROJECT.json` names the definition each of them stands in for.

### ThreadPool

The variables are the fields of `thread_pool`, the holders of its two mutexes,
a program counter per worker, pusher and owner, and two histories, `pushed`
and `done`. A task is the number of its push. Each acquisition of a mutex, each
unlocked access to `status` or `running`, and each critical section from one
such access to the next is an action; a worker goes through `StartLock`,
`StartInc`, `StartUnlock`, then `TestStatus`, `CondLock`, `CheckWait` and
`DecideStop` or `DecideTake`, `RunTask`, and ends with `EndLock`, `EndDec`,
`EndUnlock`. `cond_wait` releases the mutex and puts the worker at `wait`; a
signal, a broadcast or `SpuriousWakeup` sends it to `CondLock` again. Freed
memory is modelled by who may still stand where once `opc = "freed"`.

The contract of the callers is in two guards: nobody pushes once destroy is
called (`PushCall`, `DestroyCall`), and, if `AwaitStart`, the owner destroys a
running pool only when all workers have counted themselves. The run
`pool_destroy` drops the second. thread.c has no means to ask for it: a caller
can only know it from the tasks that were executed.

### EvtLoop

The variables are the fields of `evt_loop`, `fd_info` and the watchers, the
kernel's open descriptors and epoll masks, and a program counter inside
`evt_loop_run`. The thread is sequential, so an action is a whole call of the
client (`evt_io_start` ... `evt_loop_quit`), possible before a run and at any
callback (`pc` is `cb1` or `cb2`; `evt_loop_quit` at any time, since another
thread may call it), or one iteration of the loops inside
`evt_loop_run`. `epoll_wait` reports any subset of the registered descriptors,
with any subset of their masks or an error, which counts as read and write.
The time of day may have moved any distance, forward or back, at each
`update_catime`. Two history variables say what the properties of timers need:
`started` is the deadline of a timer's last start and `noticed` the time at which
the loop last found it expired since then. The list macros are
sequences, the timer heap is the set of its timers with any earliest one on
top, and the empty event is `Empty`. The eventfd's own watcher belongs to
`EvtAsync`. How long epoll sleeps is not modelled: the wait may end at any
time with nothing.

The client keeps its part: it starts io watchers on open descriptors, closes a
descriptor only when its watchers are stopped (as `tcp_cb_close` does) and
initialises a timer only when the loop does not refer to it.

`reused` records descriptors that were reopened while `fdi->event` still
described the previous file.

### EvtAsync

The list is a head and a `next` per event, so that unlocked additions can
interleave inside `splst_add`. `Reach` of `Splst` is what a walk of the list
meets: the least set that holds the head and with each element its next, which
is also right for a list that a race has bent into a circle. `|=` and `&=` on `status` are a load and a
store (the four updates at the end of `evt_loop_run` one load and one store,
since nothing separates them). The loop's own work is reduced to its wait, its
looks at `status`, callbacks, and `_evt_do_wakeup` step by step. Four constants
widen what clients do beyond what the code survives: `EarlyStart`, `LoopStart`
(starting asyncs in places where no lock is taken), `EarlyQuit` (quitting
before `evt_loop_run` has assigned `status`) and `CrossDestroy` (destroying a
running loop from another thread). With all four false the properties hold;
each of them alone breaks one, which is how the module says what the code
relies on: `EarlyStart` and `LoopStart` break `NoAsyncLost`, `EarlyQuit` breaks
`QuitHonoured`, `CrossDestroy` breaks `FreedWhenUnused`, which with `CrossDestroy`
false is the callers' contract and therefore neither a run's property nor a theorem.

### EvtPool

`runner` is where `evt_pool_run` is (starting threads, in loop 0, joining) and
`loop` where each loop's thread is; a loop is reduced to its begin, its end and
its `QUITING` flag, whose own races are `EvtAsync`'s subject. A quit visits the
loops one by one while they end. The contract: quit and destroy are called by
callbacks of the loops, by one at a time, once every loop has begun
(`CanCall`); both status words are plain bytes and the code survives nothing
else. Calling quit again while a quit is being carried out changes nothing and
is left out. A stopped pool may be run again or destroyed by its owner.

### Tcp and SelfLb

In `Tcp` a client is a record of its flags, its loop, which of its events are
active, the chunks in its write buffer and the state of the connection. An
action is a handler or a call in the thread of the client's loop, with what the
program may do in the callback (`Uses`: nothing, send, send with a delay,
flush). `tcp_cb_accept` is three steps, since the client may run in its own
loop from the moment its read event is handed over: the hand-over, the
increment of `conn_cnt`, the call of `on_accept`. Every other handler touches
its own client and, atomically, `conn_cnt`, and is one step. `Uses` marks data as `due` when it was sent or flushed rather than
only delayed. The contract: a program does not close a client in that client's
own `on_read` or `on_write`, after which the handlers go on with it, and its
`on_accept` does not touch a client that another loop runs.

In `SelfLb` each loop alternates between `tcp_server_selflb_cb`, which reads
the counts of the servers one at a time while they change, the poll and its
handlers. The last read and the decision are one step: nothing another loop
changes is used between them. The comparison with `2.0 * totalc / i` is done in
integers, multiplied out. `tcp_server_init_finish`, `tcp_server_hub_init` and
`tcp_server_start` give the initial state. A loop's poll ends without an event
as well, because `evt_loop_run` waits at most 30 seconds.

### ObjPool, Buffer and the containers

`ObjPool` has one step per access to the free list, under the lock with several
threads, or without the lock and with one thread, which is how the buffers use
it. An allocation may fail. The free list is a head and a `next` per object, as in
the code; the elements on it are `Reach` of `Splst`.

`TimerHeap` models the loops of `spheap_fix_up` and `spheap_fix_down` by the path
they take: `Up` and `Down` say for every cell to which one the loop goes from it,
if it goes on, and `Shift` moves the timers of the path by one cell and sets
their `heap_pos`. The loops read a cell before they write it, so the path does
not depend on the moves. The loop of `check_and_expand_array` makes one round at
most, because it is called for every timer; `HeapConsistent` has the bound of the
array as its last conjunct and would tell otherwise.

The sequential structures keep the code's representation (links, colours,
indices, capacities, read and write positions) and next to it a variable that
takes the same call in the abstract module: `fifo` and `expect` in `ByteFifo`,
`ideal` in `Dict`, `listseq` and `vecseq` in `SeqSpec`, `hpbag` in `PrioQueue`,
`inheap` for the timers. Each `...Is...` invariant says that reading the
representation through the code's own accessors gives the abstract value and
that calls return what the abstract call returns. This is refinement with the
abstract state carried along: every concrete step is defined together with the
abstract step it implements.

An operation is an operator on the structure, applied by an action. The loops of
`Buffer`, `CList` and `CHeap` take a step for every round, so that their
properties speak of the middle of a call as well: `io`, `walk` and `fix` are the
call under way with its local variables. The loop of `vector_reserve` only doubles
a number; it is a walk along `Reach` of `Splst`. `RBTree` has recursive operators for
its loops and looks at the tree after a call.

`CHeap` uses the operations of `CVector`, the scratch cell behind the last
element included. `size_t` and `int` have 8 and 4 bits (`SizeT`, `VecSizeT`,
`VecInt`), so that unsigned differences wrap as in the code. `RBTree` stores
elements at addresses, so that an erase that copies the successor's element and
frees the successor's node is told apart from one that moves nodes. malloc's
choice of an address is fixed by `NewAddress`, since nothing depends on it.

`MCParts` has a variable `part` that is chosen at the start and says whose
actions happen; all other parts keep their initial state. It is ten separate
models in one run, not a composition: these parts share no state, except that
TCP uses buffers and buffers use object pools, through the interfaces whose
promises `Buffer` and `ObjPool` check.

## Runs

| Run | Instance | Shows |
|---|---|---|
| `pool` | 2 workers, 2 pushers, 2 slots, 3 pushes | `RingHoldsBacklog`, `TakenOnce`, `FreeAfterQueueUse`, the liveness `AcceptedIsRun` and `DestroyReturns`, and refinement of `TaskQueue` |
| `loop_io` | 3 io watchers on 2 descriptors, 1 before watcher | `PendingConsistent`, `NoDanglingReference`, `LinkedIffActive`, `ChangesQueued`, `WatchedUnlessReused` |
| `loop_timer` | a timer of delay 1 and period 2, a one-shot timer of delay 2, 1 after watcher, clock to 5 | `TimerNotEarly`, `PeriodKept`, `NoDanglingReference` and `LinkedIffActive` for timers and after watchers |
| `loop_live` | 2 io watchers on 1 descriptor, 1 before watcher | the liveness `QueuedIsServed`, across quits and re-runs |
| `async` | 2 threads, 3 asyncs, 2 runs of the loop | `NoAsyncLost`, `RunAtMostOnce`, `FreeCleansAll`, `WakeupPending` |
| `async_live` | 1 thread, 2 asyncs, 1 run | the liveness `AsyncServed` and `QuitHonoured` |
| `pool_destroy` | `AwaitStart` false | *violated*: `FreedAfterExit` |
| `fd_reuse` | as `loop_io`, no before watcher | *violated*: `WatchedWhenPolling` |
| `lost_quit` | as `async_live`, `EarlyQuit` | *violated*: `QuitHonoured` |
| `lost_async` | as `async_live`, `LoopStart` | *violated*: `NoAsyncLost` |
| `parts` | see below | `CountsOpen`, `WatchersMatch`, `EofCloses` (`Tcp`); `AcceptResumes` (`SelfLb`); `FreedAfterLoops`, `PoolDestroyCompletes` (`EvtPool`); `NoObjectTwice`; `BufIsFifo`; `HeapConsistent`; `TreeValid`, `RbtIsDict`; `ListWellLinked`, `ListIsSequence`; `VecIsSequence`; `HeapIsPrioQueue` |
| `list_next_n` | a list of up to 4 nodes | *violated*: `NextNReaches` |

The five violations are behaviours of the code that contradict a comment or a
test:

- `pool_destroy`: `thread_pool_destroy` right after `thread_pool_run` finds
  `running = 0` because no worker has been scheduled yet, and frees the pool.
  Even a patient owner may free the mutex that the last worker is about to
  unlock; `FreeAfterQueueUse` says that this is all that can be left.
- `fd_reuse`: a callback stops and closes a connection, another one accepts
  and gets the same number, the mask is the same as before, and
  `_evt_update_fdchanges` does not call the backend. `WatchedUnlessReused`
  shows that this is the only way to lose an interest.
- `lost_quit`: a quit between `owner_tid = ...` and `status = ...`.
- `lost_async`: `splst_add` without the lock in the loop's thread against
  `splst_add` under the lock in another.
- `list_next_n`: from the first element a step past the middle becomes a
  negative one, and the backward loop ends at the first element at once. From
  other elements `_list_iter_next_n` is right, which `ListWellLinked` shows.

Bounds. In `pool` three pushes through two slots wrap both indices and meet a
full queue, and with two workers one can be signalled while the other takes the
task. In `loop_io` two watchers share a descriptor (their masks are joined) and
one has its own; the before watcher gives callbacks before the update of the
changes, and a quit between dispatch and execution leaves watchers pending for
the next run. Nothing bounds the number of rounds: the state space is finite by
itself. In `loop_timer` the clock reaches
the period of the repeating timer after its first deadline, may jump over
both and may be set back before or after either; `MaxTime` bounds it and the start of a timer whose deadline is late
already. In `async` three events suffice for an addition before, between and
after the two accesses with which the list is detached; two runs of the loop
let a quit overlap the end of a run, with its store of `status` after the loop's
own, before the loop is run again. In `parts`: two clients of which one may
also connect, two loops and up to two chunks in a buffer let an accept overlap
a close in the other loop and let data remain at every end of a connection;
three servers with two connections reach a count above twice the average, which
stops a server; three loops have one that is neither the caller's nor the
runner's; two threads and two blocks of two objects reach an empty list, a full
pool and a get between the two accesses of another; units of two bytes, up to
five bytes and calls of up to three have reads, writes and short descriptor
calls that start and end inside and at the edges of units, over several
units; seven timers make a heap of three levels, in which a deletion has to move
the last element up as well as down, and its array of two (32 in the code) grows
twice; sets of up to six keys reach every insertion case, and a map of ten keys
inserted in order, which is then drained in every order with one key able to
return, has fix-ups of erasures that climb; lists have four nodes, vectors five
elements in an array that starts with two, heaps seven elements of three values.
Deadlock is not checked in `parts`, as the owner may leave a stopped pool alone,
or free it. Symmetry is
used for `async` only, where no temporal property is checked. Deadlock is
checked except in the runs of `EvtAsync`, where clients may leave the loop
alone and it may be freed.

Fairness. A started thread keeps running (weak fairness of its steps), and a
thread that keeps asking for a mutex gets it (strong fairness of the
acquisition; pthread mutexes hand over through the futex queue). `epoll_wait`
returns when the eventfd stays readable (strong fairness of `PollHit`: the
eventfd is level-triggered), and callbacks return. In `Tcp`, `SelfLb` and
`EvtPool` loops that run go on polling and calling the handlers of ready
descriptors (weak fairness of each loop's, client's or thread's steps; the
socket of a client takes data or fails in the end), and in `MCParts` only those
of the chosen part. `EofCloses` excepts a program that sends for ever to a peer
that has closed. Nothing is assumed of
clients, of spurious wake-ups or of waits that end for another reason.

## Proofs

`ThreadPoolProofs` proves for any sets of workers (finite) and pushers, any
queue size from 1 and any bound on the pushes:

| Theorem | States |
|---|---|
| `TypeCorrect` | `Spec => []TypeOK` |
| `RingCorrect` | `Spec => []RingHoldsBacklog` |
| `NoTaskTwice` | `Spec => []TakenOnce` |
| `NoQueueUseAfterFree` | `Spec => []FreeAfterQueueUse` |
| `Refinement` | `Spec => ImplementsTaskQueue` |

The assumptions are those named in `ThreadPool`: `SizeAssumption`,
`MaxPushAssumption`, `ThreadsAssumption`, `WorkersAssumption`,
`AwaitStartAssumption`.

None of these is inductive alone. `QueueInv` adds to the types and the three
data invariants who holds which mutex at which step (at most one thread stands
inside each critical section), that a worker about to take finds a task
(`used > 0`, or the pool was stopped, between its test and its pop), that a
worker has a task exactly while it runs it, and how the owner's phase and
`status` go together. The arithmetic of the ring is in two lemmas about any
ring and any indices, `RingPush` and `RingPop`. `CountInv` says that `running`
is the number of workers between their increment and their decrement; with
`AwaitStart` all workers are at or past their increment once destroy is called,
so `running = 0` leaves only workers past their decrement. The refinement maps
the ring to the sequence of its used slots; `RingInterval` shows that this is
an interval of task numbers, so that a push appends to it and a take removes
its head.

`ServerProofs` proves, for any number of loops from 1 (`LoopsNumAssumption`),
`FreedSafe` (`EvpSpec => []FreedAfterLoops`) and `NothingAfterFree`, that a
freed pool has no step left. The property alone is not inductive: `EvpInv` adds
what `evt_pool_run` knows where it stands (outside, nobody uses the pool; while
it starts threads, nobody can quit; while it joins, loop 0 and the threads before
the current one have ended), that `RUNNING` says whether it is under way, which
is what destroy goes by, and that a call of quit keeps the loop it was made in
from ending.

`EvtLoopProofs` proves, for any watchers, any descriptors, any masks, delays and
periods and any length of the clock (the assumptions of `EvtLoop`):

| Theorem | States |
|---|---|
| `LoopInvariant` | `Spec => []LoopInv` |
| `TypeCorrect`, `PendingAgrees`, `Linked`, `NoReferenceToStopped` | `TypeOK`, `PendingConsistent`, `LinkedIffActive`, `NoDanglingReference` |
| `NoChangeLost`, `Watched` | `ChangesQueued`, `WatchedUnlessReused` |
| `NotEarly`, `Period` | `TimerNotEarly`, `PeriodKept` |
| `CallsAreDue` | a step that takes a watcher from the pending queue finds it active and, if it is a timer, queued when the time had reached its deadline |

`LoopInv` is their common strengthening. A stop finds a watcher in the pending
queue by its `pendpos`, so `NoDanglingReference` needs `PendingConsistent`; that a
watcher gets there active needs `LinkedIffActive`, that the list being walked
holds active watchers and that no client code runs during the walk
(`WalkActive`), and the same of the heap (`HeapActive`). `TimerNotEarly`, and the
part of `LinkedIffActive` that says when a one-shot timer leaves the heap, need
that no deadline is before the one the timer was started with (`NotBeforeStart`). `Watched` needs
the whole chain from a watcher to the kernel: what differs is queued
(`ChangesQueued`), the queue is empty when the loop sleeps (`PollSettled`) and
epoll has what evt.c believes it gave it, except for a reused number
(`RegisteredUnlessReused`). One lemma per group of conjuncts goes through the
steps of `Next`; the lemmas before them are about the list macros and about
`pending`.

`SplstProofs` has the facts about linked lists that the others rest on: what
adding, unlinking and detaching do to the elements on a list of any length, that
a list in which each element comes from one other has its elements once, and
that pointers which only go up or only go down make no circle and reach an end.
Since `Reach` is a least closed set they follow from closure and leastness and need
no induction.

`EvtAsyncProofs` proves, for any number of threads and asyncs, `AsyncInvariant`,
`AsyncTypeCorrect` (`TypeOK`), `NothingLost` (`NoAsyncLost`), `AtMostOnce`
(`RunAtMostOnce`) and `WakeupKept` (`WakeupPending`) under `LockedStarts`, that is
with `EarlyStart` and `LoopStart` false: those are the calls of `evt_async_start`
that take no lock, and `lost_async` shows what they lose. `AsyncInv` adds to the
properties who has the mutex, that an async under start belongs to one call until
it is linked (and that its `next` is the head at the second write of `splst_add`),
that the pointers make no circle, and that the loop's list and the detached one
share an element only between the two writes that detach it.
`FreeLeaksNothing` (`FreeCleansAll`) holds in addition under `OwnDestroy`, with
`EarlyQuit` and `CrossDestroy` false. `EndInv` says which bits of `status` can be
lost or brought back between a load and a store, where a destroy can be, and that
it is then alone.

`ServerProofs` also proves, for any finite set of clients and any number of loops
(`TcpAssumption`), `CountExact` (`TcpSpec => []CountsOpen`) and `EventsMatch`
(`TcpSpec => []WatchersMatch`). The invariant of the first adds
the shape of the records and that an accept under way is about a client. The
handlers fall into three kinds: those that leave every client of its kind
(`KindStep`, with `UsesKeep` for what the program does in callbacks), those that
close an open client (`CloseStep`, which removes it from the counted set exactly
when it uncounts it), and the accept, whose two steps add to the set and then to
the count. The second needs that due data is in the buffer, by which
`tcp_cb_write` decides whether to stop the write event, that no client is
connecting and connected at once, and that the client `tcp_cb_accept` goes on to
use after the hand-over is still open when it runs in the accepting loop.

`StoreProofs` proves `HandedOnce` (`PoolSpec => []NoObjectTwice`) for any
threads, any block size and any number of blocks (`PoolAssumption`), with the lock
or with one thread. `PoolInv` adds that one thread at a time is in the code that
changes the list, what each call knows between two accesses (the head that was
read is still the head), that the list has no circle, and that nothing off the
list points into it but the object about to be put back. A new block is a chain
that goes down by one (`DownChain`).

For units of any size and calls of any length (`BufferAssumption`) it proves
`BufIsFifoHolds` (`BufSpec => []BufIsFifo`). `Chain` is the shape of a buffer: all
units but the last are written to the end, and only from the first something was
read. That is what the shortcut of `buf_used` relies on.
`Held` says which byte of the queue is at which offset of which unit, so that
filling the tail appends to the queue and draining the head removes its front.
In the middle of a call `Filling` says that the units hold what the queue holds
but for the bytes still in the caller's hands, `Reading` that what was handed out,
followed by what is left to read, is the answer, and `Peeking` the same for a
pointer that moves over units which stay.

`TimerHeapProofs` proves, for any finite set of timers, any deadlines and any
initial capacity from 1 (`HeapTimersAssumption`), `HeapKept`
(`ThSpec => []HeapConsistent`) and `TopIsEarliest`, which is what `EvtLoop` assumes
of the heap. `ShiftMoves` shows that moving the timers along a path permutes them
and that `heap_pos` follows; `FixUp` and `FixDown` that the order is restored,
given `OrderedBut`: everything is in order but for the one cell, and the cells
below it are in order with the one above it. `Push` and `Delete` establish it. The
last theorem takes the least index that would hold a timer before the top, whose
parent is a smaller one.

`ContainerProofs` proves what the containers without a tree promise:

| Theorem | States | For any |
|---|---|---|
| `VecIsSequenceHolds` | `VecSpec => []VecIsSequence` | values, element size, first capacity, bound on the elements (`VecAssumption`) |
| `ListWellLinkedHolds` | `ListSpec => []ListWellLinked` | values and number of nodes, with a `size_t` above four times that (`ListAssumption`) |
| `ListIsSequenceHolds` | `ListSpec => []ListIsSequence` | the same |
| `HeapIsPrioQueueHolds` | `HeapSpec => []HeapIsPrioQueue` | numbers as values, bound on the elements (`HeapAssumption`) |

*Vector.* `Vector` is a record whose elements are in its memory, `Holding` that they
are those of the sequence. One lemma per operation says what is in which cell
afterwards (`Reserved`, `VecInserted`, `VecErased`, `VecSwapped`), for vectors of any
set, since the heap uses them too. The distance of iterators takes the difference
of two addresses as a `size_t`, divides and makes it an `int`. For a negative
difference this is right only if the size of an element divides the range of
`size_t`, which is the condition in the property; `VecAssumption` then says that
this size times the range of `int` divides it too, as it does for 64 and 32 bits
and any such size up to 2^32, and that twice the elements fit into an `int`.

*List.* The invariant is that no node is twice in the sequence (`Once`), that the
pointers lead from each position to the next and back, with the guard at both
ends (`Ring`), and that the nodes in use are those of the sequence with its values
(`Filling`). The walks need where they stand: `WalkOk` gives the node of a walk as a
position and its `step` as what is left of, or was counted of, the distance.

*Heap.* `Contents` is the elements with the one that moves taken from the cell behind
the last. `HeapOrder` is the heap order but for the one that moves, with its
children not before its parent, as in `TimerHeapProofs`; `BagHolds` counts every value
in the contents as often as in the bag. A round of a fix function swaps two
elements of `Contents`, although it copies one over the other in the memory, and a
swap changes no count (`TimesSwapped`, by a bijection of the places). That the first
element is the least takes the least index of one that would be less.

Only model-checked: `AcceptResumes` and all other liveness (`AcceptedIsRun`,
`DestroyReturns`, `QueuedIsServed`, `AsyncServed`, `QuitHonoured`, `EofCloses`,
`PoolDestroyCompletes`), which needs fairness and `ENABLED`, out of the prover's
reach; `TreeValid` and `RbtIsDict`, whose module has recursive operators: the
assertion `_rbt_is_vaild` is a recursive definition over the tree, and a fact about
it for every tree takes an induction over data, which is out of reach as well.
These are the only safety properties of passing runs without a theorem.

## Not modelled

Failing allocations (except in the object pool), failing `pthread_create` and
failing socket setup; the growth of the loop's arrays other than the timer heap;
the value of the poll time; the debugging mutex; timed condition waits; an async
that is stopped and started again while the loop works on a detached list;
`evt_async_stop` by the loop's own thread; programs that break the contracts
named above, whose effects are among the hazards in `PROJECT.json`.

The unit allocator (`callocate.c`) is behind an interface that nothing selects.
`cpair.c`, `cstring.c` and `ctypes.c` parse type names and copy, compare and
destroy values: the data the containers are abstracted from. Memory and
descriptor wrappers, the log and the utilities have no state the others rely
on; the XML parser is vendored (ooxi/xml.c).

## Plan

1. Done: `TaskQueue`, `ThreadPool`, `EvtLoop`, `EvtAsync`, `EvtPool`, `Tcp`,
   `SelfLb`, `ObjPool`, `Buffer`, `TimerHeap`, `RBTree`, `CList`, `CVector`,
   `CHeap` and their abstract modules; proofs of every safety property that a run
   checks, except those of `RBTree`.
2. `RBTree`: its loops as steps, with the set of the nodes under a node and its
   black height as functions that satisfy local conditions in place of recursive
   definitions; then a proof of `RbtIsDict`.
3. `EvtAsync`: an async stopped from its detached list and started again.
