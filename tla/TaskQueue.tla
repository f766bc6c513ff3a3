----------------------------- MODULE TaskQueue -----------------------------
(***************************************************************************)
(* What the thread pool of ohutil promises to its callers, with no ring     *)
(* buffer, lock, condition variable or polling loop in sight: a bounded     *)
(* FIFO of tasks.  An accepted task is handed to one worker, in the order   *)
(* of acceptance, and leaves the worker executed.  Once the pool is         *)
(* stopped, tasks that are still queued are dropped: nobody hands them out  *)
(* any more (thread_pool_destroy does not drain the queue).                 *)
(***************************************************************************)
EXTENDS Naturals, Sequences

CONSTANTS Workers,   \* the threads of the pool
          Size       \* capacity of the queue

VARIABLES queue,     \* the accepted tasks nobody has taken yet, oldest first
          accepted,  \* number of accepted tasks; the k-th one is named k
          hand,      \* hand[w]: the task worker w holds, 0 for none
          done,      \* the executed tasks
          stopping   \* thread_pool_destroy has been called

tqvars == <<queue, accepted, hand, done, stopping>>

TQInit ==
    /\ queue = << >>
    /\ accepted = 0
    /\ hand = [w \in Workers |-> 0]
    /\ done = {}
    /\ stopping = FALSE

Accept ==
    /\ ~stopping
    /\ Len(queue) < Size
    /\ queue' = Append(queue, accepted + 1)
    /\ accepted' = accepted + 1
    /\ UNCHANGED <<hand, done, stopping>>

\* A worker that has looked at the stop flag just before it was raised may
\* still take a task, so Take does not ask for ~stopping.
Take(w) ==
    /\ hand[w] = 0
    /\ queue # << >>
    /\ hand' = [hand EXCEPT ![w] = Head(queue)]
    /\ queue' = Tail(queue)
    /\ UNCHANGED <<accepted, done, stopping>>

Finish(w) ==
    /\ hand[w] # 0
    /\ done' = done \cup {hand[w]}
    /\ hand' = [hand EXCEPT ![w] = 0]
    /\ UNCHANGED <<queue, accepted, stopping>>

Stop ==
    /\ ~stopping
    /\ stopping' = TRUE
    /\ UNCHANGED <<queue, accepted, hand, done>>

TQNext ==
    \/ Accept
    \/ \E w \in Workers : Take(w) \/ Finish(w)
    \/ Stop

TQSpec == TQInit /\ [][TQNext]_tqvars
=============================================================================
