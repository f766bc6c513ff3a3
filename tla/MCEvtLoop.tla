----------------------------- MODULE MCEvtLoop -----------------------------
(* Values for the constants of EvtLoop: two descriptors with three io       *)
(* watchers, two of them on the same one, for the io runs; the two that     *)
(* share one for the liveness run; a one-shot and a repeating timer for the *)
(* timer run.                                                               *)
EXTENDS EvtLoop, TLC

CONSTANTS r1, w1, r2, t1, t2

IoFdOf == (r1 :> 1) @@ (w1 :> 1) @@ (r2 :> 2)
IoEvOf == (r1 :> {"READ"}) @@ (w1 :> {"WRITE"}) @@ (r2 :> {"READ"})

LiveFdOf == (r1 :> 1) @@ (w1 :> 1)
LiveEvOf == (r1 :> {"READ"}) @@ (w1 :> {"WRITE"})

NoFdOf == [w \in {} |-> 1]
NoEvOf == [w \in {} |-> {"READ"}]
NoTimes == [t \in {} |-> 0]

TimerAfterOf == (t1 :> 1) @@ (t2 :> 2)
TimerRepeatOf == (t1 :> 2) @@ (t2 :> 0)
=============================================================================
