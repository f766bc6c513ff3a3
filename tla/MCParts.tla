------------------------------ MODULE MCParts -------------------------------
(* The parts of the library that share no state, each explored on its own in  *)
(* one run: part says whose operations a behaviour consists of.               *)
EXTENDS Tcp, SelfLb, EvtPool, ObjPool, Buffer, RBTree, TimerHeap, CList, CHeap

VARIABLE part

\* Seven timers, two of which expire at the same time.
MCStamp == [t \in HeapTimers |-> IF t = 1 THEN 2 ELSE t]

\* A map into which all keys, which are the numbers from 1, were put in turn: a
\* tree that is high enough for a fix-up to climb more than one level.
GrownMap ==
    FoldLeft(LAMBDA t, k : rbt_insert_val(t, <<k, 0>>), rbt_init(FALSE), [i \in Nodes |-> i])
MCRbtInit == RbtInit \/ (rbt = GrownMap /\ ideal = [k \in Keys |-> 0])

Parts == {"tcp", "selflb", "evtpool", "objpool", "buffer", "rbtree", "timerheap", "list",
          "vector", "heap"}

partvars == <<tcpvars, lbvars, evpvars, poolvars, bufvars, rbtvars, thvars, listvars, vecvars,
              hpvars, part>>

Rest(p, q, vars) == IF p = q THEN TRUE ELSE UNCHANGED vars

\* The behaviour is one of part p; the others stay as they are.
Of(p) ==
    /\ part = p /\ UNCHANGED part
    /\ Rest(p, "tcp", tcpvars) /\ Rest(p, "selflb", lbvars) /\ Rest(p, "evtpool", evpvars)
    /\ Rest(p, "objpool", poolvars) /\ Rest(p, "buffer", bufvars) /\ Rest(p, "rbtree", rbtvars)
    /\ Rest(p, "timerheap", thvars) /\ Rest(p, "list", listvars) /\ Rest(p, "vector", vecvars)
    /\ Rest(p, "heap", hpvars)

PartsInit ==
    /\ part \in Parts
    /\ TcpInit /\ LbInit /\ EvpInit /\ PoolInit /\ BufInit /\ MCRbtInit /\ ThInit /\ ListInit
    /\ VecInit /\ HeapInit
    /\ part # "tcp" => ~lb_ctx.mloop
    /\ part # "objpool" => op.uselock
    /\ part # "rbtree" => rbt.comp_val

PartsNext ==
    \/ Of("tcp") /\ TcpNext
    \/ Of("selflb") /\ LbNext
    \/ Of("evtpool") /\ EvpNext
    \/ Of("objpool") /\ PoolNext
    \/ Of("buffer") /\ BufNext
    \/ Of("rbtree") /\ RbtNext
    \/ Of("timerheap") /\ ThNext
    \/ Of("list") /\ ListNext
    \/ Of("vector") /\ VecNext
    \/ Of("heap") /\ HeapNext

\* The fairness of each part, in the behaviours of that part.
PartsFairness ==
    /\ WF_tcpvars(part = "tcp" /\ AcceptStep)
    /\ \A c \in Clients :
          /\ WF_tcpvars(part = "tcp" /\ ReadStep(c))
          /\ WF_tcpvars(part = "tcp" /\ WriteStep(c))
    /\ \A s \in Servers : WF_lbvars(part = "selflb" /\ LoopStep(s))
    /\ WF_evpvars(part = "evtpool" /\ Thread0)
    /\ WF_evpvars(part = "evtpool" /\ QuitLoop)
    /\ \A l \in LoopIds : WF_evpvars(part = "evtpool" /\ LoopThread(l))

PartsSpec == PartsInit /\ [][PartsNext]_partvars /\ PartsFairness
=============================================================================
