------------------------------- MODULE SelfLb -------------------------------
(* The self load balancing of tcp_server_hub (tcpsrv.c): one server per loop, *)
(* all accepting from one listening socket, each in the thread of its loop.   *)
(* Before every poll a loop compares its number of connections with the       *)
(* average over all servers, which it reads while the other loops change      *)
(* them, and stops or starts its accept event.                                *)
EXTENDS Integers, FiniteSets, FiniteSetsExt
CONSTANTS Servers, MaxConn

ASSUME SelfLbAssumption == Servers = 1..Cardinality(Servers) /\ MaxConn \in Nat

VARIABLES conns,    \* per server
          accept_on,   \* per server, whether accept_ev is started
          backlog,     \* connections that wait at the listening socket
          phase           \* per loop: its phase and the locals of its callbacks

lbvars == <<conns, accept_on, backlog, phase>>

N == Cardinality(Servers)
In(ph) == [ph |-> ph, i |-> 1, total |-> 0]
SetPhase(s, r) == phase' = [phase EXCEPT ![s] = r]

\* The loop of tcp_server_selflb_cb. thisc stays what it is: the own count
\* changes in this thread only.
selflb_sum(s) ==
    /\ phase[s].ph \in {"handled", "sum"} /\ phase[s].i < N
    /\ SetPhase(s, [ph |-> "sum", i |-> phase[s].i + 1,
                    total |-> phase[s].total + conns[phase[s].i]])
    /\ UNCHANGED <<conns, accept_on, backlog>>

\* A server that is not above the limit leaves its accept event as it is.
NeverStarted(s) ==
    /\ phase[s].ph \in {"handled", "sum"} /\ phase[s].i = N
    /\ accept_on' = [accept_on EXCEPT
           ![s] = @ /\ conns[s] * N <= 2 * (phase[s].total + conns[N])]
    /\ SetPhase(s, In("poll"))
    /\ UNCHANGED <<conns, backlog>>

\* With the last count: stop if thisc > 2.0 * totalc / i, where i = N by now.
selflb_decide(s) ==
    /\ phase[s].ph \in {"handled", "sum"} /\ phase[s].i = N
    /\ accept_on' = [accept_on EXCEPT ![s] = conns[s] * N <= 2 * (phase[s].total + conns[N])]
    /\ SetPhase(s, In("poll"))
    /\ UNCHANGED <<conns, backlog>>

\* The poll of the loop returns with or without events: its wait is bounded.
Poll(s) ==
    /\ phase[s].ph = "poll"
    /\ SetPhase(s, In(IF accept_on[s] /\ backlog > 0 THEN "ready" ELSE "handled"))
    /\ UNCHANGED <<conns, accept_on, backlog>>

\* tcp_cb_accept; without a connection (another server took it) accept says EAGAIN.
Accept(s) ==
    /\ phase[s].ph = "ready" /\ backlog > 0
    /\ backlog' = backlog - 1
    /\ conns' = [conns EXCEPT ![s] = @ + 1]
    /\ SetPhase(s, In("handled"))
    /\ UNCHANGED accept_on

AcceptAgain(s) ==
    /\ phase[s].ph = "ready" /\ backlog = 0
    /\ SetPhase(s, In("handled"))
    /\ UNCHANGED <<conns, accept_on, backlog>>

\* tcp_cb_close of one of the server's clients.
CloseClient(s) ==
    /\ phase[s].ph = "handled" /\ conns[s] > 0
    /\ conns' = [conns EXCEPT ![s] = @ - 1]
    /\ UNCHANGED <<accept_on, backlog, phase>>

Arrive ==
    /\ backlog + MapThenSumSet(LAMBDA s : conns[s], Servers) < MaxConn
    /\ backlog' = backlog + 1
    /\ UNCHANGED <<conns, accept_on, phase>>

tcp_server_init_finish == [conn_cnt |-> 0, accept_on |-> FALSE]

\* The first server opens the socket, the others share its descriptor.
tcp_server_hub_init == [s \in Servers |-> tcp_server_init_finish]

tcp_server_start(server) == [server EXCEPT !.accept_on = TRUE]

\* tcp_server_hub_start: every server accepts, and every loop balances.
LbInit ==
    /\ conns = [s \in Servers |-> tcp_server_hub_init[s].conn_cnt]
    /\ accept_on = [s \in Servers |-> tcp_server_start(tcp_server_hub_init[s]).accept_on]
    /\ backlog = 0
    /\ phase = [s \in Servers |-> In("handled")]

LoopStep(s) ==
    selflb_sum(s) \/ selflb_decide(s) \/ Poll(s) \/ Accept(s) \/ AcceptAgain(s)

LbNext == Arrive \/ \E s \in Servers : LoopStep(s) \/ CloseClient(s)

\* Every loop's thread runs on.
LbFairness == \A s \in Servers : WF_lbvars(LoopStep(s))

LbSpec == LbInit /\ [][LbNext]_lbvars /\ LbFairness
-----------------------------------------------------------------------------
SomeAccept == \E s \in Servers : Accept(s)

(* Servers that stopped accepting take it up again: whatever the counts were  *)
(* when each of them looked, a connection that waits does not wait forever    *)
(* for a server to accept one.                                                *)
AcceptResumes == <>[](backlog > 0) => []<><<SomeAccept>>_lbvars
=============================================================================
