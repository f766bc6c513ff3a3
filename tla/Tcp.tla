-------------------------------- MODULE Tcp ---------------------------------
(* The TCP server and its clients (tcpsrv.c). Clients are structures that the *)
(* server takes from its pool for accepted connections (PASV) or that the     *)
(* program initialises to connect (PORT). Handlers and the program's calls    *)
(* run in the thread of the client's loop, one at a time per loop; the server *)
(* accepts in loop 1 and, with a load balancer, hands clients to other loops. *)
(* The program does not close a client in its own on_read or on_write, and    *)
(* on_accept does not touch a client that another loop already runs. Data is  *)
(* counted in chunks; wbuf is what buf_used says.                             *)
EXTENDS Integers, FiniteSets
CONSTANTS Clients, PortClients, TcpLoops, MaxBuf

ASSUME TcpAssumption ==
    /\ IsFiniteSet(Clients) /\ PortClients \subseteq Clients
    /\ TcpLoops \in Nat \ {0} /\ MaxBuf \in Nat

VARIABLES client,     \* per client structure, see Closed
          conn_cnt,   \* of the server
          lb_ctx,     \* mloop, and the index the round robin keeps
          acc         \* tcp_cb_accept under way in loop 1: the client and what is next

tcpvars == <<client, conn_cnt, lb_ctx, acc>>

\* A structure that is in the pool, or that the program has not initialised.
\* rd, wr: read_ev, write_ev are active; queued: an async that starts read_ev is
\* on the loop's list; due: wbuf holds data that was sent or flushed, not only
\* delayed; net is the connection.
Closed == [open |-> FALSE, flag |-> {}, loop_on |-> 1, rd |-> FALSE, wr |-> FALSE,
           queued |-> FALSE, wbuf |-> 0, due |-> FALSE, net |-> "none"]

NoAccept == [next |-> "none", c |-> "none", own |-> FALSE]
\* A handler or a call for c can run; not for a client whose own loop is still
\* in tcp_cb_accept with it. What loop 1 does for other clients commutes with
\* the rest of tcp_cb_accept and may come in between.
Runs(c) == client[c].open /\ ~(acc.own /\ acc.c = c)
Set(c, r) == client' = [client EXCEPT ![c] = r]
Uncount(r) == conn_cnt' = IF "PASV" \in r.flag THEN conn_cnt - 1 ELSE conn_cnt

evt_start_write(r) == [r EXCEPT !.wr = TRUE]

\* It buffers one chunk.
tcp_send_delay(r, lowmask) ==
    LET used == r.wbuf + 1
        send == lowmask >= 0 /\ used > lowmask
    IN  [r EXCEPT !.wbuf = used, !.wr = @ \/ send, !.due = @ \/ send]

\* With an empty buffer write() takes all, takes a part or is told to wait, or
\* fails, which tcp_send only reports.
tcp_send(r) ==
    (IF r.wbuf = 0 THEN {r} ELSE {}) \cup {tcp_send_delay(r, 0)}

tcp_flush(r) == [evt_start_write(r) EXCEPT !.due = (r.wbuf > 0)]

\* What the program may do to a client in a callback or from its loop.
Uses(r) ==
    {r, tcp_flush(r)} \cup
        IF r.wbuf = MaxBuf THEN {}
        ELSE tcp_send(r) \cup {tcp_send_delay(r, m) : m \in {-1, 1}}

\* The count is left as it is.
NotUncounted(c) ==
    /\ Set(c, Closed)
    /\ UNCHANGED conn_cnt

\* tcp_cb_close, with the events stopped by it and by its callers.
tcp_cb_close(c) ==
    /\ Set(c, Closed)
    /\ Uncount(client[c])
-----------------------------------------------------------------------------
lb_rr_init == TcpLoops - 1

lb_rr_next_loop == (lb_ctx.rr + 1) % TcpLoops

\* tcp_cb_accept up to the start of the read event, by the loop itself or by an
\* async in the loop that will run the client.
AcceptClient(c) ==
    /\ acc = NoAccept /\ ~client[c].open
    /\ LET loop_on == IF lb_ctx.mloop THEN lb_rr_next_loop + 1 ELSE 1
       IN  /\ Set(c, [Closed EXCEPT !.open = TRUE, !.flag = {"PASV"}, !.loop_on = loop_on,
                                    !.rd = (loop_on = 1), !.queued = (loop_on # 1),
                                    !.net = "up"])
           /\ acc' = [next |-> "count", c |-> c, own |-> loop_on = 1]
           /\ lb_ctx' = IF lb_ctx.mloop THEN [lb_ctx EXCEPT !.rr = lb_rr_next_loop] ELSE lb_ctx
    /\ UNCHANGED conn_cnt

AcceptCount ==
    /\ acc.next = "count"
    /\ conn_cnt' = conn_cnt + 1
    /\ acc' = [acc EXCEPT !.next = "on_accept"]
    /\ UNCHANGED <<client, lb_ctx>>

\* on_accept may use a client of its own loop.
AcceptNotify ==
    /\ acc.next = "on_accept"
    /\ IF acc.own THEN \E u \in Uses(client[acc.c]) : Set(acc.c, u) ELSE UNCHANGED client
    /\ acc' = NoAccept
    /\ UNCHANGED <<conn_cnt, lb_ctx>>

evt_async_start_io(c) ==
    /\ client[c].queued
    /\ Set(c, [client[c] EXCEPT !.queued = FALSE, !.rd = TRUE])
    /\ UNCHANGED <<conn_cnt, lb_ctx, acc>>

tcp_client_init(c) ==
    /\ c \in PortClients /\ ~client[c].open
    /\ Set(c, [Closed EXCEPT !.open = TRUE, !.flag = {"PORT"}])
    /\ UNCHANGED <<conn_cnt, lb_ctx, acc>>

\* connect() succeeds or is in progress; if it fails nothing changes.
tcp_connect(c) ==
    /\ Runs(c) /\ "PORT" \in client[c].flag
    /\ client[c].flag \cap {"CONNING", "CONNED"} = {}
    /\ Set(c, [evt_start_write(client[c]) EXCEPT !.flag = @ \cup {"CONNING"}, !.net = "syn"])
    /\ UNCHANGED <<conn_cnt, lb_ctx, acc>>
-----------------------------------------------------------------------------
\* The write event is stopped although data waits in the buffer.
AlwaysStopsWrite(c, error) ==
    LET r == client[c]
        s == [r EXCEPT !.flag = (@ \ {"CONNING"}) \cup {IF error THEN "CONNFAIL" ELSE "CONNED"},
                       !.wr = FALSE,
                       !.rd = @ \/ ~error,
                       !.net = IF error THEN "none" ELSE "up"]
    IN  \E u \in Uses(s) : Set(c, u)

\* Of a connecting client, error being SO_ERROR; on_connect is the last call.
ConnDone(c, error) ==
    LET r == client[c]
        s == [r EXCEPT !.flag = (@ \ {"CONNING"}) \cup {IF error THEN "CONNFAIL" ELSE "CONNED"},
                       !.wr = @ /\ ~(error \/ r.wbuf = 0),
                       !.rd = @ \/ ~error,
                       !.net = IF error THEN "none" ELSE "up"]
    IN  \E u \in Uses(s) : Set(c, u)

tcp_cb_write_conn(c, error) ==
    /\ Runs(c) /\ client[c].wr /\ "CONNING" \in client[c].flag
    /\ ConnDone(c, error)
    /\ UNCHANGED <<conn_cnt, lb_ctx, acc>>

CanWrite(c) == Runs(c) /\ client[c].wr /\ "CONNING" \notin client[c].flag

\* The socket takes a part of the data.
tcp_cb_write_part(c) ==
    /\ CanWrite(c) /\ client[c].wbuf > 1 /\ client[c].net \in {"up", "fin"}
    /\ Set(c, [client[c] EXCEPT !.wbuf = @ - 1])
    /\ UNCHANGED <<conn_cnt, lb_ctx, acc>>

\* It takes all; on_write may send again.
tcp_cb_write_all(c) ==
    /\ CanWrite(c)
    /\ client[c].net \in {"up", "fin"} \/ client[c].wbuf = 0
    /\ \E u \in Uses([client[c] EXCEPT !.wbuf = 0, !.due = FALSE]) :
          IF u.wbuf > 0 THEN Set(c, u) /\ UNCHANGED conn_cnt
          ELSE IF "WAITCLS" \in u.flag THEN tcp_cb_close(c)
          ELSE Set(c, [u EXCEPT !.wr = FALSE]) /\ UNCHANGED conn_cnt
    /\ UNCHANGED <<lb_ctx, acc>>

tcp_cb_write_error(c) ==
    /\ CanWrite(c) /\ client[c].net \in {"none", "rst"}
    /\ tcp_cb_close(c)
    /\ UNCHANGED <<lb_ctx, acc>>

\* Data and on_read, no end of file.
tcp_cb_read_data(c) ==
    /\ Runs(c) /\ client[c].rd /\ client[c].net = "up"
    /\ \E u \in Uses(client[c]) : Set(c, u)
    /\ UNCHANGED <<conn_cnt, lb_ctx, acc>>

\* The delayed close is not noted.
NoDelayedClose(c) ==
    /\ Runs(c) /\ client[c].rd /\ client[c].net = "fin"
    /\ \E u \in Uses(client[c]) :
          IF u.wbuf = 0 THEN tcp_cb_close(c)
          ELSE /\ Set(c, [u EXCEPT !.rd = FALSE, !.wr = TRUE, !.due = TRUE])
               /\ UNCHANGED conn_cnt
    /\ UNCHANGED <<lb_ctx, acc>>

\* The end of file, alone or after data that on_read sees first.
tcp_cb_read_eof(c) ==
    /\ Runs(c) /\ client[c].rd /\ client[c].net = "fin"
    /\ \E u \in Uses(client[c]) :
          IF u.wbuf = 0 THEN tcp_cb_close(c)
          ELSE /\ Set(c, [u EXCEPT !.rd = FALSE, !.wr = TRUE, !.due = TRUE,
                                   !.flag = @ \cup {"WAITCLS"}])
               /\ UNCHANGED conn_cnt
    /\ UNCHANGED <<lb_ctx, acc>>

tcp_cb_read_error(c) ==
    /\ Runs(c) /\ client[c].rd /\ client[c].net = "rst"
    /\ tcp_cb_close(c)
    /\ UNCHANGED <<lb_ctx, acc>>

\* From a timer or a callback of another client, once the client is known there.
UseClient(c) ==
    /\ Runs(c) /\ ~client[c].queued
    /\ \E u \in Uses(client[c]) \ {client[c]} : Set(c, u)
    /\ UNCHANGED <<conn_cnt, lb_ctx, acc>>

tcp_close(c) ==
    /\ Runs(c) /\ ~client[c].queued
    /\ tcp_cb_close(c)
    /\ UNCHANGED <<lb_ctx, acc>>

PeerCloses(c, how) ==
    /\ client[c].net = "up" \/ (client[c].net = "fin" /\ how = "rst")
    /\ Set(c, [client[c] EXCEPT !.net = how])
    /\ UNCHANGED <<conn_cnt, lb_ctx, acc>>

\* tcp_server_start or tcp_server_start_lb.
TcpInit ==
    /\ client = [c \in Clients |-> Closed]
    /\ conn_cnt = 0
    /\ lb_ctx \in {[mloop |-> m, rr |-> lb_rr_init] : m \in BOOLEAN}
    /\ acc = NoAccept

ReadStep(c) ==
    evt_async_start_io(c) \/ tcp_cb_read_data(c) \/ tcp_cb_read_eof(c) \/ tcp_cb_read_error(c)

WriteStep(c) ==
    tcp_cb_write_part(c) \/ tcp_cb_write_all(c) \/ tcp_cb_write_error(c)
      \/ \E error \in BOOLEAN : tcp_cb_write_conn(c, error)
AcceptStep == AcceptCount \/ AcceptNotify

TcpNext ==
    \/ AcceptStep
    \/ \E c \in Clients :
          \/ AcceptClient(c) \/ ReadStep(c) \/ WriteStep(c)
          \/ tcp_connect(c) \/ UseClient(c) \/ tcp_close(c)
          \/ tcp_client_init(c)
          \/ \E how \in {"fin", "rst"} : PeerCloses(c, how)

\* Loops run on, and a socket takes data or fails in the end.
TcpFairness ==
    /\ WF_tcpvars(AcceptStep)
    /\ \A c \in Clients : WF_tcpvars(ReadStep(c)) /\ WF_tcpvars(WriteStep(c))

TcpSpec == TcpInit /\ [][TcpNext]_tcpvars /\ TcpFairness
-----------------------------------------------------------------------------
(* conn_cnt, by which servers balance their load, is the number of accepted   *)
(* connections that are open, whichever loop closes them and by whichever     *)
(* path, except for the one that is handed to its loop and not yet counted:   *)
(* no close is missed and none is done twice.                                 *)
CountsOpen ==
    conn_cnt + (IF acc.next = "count" THEN 1 ELSE 0)
        = Cardinality({c \in Clients : client[c].open /\ "PASV" \in client[c].flag})

(* No event of a closed client stays with a loop, and data the program sent   *)
(* or flushed, or that is left when the peer has closed, has an active write  *)
(* event: it does not stay in the buffer after a connect, a partial write or  *)
(* a send from on_write. A failed connect stops the event and keeps the data. *)
WatchersMatch ==
    \A c \in Clients :
        LET r == client[c]
        IN  /\ r.rd \/ r.wr \/ r.queued => r.open
            /\ r.due => r.wr \/ r.flag \cap {"CONNING", "CONNED", "CONNFAIL"} = {"CONNFAIL"}

Sends(c) ==
    client'[c].open /\ (client'[c].wbuf > client[c].wbuf
                          \/ (tcp_cb_write_all(c) /\ client'[c].wbuf > 0))

(* A peer that closes its side or resets the connection is followed by a      *)
(* close of the client, at once or when the data in the buffer is written,    *)
(* however reads, writes and the program's sends interleave; unless the       *)
(* program sends to it forever.                                               *)
EofCloses ==
    \A c \in Clients :
        <>[](client[c].open /\ client[c].net \in {"fin", "rst"}) => []<><<Sends(c)>>_tcpvars
=============================================================================
