---------------------------- MODULE ServerProofs ----------------------------
(* The pool of loops and the server whose clients run on them, for any number *)
(* of loops and clients.                                                      *)
EXTENDS EvtPool, Tcp, FiniteSetTheorems, TLAPS

-----------------------------------------------------------------------------
(* FreedAfterLoops for any number of loops. The property speaks of freed      *)
(* pools only; the invariant adds what evt_pool_run knows at each of its      *)
(* steps: which threads it has not started yet, which it has joined, and that *)
(* a call of evt_pool_quit keeps the loop it was made in from ending.         *)

Flags == {"INIT", "STARTED", "RUNNING", "QUITING", "STOP", "WAITDESTROY"}

EvpTypeOK ==
    /\ pstatus \subseteq Flags
    /\ freed \in BOOLEAN
    /\ runner \in [at : {"out", "start", "loop0", "join"}, i : 0..LoopsNum]
    /\ loop \in [LoopIds -> {"idle", "thread", "running", "exited"}]
    /\ quiting \in [LoopIds -> BOOLEAN]
    /\ call \in [by : LoopIds \cup {-1}, i : LoopIds]

\* Outside of evt_pool_run no thread uses the pool.
Parked ==
    runner.at = "out" => call = NoCall /\ \A l \in LoopIds : loop[l] \in {"idle", "exited"}

\* While threads are started nobody can quit the pool.
Starting == runner.at = "start" => call = NoCall /\ runner.i >= 1

\* Loop 0 and the threads before runner.i have ended.
Joining ==
    runner.at = "join" => /\ loop[0] = "exited" /\ runner.i >= 1
                          /\ \A l \in 1..runner.i - 1 : loop[l] = "exited"

\* A loop does not end in the middle of its own callback.
Calling == call # NoCall => call.by \in LoopIds /\ loop[call.by] = "running"

\* The flag tells a destroy whether evt_pool_run is under way.
Running == "RUNNING" \in pstatus <=> runner.at # "out"

FreedOutside == freed => runner.at = "out"

EvpInv ==
    EvpTypeOK /\ Parked /\ Starting /\ Joining /\ Calling /\ Running /\ FreedOutside
-----------------------------------------------------------------------------
(* The pool that evt_pool_init returns satisfies the invariant. *)
LEMMA EvpInitInv == EvpInit => EvpInv
  <1> SUFFICES ASSUME EvpInit PROVE EvpInv
    OBVIOUS
  <1> USE LoopsNumAssumption DEF EvpInit, NoCall, LoopIds
  <1>1. EvpTypeOK
    <2>1. /\ pstatus \subseteq Flags
          /\ runner \in [at : {"out", "start", "loop0", "join"}, i : 0..LoopsNum]
      BY DEF Flags
    <2>2. call \in [by : LoopIds \cup {-1}, i : LoopIds]
      OBVIOUS
    <2>3. /\ freed \in BOOLEAN /\ quiting \in [LoopIds -> BOOLEAN]
          /\ loop \in [LoopIds -> {"idle", "thread", "running", "exited"}]
      BY Zenon
    <2> QED
      BY <2>1, <2>2, <2>3 DEF EvpTypeOK
  <1>2. Parked /\ Starting /\ Joining /\ Calling /\ FreedOutside
    BY DEF Parked, Starting, Joining, Calling, FreedOutside
  <1>3. Running
    BY DEF Running
  <1> QED
    BY <1>1, <1>2, <1>3 DEF EvpInv

(* Every step of evt_pool_run, of a loop's thread and of the calls of         *)
(* evt_pool_quit and evt_pool_destroy keeps it.                               *)
LEMMA EvpNextInv == EvpInv /\ [EvpNext]_evpvars => EvpInv'
  <1> SUFFICES ASSUME EvpInv, [EvpNext]_evpvars PROVE EvpInv'
    OBVIOUS
  <1> USE LoopsNumAssumption
      DEF EvpInv, EvpTypeOK, Parked, Starting, Joining, Calling, Running, FreedOutside,
          NoCall, LoopIds, Flags
  <1>1. CASE PoolRun
    BY <1>1 DEF PoolRun, At, Go
  <1>2. CASE StartLoop
    BY <1>2 DEF StartLoop, At, Go
  <1>3. CASE RunLoop0
    BY <1>3 DEF RunLoop0, At, Go
  <1>4. CASE Loop0Ended
    BY <1>4 DEF Loop0Ended, At, Go
  <1>5. CASE Join
    BY <1>5 DEF Join, At, Go
  <1>6. CASE PoolQuited
    BY <1>6 DEF PoolQuited, At, Go
  <1>7. CASE QuitLoop
    BY <1>7 DEF QuitLoop
  <1>8. CASE DestroyStopped
    BY <1>8 DEF DestroyStopped, At
  <1>9. ASSUME NEW l \in LoopIds, LoopBegin(l) PROVE EvpInv'
    BY <1>9 DEF LoopBegin
  <1>10. ASSUME NEW l \in LoopIds, LoopEnd(l) PROVE EvpInv'
    BY <1>10 DEF LoopEnd
  <1>11. ASSUME NEW l \in LoopIds, evt_pool_quit(l) PROVE EvpInv'
    BY <1>11 DEF evt_pool_quit, QuitAfter, CanCall
  <1>12. ASSUME NEW l \in LoopIds, DestroyRunning(l) PROVE EvpInv'
    BY <1>12 DEF DestroyRunning, QuitAfter, CanCall
  <1>13. CASE UNCHANGED evpvars
    BY <1>13 DEF evpvars
  <1> QED
    BY <1>1, <1>2, <1>3, <1>4, <1>5, <1>6, <1>7, <1>8, <1>9, <1>10, <1>11, <1>12, <1>13
    DEF EvpNext, Thread0, LoopThread

(* The invariant holds in every state of the pool. *)
THEOREM EvpInvariant == EvpSpec => []EvpInv
  BY EvpInitInv, EvpNextInv, PTL DEF EvpSpec

(* evt_pool_destroy and the end of evt_pool_run free the pool and its loops   *)
(* only when every loop has ended and no evt_pool_quit is among them, for any *)
(* number of loops.                                                           *)
THEOREM FreedSafe == EvpSpec => []FreedAfterLoops
  <1>1. EvpInv => FreedAfterLoops
    BY DEF EvpInv, FreedOutside, Parked, FreedAfterLoops
  <1> QED
    BY <1>1, EvpInvariant, PTL

(* A freed pool is not touched again by what was under way: neither a loop's  *)
(* thread nor evt_pool_run nor a call in a callback has a step left that      *)
(* would read or write it (its owner does not call it any more).              *)
THEOREM NothingAfterFree == EvpSpec => [][~freed]_evpvars
  <1>1. EvpInv /\ [EvpNext]_evpvars => [~freed]_evpvars
    <2> SUFFICES ASSUME EvpInv, EvpNext, freed PROVE FALSE
      BY DEF evpvars
    <2> USE DEF EvpInv, FreedOutside, Parked
    <2>1. ~(PoolRun \/ Thread0 \/ DestroyStopped)
      BY DEF PoolRun, Thread0, StartLoop, RunLoop0, Loop0Ended, Join, PoolQuited,
             DestroyStopped, At
    <2>2. ~QuitLoop
      BY DEF QuitLoop
    <2>3. ASSUME NEW l \in LoopIds
          PROVE  ~(LoopThread(l) \/ evt_pool_quit(l) \/ DestroyRunning(l))
      BY DEF LoopThread, LoopBegin, LoopEnd, evt_pool_quit, DestroyRunning, QuitAfter, CanCall
    <2> QED
      BY <2>1, <2>2, <2>3 DEF EvpNext
  <1> QED
    BY <1>1, EvpInvariant, PTL DEF EvpSpec
-----------------------------------------------------------------------------
(* CountsOpen and WatchersMatch for any number of clients and loops.          *)
(*                                                                            *)
(* The count and the set of open accepted clients change in different steps   *)
(* of different loops: the invariant needs, beside CountsOpen, that the state *)
(* has its fields, that the count is a number and that an accept under way is *)
(* about a client.  The events need that due data is in the buffer and that   *)
(* the client which tcp_cb_accept still uses is open.                         *)

Fields == {"open", "flag", "loop_on", "rd", "wr", "queued", "wbuf", "due", "net"}

TcpShape ==
    /\ DOMAIN client = Clients
    /\ \A c \in Clients : DOMAIN client[c] = Fields
    /\ conn_cnt \in Int
    /\ DOMAIN acc = {"next", "c", "own"}
    /\ acc.next # "none" => acc.c \in Clients

\* The clients that the server's count is about.
IsCounted(r) == r.open /\ "PASV" \in r.flag
Counted == {c \in Clients : IsCounted(client[c])}

TcpInv == TcpShape /\ CountsOpen

\* Two records of a client the count does not tell apart.
SameKind(r, u) == DOMAIN u = Fields /\ u.open = r.open /\ u.flag = r.flag
-----------------------------------------------------------------------------
(* What CountsOpen says of the named set. *)
LEMMA CountsCounted ==
    CountsOpen <=> conn_cnt + (IF acc.next = "count" THEN 1 ELSE 0) = Cardinality(Counted)
  BY DEF CountsOpen, Counted, IsCounted

(* A structure that is not in use is of the shape and is not counted.         *)
LEMMA ClosedShape == DOMAIN Closed = Fields /\ ~IsCounted(Closed)
  BY DEF Closed, Fields, IsCounted

(* What a program does to a client, sending, flushing or nothing, leaves it   *)
(* open and of its kind.                                                      *)
LEMMA UsesKeep ==
    ASSUME NEW r, DOMAIN r = Fields, NEW u \in Uses(r)
    PROVE  SameKind(r, u)
  <1>1. CASE u = r
    BY <1>1 DEF SameKind
  <1>2. CASE u = tcp_flush(r)
    BY <1>2 DEF SameKind, tcp_flush, evt_start_write, Fields
  <1>3. ASSUME NEW m \in {-1, 0, 1}, u = tcp_send_delay(r, m)
        PROVE  SameKind(r, u)
    BY <1>3 DEF SameKind, tcp_send_delay, Fields
  <1>4. u = r \/ u = tcp_flush(r) \/ \E m \in {-1, 0, 1} : u = tcp_send_delay(r, m)
    BY DEF Uses, tcp_send
  <1> QED
    BY <1>1, <1>2, <1>3, <1>4

(* A step that replaces a client by one of its kind and leaves the count and  *)
(* the accept under way alone.                                                *)
LEMMA KindStep ==
    ASSUME TcpInv, NEW c \in Clients, NEW r, Set(c, r), DOMAIN r = Fields,
           IsCounted(r) <=> IsCounted(client[c]),
           conn_cnt' = conn_cnt, acc' = acc
    PROVE  TcpInv'
  <1>1. TcpShape'
    BY DEF TcpInv, TcpShape, Set
  <1>2. Counted' = Counted
    BY DEF TcpInv, TcpShape, Set, Counted
  <1> QED
    BY <1>1, <1>2, CountsCounted DEF TcpInv, CountsOpen, Counted, IsCounted

(* Closing an open client, with or without the count.                         *)
LEMMA CloseStep ==
    ASSUME TcpInv, NEW c \in Clients, client[c].open, tcp_cb_close(c), acc' = acc
    PROVE  TcpInv'
  <1> USE TcpAssumption, ClosedShape
  <1>1. CASE "PASV" \in client[c].flag
    <2>1. TcpShape'
      BY <1>1 DEF TcpInv, TcpShape, Set, tcp_cb_close, Uncount
    <2>2. Counted' = Counted \ {c} /\ c \in Counted
      BY <1>1 DEF TcpInv, TcpShape, Set, tcp_cb_close, Counted, IsCounted
    <2>3. IsFiniteSet(Counted)
      BY FS_Subset DEF Counted
    <2>4. Cardinality(Counted') = Cardinality(Counted) - 1 /\ Cardinality(Counted) \in Nat
      BY <2>2, <2>3, FS_RemoveElement, FS_CardinalityType
    <2>5. conn_cnt' = conn_cnt - 1
      BY <1>1 DEF tcp_cb_close, Uncount
    <2> QED
      BY <2>1, <2>4, <2>5, CountsCounted DEF TcpInv, TcpShape, CountsOpen, Counted, IsCounted
  <1>2. CASE "PASV" \notin client[c].flag
    <2>1. conn_cnt' = conn_cnt
      BY <1>2 DEF tcp_cb_close, Uncount
    <2>2. ~IsCounted(client[c])
      BY <1>2 DEF IsCounted
    <2> QED
      BY <2>1, <2>2, KindStep DEF tcp_cb_close
  <1> QED
    BY <1>1, <1>2

(* The program's use of a client that was changed to s, of the same kind for  *)
(* the count.                                                                 *)
LEMMA UseStep ==
    ASSUME TcpInv, NEW c \in Clients, NEW s, DOMAIN s = Fields,
           IsCounted(s) <=> IsCounted(client[c]),
           NEW u \in Uses(s), Set(c, u), conn_cnt' = conn_cnt, acc' = acc
    PROVE  TcpInv'
  <1>1. SameKind(s, u)
    BY UsesKeep
  <1>2. DOMAIN u = Fields /\ (IsCounted(u) <=> IsCounted(client[c]))
    BY <1>1 DEF SameKind, IsCounted
  <1> QED
    BY <1>2, KindStep
-----------------------------------------------------------------------------
(* Accepting adds a client, and the count follows in a later step; in between *)
(* the client is the one that CountsOpen allows for.                          *)
LEMMA AcceptInv ==
    ASSUME TcpInv, NEW c \in Clients, AcceptClient(c)
    PROVE  TcpInv'
  <1> USE TcpAssumption
  <1>1. PICK r : /\ Set(c, r)
                 /\ DOMAIN r = Fields /\ r.open /\ r.flag = {"PASV"}
    <2> DEFINE on == IF lb_ctx.mloop THEN lb_rr_next_loop + 1 ELSE 1
               a == [Closed EXCEPT !.open = TRUE, !.flag = {"PASV"}, !.loop_on = on,
                                   !.rd = (on = 1), !.queued = (on # 1), !.net = "up"]
    <2>1. Set(c, a)
      BY DEF AcceptClient
    <2>2. DOMAIN a = Fields /\ a.open /\ a.flag = {"PASV"}
      BY DEF Closed, Fields
    <2> QED
      BY <2>1, <2>2
  <1>2. /\ acc.next = "none" /\ acc'.next = "count" /\ acc'.c = c
        /\ DOMAIN acc' = {"next", "c", "own"} /\ conn_cnt' = conn_cnt /\ ~client[c].open
    BY DEF AcceptClient, NoAccept
  <1>3. TcpShape'
    BY <1>1, <1>2 DEF TcpInv, TcpShape, Set
  <1>4. Counted' = Counted \cup {c} /\ c \notin Counted
    BY <1>1, <1>2 DEF TcpInv, TcpShape, Set, Counted, IsCounted
  <1>5. IsFiniteSet(Counted)
    BY FS_Subset DEF Counted
  <1>6. Cardinality(Counted') = Cardinality(Counted) + 1 /\ Cardinality(Counted) \in Nat
    BY <1>4, <1>5, FS_AddElement, FS_CardinalityType
  <1>7. CountsOpen'
    BY <1>2, <1>6, CountsCounted DEF TcpInv, TcpShape, CountsOpen, Counted, IsCounted
  <1> QED
    BY <1>3, <1>7 DEF TcpInv

(* The rest of tcp_cb_accept.                                                 *)
LEMMA AcceptStepInv ==
    ASSUME TcpInv, AcceptStep
    PROVE  TcpInv'
  <1>1. CASE AcceptCount
    <2>1. TcpShape'
      BY <1>1 DEF AcceptCount, TcpInv, TcpShape
    <2>2. CountsOpen'
      BY <1>1 DEF AcceptCount, TcpInv, TcpShape, CountsOpen
    <2> QED
      BY <2>1, <2>2 DEF TcpInv
  <1>2. CASE AcceptNotify
    <2>1. /\ acc.c \in Clients /\ acc.next = "on_accept" /\ conn_cnt' = conn_cnt
          /\ acc'.next = "none" /\ DOMAIN acc' = {"next", "c", "own"}
      BY <1>2 DEF AcceptNotify, NoAccept, TcpInv, TcpShape
    <2>2. \/ client' = client
          \/ \E u : Set(acc.c, u) /\ SameKind(client[acc.c], u)
      BY <1>2, <2>1, UsesKeep DEF AcceptNotify, TcpInv, TcpShape
    <2>3. DOMAIN client' = Clients /\ \A c \in Clients : SameKind(client[c], client'[c])
      BY <2>1, <2>2 DEF Set, TcpInv, TcpShape, SameKind
    <2>4. Counted' = Counted
      BY <2>3 DEF Counted, IsCounted, SameKind
    <2>5. TcpShape'
      BY <2>1, <2>3 DEF TcpInv, TcpShape, SameKind
    <2> QED
      BY <2>1, <2>4, <2>5, CountsCounted DEF TcpInv, CountsOpen, Counted, IsCounted
  <1> QED
    BY <1>1, <1>2 DEF AcceptStep

(* The read handler and the async that starts the read event.                 *)
LEMMA ReadInv ==
    ASSUME TcpInv, NEW c \in Clients, ReadStep(c)
    PROVE  TcpInv'
  <1> DEFINE r == client[c]
  <1>0. DOMAIN r = Fields
    BY DEF TcpInv, TcpShape
  <1>1. CASE evt_async_start_io(c)
    <2> DEFINE s == [r EXCEPT !.queued = FALSE, !.rd = TRUE]
    <2>1. DOMAIN s = Fields /\ (IsCounted(s) <=> IsCounted(r))
      BY <1>0 DEF Fields, IsCounted
    <2>2. Set(c, s) /\ conn_cnt' = conn_cnt /\ acc' = acc
      BY <1>1 DEF evt_async_start_io
    <2> QED
      BY <2>1, <2>2, KindStep
  <1>2. CASE tcp_cb_read_data(c)
    BY <1>0, <1>2, UseStep DEF tcp_cb_read_data
  <1>3. CASE tcp_cb_read_eof(c)
    <2>1. acc' = acc /\ r.open
      BY <1>3 DEF tcp_cb_read_eof, Runs
    <2>2. PICK u \in Uses(r) :
            IF u.wbuf = 0 THEN tcp_cb_close(c)
            ELSE /\ Set(c, [u EXCEPT !.rd = FALSE, !.wr = TRUE, !.due = TRUE,
                                     !.flag = @ \cup {"WAITCLS"}])
                 /\ UNCHANGED conn_cnt
      BY <1>3 DEF tcp_cb_read_eof
    <2>3. CASE u.wbuf = 0
      BY <2>1, <2>2, <2>3, CloseStep
    <2>4. CASE u.wbuf # 0
      <3> DEFINE s == [u EXCEPT !.rd = FALSE, !.wr = TRUE, !.due = TRUE,
                                !.flag = @ \cup {"WAITCLS"}]
      <3>1. SameKind(r, u)
        BY <1>0, UsesKeep
      <3>2. DOMAIN s = Fields /\ (IsCounted(s) <=> IsCounted(r))
        BY <3>1 DEF SameKind, Fields, IsCounted
      <3>3. Set(c, s) /\ conn_cnt' = conn_cnt
        BY <2>2, <2>4
      <3> QED
        BY <2>1, <3>2, <3>3, KindStep
    <2> QED
      BY <2>3, <2>4
  <1>4. CASE tcp_cb_read_error(c)
    BY <1>4, CloseStep DEF tcp_cb_read_error, Runs
  <1> QED
    BY <1>1, <1>2, <1>3, <1>4 DEF ReadStep

(* The write handler, of a connecting and of a connected client.              *)
LEMMA WriteInv ==
    ASSUME TcpInv, NEW c \in Clients, WriteStep(c)
    PROVE  TcpInv'
  <1> DEFINE r == client[c]
  <1>0. DOMAIN r = Fields
    BY DEF TcpInv, TcpShape
  <1>1. CASE tcp_cb_write_part(c)
    <2> DEFINE s == [r EXCEPT !.wbuf = @ - 1]
    <2>1. DOMAIN s = Fields /\ (IsCounted(s) <=> IsCounted(r))
      BY <1>0 DEF Fields, IsCounted
    <2>2. Set(c, s) /\ conn_cnt' = conn_cnt /\ acc' = acc
      BY <1>1 DEF tcp_cb_write_part
    <2> QED
      BY <2>1, <2>2, KindStep
  <1>2. CASE tcp_cb_write_all(c)
    <2> DEFINE s == [r EXCEPT !.wbuf = 0, !.due = FALSE]
    <2>1. acc' = acc /\ r.open
      BY <1>2 DEF tcp_cb_write_all, CanWrite, Runs
    <2>2. PICK u \in Uses(s) :
            IF u.wbuf > 0 THEN Set(c, u) /\ UNCHANGED conn_cnt
            ELSE IF "WAITCLS" \in u.flag THEN tcp_cb_close(c)
            ELSE Set(c, [u EXCEPT !.wr = FALSE]) /\ UNCHANGED conn_cnt
      BY <1>2 DEF tcp_cb_write_all
    <2>3. DOMAIN s = Fields /\ (IsCounted(s) <=> IsCounted(r))
      BY <1>0 DEF Fields, IsCounted
    <2>4. SameKind(s, u)
      BY <2>3, UsesKeep
    <2>5. CASE u.wbuf > 0
      BY <2>1, <2>2, <2>3, <2>5, UseStep
    <2>6. CASE ~(u.wbuf > 0) /\ "WAITCLS" \in u.flag
      BY <2>1, <2>2, <2>6, CloseStep
    <2>7. CASE ~(u.wbuf > 0) /\ "WAITCLS" \notin u.flag
      <3> DEFINE t == [u EXCEPT !.wr = FALSE]
      <3>1. DOMAIN t = Fields /\ (IsCounted(t) <=> IsCounted(r))
        BY <2>3, <2>4 DEF SameKind, Fields, IsCounted
      <3>2. Set(c, t) /\ conn_cnt' = conn_cnt
        BY <2>2, <2>7
      <3> QED
        BY <2>1, <3>1, <3>2, KindStep
    <2> QED
      BY <2>5, <2>6, <2>7
  <1>3. CASE tcp_cb_write_error(c)
    BY <1>3, CloseStep DEF tcp_cb_write_error, CanWrite, Runs
  <1>4. ASSUME NEW error \in BOOLEAN, tcp_cb_write_conn(c, error)
        PROVE  TcpInv'
    <2> DEFINE s == [r EXCEPT !.flag = (@ \ {"CONNING"})
                                          \cup {IF error THEN "CONNFAIL" ELSE "CONNED"},
                              !.wr = @ /\ ~(error \/ r.wbuf = 0),
                              !.rd = @ \/ ~error,
                              !.net = IF error THEN "none" ELSE "up"]
    <2>1. PICK u \in Uses(s) : Set(c, u)
      BY <1>4 DEF tcp_cb_write_conn, ConnDone
    <2>2. DOMAIN s = Fields /\ s.open = r.open
      BY <1>0 DEF Fields
    <2>3. s.flag = (r.flag \ {"CONNING"}) \cup {IF error THEN "CONNFAIL" ELSE "CONNED"}
      BY <1>0 DEF Fields
    <2>4. IsCounted(s) <=> IsCounted(r)
      BY <2>2, <2>3 DEF IsCounted
    <2>5. conn_cnt' = conn_cnt /\ acc' = acc
      BY <1>4 DEF tcp_cb_write_conn
    <2> HIDE DEF s
    <2> QED
      BY <2>1, <2>2, <2>4, <2>5, UseStep
  <1> QED
    BY <1>1, <1>2, <1>3, <1>4 DEF WriteStep

(* The calls of the program and the peer.                                     *)
LEMMA CallInv ==
    ASSUME TcpInv, NEW c \in Clients,
           \/ tcp_connect(c) \/ UseClient(c) \/ tcp_close(c) \/ tcp_client_init(c)
           \/ \E how \in {"fin", "rst"} : PeerCloses(c, how)
    PROVE  TcpInv'
  <1> DEFINE r == client[c]
  <1>0. DOMAIN r = Fields
    BY DEF TcpInv, TcpShape
  <1>1. CASE tcp_connect(c)
    <2> DEFINE s == [evt_start_write(r) EXCEPT !.flag = @ \cup {"CONNING"}, !.net = "syn"]
    <2>1. DOMAIN s = Fields /\ (IsCounted(s) <=> IsCounted(r))
      BY <1>0 DEF Fields, IsCounted, evt_start_write
    <2>2. Set(c, s) /\ conn_cnt' = conn_cnt /\ acc' = acc
      BY <1>1 DEF tcp_connect
    <2> QED
      BY <2>1, <2>2, KindStep
  <1>2. CASE UseClient(c)
    BY <1>0, <1>2, UseStep DEF UseClient
  <1>3. CASE tcp_close(c)
    BY <1>3, CloseStep DEF tcp_close, Runs
  <1>4. CASE tcp_client_init(c)
    <2> DEFINE s == [Closed EXCEPT !.open = TRUE, !.flag = {"PORT"}]
    <2>1. DOMAIN s = Fields /\ ~IsCounted(s)
      BY DEF Closed, Fields, IsCounted
    <2>2. Set(c, s) /\ conn_cnt' = conn_cnt /\ acc' = acc /\ ~IsCounted(r)
      BY <1>4 DEF tcp_client_init, IsCounted
    <2> QED
      BY <2>1, <2>2, KindStep
  <1>5. ASSUME NEW how \in {"fin", "rst"}, PeerCloses(c, how)
        PROVE  TcpInv'
    <2> DEFINE s == [r EXCEPT !.net = how]
    <2>1. DOMAIN s = Fields /\ (IsCounted(s) <=> IsCounted(r))
      BY <1>0 DEF Fields, IsCounted
    <2>2. Set(c, s) /\ conn_cnt' = conn_cnt /\ acc' = acc
      BY <1>5 DEF PeerCloses
    <2> QED
      BY <2>1, <2>2, KindStep
  <1> QED
    BY <1>1, <1>2, <1>3, <1>4, <1>5
-----------------------------------------------------------------------------
(* The state keeps its shape and the count is exact.                          *)
LEMMA TcpInvariant == TcpSpec => []TcpInv
  <1>1. TcpInit => TcpInv
    <2> SUFFICES ASSUME TcpInit PROVE TcpInv
      OBVIOUS
    <2>1. TcpShape
      BY ClosedShape DEF TcpInit, TcpShape, NoAccept
    <2>2. Counted = {}
      BY ClosedShape DEF TcpInit, Counted
    <2>3. CountsOpen
      BY <2>2, FS_EmptySet, CountsCounted DEF TcpInit, NoAccept
    <2> QED
      BY <2>1, <2>3 DEF TcpInv
  <1>2. TcpInv /\ [TcpNext]_tcpvars => TcpInv'
    <2> SUFFICES ASSUME TcpInv, [TcpNext]_tcpvars PROVE TcpInv'
      OBVIOUS
    <2>1. CASE UNCHANGED tcpvars
      BY <2>1 DEF tcpvars, TcpInv, TcpShape, CountsOpen
    <2>2. CASE TcpNext
      BY <2>2, AcceptStepInv, AcceptInv, ReadInv, WriteInv, CallInv DEF TcpNext
    <2> QED
      BY <2>1, <2>2
  <1> QED
    BY <1>1, <1>2, PTL DEF TcpSpec

(* The server's count is exact (up to the client that is being handed over)   *)
(* for any number of clients, loops and interleavings of tcp_cb_accept with   *)
(* the handlers and calls of the loops that run the clients.                  *)
THEOREM CountExact == TcpSpec => []CountsOpen
  <1>1. TcpInv => CountsOpen
    BY DEF TcpInv
  <1> QED
    BY <1>1, TcpInvariant, PTL
-----------------------------------------------------------------------------
(* The events of the clients *)

\* The events of a client are active only while it is open, and data that has
\* to be written has its event, or a connect that failed.
Watched(r) ==
    /\ r.rd \/ r.wr \/ r.queued => r.open
    /\ r.due => r.wr \/ r.flag \cap {"CONNING", "CONNED", "CONNFAIL"} = {"CONNFAIL"}

\* What that rests on: due data is in the buffer, by which tcp_cb_write decides
\* whether to stop the event, and a connected client does not connect.
Sound(r) ==
    /\ Watched(r)
    /\ r.wbuf \in Nat /\ (r.due => r.wbuf > 0)
    /\ ~("CONNING" \in r.flag /\ "CONNED" \in r.flag)

\* The client that tcp_cb_accept still uses is open: nobody else runs it.
OwnOpen == acc.own => acc.c \in Clients /\ client[acc.c].open

WatchInv == OwnOpen /\ \A c \in Clients : Sound(client[c])

(* What a program does to an open client keeps the event of its data.         *)
LEMMA UsesSound ==
    ASSUME NEW r, DOMAIN r = Fields, Sound(r), r.open, NEW u \in Uses(r)
    PROVE  Sound(u) /\ u.open
  <1>1. CASE u = r
    BY <1>1
  <1>2. CASE u = tcp_flush(r)
    <2>1. /\ u.open = r.open /\ u.flag = r.flag /\ u.rd = r.rd /\ u.queued = r.queued
          /\ u.wbuf = r.wbuf /\ u.wr /\ (u.due <=> r.wbuf > 0)
      BY <1>2 DEF tcp_flush, evt_start_write, Fields
    <2> QED
      BY <2>1 DEF Sound, Watched
  <1>3. ASSUME NEW m \in {-1, 0, 1}, u = tcp_send_delay(r, m)
        PROVE  Sound(u) /\ u.open
    <2> DEFINE send == m >= 0 /\ r.wbuf + 1 > m
    <2>1. /\ u.open = r.open /\ u.flag = r.flag /\ u.rd = r.rd /\ u.queued = r.queued
          /\ u.wbuf = r.wbuf + 1 /\ (u.wr <=> r.wr \/ send) /\ (u.due <=> r.due \/ send)
      BY <1>3 DEF tcp_send_delay, Fields
    <2> QED
      BY <2>1 DEF Sound, Watched
  <1>4. u = r \/ u = tcp_flush(r) \/ \E m \in {-1, 0, 1} : u = tcp_send_delay(r, m)
    BY DEF Uses, tcp_send
  <1> QED
    BY <1>1, <1>2, <1>3, <1>4

(* A structure that is not in use has no events.                              *)
LEMMA ClosedSound == Sound(Closed)
  BY DEF Closed, Sound, Watched

(* A step that replaces one client by a sound one, and does not close the one *)
(* that tcp_cb_accept uses.                                                   *)
LEMMA SoundStep ==
    ASSUME TcpShape, WatchInv, NEW c \in Clients, NEW r, Set(c, r), Sound(r),
           acc' = acc, acc.own /\ acc.c = c => r.open
    PROVE  WatchInv'
  BY DEF TcpShape, WatchInv, OwnOpen, Set

(* Closing a client that runs.                                                *)
LEMMA CloseSound ==
    ASSUME TcpShape, WatchInv, NEW c \in Clients, Runs(c), tcp_cb_close(c), acc' = acc
    PROVE  WatchInv'
  BY SoundStep, ClosedSound DEF tcp_cb_close, Runs

(* The program's use of an open client that was changed to s.                 *)
LEMMA UseSound ==
    ASSUME TcpShape, WatchInv, NEW c \in Clients, NEW s, DOMAIN s = Fields, Sound(s), s.open,
           NEW u \in Uses(s), Set(c, u), acc' = acc
    PROVE  WatchInv'
  BY SoundStep, UsesSound
-----------------------------------------------------------------------------
(* tcp_cb_accept starts the read event of the client, or queues the start.    *)
LEMMA AcceptSound ==
    ASSUME TcpShape, WatchInv,
           AcceptStep \/ \E c \in Clients : AcceptClient(c)
    PROVE  WatchInv'
  <1>1. ASSUME NEW c \in Clients, AcceptClient(c)
        PROVE  WatchInv'
    <2> DEFINE on == IF lb_ctx.mloop THEN lb_rr_next_loop + 1 ELSE 1
               a == [Closed EXCEPT !.open = TRUE, !.flag = {"PASV"}, !.loop_on = on,
                                   !.rd = (on = 1), !.queued = (on # 1), !.net = "up"]
    <2>1. Set(c, a) /\ acc'.c = c
      BY <1>1 DEF AcceptClient
    <2>2. Sound(a) /\ a.open
      BY DEF Closed, Sound, Watched
    <2> HIDE DEF a
    <2> QED
      BY <2>1, <2>2 DEF TcpShape, WatchInv, OwnOpen, Set
  <1>2. CASE AcceptCount
    <2>1. client' = client /\ acc'.own = acc.own /\ acc'.c = acc.c
      BY <1>2 DEF AcceptCount, TcpShape
    <2> QED
      BY <2>1 DEF WatchInv, OwnOpen
  <1>3. CASE AcceptNotify
    <2>1. ~acc'.own
      BY <1>3 DEF AcceptNotify, NoAccept
    <2>2. CASE acc.own
      <3>1. acc.c \in Clients /\ client[acc.c].open
        BY <2>2 DEF WatchInv, OwnOpen
      <3>2. PICK u \in Uses(client[acc.c]) : Set(acc.c, u)
        BY <1>3, <2>2 DEF AcceptNotify
      <3>3. Sound(u)
        BY <3>1, <3>2, UsesSound DEF TcpShape, WatchInv
      <3> QED
        BY <2>1, <3>1, <3>2, <3>3 DEF TcpShape, WatchInv, OwnOpen, Set
    <2>3. CASE ~acc.own
      <3>1. client' = client
        BY <1>3, <2>3 DEF AcceptNotify
      <3> QED
        BY <2>1, <3>1 DEF WatchInv, OwnOpen
    <2> QED
      BY <2>2, <2>3
  <1> QED
    BY <1>1, <1>2, <1>3 DEF AcceptStep

(* The read handler stops reading at the end of file, and starts to write     *)
(* what is left; the async starts reading of a client that is still open.     *)
LEMMA ReadSound ==
    ASSUME TcpShape, WatchInv, NEW c \in Clients, ReadStep(c)
    PROVE  WatchInv'
  <1> DEFINE r == client[c]
  <1>0. DOMAIN r = Fields /\ Sound(r)
    BY DEF TcpShape, WatchInv
  <1>1. CASE evt_async_start_io(c)
    <2> DEFINE s == [r EXCEPT !.queued = FALSE, !.rd = TRUE]
    <2>1. /\ s.open = r.open /\ s.flag = r.flag /\ s.wr = r.wr /\ s.due = r.due
          /\ s.wbuf = r.wbuf
      BY <1>0 DEF Fields
    <2>2. Set(c, s) /\ r.queued /\ acc' = acc
      BY <1>1 DEF evt_async_start_io
    <2> HIDE DEF s
    <2>3. Sound(s) /\ s.open
      BY <1>0, <2>1, <2>2 DEF Sound, Watched
    <2> QED
      BY <2>2, <2>3, SoundStep
  <1>2. CASE tcp_cb_read_data(c)
    BY <1>0, <1>2, UseSound DEF tcp_cb_read_data, Runs
  <1>3. CASE tcp_cb_read_eof(c)
    <2>1. acc' = acc /\ Runs(c) /\ r.open
      BY <1>3 DEF tcp_cb_read_eof, Runs
    <2>2. PICK u \in Uses(r) :
            IF u.wbuf = 0 THEN tcp_cb_close(c)
            ELSE /\ Set(c, [u EXCEPT !.rd = FALSE, !.wr = TRUE, !.due = TRUE,
                                     !.flag = @ \cup {"WAITCLS"}])
                 /\ UNCHANGED conn_cnt
      BY <1>3 DEF tcp_cb_read_eof
    <2>3. CASE u.wbuf = 0
      BY <2>1, <2>2, <2>3, CloseSound
    <2>4. CASE u.wbuf # 0
      <3> DEFINE s == [u EXCEPT !.rd = FALSE, !.wr = TRUE, !.due = TRUE,
                                !.flag = @ \cup {"WAITCLS"}]
      <3>1. DOMAIN u = Fields /\ Sound(u) /\ u.open
        BY <1>0, <2>1, UsesKeep, UsesSound DEF SameKind
      <3>2. /\ s.open = u.open /\ s.flag = u.flag \cup {"WAITCLS"} /\ s.wr
            /\ s.due /\ s.wbuf = u.wbuf
        BY <3>1 DEF Fields
      <3>3. Set(c, s)
        BY <2>2, <2>4
      <3> HIDE DEF s
      <3>4. Sound(s) /\ s.open
        BY <2>4, <3>1, <3>2 DEF Sound, Watched
      <3> QED
        BY <2>1, <3>3, <3>4, SoundStep
    <2> QED
      BY <2>3, <2>4
  <1>4. CASE tcp_cb_read_error(c)
    BY <1>4, CloseSound DEF tcp_cb_read_error
  <1> QED
    BY <1>1, <1>2, <1>3, <1>4 DEF ReadStep

(* The write handler stops the event when the buffer is empty or the connect  *)
(* has failed.                                                                *)
LEMMA WriteSound ==
    ASSUME TcpShape, WatchInv, NEW c \in Clients, WriteStep(c)
    PROVE  WatchInv'
  <1> DEFINE r == client[c]
  <1>0. DOMAIN r = Fields /\ Sound(r)
    BY DEF TcpShape, WatchInv
  <1>1. CASE tcp_cb_write_part(c)
    <2> DEFINE s == [r EXCEPT !.wbuf = @ - 1]
    <2>1. /\ s.open = r.open /\ s.flag = r.flag /\ s.wr = r.wr /\ s.due = r.due
          /\ s.rd = r.rd /\ s.queued = r.queued /\ s.wbuf = r.wbuf - 1
      BY <1>0 DEF Fields
    <2>2. Set(c, s) /\ r.wbuf > 1 /\ r.open /\ acc' = acc
      BY <1>1 DEF tcp_cb_write_part, CanWrite, Runs
    <2> HIDE DEF s
    <2>3. Sound(s) /\ s.open
      BY <1>0, <2>1, <2>2 DEF Sound, Watched
    <2> QED
      BY <2>2, <2>3, SoundStep
  <1>2. CASE tcp_cb_write_all(c)
    <2> DEFINE s == [r EXCEPT !.wbuf = 0, !.due = FALSE]
    <2>1. acc' = acc /\ Runs(c) /\ r.open
      BY <1>2 DEF tcp_cb_write_all, CanWrite, Runs
    <2>2. PICK u \in Uses(s) :
            IF u.wbuf > 0 THEN Set(c, u) /\ UNCHANGED conn_cnt
            ELSE IF "WAITCLS" \in u.flag THEN tcp_cb_close(c)
            ELSE Set(c, [u EXCEPT !.wr = FALSE]) /\ UNCHANGED conn_cnt
      BY <1>2 DEF tcp_cb_write_all
    <2>3. /\ DOMAIN s = Fields /\ s.open = r.open /\ s.flag = r.flag /\ s.wr = r.wr
          /\ s.rd = r.rd /\ s.queued = r.queued /\ s.wbuf = 0 /\ ~s.due
      BY <1>0 DEF Fields
    <2> HIDE DEF s
    <2>4. Sound(s) /\ s.open
      BY <1>0, <2>1, <2>3 DEF Sound, Watched
    <2>5. DOMAIN u = Fields /\ Sound(u) /\ u.open
      BY <2>3, <2>4, UsesKeep, UsesSound DEF SameKind
    <2>6. CASE u.wbuf > 0
      BY <2>1, <2>2, <2>5, <2>6, SoundStep
    <2>7. CASE ~(u.wbuf > 0) /\ "WAITCLS" \in u.flag
      BY <2>1, <2>2, <2>7, CloseSound
    <2>8. CASE ~(u.wbuf > 0) /\ "WAITCLS" \notin u.flag
      <3> DEFINE t == [u EXCEPT !.wr = FALSE]
      <3>1. /\ t.open = u.open /\ t.flag = u.flag /\ ~t.wr /\ t.due = u.due
            /\ t.rd = u.rd /\ t.queued = u.queued /\ t.wbuf = u.wbuf
        BY <2>5 DEF Fields
      <3>2. Set(c, t)
        BY <2>2, <2>8
      <3> HIDE DEF t
      <3>3. Sound(t) /\ t.open
        BY <2>5, <2>8, <3>1 DEF Sound, Watched
      <3> QED
        BY <2>1, <3>2, <3>3, SoundStep
    <2> QED
      BY <2>6, <2>7, <2>8
  <1>3. CASE tcp_cb_write_error(c)
    BY <1>3, CloseSound DEF tcp_cb_write_error, CanWrite
  <1>4. ASSUME NEW error \in BOOLEAN, tcp_cb_write_conn(c, error)
        PROVE  WatchInv'
    <2> DEFINE s == [r EXCEPT !.flag = (@ \ {"CONNING"})
                                          \cup {IF error THEN "CONNFAIL" ELSE "CONNED"},
                              !.wr = @ /\ ~(error \/ r.wbuf = 0),
                              !.rd = @ \/ ~error,
                              !.net = IF error THEN "none" ELSE "up"]
    <2>1. PICK u \in Uses(s) : Set(c, u)
      BY <1>4 DEF tcp_cb_write_conn, ConnDone
    <2>2. /\ DOMAIN s = Fields /\ s.open = r.open /\ s.due = r.due /\ s.wbuf = r.wbuf
          /\ (s.wr <=> r.wr /\ ~(error \/ r.wbuf = 0))
      BY <1>0 DEF Fields
    <2>3. s.flag = (r.flag \ {"CONNING"}) \cup {IF error THEN "CONNFAIL" ELSE "CONNED"}
      BY <1>0 DEF Fields
    <2>4. acc' = acc /\ r.open /\ r.wr /\ "CONNING" \in r.flag
      BY <1>4 DEF tcp_cb_write_conn, Runs
    <2> HIDE DEF s
    <2>5. "CONNED" \notin r.flag
      BY <1>0, <2>4 DEF Sound
    <2>6. error => s.flag \cap {"CONNING", "CONNED", "CONNFAIL"} = {"CONNFAIL"}
      BY <2>3, <2>5
    <2>7. ~("CONNING" \in s.flag)
      BY <2>3
    <2>8. s.due /\ ~error => s.wr
      BY <1>0, <2>2, <2>4 DEF Sound
    <2>9. s.wbuf \in Nat /\ (s.due => s.wbuf > 0)
      BY <1>0, <2>2 DEF Sound
    <2>10. Sound(s) /\ s.open
      BY <1>0, <2>2, <2>4, <2>6, <2>7, <2>8, <2>9 DEF Sound, Watched
    <2> QED
      BY <2>1, <2>2, <2>4, <2>10, UseSound
  <1> QED
    BY <1>1, <1>2, <1>3, <1>4 DEF WriteStep

(* The calls of the program and the peer.                                     *)
LEMMA CallSound ==
    ASSUME TcpShape, WatchInv, NEW c \in Clients,
           \/ tcp_connect(c) \/ UseClient(c) \/ tcp_close(c) \/ tcp_client_init(c)
           \/ \E how \in {"fin", "rst"} : PeerCloses(c, how)
    PROVE  WatchInv'
  <1> DEFINE r == client[c]
  <1>0. DOMAIN r = Fields /\ Sound(r)
    BY DEF TcpShape, WatchInv
  <1>1. CASE tcp_connect(c)
    <2> DEFINE s == [evt_start_write(r) EXCEPT !.flag = @ \cup {"CONNING"}, !.net = "syn"]
    <2>1. /\ s.open = r.open /\ s.flag = r.flag \cup {"CONNING"} /\ s.wr
          /\ s.due = r.due /\ s.wbuf = r.wbuf
      BY <1>0 DEF Fields, evt_start_write
    <2>2. Set(c, s) /\ r.open /\ "CONNED" \notin r.flag /\ acc' = acc
      BY <1>1 DEF tcp_connect, Runs
    <2> HIDE DEF s
    <2>3. Sound(s) /\ s.open
      BY <1>0, <2>1, <2>2 DEF Sound, Watched
    <2> QED
      BY <2>2, <2>3, SoundStep
  <1>2. CASE UseClient(c)
    BY <1>0, <1>2, UseSound DEF UseClient, Runs
  <1>3. CASE tcp_close(c)
    BY <1>3, CloseSound DEF tcp_close
  <1>4. CASE tcp_client_init(c)
    <2> DEFINE s == [Closed EXCEPT !.open = TRUE, !.flag = {"PORT"}]
    <2>1. Sound(s) /\ s.open
      BY DEF Closed, Sound, Watched
    <2>2. Set(c, s) /\ acc' = acc
      BY <1>4 DEF tcp_client_init
    <2> HIDE DEF s
    <2> QED
      BY <2>1, <2>2, SoundStep
  <1>5. ASSUME NEW how \in {"fin", "rst"}, PeerCloses(c, how)
        PROVE  WatchInv'
    <2> DEFINE s == [r EXCEPT !.net = how]
    <2>1. /\ s.open = r.open /\ s.flag = r.flag /\ s.wr = r.wr /\ s.due = r.due
          /\ s.rd = r.rd /\ s.queued = r.queued /\ s.wbuf = r.wbuf
      BY <1>0 DEF Fields
    <2>2. Set(c, s) /\ acc' = acc
      BY <1>5 DEF PeerCloses
    <2> HIDE DEF s
    <2>3. Sound(s) /\ (acc.own /\ acc.c = c => s.open)
      BY <1>0, <2>1 DEF Sound, Watched, WatchInv, OwnOpen
    <2> QED
      BY <2>2, <2>3, SoundStep
  <1> QED
    BY <1>1, <1>2, <1>3, <1>4, <1>5

(* Data that was sent or flushed always has an active write event, whatever   *)
(* connects, partial writes, sends from callbacks and closes come in between, *)
(* and no event of a closed client stays with a loop.                         *)
THEOREM EventsMatch == TcpSpec => []WatchersMatch
  <1>1. TcpInit => WatchInv
    BY ClosedSound DEF TcpInit, WatchInv, OwnOpen, NoAccept
  <1>2. TcpInv /\ WatchInv /\ [TcpNext]_tcpvars => WatchInv'
    <2> SUFFICES ASSUME TcpInv, WatchInv, [TcpNext]_tcpvars PROVE WatchInv'
      OBVIOUS
    <2>1. CASE UNCHANGED tcpvars
      BY <2>1 DEF tcpvars, WatchInv, OwnOpen
    <2>2. CASE TcpNext
      <3>1. TcpShape
        BY DEF TcpInv
      <3> QED
        BY <2>2, <3>1, AcceptSound, ReadSound, WriteSound, CallSound DEF TcpNext
    <2> QED
      BY <2>1, <2>2
  <1>3. WatchInv => WatchersMatch
    BY DEF WatchInv, WatchersMatch, Sound, Watched
  <1> QED
    BY <1>1, <1>2, <1>3, TcpInvariant, PTL DEF TcpSpec
=============================================================================
