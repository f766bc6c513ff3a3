------------------------------- MODULE Buffer -------------------------------
(* ohbuffer (buffer.c): a chain of units of a fixed size. A unit is what was  *)
(* written to it since it was last cleared and the offset r of the read       *)
(* pointer; the write pointer is the end of data. unit_head and unit_tail are *)
(* the first and the last unit of the sequence, NULL when it is empty. A call *)
(* takes one step for every round of its loop.                                *)
EXTENDS Integers, Sequences, SequencesExt
CONSTANTS Bytes, UnitSize, MaxFill, MaxIo

ASSUME BufferAssumption == UnitSize \in Nat \ {0} /\ MaxFill \in Nat /\ MaxIo \in Nat

VARIABLES buf,          \* the ohbuffer
          io,           \* the call under way
          dst,          \* what the last read, peek or write to the descriptor handed out
          fifo, expect  \* a queue of bytes that takes the same calls, and its answer

bufvars == <<buf, io, dst, fifo, expect>>

Queue == INSTANCE ByteFifo WITH q <- fifo, got <- expect

bufunit_used(u) == Len(u.data) - u.r
bufunit_left(u) == UnitSize - Len(u.data)
bufunit_clear == [r |-> 0, data |-> <<>>]
\* The n bytes at the read pointer.
Content(u, n) == SubSeq(u.data, u.r + 1, u.r + n)

buf_init == [inited |-> TRUE, units |-> <<>>, unit_cnt |-> 0]

\* With the link from the unit that was the tail.
buf_get_unit(b) == [b EXCEPT !.units = Append(@, bufunit_clear), !.unit_cnt = @ + 1]

buf_remove_head(b) == [b EXCEPT !.units = Tail(@), !.unit_cnt = @ - 1]

\* Behind the write pointer of the tail.
Filled(b, bytes) == [b EXCEPT !.units[Len(b.units)].data = @ \o bytes]

\* n bytes leave the first unit. An emptied unit is removed unless it is the
\* last one, which is cleared.
Drained(b, n) ==
    CASE n < bufunit_used(b.units[1]) -> [b EXCEPT !.units[1].r = @ + n]
      [] n = bufunit_used(b.units[1]) /\ Len(b.units) = 1 -> [b EXCEPT !.units[1] = bufunit_clear]
      [] OTHER -> buf_remove_head(b)

\* The first write allocates a unit.
WithHead(b) == IF b.units = <<>> THEN buf_get_unit(b) ELSE b

\* A new unit although the tail has room.
AlwaysGetUnit(b) == buf_get_unit(b)

WithRoom(b) == IF bufunit_left(Last(b.units)) = 0 THEN buf_get_unit(b) ELSE b

buf_used(b) ==
    (IF b.units # <<>> THEN bufunit_used(Head(b.units)) ELSE 0)
      + (IF b.unit_cnt > 1
         THEN bufunit_used(Last(b.units)) + (b.unit_cnt - 2) * UnitSize ELSE 0)
-----------------------------------------------------------------------------
\* What a call has yet to write or to read, and the number of the unit that its
\* pointer bufu is at, which is NULL past the last one.
Call(op, src, left) == [op |-> op, src |-> src, left |-> left, at |-> 1]
Idle == Call("idle", <<>>, 0)
NullUnit == io.at > Len(buf.units)

AtMost(n, m) == IF n < m THEN n ELSE m
Fits(src) == Len(fifo) + Len(src) <= MaxFill
Chunks(n) == BoundedSeq(Bytes, n)

buf_write(src) ==
    /\ io = Idle /\ buf.inited /\ Fits(src)
    /\ buf' = WithHead(buf) /\ io' = Call("write", src, 0)
    /\ dst' = <<>> /\ Queue!Put(src)

WriteUnit ==
    /\ io.op = "write" /\ io.src # <<>>
    /\ LET room == WithRoom(buf)
           n    == AtMost(Len(io.src), bufunit_left(Last(room.units)))
       IN  /\ buf' = Filled(room, SubSeq(io.src, 1, n))
           /\ io' = [io EXCEPT !.src = SubSeq(@, n + 1, Len(@))]
    /\ UNCHANGED <<dst, fifo, expect>>

\* The size asked for may be more than there is.
buf_read(readsz) ==
    /\ io = Idle /\ buf.inited
    /\ io' = Call("read", <<>>, readsz)
    /\ dst' = <<>> /\ Queue!Take(readsz) /\ UNCHANGED buf

ReadUnit ==
    /\ io.op = "read" /\ ~NullUnit /\ io.left > 0
    /\ LET u == buf.units[1]
           n == AtMost(io.left, bufunit_used(u))
       IN  /\ dst' = dst \o Content(u, n)
           /\ buf' = Drained(buf, n)
           /\ io' = [io EXCEPT !.left = @ - n,
                              !.at = IF n = bufunit_used(u) /\ Len(buf.units) = 1 THEN 2 ELSE 1]
    /\ UNCHANGED <<fifo, expect>>

buf_peek(readsz) ==
    /\ io = Idle /\ buf.inited
    /\ io' = Call("peek", <<>>, readsz)
    /\ dst' = <<>> /\ Queue!Look(readsz) /\ UNCHANGED buf

PeekUnit ==
    /\ io.op = "peek" /\ ~NullUnit /\ io.left > 0
    /\ LET u == buf.units[io.at]
           n == AtMost(io.left, bufunit_used(u))
       IN  /\ dst' = dst \o Content(u, n)
           /\ io' = [io EXCEPT !.left = @ - n, !.at = @ + 1]
    /\ UNCHANGED <<buf, fifo, expect>>

buf_fd_read ==
    /\ io = Idle /\ buf.inited
    /\ buf' = WithRoom(WithHead(buf)) /\ io' = Call("fd_read", <<>>, 0)
    /\ dst' = <<>> /\ Queue!Put(<<>>)

\* read() puts what the descriptor has behind the write pointer. There is
\* another round if that fills the tail; it may find nothing, or fail.
FdReadUnit(src) ==
    /\ io.op = "fd_read" /\ Fits(src)
    /\ LET room == WithRoom(buf)
           left == bufunit_left(Last(room.units))
       IN  /\ Len(src) <= left
           /\ buf' = Filled(room, src)
           /\ io' = IF src = <<>> \/ Len(src) < left THEN Idle ELSE io
    /\ dst' = <<>> /\ Queue!Put(src)

buf_fd_write ==
    /\ io = Idle /\ buf.inited
    /\ io' = Call("fd_write", <<>>, 0)
    /\ dst' = <<>> /\ Queue!Look(0) /\ UNCHANGED buf

\* write() takes the first n bytes of the unit.
FdWriteUnit(n) ==
    /\ io.op = "fd_write" /\ ~NullUnit
    /\ LET u == buf.units[1]
       IN  /\ n <= bufunit_used(u)
           /\ dst' = Content(u, n)
           /\ buf' = Drained(buf, n)
           /\ io' = [io EXCEPT
                 !.at = IF n = bufunit_used(u) /\ Len(buf.units) = 1 THEN 2 ELSE 1]
    /\ Queue!Take(n)

\* Or it fails.
FdWriteFails ==
    io.op = "fd_write" /\ ~NullUnit /\ io' = Idle /\ UNCHANGED <<buf, dst, fifo, expect>>

\* The conditions of the loops.
LoopEnds ==
    /\ \/ io.op = "write" /\ io.src = <<>>
       \/ io.op \in {"read", "peek"} /\ (NullUnit \/ io.left = 0)
       \/ io.op = "fd_write" /\ NullUnit
    /\ io' = Idle /\ UNCHANGED <<buf, dst, fifo, expect>>

\* unit_head and unit_tail keep pointing to freed units: only buf_init may follow.
buf_destroy ==
    /\ io = Idle /\ buf.inited
    /\ buf' = [inited |-> FALSE, units |-> <<>>, unit_cnt |-> buf.unit_cnt - Len(buf.units)]
    /\ dst' = <<>> /\ Queue!Reset /\ UNCHANGED io

buf_reinit ==
    ~buf.inited /\ buf' = buf_init /\ dst' = <<>> /\ Queue!Reset /\ UNCHANGED io

BufInit == buf = buf_init /\ io = Idle /\ dst = <<>> /\ Queue!Empty

BufNext ==
    \/ \E src \in Chunks(MaxIo) : buf_write(src)
    \/ \E n \in 0..MaxFill + 1 : buf_read(n) \/ buf_peek(n)
    \/ WriteUnit \/ ReadUnit \/ PeekUnit \/ LoopEnds
    \/ buf_fd_read \/ \E src \in Chunks(UnitSize) : FdReadUnit(src)
    \/ buf_fd_write \/ FdWriteFails \/ \E n \in 0..UnitSize : FdWriteUnit(n)
    \/ buf_destroy \/ buf_reinit

BufSpec == BufInit /\ [][BufNext]_bufvars
-----------------------------------------------------------------------------
(* Over any number of units the buffer is a queue of bytes: what is written   *)
(* or read from a descriptor comes out once, in order, by reads, peeks and    *)
(* partial writes to a descriptor, and buf_used, which adds up the first      *)
(* unit, the last one and unit_cnt - 2 full ones, is the number of bytes      *)
(* whatever was drained and refilled, in the middle of a call as well.        *)
BufIsFifo ==
    /\ io.op \notin {"read", "peek"} => dst = expect
    /\ buf_used(buf) + Len(io.src)
         = Len(fifo) + IF io.op = "read" THEN Len(expect) - Len(dst) ELSE 0
=============================================================================
