---------------------------- MODULE StoreProofs -----------------------------
(* The object pool and the byte buffer, for any number of threads, blocks,    *)
(* objects and units.                                                         *)
EXTENDS ObjPool, Buffer, SplstProofs, SequenceTheorems, TLAPS

-----------------------------------------------------------------------------
(* NoObjectTwice for any number of threads, any block size and any number of  *)
(* blocks. It is not inductive by itself: that an object leaves the free list *)
(* when it is handed out rests on the list having no circle and on no other   *)
(* object pointing into it, and this on one thread at a time being in the     *)
(* list's code, by the mutex or because only one thread uses the pool.        *)

Places == {"out", "get_lock", "get", "unlink", "unlock", "free_lock", "free", "link"}
Inside == {"get", "unlink", "free", "link", "unlock"}

PoolType ==
    /\ DOMAIN op = {"uselock", "free_elem", "next", "blkcnt", "mutex"}
    /\ op.uselock \in BOOLEAN
    /\ op.free_elem \in Objs \cup {NoObj}
    /\ op.next \in [Objs -> Objs \cup {NoObj}]
    /\ op.blkcnt \in 0..MaxBlks
    /\ at \in [PoolThreads -> Places]
    /\ obj \in [PoolThreads -> Objs \cup {NoObj}]
    /\ taken \subseteq Objs

\* One thread at a time is in the code that changes the list.
Exclusive ==
    /\ op.uselock => \A t \in PoolThreads : at[t] \in Inside => op.mutex = t
    /\ ~op.uselock => \A t \in PoolThreads :
          /\ at[t] \notin {"get_lock", "free_lock"}
          /\ at[t] # "out" => t \in Callers

\* What a call under way knows.
Calls ==
    \A t \in PoolThreads :
        /\ at[t] \in {"out", "get_lock", "get"} => obj[t] = NoObj
        /\ at[t] \in {"free_lock", "free", "link"} => obj[t] # NoObj
        /\ at[t] = "unlink" => obj[t] # NoObj /\ obj[t] = op.free_elem
        /\ at[t] = "link" => op.next[obj[t]] = op.free_elem

\* No circle, and only the object that is being put back points into the list
\* from outside.
Pointers ==
    /\ Acyclic(op.next)
    /\ \A o \in Objs \ Free : op.next[o] # NoObj =>
          \E t \in PoolThreads : at[t] = "link" /\ obj[t] = o

\* The object that thread t has, off the list and not yet or no longer its
\* caller's.
Carries(t, o) == InCall(t) /\ at[t] # "unlink" /\ obj[t] = o

\* NoObjectTwice, object by object.
Placed ==
    /\ \A t, u \in PoolThreads : InCall(t) /\ InCall(u) /\ obj[t] = obj[u] => t = u
    /\ \A t \in PoolThreads : InCall(t) => obj[t] \notin taken
    /\ \A t \in PoolThreads : \A o \in Free : ~Carries(t, o)
    /\ Free \cap taken = {}
    /\ \A o \in Objs : (o \in Free \/ o \in taken \/ \E t \in PoolThreads : Carries(t, o))
                          <=> o <= BlkSize * op.blkcnt

PoolInv == PoolType /\ Exclusive /\ Calls /\ Pointers /\ Placed
-----------------------------------------------------------------------------
(* The objects of the first blocks are objects of the pool.                   *)
LEMMA BlockBounds ==
  ASSUME NEW k \in 0..MaxBlks
  PROVE  /\ BlkSize * k \in Nat /\ BlkSize * k <= BlkSize * MaxBlks
         /\ (k + 1) * BlkSize = BlkSize * k + BlkSize /\ k * BlkSize = BlkSize * k
         /\ BlkSize * MaxBlks \in Nat
         /\ k # MaxBlks => BlkSize * k + BlkSize <= BlkSize * MaxBlks
  <1> USE PoolAssumption
  <1>1. BlkSize * k \in Nat /\ BlkSize * MaxBlks \in Nat
    OBVIOUS
  <1>2. (k + 1) * BlkSize = BlkSize * k + BlkSize /\ k * BlkSize = BlkSize * k
    OBVIOUS
  <1>3. PICK d \in Nat : MaxBlks = k + d
    <2>1. MaxBlks - k \in Nat /\ MaxBlks = k + (MaxBlks - k)
      OBVIOUS
    <2> QED
      BY <2>1
  <1>4. BlkSize * MaxBlks = BlkSize * k + BlkSize * d /\ BlkSize * d \in Nat
    BY <1>3
  <1>5. k # MaxBlks => BlkSize * d >= BlkSize
    <2>1. k # MaxBlks => d >= 1
      BY <1>3
    <2>2. d >= 1 => BlkSize * d = BlkSize * (d - 1) + BlkSize /\ BlkSize * (d - 1) \in Nat
      OBVIOUS
    <2> QED
      BY <2>1, <2>2
  <1> QED
    BY <1>1, <1>2, <1>4, <1>5

(* A new block's objects follow those of the blocks before it.                *)
LEMMA BlockObjs ==
  ASSUME NEW k \in 0..MaxBlks, k # MaxBlks
  PROVE  /\ BlkObjs(k + 1) = BlkSize * k + 1..BlkSize * k + BlkSize
         /\ BlkObjs(k + 1) \subseteq Objs
  <1>1. BlkObjs(k + 1) = BlkSize * k + 1..BlkSize * k + BlkSize
    <2>1. k + 1 - 1 = k
      OBVIOUS
    <2> QED
      BY <2>1, BlockBounds DEF BlkObjs
  <1> QED
    BY <1>1, BlockBounds, PoolAssumption DEF Objs

(* Placed is NoObjectTwice for the objects the blocks have.                  *)
LEMMA PlacedIsNoObjectTwice ==
  ASSUME PoolType, Placed
  PROVE  NoObjectTwice
  <1> DEFINE moving == {t \in PoolThreads : InCall(t)}
             carried == {obj[t] : t \in {u \in moving : at[u] # "unlink"}}
  <1>1. \A o : o \in carried <=> \E t \in PoolThreads : Carries(t, o)
    BY DEF Carries
  <1>2. Free \subseteq Objs /\ taken \subseteq Objs /\ carried \subseteq Objs
    BY ReachHolds DEF PoolType, Free, InCall
  <1>3. \A o : o \in 1..BlkSize * op.blkcnt <=> o \in Objs /\ o <= BlkSize * op.blkcnt
    BY BlockBounds DEF PoolType, Objs
  <1>4. \A t, u \in moving : obj[t] = obj[u] => t = u
    BY DEF Placed
  <1>5. taken \cap {obj[t] : t \in moving} = {}
    BY DEF Placed
  <1>6. Free \cap (taken \cup carried) = {}
    BY <1>1 DEF Placed
  <1>7. Free \cup taken \cup carried = 1..BlkSize * op.blkcnt
    BY <1>1, <1>2, <1>3 DEF Placed
  <1> QED
    BY <1>4, <1>5, <1>6, <1>7 DEF NoObjectTwice
-----------------------------------------------------------------------------
\* One operation of thread t.
Operation(t) ==
    \/ CallGet(t) \/ \E o \in taken : CallFree(t, o)
    \/ Lock(t) \/ NewBlock(t) \/ NoBlock(t) \/ ReadHead(t) \/ Unlink(t)
    \/ LinkNext(t) \/ LinkHead(t) \/ Return(t)

(* The threads that call are the pool's; without the lock there is one.       *)
LEMMA CallersThreads ==
  /\ Callers \subseteq PoolThreads
  /\ ~op.uselock => \A t, u \in Callers : t = u
  <1>1. (CHOOSE t \in PoolThreads : TRUE) \in PoolThreads
    BY PoolAssumption
  <1> QED
    BY <1>1 DEF Callers

(* At most one thread is in the code of the list.                             *)
LEMMA Sole ==
  ASSUME PoolType, Exclusive,
         NEW t \in PoolThreads, NEW u \in PoolThreads, at[t] \in Inside, at[u] \in Inside
  PROVE  t = u
  BY CallersThreads DEF Exclusive, Inside

(* The lists of a pool are made of its objects.                               *)
LEMMA FreeObjs ==
  ASSUME PoolType
  PROVE  /\ Free \subseteq Objs
         /\ op.free_elem # NoObj => op.free_elem \in Free
         /\ op.free_elem = NoObj => Free = {}
         /\ \A o \in Free : op.next[o] # NoObj => op.next[o] \in Free
  <1>1. NoObj \notin Objs
    BY DEF NoObj, Objs
  <1>2. DOMAIN op.next = Objs
    BY DEF PoolType
  <1>3. op.free_elem = NoObj => Free = {}
    BY <1>1, <1>2, ReachEnd DEF Free
  <1>4. Free \subseteq Objs /\ Holds(op.next, op.free_elem, Free)
    BY <1>2, ReachHolds DEF Free
  <1> QED
    BY <1>1, <1>2, <1>3, <1>4 DEF PoolType, Holds

(* Every operation keeps the types.                                           *)
LEMMA TypeStep ==
  ASSUME PoolType, Calls, NEW t \in PoolThreads, Operation(t)
  PROVE  PoolType'
  <1> USE DEF PoolType, Goto, Places
  <1>1. CASE CallGet(t)
    BY <1>1 DEF CallGet
  <1>2. ASSUME NEW o \in taken, CallFree(t, o) PROVE PoolType'
    BY <1>2 DEF CallFree
  <1>3. CASE Lock(t)
    BY <1>3 DEF Lock
  <1>4. CASE NewBlock(t)
    <2> DEFINE b == BlkObjs(op.blkcnt + 1)
               m == [o \in Objs |-> IF o \notin b THEN op.next[o]
                                    ELSE IF o - 1 \in b THEN o - 1 ELSE NoObj]
    <2>0. op.blkcnt \in 0..MaxBlks /\ op.blkcnt < MaxBlks
      BY <1>4 DEF NewBlock
    <2>1. /\ op'.uselock = op.uselock /\ op'.next = m /\ op'.blkcnt = op.blkcnt + 1
          /\ op'.free_elem = (op.blkcnt + 1) * BlkSize /\ op'.mutex = op.mutex
          /\ DOMAIN op' = DOMAIN op /\ UNCHANGED <<at, obj, taken>>
      BY <1>4 DEF NewBlock
    <2>2. op'.free_elem \in Objs
      <3>1. BlkSize * op.blkcnt \in Nat
            /\ BlkSize * op.blkcnt + BlkSize <= BlkSize * MaxBlks
            /\ op'.free_elem = BlkSize * op.blkcnt + BlkSize /\ BlkSize * MaxBlks \in Nat
        BY <2>0, <2>1, BlockBounds
      <3> QED
        BY <3>1, PoolAssumption DEF Objs
    <2>3. b \subseteq Objs
      BY <2>0, BlockObjs
    <2>4. m \in [Objs -> Objs \cup {NoObj}]
      BY <2>3
    <2> HIDE DEF m, b
    <2> QED
      BY <2>0, <2>1, <2>2, <2>4, PoolAssumption
  <1>5. CASE NoBlock(t)
    BY <1>5 DEF NoBlock
  <1>6. CASE ReadHead(t)
    BY <1>6 DEF ReadHead
  <1>7. CASE Unlink(t)
    <2>1. obj[t] \in Objs
      BY <1>7 DEF Calls, Unlink
    <2> QED
      BY <1>7, <2>1 DEF Unlink
  <1>8. CASE LinkNext(t)
    <2>1. obj[t] \in Objs
      BY <1>8 DEF Calls, LinkNext
    <2> QED
      BY <1>8, <2>1 DEF LinkNext
  <1>9. CASE LinkHead(t)
    BY <1>9 DEF LinkHead
  <1>10. CASE Return(t)
    BY <1>10 DEF Return
  <1> QED
    BY <1>1, <1>2, <1>3, <1>4, <1>5, <1>6, <1>7, <1>8, <1>9, <1>10 DEF Operation

(* Every operation leaves one thread in the code of the list.                 *)
LEMMA ExclusiveStep ==
  ASSUME PoolType, Exclusive, NEW t \in Callers, Operation(t)
  PROVE  Exclusive'
  <1>0. t \in PoolThreads
    BY CallersThreads
  <1> USE DEF PoolType, Goto, Inside, Exclusive
  <1>a. op'.uselock = op.uselock /\ Callers' = Callers
        /\ \A u \in PoolThreads \ {t} : at'[u] = at[u]
    BY <1>0 DEF Operation, CallGet, CallFree, Lock, NewBlock, NoBlock, ReadHead, Unlink,
            LinkNext, LinkHead, Return, Callers
  <1>b. CASE ~op.uselock
    <2>1. at'[t] \notin {"get_lock", "free_lock"}
      BY <1>0, <1>b DEF Operation, CallGet, CallFree, Lock, NewBlock, NoBlock, ReadHead, Unlink,
              LinkNext, LinkHead, Return
    <2> QED
      BY <1>0, <1>a, <1>b, <2>1
  <1>c. CASE op.uselock
    <2>1. CASE CallGet(t) \/ \E o \in taken : CallFree(t, o)
      BY <1>0, <1>a, <1>c, <2>1 DEF CallGet, CallFree
    <2>2. CASE Lock(t)
      <3>1. op.mutex = NoOwner /\ op'.mutex = t /\ NoOwner \notin PoolThreads
        BY <2>2, PoolAssumption DEF Lock, NoOwner
      <3> QED
        BY <1>a, <1>c, <3>1
    <2>3. CASE NewBlock(t) \/ NoBlock(t) \/ ReadHead(t) \/ Unlink(t) \/ LinkNext(t) \/ LinkHead(t)
      <3>1. at[t] \in Inside /\ op'.mutex = op.mutex
        BY <2>3 DEF NewBlock, NoBlock, ReadHead, Unlink, LinkNext, LinkHead
      <3> QED
        BY <1>0, <1>a, <1>c, <3>1
    <2>4. CASE Return(t)
      <3>1. at[t] \in Inside /\ at'[t] = "out"
        BY <1>0, <2>4 DEF Return
      <3>2. \A u \in PoolThreads : at'[u] \notin Inside
        BY <1>0, <1>a, <1>c, <3>1
      <3> QED
        BY <1>a, <1>c, <3>2
    <2> QED
      BY <2>1, <2>2, <2>3, <2>4 DEF Operation
  <1> QED
    BY <1>b, <1>c

(* Every operation leaves the calls under way right about their object.       *)
LEMMA CallsStep ==
  ASSUME PoolType, Exclusive, Calls, NEW t \in PoolThreads, Operation(t)
  PROVE  Calls'
  <1> USE DEF PoolType, Goto, Calls
  <1>0. \A u \in PoolThreads \ {t} : at'[u] = at[u] /\ obj'[u] = obj[u]
    BY DEF Operation, CallGet, CallFree, Lock, NewBlock, NoBlock, ReadHead, Unlink,
           LinkNext, LinkHead, Return
  <1>1. CASE CallGet(t) \/ Lock(t)
    BY <1>0, <1>1 DEF CallGet, Lock
  <1>2. ASSUME NEW o \in taken, CallFree(t, o) PROVE Calls'
    <2>1. o # NoObj
      BY DEF Objs, NoObj
    <2> QED
      BY <1>0, <1>2, <2>1 DEF CallFree
  <1>3. ASSUME at[t] \in Inside PROVE \A u \in PoolThreads \ {t} : at'[u] \notin Inside
    BY <1>0, <1>3, Sole
  <1>4. CASE NoBlock(t) \/ ReadHead(t)
    BY <1>0, <1>4 DEF NoBlock, ReadHead
  <1>5. CASE NewBlock(t)
    BY <1>0, <1>3, <1>5 DEF NewBlock, Inside
  <1>6. CASE Unlink(t) \/ LinkHead(t)
    BY <1>0, <1>3, <1>6 DEF Unlink, LinkHead, Inside
  <1>7. CASE LinkNext(t)
    BY <1>0, <1>3, <1>7 DEF LinkNext, Inside
  <1>8. CASE Return(t)
    BY <1>0, <1>8 DEF Return
  <1> QED
    BY <1>1, <1>2, <1>4, <1>5, <1>6, <1>7, <1>8 DEF Operation
-----------------------------------------------------------------------------
ListInv == Pointers /\ Placed

(* A step that leaves the list, the blocks and the objects' places alone.     *)
LEMMA FrameStep ==
  ASSUME ListInv, op'.next = op.next, op'.free_elem = op.free_elem, op'.blkcnt = op.blkcnt,
         taken' = taken,
         \A u \in PoolThreads : /\ InCall(u)' <=> InCall(u)
                                /\ obj'[u] = obj[u]
                                /\ at'[u] = "unlink" <=> at[u] = "unlink"
                                /\ at'[u] = "link" <=> at[u] = "link"
  PROVE  ListInv'
  <1>1. Free' = Free
    BY DEF Free
  <1>2. \A u \in PoolThreads : \A o : Carries(u, o)' <=> Carries(u, o)
    BY DEF Carries
  <1>3. Pointers'
    BY <1>1 DEF ListInv, Pointers
  <1>4. Placed'
    BY <1>1, <1>2 DEF ListInv, Placed
  <1> QED
    BY <1>3, <1>4 DEF ListInv

(* Calling, taking the mutex and failing to allocate move no object.          *)
LEMMA IdleStep ==
  ASSUME PoolType, Calls, ListInv, NEW t \in PoolThreads,
         CallGet(t) \/ Lock(t) \/ NoBlock(t)
  PROVE  ListInv'
  <1>1. \A u \in PoolThreads \ {t} : at'[u] = at[u] /\ obj'[u] = obj[u]
    BY DEF PoolType, Goto, CallGet, Lock, NoBlock
  <1>2. /\ op'.next = op.next /\ op'.free_elem = op.free_elem /\ op'.blkcnt = op.blkcnt
        /\ taken' = taken
    BY DEF PoolType, CallGet, Lock, NoBlock
  <1>3. /\ obj'[t] = obj[t] /\ at'[t] \notin {"unlink", "link"} /\ at[t] \notin {"unlink", "link"}
        /\ InCall(t)' <=> InCall(t)
    BY DEF PoolType, Calls, Goto, CallGet, Lock, NoBlock, InCall
  <1>4. \A u \in PoolThreads : InCall(u)' <=> InCall(u)
    BY <1>1, <1>3 DEF InCall
  <1> QED
    BY <1>1, <1>2, <1>3, <1>4, FrameStep

(* A caller gives an object back: it is the call's.                           *)
LEMMA CallFreeStep ==
  ASSUME PoolType, Calls, ListInv, NEW t \in PoolThreads, NEW o \in taken, CallFree(t, o)
  PROVE  ListInv'
  <1>1. \A u \in PoolThreads \ {t} : at'[u] = at[u] /\ obj'[u] = obj[u]
    BY DEF PoolType, Goto, CallFree
  <1>2. /\ op' = op /\ taken' = taken \ {o} /\ at[t] = "out" /\ obj[t] = NoObj
        /\ obj'[t] = o /\ at'[t] \in {"free_lock", "free"} /\ o \in Objs /\ o # NoObj
    BY DEF PoolType, Calls, Goto, CallFree, Objs, NoObj
  <1>3. Free' = Free
    BY <1>2 DEF Free
  <1>4. \A u \in PoolThreads \ {t} : /\ InCall(u)' <=> InCall(u)
                                     /\ \A p : Carries(u, p)' <=> Carries(u, p)
    BY <1>1 DEF InCall, Carries
  <1>5. /\ ~InCall(t) /\ InCall(t)' /\ \A p : ~Carries(t, p)
        /\ \A p : Carries(t, p)' <=> p = o
    BY <1>2 DEF InCall, Carries
  <1>6. Pointers'
    BY <1>1, <1>2, <1>3 DEF ListInv, Pointers
  <1>7. Placed'
    <2>1. \A u \in PoolThreads \ {t} : InCall(u) => obj[u] # o
      BY DEF ListInv, Placed
    <2>2. \A p \in Free : p # o
      BY DEF ListInv, Placed
    <2>3. \A u, v \in PoolThreads : InCall(u)' /\ InCall(v)' /\ obj'[u] = obj'[v] => u = v
      BY <1>1, <1>2, <1>4, <1>5, <2>1 DEF ListInv, Placed
    <2>4. \A u \in PoolThreads : InCall(u)' => obj'[u] \notin taken'
      BY <1>1, <1>2, <1>4, <1>5 DEF ListInv, Placed
    <2>5. \A u \in PoolThreads : \A p \in Free' : ~Carries(u, p)'
      BY <1>3, <1>4, <1>5, <2>2 DEF ListInv, Placed
    <2>6. Free' \cap taken' = {}
      BY <1>2, <1>3 DEF ListInv, Placed
    <2>7. \A p : (p \in taken' \/ \E u \in PoolThreads : Carries(u, p)')
                   <=> (p \in taken \/ \E u \in PoolThreads : Carries(u, p))
      BY <1>2, <1>4, <1>5
    <2> QED
      BY <1>2, <1>3, <2>3, <2>4, <2>5, <2>6, <2>7 DEF ListInv, Placed
  <1> QED
    BY <1>6, <1>7 DEF ListInv

(* The head of the list is the object to hand out, still on the list.         *)
LEMMA ReadHeadStep ==
  ASSUME PoolType, Exclusive, Calls, ListInv, NEW t \in PoolThreads, ReadHead(t)
  PROVE  ListInv'
  <1>1. \A u \in PoolThreads \ {t} : at'[u] = at[u] /\ obj'[u] = obj[u]
    BY DEF PoolType, Goto, ReadHead
  <1>2. /\ op' = op /\ taken' = taken /\ at[t] = "get" /\ obj[t] = NoObj
        /\ obj'[t] = op.free_elem /\ at'[t] = "unlink" /\ op.free_elem \in Free
    BY FreeObjs DEF PoolType, Calls, Goto, ReadHead
  <1>3. Free' = Free
    BY <1>2 DEF Free
  <1>4. \A u \in PoolThreads \ {t} : /\ InCall(u)' <=> InCall(u)
                                     /\ \A p : Carries(u, p)' <=> Carries(u, p)
    BY <1>1 DEF InCall, Carries
  <1>5. ~InCall(t) /\ \A p : ~Carries(t, p) /\ ~Carries(t, p)'
    BY <1>2 DEF InCall, Carries
  <1>6. Pointers'
    BY <1>1, <1>2, <1>3 DEF ListInv, Pointers
  <1>7. Placed'
    <2>1. \A u \in PoolThreads \ {t} : at[u] # "unlink"
      BY <1>2, Sole DEF Inside
    <2>2. \A u \in PoolThreads \ {t} : InCall(u) => obj[u] # op.free_elem
      BY <1>2, <2>1 DEF ListInv, Placed, Carries
    <2>3. op.free_elem \notin taken
      BY <1>2 DEF ListInv, Placed
    <2>4. \A u, v \in PoolThreads : InCall(u)' /\ InCall(v)' /\ obj'[u] = obj'[v] => u = v
      BY <1>1, <1>2, <1>4, <2>2 DEF ListInv, Placed
    <2>5. \A u \in PoolThreads : InCall(u)' => obj'[u] \notin taken'
      BY <1>1, <1>2, <1>4, <2>3 DEF ListInv, Placed
    <2>6. \A u \in PoolThreads : \A p : Carries(u, p)' <=> Carries(u, p)
      BY <1>4, <1>5
    <2> QED
      BY <1>2, <1>3, <2>4, <2>5, <2>6 DEF ListInv, Placed
  <1> QED
    BY <1>6, <1>7 DEF ListInv

(* splst_del takes the head off the list, for the caller.                     *)
LEMMA UnlinkStep ==
  ASSUME PoolType, Exclusive, Calls, ListInv, NEW t \in PoolThreads, Unlink(t)
  PROVE  ListInv'
  <1> DEFINE a == op.free_elem
             m == [op.next EXCEPT ![a] = NoObj]
  <1>1. at'[t] = "unlock" /\ obj' = obj /\ \A u \in PoolThreads \ {t} : at'[u] = at[u]
    BY DEF PoolType, Goto, Unlink
  <1>2. obj[t] = a /\ a \in Objs /\ a \in Free /\ at[t] = "unlink" /\ a # NoObj
    BY FreeObjs DEF PoolType, Calls, Unlink, NoObj, Objs
  <1>3. /\ op'.free_elem = op.next[a] /\ op'.next = m /\ op'.blkcnt = op.blkcnt
        /\ taken' = taken
    BY <1>2 DEF PoolType, Unlink
  <1>4. \A u \in PoolThreads \ {t} : at[u] \notin Inside
    BY <1>2, Sole DEF Inside
  <1>5. \A o \in Objs \ Free : op.next[o] = NoObj
    BY <1>2, <1>4 DEF ListInv, Pointers, Inside
  <1>6. Acyclic(op.next) /\ DOMAIN op.next = Objs
    BY DEF ListInv, Pointers, PoolType
  <1>7. \A o \in Objs : op.next[o] # a
    <2>1. ASSUME NEW o \in Free PROVE op.next[o] # a
      BY <1>6, <2>1, FreeObjs DEF Acyclic, Free
    <2> QED
      BY <1>2, <1>5, <2>1
  <1>8. /\ Acyclic(m) /\ Reach(m, op.next[a]) = Reach(op.next, op.next[a])
    <2>1. /\ NoObj # a /\ a \in DOMAIN op.next /\ op.next[a] # a
          /\ \A o \in DOMAIN op.next : op.next[o] # a
      BY <1>2, <1>6, <1>7
    <2>2. Acyclic(m) /\ \A y : y # a => Reach(m, y) = Reach(op.next, y)
      <3> DEFINE n == op.next
      <3>1. a \in DOMAIN n /\ Acyclic(n) /\ NoObj # a /\ \A o \in DOMAIN n : n[o] # a
        BY <1>6, <2>1
      <3> HIDE DEF n, a
      <3>2. /\ Acyclic([n EXCEPT ![a] = NoObj])
            /\ \A y : y # a => Reach([n EXCEPT ![a] = NoObj], y) = Reach(n, y)
        BY <3>1, AddedAcyclic, Zenon
      <3> QED
        BY <3>2, Zenon DEF n
    <2> QED
      BY <2>1, <2>2, Zenon
  <1>9. Free' = Free \ {a}
    <2>1. Reach(op.next, op.next[a]) = Free \ {a}
      BY <1>2, <1>6, ReachRest DEF Free
    <2> QED
      BY <1>3, <1>8, <2>1 DEF Free
  <1>10. Pointers'
    <2>1. \A o \in Objs \ Free' : op'.next[o] = NoObj
      BY <1>3, <1>5, <1>6, <1>9
    <2> QED
      BY <1>3, <1>8, <2>1 DEF Pointers
  <1>11. Placed'
    <2>1. \A u \in PoolThreads \ {t} : \A p : /\ InCall(u)' <=> InCall(u)
                                              /\ Carries(u, p)' <=> Carries(u, p)
      BY <1>1 DEF InCall, Carries
    <2>2. /\ InCall(t) /\ InCall(t)' /\ \A p : ~Carries(t, p)
          /\ \A p : Carries(t, p)' <=> p = a
      BY <1>1, <1>2 DEF InCall, Carries
    <2>3. \A u, v \in PoolThreads : InCall(u)' /\ InCall(v)' /\ obj'[u] = obj'[v] => u = v
      BY <1>1, <2>1, <2>2 DEF ListInv, Placed
    <2>4. \A u \in PoolThreads : InCall(u)' => obj'[u] \notin taken'
      BY <1>1, <1>3, <2>1, <2>2 DEF ListInv, Placed
    <2>5. \A u \in PoolThreads : \A p \in Free' : ~Carries(u, p)'
      BY <1>9, <2>1, <2>2 DEF ListInv, Placed
    <2>6. Free' \cap taken' = {}
      BY <1>3, <1>9 DEF ListInv, Placed
    <2>7. \A p : (p \in Free' \/ p \in taken' \/ \E u \in PoolThreads : Carries(u, p)')
                   <=> (p \in Free \/ p \in taken \/ \E u \in PoolThreads : Carries(u, p))
      BY <1>2, <1>3, <1>9, <2>1, <2>2
    <2> QED
      BY <1>3, <2>3, <2>4, <2>5, <2>6, <2>7 DEF ListInv, Placed
  <1> QED
    BY <1>10, <1>11 DEF ListInv

(* A new block is all on the list, which was empty.                           *)
LEMMA NewBlockStep ==
  ASSUME PoolType, Exclusive, Calls, ListInv, NEW t \in PoolThreads, NewBlock(t)
  PROVE  ListInv'
  <1> DEFINE k == op.blkcnt
             b == BlkObjs(k + 1)
             lo == BlkSize * k + 1
             hi == BlkSize * k + BlkSize
             m == [o \in Objs |-> IF o \notin b THEN op.next[o]
                                  ELSE IF o - 1 \in b THEN o - 1 ELSE NoObj]
  <1>1. /\ at[t] = "get" /\ op.free_elem = NoObj /\ k \in 0..MaxBlks /\ k # MaxBlks
        /\ op'.next = m /\ op'.blkcnt = k + 1 /\ op'.free_elem = (k + 1) * BlkSize
        /\ UNCHANGED <<at, obj, taken>>
    BY DEF PoolType, NewBlock
  <1>2. /\ b = lo..hi /\ b \subseteq Objs /\ op'.free_elem = hi /\ BlkSize * k \in Nat
        /\ BlkSize * op'.blkcnt = hi /\ BlkSize \in Nat \ {0}
    <2>1. BlkSize * (k + 1) = (k + 1) * BlkSize
      BY <1>1, PoolAssumption
    <2> QED
      BY <1>1, <2>1, BlockBounds, BlockObjs, PoolAssumption
  <1>3. Free = {} /\ \A o \in Objs : op.next[o] = NoObj
    <2>1. Free = {}
      BY <1>1, FreeObjs
    <2>2. \A u \in PoolThreads : at[u] # "link"
      BY <1>1, Sole DEF Inside
    <2> QED
      BY <2>1, <2>2 DEF ListInv, Pointers
  <1>4. /\ DOMAIN m = Objs /\ m[lo] = NoObj /\ \A o \in lo + 1..hi : m[o] = o - 1
        /\ \A o \in Objs \ b : m[o] = NoObj
    BY <1>2, <1>3
  <1>5. NoObj \notin Objs /\ Objs \subseteq Nat
    BY DEF Objs, NoObj
  <1>6. \A o \in Objs : m[o] \in Objs => m[o] < o
    BY <1>2, <1>3, <1>5
  <1> HIDE DEF m, b, lo, hi, k
  <1>7. Free' = b
    <2>1. lo \in Nat /\ hi \in Nat /\ lo <= hi
      BY <1>2 DEF lo, hi
    <2>2. Reach(m, hi) = lo..hi
      BY <1>2, <1>4, <1>5, <2>1, DownChain
    <2> QED
      BY <1>1, <1>2, <2>2 DEF Free
  <1>8. Pointers'
    <2>1. Acyclic(m)
      BY <1>4, <1>5, <1>6, DownAcyclic
    <2> QED
      BY <1>1, <1>4, <1>7, <2>1 DEF Pointers
  <1>9. Placed'
    <2>1. \A u \in PoolThreads : \A p : /\ InCall(u)' <=> InCall(u)
                                        /\ Carries(u, p)' <=> Carries(u, p)
      BY <1>1 DEF InCall, Carries
    <2>2. \A o \in b : o \in Objs /\ ~(o <= BlkSize * k)
      BY <1>2, <1>5 DEF lo
    <2>3. \A o \in b : o \notin taken /\ \A u \in PoolThreads : ~Carries(u, o)
      BY <2>2 DEF ListInv, Placed, k
    <2>4. \A o \in Objs : o <= BlkSize * op'.blkcnt <=> o <= BlkSize * k \/ o \in b
      BY <1>2, <1>5 DEF lo, hi
    <2>5. \A o \in Objs : (o \in taken \/ \E u \in PoolThreads : Carries(u, o))
                             <=> o <= BlkSize * k
      BY <1>3 DEF ListInv, Placed, k
    <2> QED
      BY <1>1, <1>7, <2>1, <2>3, <2>4, <2>5 DEF ListInv, Placed
  <1> QED
    BY <1>8, <1>9 DEF ListInv

(* splst_add, first half: the object points at the list.                      *)
LEMMA LinkNextStep ==
  ASSUME PoolType, Exclusive, Calls, ListInv, NEW t \in PoolThreads, LinkNext(t)
  PROVE  ListInv'
  <1> DEFINE a == obj[t]
             m == [op.next EXCEPT ![a] = op.free_elem]
  <1>1. at'[t] = "link" /\ obj' = obj /\ \A u \in PoolThreads \ {t} : at'[u] = at[u]
    BY DEF PoolType, Goto, LinkNext
  <1>2. at[t] = "free" /\ a \in Objs /\ a # NoObj /\ Carries(t, a)
    BY DEF PoolType, Calls, LinkNext, Carries, InCall
  <1>3. /\ op'.free_elem = op.free_elem /\ op'.next = m /\ op'.blkcnt = op.blkcnt
        /\ taken' = taken
    BY <1>2 DEF PoolType, LinkNext
  <1>4. a \notin Free
    BY <1>2 DEF ListInv, Placed
  <1>5. \A u \in PoolThreads : at[u] # "link"
    BY <1>2, Sole DEF Inside
  <1>6. Acyclic(op.next) /\ DOMAIN op.next = Objs /\ \A o \in Objs \ Free : op.next[o] = NoObj
    BY <1>5 DEF ListInv, Pointers, PoolType
  <1>7. op.free_elem # a /\ \A o \in Objs : op.next[o] # a
    BY <1>2, <1>4, <1>6, FreeObjs
  <1>8. Acyclic(m) /\ Reach(m, op.free_elem) = Reach(op.next, op.free_elem)
    <2>1. a \in DOMAIN op.next /\ \A o \in DOMAIN op.next : op.next[o] # a
      BY <1>2, <1>6, <1>7
    <2>2. Acyclic(m) /\ \A y : y # a => Reach(m, y) = Reach(op.next, y)
      <3> DEFINE n == op.next
                 x == op.free_elem
      <3>1. a \in DOMAIN n /\ Acyclic(n) /\ x # a /\ \A o \in DOMAIN n : n[o] # a
        BY <1>6, <1>7, <2>1
      <3> HIDE DEF n, a, x
      <3>2. /\ Acyclic([n EXCEPT ![a] = x])
            /\ \A y : y # a => Reach([n EXCEPT ![a] = x], y) = Reach(n, y)
        BY <3>1, AddedAcyclic, Zenon
      <3> QED
        BY <3>2, Zenon DEF n, x
    <2> QED
      BY <1>7, <2>2, Zenon
  <1>9. Free' = Free
    BY <1>3, <1>8 DEF Free
  <1>10. Pointers'
    <2>1. \A o \in Objs \ Free' : op'.next[o] # NoObj => o = a
      BY <1>3, <1>6, <1>9
    <2> QED
      BY <1>1, <1>3, <1>8, <2>1 DEF Pointers
  <1>11. Placed'
    <2>1. \A u \in PoolThreads : \A p : /\ InCall(u)' <=> InCall(u)
                                        /\ Carries(u, p)' <=> Carries(u, p)
      BY <1>1, <1>2 DEF InCall, Carries
    <2> QED
      BY <1>1, <1>3, <1>9, <2>1 DEF ListInv, Placed
  <1> QED
    BY <1>10, <1>11 DEF ListInv

(* splst_add, second half: the object is the head of the list.                *)
LEMMA LinkHeadStep ==
  ASSUME PoolType, Exclusive, Calls, ListInv, NEW t \in PoolThreads, LinkHead(t)
  PROVE  ListInv'
  <1> DEFINE a == obj[t]
  <1>1. /\ at'[t] = "unlock" /\ obj'[t] = NoObj
        /\ \A u \in PoolThreads \ {t} : at'[u] = at[u] /\ obj'[u] = obj[u]
    BY DEF PoolType, Goto, LinkHead
  <1>2. /\ at[t] = "link" /\ a \in Objs /\ a # NoObj /\ op.next[a] = op.free_elem
        /\ InCall(t) /\ \A p : Carries(t, p) <=> p = a
    BY DEF PoolType, Calls, LinkHead, Carries, InCall
  <1>3. /\ op'.free_elem = a /\ op'.next = op.next /\ op'.blkcnt = op.blkcnt
        /\ taken' = taken
    BY <1>2 DEF PoolType, LinkHead
  <1>4. Free' = {a} \cup Free
    <2>1. a \in DOMAIN op.next
      BY <1>2 DEF PoolType
    <2>2. Reach(op.next, a) = {a} \cup Reach(op.next, op.next[a])
      BY <2>1, ReachUnfold
    <2> QED
      BY <1>2, <1>3, <2>2 DEF Free
  <1>5. Pointers'
    <2>1. \A u \in PoolThreads \ {t} : at[u] # "link"
      BY <1>2, Sole DEF Inside
    <2>2. \A o \in Objs \ Free' : op.next[o] = NoObj
      BY <1>4, <2>1 DEF ListInv, Pointers
    <2> QED
      BY <1>3, <2>2 DEF ListInv, Pointers
  <1>6. Placed'
    <2>1. \A u \in PoolThreads \ {t} : \A p : /\ InCall(u)' <=> InCall(u)
                                              /\ Carries(u, p)' <=> Carries(u, p)
      BY <1>1 DEF InCall, Carries
    <2>2. ~InCall(t)' /\ \A p : ~Carries(t, p)'
      BY <1>1 DEF InCall, Carries
    <2>3. \A u \in PoolThreads \ {t} : ~Carries(u, a)
      BY <1>2 DEF ListInv, Placed, Carries
    <2>4. a \notin taken
      BY <1>2 DEF ListInv, Placed
    <2>5. \A u, v \in PoolThreads : InCall(u)' /\ InCall(v)' /\ obj'[u] = obj'[v] => u = v
      BY <1>1, <2>1, <2>2 DEF ListInv, Placed
    <2>6. \A u \in PoolThreads : InCall(u)' => obj'[u] \notin taken'
      BY <1>1, <1>3, <2>1, <2>2 DEF ListInv, Placed
    <2>7. \A u \in PoolThreads : \A p \in Free' : ~Carries(u, p)'
      BY <1>4, <2>1, <2>2, <2>3 DEF ListInv, Placed
    <2>8. Free' \cap taken' = {}
      BY <1>3, <1>4, <2>4 DEF ListInv, Placed
    <2>9. \A p : (p \in Free' \/ p \in taken' \/ \E u \in PoolThreads : Carries(u, p)')
                   <=> (p \in Free \/ p \in taken \/ \E u \in PoolThreads : Carries(u, p))
      BY <1>2, <1>3, <1>4, <2>1, <2>2
    <2> QED
      BY <1>3, <2>5, <2>6, <2>7, <2>8, <2>9 DEF ListInv, Placed
  <1> QED
    BY <1>5, <1>6 DEF ListInv

(* The call returns: its object, if any, is the caller's.                     *)
LEMMA ReturnStep ==
  ASSUME PoolType, Calls, ListInv, NEW t \in PoolThreads, Return(t)
  PROVE  ListInv'
  <1> DEFINE a == obj[t]
  <1>1. /\ at[t] = "unlock" /\ at'[t] = "out" /\ obj'[t] = NoObj
        /\ \A u \in PoolThreads \ {t} : at'[u] = at[u] /\ obj'[u] = obj[u]
    BY DEF PoolType, Goto, Return
  <1>2. /\ op'.free_elem = op.free_elem /\ op'.next = op.next /\ op'.blkcnt = op.blkcnt
        /\ taken' = taken \cup ({a} \ {NoObj})
    BY DEF PoolType, Return
  <1>3. Free' = Free
    BY <1>2 DEF Free
  <1>4. /\ InCall(t) <=> a # NoObj
        /\ \A p : Carries(t, p) <=> a # NoObj /\ p = a
        /\ ~InCall(t)' /\ \A p : ~Carries(t, p)'
    BY <1>1 DEF InCall, Carries
  <1>5. \A u \in PoolThreads \ {t} : \A p : /\ InCall(u)' <=> InCall(u)
                                            /\ Carries(u, p)' <=> Carries(u, p)
    BY <1>1 DEF InCall, Carries
  <1>6. Pointers'
    BY <1>1, <1>2, <1>3 DEF ListInv, Pointers
  <1>7. Placed'
    <2>1. \A u, v \in PoolThreads : InCall(u)' /\ InCall(v)' /\ obj'[u] = obj'[v] => u = v
      BY <1>1, <1>4, <1>5 DEF ListInv, Placed
    <2>2. \A u \in PoolThreads : InCall(u)' => obj'[u] \notin taken'
      BY <1>1, <1>2, <1>4, <1>5 DEF ListInv, Placed
    <2>3. \A u \in PoolThreads : \A p \in Free' : ~Carries(u, p)'
      BY <1>3, <1>4, <1>5 DEF ListInv, Placed
    <2>4. Free' \cap taken' = {}
      BY <1>2, <1>3, <1>4 DEF ListInv, Placed
    <2>5. \A p : (p \in taken' \/ \E u \in PoolThreads : Carries(u, p)')
                   <=> (p \in taken \/ \E u \in PoolThreads : Carries(u, p))
      BY <1>2, <1>4, <1>5
    <2> QED
      BY <1>2, <1>3, <2>1, <2>2, <2>3, <2>4, <2>5 DEF ListInv, Placed
  <1> QED
    BY <1>6, <1>7 DEF ListInv
-----------------------------------------------------------------------------
(* A pool just initialised, with no call under way, satisfies the invariant.  *)
LEMMA FreshPool == PoolInit => PoolInv
  <1> SUFFICES ASSUME PoolInit PROVE PoolInv
    OBVIOUS
  <1> USE DEF PoolInit
  <1>1. /\ DOMAIN op = {"uselock", "free_elem", "next", "blkcnt", "mutex"}
        /\ op.uselock \in BOOLEAN /\ op.free_elem = NoObj /\ op.blkcnt = 0
        /\ op.next = [o \in Objs |-> NoObj]
    <2>1. ASSUME NEW l \in BOOLEAN, op = objpool_init(l)
          PROVE  /\ DOMAIN op = {"uselock", "free_elem", "next", "blkcnt", "mutex"}
                 /\ op.uselock = l /\ op.free_elem = NoObj /\ op.blkcnt = 0
                 /\ op.next = [o \in Objs |-> NoObj]
      BY <2>1 DEF objpool_init
    <2> QED
      BY <2>1
  <1>2. PoolType
    BY <1>1, PoolAssumption DEF PoolType, Places
  <1>3. Free = {} /\ NoObj \notin Objs /\ Objs \subseteq Nat
    BY <1>1, <1>2, FreeObjs DEF Objs, NoObj
  <1>4. Exclusive /\ Calls
    BY DEF Exclusive, Calls, Inside
  <1>5. Acyclic(op.next)
    BY <1>1, <1>3, DownAcyclic
  <1>6. Pointers
    BY <1>1, <1>5 DEF Pointers
  <1>7. \A o \in Objs : ~(o <= BlkSize * op.blkcnt)
    <2>1. BlkSize * 0 = 0
      BY PoolAssumption
    <2> QED
      BY <1>1, <2>1 DEF Objs
  <1>8. Placed
    BY <1>3, <1>7 DEF Placed, Carries, InCall
  <1> QED
    BY <1>2, <1>4, <1>6, <1>8 DEF PoolInv

(* The invariant holds in every state.                                        *)
LEMMA PoolInvariant == PoolSpec => []PoolInv
  <1>1. PoolInit => PoolInv
    BY FreshPool
  <1>2. PoolInv /\ [PoolNext]_poolvars => PoolInv'
    <2> SUFFICES ASSUME PoolInv, [PoolNext]_poolvars PROVE PoolInv'
      OBVIOUS
    <2>0. PoolType /\ Exclusive /\ Calls /\ ListInv
      BY DEF PoolInv, ListInv
    <2>1. CASE UNCHANGED poolvars
      BY <2>1 DEF poolvars, PoolInv, PoolType, Exclusive, Callers, Calls, Pointers, Free, Placed,
              Carries, InCall
    <2>2. CASE objpool_destroy
      <3>1. PoolInit'
        <4>1. at' = [t \in PoolThreads |-> "out"] /\ obj' = [t \in PoolThreads |-> NoObj]
          BY <2>0, <2>2 DEF objpool_destroy, PoolType, Calls
        <4> QED
          BY <2>2, <4>1 DEF objpool_destroy, PoolInit, objpool_init
      <3> QED
        BY <3>1, FreshPool, PTL
    <2>3. ASSUME NEW t \in Callers, Operation(t) PROVE PoolInv'
      <3>1. t \in PoolThreads
        BY CallersThreads
      <3>2. PoolType' /\ Exclusive' /\ Calls'
        BY <2>0, <2>3, <3>1, TypeStep, ExclusiveStep, CallsStep
      <3>3. ListInv'
        BY <2>0, <2>3, <3>1, IdleStep, CallFreeStep, ReadHeadStep, UnlinkStep, NewBlockStep,
           LinkNextStep, LinkHeadStep, ReturnStep DEF Operation
      <3> QED
        BY <3>2, <3>3 DEF PoolInv, ListInv
    <2> QED
      BY <2>1, <2>2, <2>3 DEF PoolNext, Operation
  <1> QED
    BY <1>1, <1>2, PTL DEF PoolSpec

(* No object is handed to two callers and none is lost, whichever threads get *)
(* and free objects at the same time, with the lock, and without it from one  *)
(* thread.                                                                    *)
THEOREM HandedOnce == PoolSpec => []NoObjectTwice
  <1>1. PoolInv => NoObjectTwice
    BY PlacedIsNoObjectTwice DEF PoolInv
  <1> QED
    BY <1>1, PoolInvariant, PTL
-----------------------------------------------------------------------------
(* Units *)

UnitRec == [r : Nat, data : Seq(Bytes)]

\* The offsets of the read and of the write pointer of unit i.
Rptr(us, i) == us[i].r
Wptr(us, i) == Len(us[i].data)

\* Units linked to a chain: only the last one has room, and only from the first
\* one something was read.
Chain(us) ==
    /\ us \in Seq(UnitRec)
    /\ \A i \in 1..Len(us) :
          /\ Rptr(us, i) <= Wptr(us, i) /\ Wptr(us, i) <= UnitSize
          /\ i < Len(us) => Wptr(us, i) = UnitSize
          /\ i > 1 => Rptr(us, i) = 0

\* The number of bytes in the units before unit i.
Start(i) == (i - 1) * UnitSize

Size(us) == IF us = <<>> THEN 0 ELSE Start(Len(us)) + Wptr(us, Len(us)) - Rptr(us, 1)

\* What is to be read from the chain is s from its byte d + 1 on.
Held(us, s, d) ==
    \A i \in 1..Len(us) : \A o \in 1..Wptr(us, i) :
        o > Rptr(us, i) => us[i].data[o] = s[d + (Start(i) + o - Rptr(us, 1))]

(* The first byte of a unit is UnitSize bytes after that of the one before.   *)
LEMMA StartNext ==
  /\ Start(1) = 0 /\ \A i \in Nat : Start(i + 1) = Start(i) + UnitSize
  /\ \A i \in Nat \ {0} : Start(i) \in Nat
  /\ \A i, j \in Nat \ {0} : i <= j => Start(i) <= Start(j)
  <1> USE BufferAssumption
  <1>1. Start(1) = 0 /\ \A i \in Nat : Start(i + 1) = Start(i) + UnitSize
    BY DEF Start
  <1>2. \A i \in Nat \ {0} : Start(i) \in Nat
    BY DEF Start
  <1>3. ASSUME NEW i \in Nat \ {0}, NEW j \in Nat \ {0}, i <= j PROVE Start(i) <= Start(j)
    <2>1. j - i \in Nat /\ (j - i) * UnitSize \in Nat
      BY <1>3
    <2>2. (j - 1) * UnitSize = (i - 1) * UnitSize + (j - i) * UnitSize
      BY <1>3
    <2> QED
      BY <2>1, <2>2, <1>2, <1>3 DEF Start
  <1> QED
    BY <1>1, <1>2, <1>3

(* What is known of a unit of a chain.                                        *)
LEMMA ChainUnit ==
  ASSUME NEW us, Chain(us), NEW i \in 1..Len(us)
  PROVE  /\ us[i] \in UnitRec /\ us[i].data \in Seq(Bytes)
         /\ Rptr(us, i) \in Nat /\ Wptr(us, i) \in Nat
         /\ Rptr(us, i) <= Wptr(us, i) /\ Wptr(us, i) <= UnitSize
         /\ i < Len(us) => Wptr(us, i) = UnitSize
         /\ i > 1 => Rptr(us, i) = 0
         /\ Start(i) \in Nat
  <1>1. us[i] \in UnitRec
    BY ElementOfSeq DEF Chain
  <1>2. Rptr(us, i) \in Nat /\ us[i].data \in Seq(Bytes)
    BY <1>1 DEF UnitRec, Rptr
  <1>3. Wptr(us, i) \in Nat
    BY <1>2, LenProperties DEF Wptr
  <1>4. i \in Nat \ {0} /\ Start(i) \in Nat
    <2>1. Len(us) \in Nat
      BY LenProperties DEF Chain
    <2>2. i \in Nat \ {0}
      BY <2>1
    <2> QED
      BY <2>2, StartNext
  <1> QED
    BY <1>1, <1>2, <1>3, <1>4 DEF Chain

(* And of one that is not empty.                                              *)
LEMMA ChainLen ==
  ASSUME NEW us, Chain(us)
  PROVE  /\ Len(us) \in Nat
         /\ us # <<>> => Len(us) >= 1 /\ 1 \in 1..Len(us) /\ Len(us) \in 1..Len(us)
  BY LenProperties, EmptySeq DEF Chain

(* A byte that is to be read is among the Size(us) bytes of the chain.        *)
LEMMA InSize ==
  ASSUME NEW us, Chain(us), NEW i \in 1..Len(us), NEW o \in 1..Wptr(us, i), o > Rptr(us, i)
  PROVE  Start(i) + o - Rptr(us, 1) \in 1..Size(us)
  <1> USE BufferAssumption
  <1> DEFINE n == Len(us)
  <1>1. n \in Nat /\ n >= 1 /\ i \in 1..n /\ 1 \in 1..n /\ n \in 1..n
    BY LenProperties DEF Chain
  <1>2. Size(us) = Start(n) + Wptr(us, n) - Rptr(us, 1)
    BY <1>1 DEF Size
  <1>3. /\ Rptr(us, i) \in Nat /\ Wptr(us, i) \in Nat /\ Wptr(us, i) <= UnitSize
        /\ Start(i) \in Nat
    BY ChainUnit
  <1>4. /\ Rptr(us, 1) \in Nat /\ Wptr(us, 1) \in Nat /\ Rptr(us, 1) <= Wptr(us, 1)
        /\ Wptr(us, 1) <= UnitSize /\ Wptr(us, n) \in Nat /\ Start(n) \in Nat
    BY <1>1, ChainUnit
  <1> HIDE DEF n
  <1>5. Start(i) + o - Rptr(us, 1) >= 1
    <2>1. CASE i = 1
      BY <1>3, <2>1, StartNext
    <2>2. CASE i > 1
      <3>1. 2 \in Nat \ {0} /\ i \in Nat \ {0} /\ 2 <= i /\ 1 \in Nat
        BY <1>1, <2>2
      <3>2. Start(2) <= Start(i) /\ Start(1 + 1) = UnitSize
        BY <3>1, StartNext
      <3> QED
        BY <1>3, <1>4, <3>2
    <2> QED
      BY <1>1, <2>1, <2>2
  <1>6. Start(i) + o <= Start(n) + Wptr(us, n)
    <2>1. CASE i = n
      BY <1>3, <2>1
    <2>2. CASE i < n
      <3>1. i \in Nat /\ i + 1 \in Nat \ {0} /\ i + 1 <= n /\ n \in Nat \ {0}
        BY <1>1, <2>2
      <3>2. Start(i) + UnitSize <= Start(n)
        BY <3>1, StartNext
      <3> QED
        BY <1>3, <1>4, <3>2
    <2> QED
      BY <1>1, <2>1, <2>2
  <1> QED
    BY <1>2, <1>3, <1>4, <1>5, <1>6

(* The size is a number of bytes, those of the first unit among them.         *)
LEMMA SizeNat ==
  ASSUME NEW us, Chain(us)
  PROVE  /\ Size(us) \in Nat
         /\ us # <<>> => /\ Size(us) = Start(Len(us)) + Wptr(us, Len(us)) - Rptr(us, 1)
                         /\ Wptr(us, 1) - Rptr(us, 1) <= Size(us)
  <1> USE BufferAssumption
  <1>1. CASE us = <<>>
    BY <1>1 DEF Size
  <1>2. CASE us # <<>>
    <2> DEFINE n == Len(us)
    <2>1. n \in Nat \ {0} /\ 1 \in 1..n /\ n \in 1..n
      BY <1>2, ChainLen
    <2>2. Size(us) = Start(n) + Wptr(us, n) - Rptr(us, 1)
      BY <1>2 DEF Size
    <2>3. /\ Rptr(us, 1) \in Nat /\ Wptr(us, 1) \in Nat /\ Rptr(us, 1) <= Wptr(us, 1)
          /\ Wptr(us, 1) <= UnitSize /\ Wptr(us, n) \in Nat /\ Start(n) \in Nat
      BY <2>1, ChainUnit
    <2> HIDE DEF n
    <2>4. Wptr(us, 1) <= Start(n) + Wptr(us, n)
      <3>1. CASE n = 1
        BY <2>3, <3>1
      <3>2. CASE n > 1
        <4>1. 2 \in Nat \ {0} /\ 2 <= n /\ 1 \in Nat
          BY <2>1, <3>2
        <4>2. Start(2) <= Start(n) /\ Start(1 + 1) = UnitSize
          BY <2>1, <4>1, StartNext
        <4> QED
          BY <2>3, <4>2
      <3> QED
        BY <2>1, <3>1, <3>2
    <2>5. Size(us) \in Nat /\ Wptr(us, 1) - Rptr(us, 1) <= Size(us)
      BY <2>2, <2>3, <2>4
    <2> QED
      BY <2>2, <2>5 DEF n
  <1> QED
    BY <1>1, <1>2

(* It depends on the bytes to be read only which sequence the chain holds.    *)
LEMMA HeldSame ==
  ASSUME NEW us, Chain(us), NEW s, NEW d \in Nat, Held(us, s, d), NEW t, NEW e \in Nat,
         \A k \in 1..Size(us) : t[e + k] = s[d + k]
  PROVE  Held(us, t, e)
  <1> SUFFICES ASSUME NEW i \in 1..Len(us), NEW o \in 1..Wptr(us, i), o > Rptr(us, i)
               PROVE  us[i].data[o] = t[e + (Start(i) + o - Rptr(us, 1))]
    BY DEF Held
  <1> DEFINE k == Start(i) + o - Rptr(us, 1)
  <1>1. k \in 1..Size(us)
    BY InSize
  <1>2. us[i].data[o] = s[d + k]
    BY DEF Held
  <1> HIDE DEF k
  <1>3. us[i].data[o] = t[e + k]
    BY <1>1, <1>2
  <1> QED
    BY <1>3 DEF k

(* A new unit behind a full one changes nothing of what is to be read.        *)
LEMMA UnitAdded ==
  ASSUME NEW us, Chain(us), us = <<>> \/ Wptr(us, Len(us)) = UnitSize
  PROVE  LET vs == Append(us, bufunit_clear)
         IN  /\ Chain(vs) /\ Size(vs) = Size(us) /\ vs # <<>> /\ Len(vs) = Len(us) + 1
             /\ Wptr(vs, Len(vs)) = 0
             /\ \A s, d : Held(us, s, d) => Held(vs, s, d)
  <1> USE BufferAssumption
  <1> DEFINE vs == Append(us, bufunit_clear)
             n  == Len(us)
  <1>0. n \in Nat /\ us \in Seq(UnitRec)
    BY ChainLen DEF Chain
  <1>1. bufunit_clear \in UnitRec
    BY DEF UnitRec, bufunit_clear
  <1>2. /\ vs \in Seq(UnitRec) /\ vs # <<>> /\ Len(vs) = n + 1
        /\ \A i \in 1..n : vs[i] = us[i]
        /\ vs[n + 1] = bufunit_clear
    BY <1>0, <1>1, AppendProperties
  <1> HIDE DEF vs
  <1>3. /\ \A i \in 1..n : Rptr(vs, i) = Rptr(us, i) /\ Wptr(vs, i) = Wptr(us, i)
        /\ Rptr(vs, n + 1) = 0 /\ Wptr(vs, n + 1) = 0
    BY <1>2 DEF Rptr, Wptr, bufunit_clear
  <1>4. Chain(vs)
    <2> SUFFICES ASSUME NEW i \in 1..n + 1
                 PROVE  /\ Rptr(vs, i) <= Wptr(vs, i) /\ Wptr(vs, i) <= UnitSize
                        /\ i < n + 1 => Wptr(vs, i) = UnitSize
                        /\ i > 1 => Rptr(vs, i) = 0
      BY <1>2 DEF Chain
    <2>1. CASE i = n + 1
      BY <1>3, <2>1
    <2>2. CASE i # n + 1
      <3>1. i \in 1..n /\ us # <<>>
        BY <1>0, <2>2
      <3>2. Wptr(us, i) = UnitSize /\ Rptr(us, i) <= Wptr(us, i) /\ (i > 1 => Rptr(us, i) = 0)
        BY <1>0, <3>1, ChainUnit
      <3> QED
        BY <1>3, <3>1, <3>2
    <2> QED
      BY <2>1, <2>2
  <1>5. Size(vs) = Size(us)
    <2>1. Size(vs) = Start(n + 1) + 0 - Rptr(vs, 1)
      BY <1>2, <1>3 DEF Size
    <2>2. CASE us = <<>>
      <3>1. n = 0 /\ Size(us) = 0
        BY <2>2 DEF Size
      <3> QED
        BY <1>3, <2>1, <3>1, StartNext
    <2>3. CASE us # <<>>
      <3>1. 1 \in 1..n /\ n \in 1..n /\ Size(us) = Start(n) + Wptr(us, n) - Rptr(us, 1)
        BY <2>3, ChainLen, SizeNat
      <3>2. Start(n + 1) = Start(n) + UnitSize /\ Rptr(vs, 1) = Rptr(us, 1)
        BY <1>0, <1>3, <3>1, StartNext
      <3>3. Start(n) \in Nat /\ Rptr(us, 1) \in Nat /\ Wptr(us, n) = UnitSize
        BY <2>3, <3>1, ChainUnit
      <3> QED
        BY <2>1, <3>1, <3>2, <3>3
    <2> QED
      BY <2>2, <2>3
  <1>6. ASSUME NEW s, NEW d, Held(us, s, d) PROVE Held(vs, s, d)
    <2> SUFFICES ASSUME NEW i \in 1..n + 1, NEW o \in 1..Wptr(vs, i), o > Rptr(vs, i)
                 PROVE  vs[i].data[o] = s[d + (Start(i) + o - Rptr(vs, 1))]
      BY <1>2 DEF Held
    <2>1. i \in 1..n /\ 1 \in 1..n
      BY <1>0, <1>3
    <2>2. vs[i] = us[i] /\ Rptr(vs, i) = Rptr(us, i) /\ Wptr(vs, i) = Wptr(us, i)
          /\ Rptr(vs, 1) = Rptr(us, 1)
      BY <1>2, <1>3, <2>1
    <2> QED
      BY <1>6, <2>1, <2>2 DEF Held
  <1> QED
    BY <1>2, <1>3, <1>4, <1>5, <1>6 DEF vs

(* Bytes that fit into the last unit become the last ones of the chain.       *)
LEMMA UnitFilled ==
  ASSUME NEW us, Chain(us), us # <<>>, NEW c \in Seq(Bytes),
         Len(c) <= UnitSize - Wptr(us, Len(us))
  PROVE  LET vs == [us EXCEPT ![Len(us)].data = @ \o c]
         IN  /\ Chain(vs) /\ Size(vs) = Size(us) + Len(c) /\ vs # <<>>
             /\ Wptr(vs, Len(vs)) = Wptr(us, Len(us)) + Len(c)
             /\ \A s, d : d \in Nat /\ Held(us, s, d)
                            /\ (\A k \in 1..Len(c) : s[d + (Size(us) + k)] = c[k])
                          => Held(vs, s, d)
  <1> USE BufferAssumption
  <1> DEFINE n  == Len(us)
             vs == [us EXCEPT ![n].data = @ \o c]
             x  == us[n].data \o c
  <1>0. n \in Nat \ {0} /\ us \in Seq(UnitRec) /\ n \in 1..n /\ 1 \in 1..n /\ Len(c) \in Nat
    BY ChainLen, LenProperties DEF Chain
  <1>1. /\ us[n] \in UnitRec /\ us[n].data \in Seq(Bytes) /\ Wptr(us, n) \in Nat
        /\ Rptr(us, n) \in Nat /\ Rptr(us, n) <= Wptr(us, n) /\ Wptr(us, n) <= UnitSize
        /\ (n > 1 => Rptr(us, n) = 0) /\ Start(n) \in Nat /\ Rptr(us, 1) \in Nat
    BY <1>0, ChainUnit
  <1>2. /\ x \in Seq(Bytes) /\ Len(x) = Len(us[n].data) + Len(c)
        /\ \A i \in 1..Len(us[n].data) + Len(c) :
              x[i] = IF i <= Len(us[n].data) THEN us[n].data[i] ELSE c[i - Len(us[n].data)]
    BY <1>1, ConcatProperties
  <1> HIDE DEF x
  <1>3. vs = [us EXCEPT ![n] = [us[n] EXCEPT !.data = x]] /\ [us[n] EXCEPT !.data = x] \in UnitRec
    BY <1>0, <1>1, <1>2 DEF UnitRec, x
  <1> HIDE DEF vs
  <1>4. /\ vs \in Seq(UnitRec) /\ Len(vs) = n
        /\ \A i \in 1..n : vs[i] = IF i = n THEN [us[n] EXCEPT !.data = x] ELSE us[i]
    BY <1>0, <1>3, ExceptSeq
  <1>5. /\ vs[n].data = x /\ Rptr(vs, n) = Rptr(us, n) /\ Wptr(vs, n) = Wptr(us, n) + Len(c)
        /\ \A i \in 1..n : i # n =>
              vs[i] = us[i] /\ Rptr(vs, i) = Rptr(us, i) /\ Wptr(vs, i) = Wptr(us, i)
    BY <1>0, <1>1, <1>2, <1>4 DEF UnitRec, Rptr, Wptr
  <1> HIDE DEF n
  <1>6. Rptr(vs, 1) = Rptr(us, 1)
    BY <1>0, <1>5
  <1>7. Chain(vs)
    <2> SUFFICES ASSUME NEW i \in 1..n
                 PROVE  /\ Rptr(vs, i) <= Wptr(vs, i) /\ Wptr(vs, i) <= UnitSize
                        /\ i < n => Wptr(vs, i) = UnitSize
                        /\ i > 1 => Rptr(vs, i) = 0
      BY <1>4 DEF Chain
    <2>1. CASE i = n
      BY <1>0, <1>1, <1>5, <2>1 DEF n
    <2>2. CASE i # n
      <3>1. /\ Rptr(us, i) <= Wptr(us, i) /\ Wptr(us, i) <= UnitSize
            /\ i < n => Wptr(us, i) = UnitSize
            /\ i > 1 => Rptr(us, i) = 0
        BY ChainUnit DEF n
      <3> QED
        BY <1>5, <2>2, <3>1
    <2> QED
      BY <2>1, <2>2
  <1>8. vs # <<>>
    BY <1>0, <1>4
  <1>9. Size(vs) = Size(us) + Len(c)
    <2>1. Size(vs) = Start(n) + Wptr(vs, n) - Rptr(vs, 1)
      BY <1>4, <1>8 DEF Size
    <2>2. Size(us) = Start(n) + Wptr(us, n) - Rptr(us, 1)
      BY DEF Size, n
    <2> QED
      BY <1>0, <1>1, <1>5, <1>6, <2>1, <2>2
  <1>10. ASSUME NEW s, NEW d \in Nat, Held(us, s, d),
                \A k \in 1..Len(c) : s[d + (Size(us) + k)] = c[k]
         PROVE  Held(vs, s, d)
    <2> SUFFICES ASSUME NEW i \in 1..n, NEW o \in 1..Wptr(vs, i), o > Rptr(vs, i)
                 PROVE  vs[i].data[o] = s[d + (Start(i) + o - Rptr(us, 1))]
      BY <1>4, <1>6 DEF Held
    <2>1. CASE i # n
      BY <1>5, <1>10, <2>1 DEF Held, n
    <2>2. CASE i = n /\ o <= Wptr(us, n)
      <3>1. vs[i].data[o] = us[n].data[o]
        BY <1>1, <1>2, <1>5, <2>2 DEF Wptr
      <3>2. o \in 1..Wptr(us, n) /\ o > Rptr(us, n)
        BY <1>1, <1>5, <2>2
      <3>3. us[n].data[o] = s[d + (Start(n) + o - Rptr(us, 1))]
        BY <1>0, <1>10, <3>2 DEF Held, n
      <3> QED
        BY <2>2, <3>1, <3>3
    <2>3. CASE i = n /\ o > Wptr(us, n)
      <3> DEFINE k == o - Wptr(us, n)
      <3>1. o \in Nat /\ o <= Wptr(us, n) + Len(c)
        BY <1>0, <1>1, <1>5, <2>3
      <3>2. k \in 1..Len(c)
        BY <1>0, <1>1, <2>3, <3>1
      <3>3. vs[i].data[o] = c[k]
        <4>1. o \in 1..Len(us[n].data) + Len(c) /\ ~(o <= Len(us[n].data))
          BY <1>0, <1>1, <2>3, <3>1 DEF Wptr
        <4>2. x[o] = c[o - Len(us[n].data)]
          BY <1>2, <4>1
        <4> QED
          BY <1>5, <2>3, <4>2 DEF Wptr
      <3>4. Size(us) = Start(n) + Wptr(us, n) - Rptr(us, 1)
        BY DEF Size, n
      <3>5. Size(us) + k = Start(i) + o - Rptr(us, 1)
        BY <1>1, <2>3, <3>1, <3>4
      <3> QED
        BY <1>10, <3>2, <3>3, <3>5
    <2> QED
      BY <1>0, <1>1, <1>5, <2>1, <2>2, <2>3
  <1>11. /\ Chain(vs) /\ Size(vs) = Size(us) + Len(c) /\ vs # <<>>
         /\ Wptr(vs, Len(vs)) = Wptr(us, n) + Len(c)
         /\ \A s, d : d \in Nat /\ Held(us, s, d)
                        /\ (\A k \in 1..Len(c) : s[d + (Size(us) + k)] = c[k])
                      => Held(vs, s, d)
    BY <1>4, <1>5, <1>7, <1>8, <1>9, <1>10
  <1> QED
    BY <1>11 DEF vs, n

\* The chain after n bytes left its first unit.
DrainedUnits(us, n) ==
    CASE n < bufunit_used(us[1]) -> [us EXCEPT ![1].r = @ + n]
      [] n = bufunit_used(us[1]) /\ Len(us) = 1 -> [us EXCEPT ![1] = bufunit_clear]
      [] OTHER -> Tail(us)

(* The read pointer of the first unit moves on.                               *)
LEMMA UnitRead ==
  ASSUME NEW us, Chain(us), us # <<>>, NEW m \in Nat, m < Wptr(us, 1) - Rptr(us, 1)
  PROVE  LET vs == [us EXCEPT ![1].r = @ + m]
         IN  /\ Chain(vs) /\ Size(vs) = Size(us) - m /\ Len(vs) = Len(us)
             /\ \A s, d : d \in Nat /\ Held(us, s, d) => Held(vs, s, d + m)
  <1> USE BufferAssumption
  <1> DEFINE n  == Len(us)
             vs == [us EXCEPT ![1].r = @ + m]
             u  == [us[1] EXCEPT !.r = us[1].r + m]
  <1>0. n \in Nat \ {0} /\ us \in Seq(UnitRec) /\ n \in 1..n /\ 1 \in 1..n
    BY ChainLen DEF Chain
  <1>1. /\ us[1] \in UnitRec /\ us[1].data \in Seq(Bytes) /\ Wptr(us, 1) \in Nat
        /\ Rptr(us, 1) \in Nat /\ Rptr(us, 1) <= Wptr(us, 1) /\ Wptr(us, 1) <= UnitSize
        /\ Start(n) \in Nat /\ Wptr(us, n) \in Nat
    BY <1>0, ChainUnit
  <1>2. /\ vs = [us EXCEPT ![1] = u] /\ u \in UnitRec
        /\ u.r = Rptr(us, 1) + m /\ u.data = us[1].data
    <2>1. us[1].r \in Nat /\ us[1].r + m \in Nat
      BY <1>1 DEF UnitRec
    <2>2. u \in UnitRec /\ u.r = us[1].r + m /\ u.data = us[1].data
      BY <1>1, <2>1 DEF UnitRec
    <2>3. vs = [us EXCEPT ![1] = u]
      BY <1>0
    <2> QED
      BY <2>2, <2>3 DEF Rptr
  <1> HIDE DEF vs, u
  <1>3. /\ vs \in Seq(UnitRec) /\ Len(vs) = n
        /\ \A i \in 1..n : vs[i] = IF i = 1 THEN u ELSE us[i]
    BY <1>0, <1>2, ExceptSeq
  <1>4. /\ Rptr(vs, 1) = Rptr(us, 1) + m
        /\ \A i \in 1..n : i > 1 => Rptr(vs, i) = Rptr(us, i)
        /\ \A i \in 1..n : vs[i].data = us[i].data /\ Wptr(vs, i) = Wptr(us, i)
    BY <1>0, <1>2, <1>3 DEF Rptr, Wptr
  <1> HIDE DEF n
  <1>5. Chain(vs)
    <2> SUFFICES ASSUME NEW i \in 1..n
                 PROVE  /\ Rptr(vs, i) <= Wptr(vs, i) /\ Wptr(vs, i) <= UnitSize
                        /\ i < n => Wptr(vs, i) = UnitSize
                        /\ i > 1 => Rptr(vs, i) = 0
      BY <1>3 DEF Chain
    <2>1. /\ Rptr(us, i) <= Wptr(us, i) /\ Wptr(us, i) <= UnitSize
          /\ i < n => Wptr(us, i) = UnitSize
          /\ i > 1 => Rptr(us, i) = 0
      BY ChainUnit DEF n
    <2>2. CASE i = 1
      BY <1>1, <1>4, <2>1, <2>2
    <2>3. CASE i > 1
      BY <1>4, <2>1, <2>3
    <2> QED
      BY <1>0, <2>2, <2>3
  <1>6. Size(vs) = Size(us) - m
    <2>1. Size(us) = Start(n) + Wptr(us, n) - Rptr(us, 1)
      BY SizeNat DEF n
    <2>2. vs # <<>>
      BY <1>0, <1>3
    <2>3. Size(vs) = Start(n) + Wptr(vs, n) - Rptr(vs, 1)
      BY <1>3, <2>2 DEF Size
    <2>4. Wptr(vs, n) = Wptr(us, n) /\ Rptr(vs, 1) = Rptr(us, 1) + m
      BY <1>0, <1>4
    <2> QED
      BY <1>1, <2>1, <2>3, <2>4
  <1>7. ASSUME NEW s, NEW d \in Nat, Held(us, s, d) PROVE Held(vs, s, d + m)
    <2> SUFFICES ASSUME NEW i \in 1..n, NEW o \in 1..Wptr(vs, i), o > Rptr(vs, i)
                 PROVE  vs[i].data[o] = s[d + m + (Start(i) + o - Rptr(vs, 1))]
      BY <1>3 DEF Held
    <2>1. o \in 1..Wptr(us, i) /\ vs[i].data[o] = us[i].data[o] /\ o \in Int
      BY <1>4
    <2>2. o > Rptr(us, i)
      BY <1>0, <1>1, <1>4, <2>1
    <2>3. us[i].data[o] = s[d + (Start(i) + o - Rptr(us, 1))]
      BY <1>7, <2>1, <2>2 DEF Held, n
    <2>4. Start(i) \in Nat
      BY ChainUnit DEF n
    <2>5. d + m + (Start(i) + o - Rptr(vs, 1)) = d + (Start(i) + o - Rptr(us, 1))
      BY <1>1, <1>4, <2>1, <2>4
    <2> QED
      BY <2>1, <2>3, <2>5
  <1> QED
    BY <1>3, <1>5, <1>6, <1>7 DEF vs, n

(* The emptied first unit leaves a chain of more than one.                    *)
LEMMA UnitRemoved ==
  ASSUME NEW us, Chain(us), Len(us) > 1
  PROVE  LET vs == Tail(us)
             m  == Wptr(us, 1) - Rptr(us, 1)
         IN  /\ Chain(vs) /\ Size(vs) = Size(us) - m /\ Len(vs) = Len(us) - 1
             /\ \A s, d : d \in Nat /\ Held(us, s, d) => Held(vs, s, d + m)
  <1> USE BufferAssumption
  <1> DEFINE n  == Len(us)
             vs == Tail(us)
             m  == Wptr(us, 1) - Rptr(us, 1)
  <1>0. n \in Nat /\ n > 1 /\ us \in Seq(UnitRec) /\ n \in 1..n /\ 1 \in 1..n /\ 2 \in 1..n
        /\ us # <<>>
    BY ChainLen DEF Chain
  <1>1. /\ vs \in Seq(UnitRec) /\ Len(vs) = n - 1 /\ \A i \in 1..n - 1 : vs[i] = us[i + 1]
    BY <1>0, HeadTailProperties
  <1> HIDE DEF vs
  <1>2. \A i \in 1..n - 1 : Rptr(vs, i) = Rptr(us, i + 1) /\ Wptr(vs, i) = Wptr(us, i + 1)
    BY <1>1 DEF Rptr, Wptr
  <1>3. /\ Wptr(us, 1) = UnitSize /\ Rptr(us, 1) \in Nat /\ Rptr(us, 2) = 0
        /\ Wptr(us, n) \in Nat /\ Start(n) \in Nat
    BY <1>0, ChainUnit
  <1>4. Rptr(vs, 1) = 0 /\ m = UnitSize - Rptr(us, 1) /\ m \in Int
    BY <1>0, <1>2, <1>3
  <1> HIDE DEF n, m
  <1>5. Chain(vs)
    <2> SUFFICES ASSUME NEW i \in 1..n - 1
                 PROVE  /\ Rptr(vs, i) <= Wptr(vs, i) /\ Wptr(vs, i) <= UnitSize
                        /\ i < n - 1 => Wptr(vs, i) = UnitSize
                        /\ i > 1 => Rptr(vs, i) = 0
      BY <1>1 DEF Chain
    <2>1. i + 1 \in 1..n /\ (i < n - 1 => i + 1 < n) /\ i + 1 > 1
      BY <1>0
    <2>2. /\ Rptr(us, i + 1) <= Wptr(us, i + 1) /\ Wptr(us, i + 1) <= UnitSize
          /\ i + 1 < n => Wptr(us, i + 1) = UnitSize
          /\ i + 1 > 1 => Rptr(us, i + 1) = 0
      BY <2>1, ChainUnit DEF n
    <2> QED
      BY <1>2, <2>1, <2>2
  <1>6. Size(vs) = Size(us) - m
    <2>1. Size(us) = Start(n) + Wptr(us, n) - Rptr(us, 1)
      BY <1>0, SizeNat DEF n
    <2>2. vs # <<>>
      BY <1>0, <1>1
    <2>3. Size(vs) = Start(n - 1) + Wptr(vs, n - 1) - Rptr(vs, 1)
      BY <1>1, <2>2 DEF Size
    <2>4. Wptr(vs, n - 1) = Wptr(us, n)
      <3>1. n - 1 \in 1..n - 1 /\ n - 1 + 1 = n
        BY <1>0
      <3> QED
        BY <1>2, <3>1
    <2>5. Start(n) = Start(n - 1) + UnitSize /\ Start(n - 1) \in Nat
      <3>1. n - 1 \in Nat /\ n - 1 \in Nat \ {0} /\ n - 1 + 1 = n
        BY <1>0
      <3> QED
        BY <3>1, StartNext
    <2> QED
      BY <1>3, <1>4, <2>1, <2>3, <2>4, <2>5
  <1>7. ASSUME NEW s, NEW d \in Nat, Held(us, s, d) PROVE Held(vs, s, d + m)
    <2> SUFFICES ASSUME NEW i \in 1..n - 1, NEW o \in 1..Wptr(vs, i), o > Rptr(vs, i)
                 PROVE  vs[i].data[o] = s[d + m + (Start(i) + o - Rptr(vs, 1))]
      BY <1>1 DEF Held
    <2>1. i + 1 \in 1..n /\ i \in Nat /\ i \in Nat \ {0} /\ i \in 1..n
      BY <1>0
    <2>2. o \in 1..Wptr(us, i + 1) /\ vs[i].data[o] = us[i + 1].data[o] /\ o \in Int
          /\ o > Rptr(us, i + 1)
      BY <1>1, <1>2
    <2>3. us[i + 1].data[o] = s[d + (Start(i + 1) + o - Rptr(us, 1))]
      BY <1>7, <2>1, <2>2 DEF Held, n
    <2>4. Start(i) \in Nat /\ Start(i + 1) = Start(i) + UnitSize
      BY <2>1, StartNext
    <2>5. d + m + (Start(i) + o - Rptr(vs, 1)) = d + (Start(i + 1) + o - Rptr(us, 1))
      <3> DEFINE st == Start(i)
                 r1 == Rptr(us, 1)
      <3>1. /\ st \in Nat /\ r1 \in Nat /\ Start(i + 1) = st + UnitSize
            /\ m = UnitSize - r1 /\ Rptr(vs, 1) = 0 /\ o \in Int
        BY <1>3, <1>4, <2>2, <2>4
      <3> HIDE DEF st, r1
      <3>2. d + m + (st + o - 0) = d + (st + UnitSize + o - r1)
        BY <3>1
      <3> QED
        BY <3>1, <3>2 DEF st, r1
    <2> QED
      BY <2>2, <2>3, <2>5
  <1> QED
    BY <1>1, <1>5, <1>6, <1>7 DEF vs, n, m

(* However it happens, what leaves the first unit are the first bytes.        *)
LEMMA UnitDrained ==
  ASSUME NEW us, Chain(us), us # <<>>, NEW m \in 0..Wptr(us, 1) - Rptr(us, 1)
  PROVE  LET vs == DrainedUnits(us, m)
         IN  /\ Chain(vs) /\ Size(vs) = Size(us) - m /\ vs # <<>>
             /\ \A s, d : d \in Nat /\ Held(us, s, d) => Held(vs, s, d + m)
  <1> DEFINE vs == DrainedUnits(us, m)
             n  == Len(us)
  <1>0. n \in Nat \ {0} /\ us \in Seq(UnitRec) /\ n \in 1..n /\ 1 \in 1..n
    BY ChainLen DEF Chain
  <1>1. /\ Wptr(us, 1) \in Nat /\ Rptr(us, 1) \in Nat /\ m \in Nat
        /\ bufunit_used(us[1]) = Wptr(us, 1) - Rptr(us, 1)
    BY <1>0, ChainUnit DEF bufunit_used, Wptr, Rptr
  <1>2. CASE m < Wptr(us, 1) - Rptr(us, 1)
    <2>1. vs = [us EXCEPT ![1].r = @ + m]
      BY <1>1, <1>2 DEF DrainedUnits
    <2>2. /\ Chain(vs) /\ Size(vs) = Size(us) - m /\ Len(vs) = Len(us)
          /\ \A s, d : d \in Nat /\ Held(us, s, d) => Held(vs, s, d + m)
      <3> DEFINE w == [us EXCEPT ![1].r = @ + m]
      <3>1. /\ Chain(w) /\ Size(w) = Size(us) - m /\ Len(w) = Len(us)
            /\ \A s, d : d \in Nat /\ Held(us, s, d) => Held(w, s, d + m)
        BY <1>1, <1>2, UnitRead, Zenon
      <3>2. vs = w
        BY <2>1
      <3> HIDE DEF w, vs
      <3> QED
        BY <3>1, <3>2
    <2>3. vs # <<>>
      BY <1>0, <2>2
    <2> QED
      BY <2>2, <2>3
  <1>3. CASE m = Wptr(us, 1) - Rptr(us, 1) /\ n = 1
    <2>1. vs = [us EXCEPT ![1] = bufunit_clear]
      BY <1>1, <1>3 DEF DrainedUnits
    <2>2. bufunit_clear \in UnitRec /\ bufunit_clear.r = 0 /\ Len(bufunit_clear.data) = 0
      BY DEF UnitRec, bufunit_clear
    <2> HIDE DEF vs
    <2>3. vs \in Seq(UnitRec) /\ Len(vs) = 1 /\ vs[1] = bufunit_clear
      BY <1>0, <1>3, <2>1, <2>2, ExceptSeq
    <2>4. Rptr(vs, 1) = 0 /\ Wptr(vs, 1) = 0
      BY <2>2, <2>3 DEF Rptr, Wptr
    <2>5. Chain(vs) /\ vs # <<>>
      <3>1. \A i \in 1..Len(vs) : i = 1
        BY <2>3
      <3>2. vs # <<>>
        BY <2>3
      <3> QED
        BY <2>3, <2>4, <3>1, <3>2, BufferAssumption DEF Chain
    <2>6. Size(vs) = 0 /\ Size(us) = Wptr(us, 1) - Rptr(us, 1)
      <3>1. Size(vs) = Start(1) + Wptr(vs, 1) - Rptr(vs, 1)
        BY <2>3, <2>5 DEF Size
      <3>2. Size(us) = Start(1) + Wptr(us, 1) - Rptr(us, 1)
        BY <1>3 DEF Size
      <3> QED
        BY <1>1, <2>4, <3>1, <3>2, StartNext
    <2>7. \A s, d : Held(vs, s, d + m)
      BY <2>3, <2>4 DEF Held
    <2> QED
      BY <1>1, <1>3, <2>5, <2>6, <2>7 DEF vs
  <1>4. CASE m = Wptr(us, 1) - Rptr(us, 1) /\ n > 1
    <2>1. vs = Tail(us)
      <3>1. bufunit_used(us[1]) = m
        BY <1>1, <1>4
      <3>2. ~(m < m)
        BY <1>1
      <3>3. n # 1
        <4> HIDE DEF n
        <4> QED
          BY <1>0, <1>4
      <3> QED
        BY <3>1, <3>2, <3>3 DEF DrainedUnits
    <2>2. /\ Chain(vs) /\ Size(vs) = Size(us) - m /\ Len(vs) = Len(us) - 1
          /\ \A s, d : d \in Nat /\ Held(us, s, d) => Held(vs, s, d + m)
      BY <1>4, <2>1, UnitRemoved
    <2>3. vs # <<>>
      BY <1>4, <2>2
    <2> QED
      BY <2>2, <2>3
  <1>5. \/ m < Wptr(us, 1) - Rptr(us, 1)
        \/ m = Wptr(us, 1) - Rptr(us, 1) /\ (n = 1 \/ n > 1)
    <2> HIDE DEF n
    <2> QED
      BY <1>0, <1>1
  <1> QED
    BY <1>2, <1>3, <1>4, <1>5

(* The bytes that a call copies from a unit.                                  *)
LEMMA UnitContent ==
  ASSUME NEW us, Chain(us), NEW i \in 1..Len(us), NEW m \in 0..Wptr(us, i) - Rptr(us, i),
         NEW s, NEW d \in Nat, Held(us, s, d)
  PROVE  LET c == Content(us[i], m)
         IN  /\ c \in Seq(Bytes) /\ Len(c) = m
             /\ \A k \in 1..m : c[k] = s[d + (Start(i) + Rptr(us, i) + k - Rptr(us, 1))]
  <1> DEFINE c == Content(us[i], m)
             r == Rptr(us, i)
  <1>1. /\ us[i].data \in Seq(Bytes) /\ r \in Nat /\ Wptr(us, i) \in Nat
        /\ r <= Wptr(us, i) /\ Start(i) \in Nat
    BY ChainUnit
  <1>2. c = SubSeq(us[i].data, r + 1, r + m)
    BY DEF Content, Rptr
  <1>3. m \in Nat /\ r + m <= Wptr(us, i)
    BY <1>1
  <1> HIDE DEF c, r
  <1> DEFINE lo == r + 1
             hi == r + m
  <1>4. \A k \in lo..hi : us[i].data[k] \in Bytes
    <2>1. \A k \in lo..hi : k \in 1..Wptr(us, i)
      BY <1>1, <1>3
    <2> HIDE DEF lo, hi
    <2> QED
      BY <1>1, <2>1, ElementOfSeq DEF Wptr
  <1>5. lo \in Int /\ hi \in Int
    BY <1>1, <1>3
  <1>6. /\ c \in Seq(Bytes) /\ Len(c) = IF lo <= hi THEN hi - lo + 1 ELSE 0
        /\ \A k \in 1..hi - lo + 1 : c[k] = us[i].data[lo + k - 1]
    <2> HIDE DEF lo, hi
    <2>1. c = SubSeq(us[i].data, lo, hi)
      BY <1>2 DEF lo, hi
    <2> QED
      BY <1>4, <1>5, <2>1, SubSeqProperties
  <1>7. hi - lo + 1 = m /\ (lo <= hi <=> m > 0)
    BY <1>1, <1>3
  <1>8. Len(c) = m
    BY <1>3, <1>6, <1>7
  <1>9. ASSUME NEW k \in 1..m PROVE c[k] = s[d + (Start(i) + r + k - Rptr(us, 1))]
    <2>1. /\ r + k \in 1..Wptr(us, i) /\ r + k > r /\ lo + k - 1 = r + k
          /\ Start(i) + (r + k) = Start(i) + r + k
      BY <1>1, <1>3
    <2>2. c[k] = us[i].data[r + k]
      BY <1>6, <1>7, <2>1
    <2>3. us[i].data[r + k] = s[d + (Start(i) + (r + k) - Rptr(us, 1))]
      BY <2>1 DEF Held, r
    <2>4. d + (Start(i) + (r + k) - Rptr(us, 1)) = d + (Start(i) + r + k - Rptr(us, 1))
      <3>1. 1 \in 1..Len(us)
        BY ChainLen
      <3>2. Rptr(us, 1) \in Nat
        BY <3>1, ChainUnit
      <3> QED
        BY <1>1, <3>2
    <2> QED
      BY <2>2, <2>3, <2>4
  <1> QED
    BY <1>6, <1>8, <1>9 DEF c, r

(* buf_used is right for a chain: every unit between the first and the last   *)
(* one is full.                                                               *)
LEMMA UsedIsSize ==
  ASSUME NEW b, Chain(b.units), b.unit_cnt = Len(b.units)
  PROVE  buf_used(b) = Size(b.units)
  <1> DEFINE us == b.units
             n  == Len(us)
  <1> USE BufferAssumption
  <1>1. CASE us = <<>>
    BY <1>1 DEF buf_used, Size
  <1>2. CASE us # <<>>
    <2>1. n \in Nat /\ n >= 1 /\ 1 \in 1..n /\ n \in 1..n
      BY <1>2, ChainLen
    <2>2. /\ Wptr(us, 1) \in Nat /\ Rptr(us, 1) \in Nat /\ Wptr(us, n) \in Nat
          /\ Rptr(us, n) \in Nat /\ (n > 1 => Wptr(us, 1) = UnitSize /\ Rptr(us, n) = 0)
      BY <2>1, ChainUnit
    <2>3. Size(us) = Start(n) + Wptr(us, n) - Rptr(us, 1)
      BY <1>2, SizeNat
    <2>4. Head(us) = us[1] /\ Last(us) = us[n]
      BY <1>2 DEF Last, Chain
    <2>5. buf_used(b) = Wptr(us, 1) - Rptr(us, 1)
            + (IF n > 1 THEN Wptr(us, n) - Rptr(us, n) + (n - 2) * UnitSize ELSE 0)
      BY <1>2, <2>4 DEF buf_used, bufunit_used, Wptr, Rptr
    <2> HIDE DEF n, us
    <2>6. CASE n = 1
      <3>1. Start(n) = 0
        BY <2>6, StartNext
      <3>2. buf_used(b) = Wptr(us, 1) - Rptr(us, 1)
        BY <2>2, <2>5, <2>6
      <3> QED
        BY <2>2, <2>3, <2>6, <3>1, <3>2 DEF us
    <2>7. CASE n > 1
      <3>1. (n - 2) * UnitSize + UnitSize = (n - 1) * UnitSize /\ (n - 2) * UnitSize \in Nat
        BY <2>1, <2>7
      <3>2. buf_used(b) = Size(us)
        BY <2>2, <2>3, <2>5, <2>7, <3>1 DEF Start
      <3> QED
        BY <3>2 DEF us
    <2> QED
      BY <2>1, <2>6, <2>7
  <1> QED
    BY <1>1, <1>2

-----------------------------------------------------------------------------
(* Buffers *)

BufferOf(b) ==
    DOMAIN b = {"inited", "units", "unit_cnt"} /\ Chain(b.units) /\ b.unit_cnt = Len(b.units)

\* Buffer w holds what b holds.
HoldsSame(b, w) ==
    /\ BufferOf(w) /\ w.units # <<>> /\ w.inited = b.inited
    /\ Size(w.units) = Size(b.units)
    /\ \A s, d : Held(b.units, s, d) => Held(w.units, s, d)

(* A unit is added only where one is needed.                                  *)
LEMMA BufGotUnit ==
  ASSUME NEW b, BufferOf(b), b.units = <<>> \/ Wptr(b.units, Len(b.units)) = UnitSize
  PROVE  LET w == buf_get_unit(b)
         IN  HoldsSame(b, w) /\ Wptr(w.units, Len(w.units)) = 0
  <1> DEFINE w  == buf_get_unit(b)
             vs == Append(b.units, bufunit_clear)
  <1>1. /\ Chain(vs) /\ Size(vs) = Size(b.units) /\ vs # <<>> /\ Len(vs) = Len(b.units) + 1
        /\ Wptr(vs, Len(vs)) = 0 /\ \A s, d : Held(b.units, s, d) => Held(vs, s, d)
    BY UnitAdded, Zenon DEF BufferOf
  <1>2. /\ DOMAIN w = {"inited", "units", "unit_cnt"} /\ w.units = vs
        /\ w.unit_cnt = b.unit_cnt + 1 /\ w.inited = b.inited
    BY DEF buf_get_unit, BufferOf
  <1> HIDE DEF w, vs
  <1>3. HoldsSame(b, w) /\ Wptr(w.units, Len(w.units)) = 0
    BY <1>1, <1>2 DEF HoldsSame, BufferOf
  <1> QED
    BY <1>3 DEF w

(* The first unit.                                                            *)
LEMMA BufGotHead == ASSUME NEW b, BufferOf(b) PROVE HoldsSame(b, WithHead(b))
  <1>1. CASE b.units = <<>>
    <2>1. HoldsSame(b, buf_get_unit(b))
      BY <1>1, BufGotUnit
    <2> QED
      BY <1>1, <2>1 DEF WithHead
  <1>2. CASE b.units # <<>>
    BY <1>2 DEF WithHead, HoldsSame
  <1> QED
    BY <1>1, <1>2

(* The last unit has room for at least one byte.                              *)
LEMMA BufGotRoom ==
  ASSUME NEW b, BufferOf(b), b.units # <<>>
  PROVE  LET w == WithRoom(b)
         IN  /\ HoldsSame(b, w) /\ Wptr(w.units, Len(w.units)) < UnitSize
             /\ Wptr(w.units, Len(w.units)) \in Nat
             /\ bufunit_left(Last(w.units)) = UnitSize - Wptr(w.units, Len(w.units))
  <1> USE BufferAssumption
  <1> DEFINE w == WithRoom(b)
             n == Len(b.units)
  <1>1. Wptr(b.units, n) \in Nat /\ Wptr(b.units, n) <= UnitSize
    BY ChainLen, ChainUnit DEF BufferOf
  <1>2. bufunit_left(Last(b.units)) = UnitSize - Wptr(b.units, n)
    BY DEF bufunit_left, Last, Wptr
  <1>3. HoldsSame(b, w) /\ Wptr(w.units, Len(w.units)) < UnitSize
        /\ Wptr(w.units, Len(w.units)) \in Nat
    <2>1. CASE Wptr(b.units, n) = UnitSize
      <3>1. HoldsSame(b, buf_get_unit(b))
            /\ Wptr(buf_get_unit(b).units, Len(buf_get_unit(b).units)) = 0
        BY <2>1, BufGotUnit
      <3>2. w = buf_get_unit(b)
        BY <1>2, <2>1 DEF WithRoom
      <3> QED
        BY <3>1, <3>2
    <2>2. CASE Wptr(b.units, n) # UnitSize
      <3>1. w = b
        BY <1>1, <1>2, <2>2 DEF WithRoom
      <3> QED
        BY <1>1, <2>2, <3>1 DEF HoldsSame
    <2> QED
      BY <2>1, <2>2
  <1>4. bufunit_left(Last(w.units)) = UnitSize - Wptr(w.units, Len(w.units))
    BY DEF bufunit_left, Last, Wptr
  <1> QED
    BY <1>3, <1>4

(* Bytes are put behind the others.                                           *)
LEMMA BufFilled ==
  ASSUME NEW b, BufferOf(b), b.units # <<>>, NEW c \in Seq(Bytes),
         Len(c) <= UnitSize - Wptr(b.units, Len(b.units))
  PROVE  LET w == Filled(b, c)
         IN  /\ BufferOf(w) /\ w.units # <<>> /\ w.inited = b.inited
             /\ Size(w.units) = Size(b.units) + Len(c)
             /\ \A s, d : d \in Nat /\ Held(b.units, s, d)
                            /\ (\A k \in 1..Len(c) : s[d + (Size(b.units) + k)] = c[k])
                          => Held(w.units, s, d)
  <1> DEFINE w  == Filled(b, c)
             us == b.units
             vs == [us EXCEPT ![Len(us)].data = @ \o c]
  <1>0. Chain(us)
    BY DEF BufferOf
  <1>1. /\ Chain(vs) /\ Size(vs) = Size(us) + Len(c) /\ vs # <<>>
        /\ Wptr(vs, Len(vs)) = Wptr(us, Len(us)) + Len(c)
        /\ \A s, d : d \in Nat /\ Held(us, s, d)
                       /\ (\A k \in 1..Len(c) : s[d + (Size(us) + k)] = c[k])
                     => Held(vs, s, d)
    BY <1>0, UnitFilled, Zenon
  <1>2. Len(vs) = Len(us)
    BY <1>0 DEF Chain
  <1>3. /\ DOMAIN w = {"inited", "units", "unit_cnt"} /\ w.units = vs
        /\ w.unit_cnt = b.unit_cnt /\ w.inited = b.inited
    BY DEF Filled, BufferOf
  <1> HIDE DEF w, vs
  <1>4. /\ BufferOf(w) /\ w.units # <<>> /\ w.inited = b.inited
        /\ Size(w.units) = Size(b.units) + Len(c)
        /\ \A s, d : d \in Nat /\ Held(b.units, s, d)
                       /\ (\A k \in 1..Len(c) : s[d + (Size(b.units) + k)] = c[k])
                     => Held(w.units, s, d)
    BY <1>1, <1>2, <1>3 DEF BufferOf
  <1> QED
    BY <1>4 DEF w

(* Bytes leave from the front.                                                *)
LEMMA BufDrained ==
  ASSUME NEW b, BufferOf(b), b.units # <<>>, NEW m \in 0..bufunit_used(b.units[1])
  PROVE  LET w == Drained(b, m)
         IN  /\ BufferOf(w) /\ w.units # <<>> /\ w.inited = b.inited
             /\ Size(w.units) = Size(b.units) - m
             /\ \A s, d : d \in Nat /\ Held(b.units, s, d) => Held(w.units, s, d + m)
  <1> DEFINE w  == Drained(b, m)
             us == b.units
             vs == DrainedUnits(us, m)
  <1>0. Chain(us) /\ bufunit_used(us[1]) = Wptr(us, 1) - Rptr(us, 1)
    BY DEF BufferOf, bufunit_used, Wptr, Rptr
  <1>1. /\ Chain(vs) /\ Size(vs) = Size(us) - m /\ vs # <<>>
        /\ \A s, d : d \in Nat /\ Held(us, s, d) => Held(vs, s, d + m)
    BY <1>0, UnitDrained
  <1>2. us \in Seq(UnitRec) /\ Len(us) \in Nat
    BY <1>0, LenProperties DEF Chain
  <1>3. /\ DOMAIN w = {"inited", "units", "unit_cnt"} /\ w.units = vs
        /\ w.unit_cnt = Len(vs) /\ w.inited = b.inited
    <2>1. CASE m < bufunit_used(us[1])
      <3>1. w = [b EXCEPT !.units = [us EXCEPT ![1].r = @ + m]]
            /\ vs = [us EXCEPT ![1].r = @ + m]
        BY <2>1 DEF Drained, DrainedUnits, BufferOf
      <3>2. Len(vs) = Len(us)
        BY <1>2, <3>1
      <3> QED
        BY <3>1, <3>2 DEF BufferOf
    <2>2. CASE ~(m < bufunit_used(us[1])) /\ m = bufunit_used(us[1]) /\ Len(us) = 1
      <3>1. w = [b EXCEPT !.units = [us EXCEPT ![1] = bufunit_clear]]
            /\ vs = [us EXCEPT ![1] = bufunit_clear]
        BY <2>2 DEF Drained, DrainedUnits, BufferOf
      <3>2. Len(vs) = Len(us)
        BY <1>2, <3>1
      <3> QED
        BY <3>1, <3>2 DEF BufferOf
    <2>3. CASE ~(m < bufunit_used(us[1])) /\ ~(m = bufunit_used(us[1]) /\ Len(us) = 1)
      <3>1. w = buf_remove_head(b) /\ vs = Tail(us)
        BY <2>3 DEF Drained, DrainedUnits
      <3>2. Len(vs) = Len(us) - 1
        BY <1>2, <3>1, HeadTailProperties
      <3> QED
        BY <3>1, <3>2 DEF BufferOf, buf_remove_head
    <2> QED
      BY <2>1, <2>2, <2>3
  <1> HIDE DEF w, vs
  <1>4. /\ BufferOf(w) /\ w.units # <<>> /\ w.inited = b.inited
        /\ Size(w.units) = Size(b.units) - m
        /\ \A s, d : d \in Nat /\ Held(b.units, s, d) => Held(w.units, s, d + m)
    BY <1>1, <1>3 DEF BufferOf
  <1> QED
    BY <1>4 DEF w

-----------------------------------------------------------------------------
(* The buffer is a queue *)

BufType ==
    /\ BufferOf(buf)
    /\ DOMAIN io = {"op", "src", "left", "at"} /\ io.src \in Seq(Bytes)
    /\ io.left \in Nat /\ io.at \in Nat \ {0}
    /\ dst \in Seq(Bytes) /\ fifo \in Seq(Bytes) /\ expect \in Seq(Bytes)

Phases ==
    /\ ~buf.inited => io = Idle
    /\ io.op # "write" => io.src = <<>>
    /\ io.op \in {"write", "fd_read"} => buf.units # <<>>
    /\ io.op \notin {"read", "peek"} => dst = expect

\* The units hold the queue up to what is still to be written.
Filling ==
    io.op # "read" =>
        /\ Size(buf.units) + Len(io.src) = Len(fifo)
        /\ Held(buf.units, fifo, 0)
        /\ \A k \in 1..Len(io.src) : io.src[k] = fifo[Size(buf.units) + k]

\* The answer and the queue follow each other in the units, from what was read on.
Reading ==
    io.op = "read" =>
        /\ Held(buf.units, expect \o fifo, Len(dst))
        /\ Len(dst) + Size(buf.units) = Len(expect) + Len(fifo)
        /\ Len(dst) + AtMost(io.left, Size(buf.units)) = Len(expect)
        /\ \A k \in 1..Len(dst) : dst[k] = expect[k]
        /\ NullUnit => Size(buf.units) = 0

\* The bytes to be read before those of unit i.
Before(us, i) ==
    IF i = 1 THEN 0 ELSE IF i <= Len(us) THEN Start(i) - Rptr(us, 1) ELSE Size(us)

Peeking ==
    io.op = "peek" =>
        /\ Len(dst) <= Len(fifo)
        /\ Len(expect) = Len(dst) + AtMost(io.left, Len(fifo) - Len(dst))
        /\ \A k \in 1..Len(expect) : expect[k] = fifo[k]
        /\ \A k \in 1..Len(dst) : dst[k] = fifo[k]
        /\ io.left > 0 => Len(dst) = Before(buf.units, io.at)

BufInv == BufType /\ Phases /\ Filling /\ Reading /\ Peeking

(* Unit after unit is peeked at.                                              *)
LEMMA BeforeNext ==
  ASSUME NEW us, Chain(us), NEW i \in 1..Len(us)
  PROVE  LET used == Wptr(us, i) - Rptr(us, i)
         IN  /\ used \in Nat /\ Before(us, i) \in Nat
             /\ Before(us, i) = Start(i) + Rptr(us, i) - Rptr(us, 1)
             /\ Before(us, i + 1) = Before(us, i) + used
             /\ Before(us, i) + used <= Size(us)
  <1> USE BufferAssumption
  <1> DEFINE n    == Len(us)
             used == Wptr(us, i) - Rptr(us, i)
  <1>0. /\ n \in Nat /\ n >= 1 /\ i \in 1..n /\ 1 \in 1..n /\ us # <<>>
    BY ChainLen DEF Chain
  <1>1. /\ Rptr(us, i) \in Nat /\ Wptr(us, i) \in Nat /\ Start(i) \in Nat
        /\ Rptr(us, i) <= Wptr(us, i) /\ (i < n => Wptr(us, i) = UnitSize)
        /\ (i > 1 => Rptr(us, i) = 0)
    BY ChainUnit
  <1>2. /\ Rptr(us, 1) \in Nat /\ Wptr(us, 1) \in Nat /\ Rptr(us, 1) <= Wptr(us, 1)
        /\ Wptr(us, 1) <= UnitSize
    BY <1>0, ChainUnit
  <1>3. /\ Start(1) = 0 /\ Start(i + 1) = Start(i) + UnitSize
        /\ (i > 1 => Start(i) >= UnitSize) /\ (i < n => Start(i + 1) <= Start(n))
    <2>1. i \in Nat \ {0} /\ i \in Nat /\ i + 1 \in Nat \ {0} /\ n \in Nat \ {0}
          /\ 1 \in Nat /\ 2 \in Nat \ {0} /\ (i > 1 => 2 <= i) /\ (i < n => i + 1 <= n)
      BY <1>0
    <2>2. Start(2) = UnitSize
      <3>1. Start(1 + 1) = Start(1) + UnitSize /\ Start(1) = 0
        BY <2>1, StartNext
      <3> QED
        BY <3>1
    <2>3. i > 1 => Start(2) <= Start(i)
      BY <2>1, StartNext
    <2>4. i < n => Start(i + 1) <= Start(n)
      BY <2>1, StartNext
    <2>5. Start(1) = 0 /\ Start(i + 1) = Start(i) + UnitSize
      BY <2>1, StartNext
    <2> QED
      BY <1>1, <2>2, <2>3, <2>4, <2>5
  <1>4. /\ Size(us) = Start(n) + Wptr(us, n) - Rptr(us, 1) /\ Size(us) \in Nat
        /\ Start(n) \in Nat /\ Wptr(us, n) \in Nat
    <2>1. n \in 1..n
      BY <1>0
    <2>2. Start(n) \in Nat /\ Wptr(us, n) \in Nat
      BY <2>1, ChainUnit
    <2> QED
      BY <1>0, <2>2, SizeNat
  <1>5. Before(us, i) = IF i = 1 THEN 0 ELSE Start(i) - Rptr(us, 1)
    BY <1>0 DEF Before
  <1>6. Before(us, i + 1) = IF i < n THEN Start(i + 1) - Rptr(us, 1) ELSE Size(us)
    BY <1>0 DEF Before
  <1> HIDE DEF n, used
  <1>7. Before(us, i) = Start(i) + Rptr(us, i) - Rptr(us, 1) /\ Before(us, i) \in Nat
    <2>1. CASE i = 1
      BY <1>1, <1>2, <1>3, <1>5, <2>1
    <2>2. CASE i > 1
      BY <1>1, <1>2, <1>3, <1>5, <2>2
    <2> QED
      BY <1>0, <2>1, <2>2
  <1>8. used \in Nat /\ used = Wptr(us, i) - Rptr(us, i)
    BY <1>1 DEF used
  <1>8a. ASSUME i = n PROVE Before(us, i) + used = Size(us)
    <2> DEFINE st == Start(n)
               w  == Wptr(us, n)
               r  == Rptr(us, n)
               r1 == Rptr(us, 1)
    <2>1. /\ st \in Nat /\ w \in Nat /\ r \in Nat /\ r1 \in Nat
          /\ Size(us) = st + w - r1 /\ Before(us, i) = st + r - r1 /\ used = w - r
      BY <1>1, <1>2, <1>4, <1>7, <1>8, <1>8a
    <2> HIDE DEF st, w, r, r1
    <2> QED
      BY <2>1
  <1>9. Before(us, i + 1) = Before(us, i) + used
    <2>1. CASE i < n
      BY <1>1, <1>2, <1>3, <1>6, <1>7, <1>8, <2>1
    <2>2. CASE i = n
      <3>1. ~(i < n)
        BY <1>0, <2>2
      <3> QED
        BY <1>6, <1>8a, <2>2, <3>1
    <2> QED
      BY <1>0, <2>1, <2>2
  <1>10. Before(us, i) + used <= Size(us)
    <2>1. CASE i < n
      <3>1. Before(us, i) + used = Start(i + 1) - Rptr(us, 1)
        BY <1>1, <1>2, <1>3, <1>7, <1>8, <2>1
      <3>2. Start(i + 1) \in Nat /\ Start(i + 1) <= Start(n)
        BY <1>1, <1>3, <2>1, BufferAssumption
      <3> QED
        BY <1>2, <1>4, <3>1, <3>2
    <2>2. CASE i = n
      BY <1>4, <1>8a, <2>2
    <2> QED
      BY <1>0, <2>1, <2>2
  <1> QED
    BY <1>7, <1>8, <1>9, <1>10 DEF used

(* The front of a queue and the rest.                                         *)
LEMMA FrontRest ==
  ASSUME NEW q \in Seq(Bytes), NEW n \in Nat
  PROVE  LET m == IF n < Len(q) THEN n ELSE Len(q)
             a == SubSeq(q, 1, m)
             z == SubSeq(q, n + 1, Len(q))
         IN  /\ m \in Nat /\ m <= Len(q)
             /\ a \in Seq(Bytes) /\ Len(a) = m /\ \A k \in 1..m : a[k] = q[k]
             /\ z \in Seq(Bytes) /\ Len(z) = Len(q) - m /\ \A k \in 1..Len(z) : z[k] = q[m + k]
  <1> DEFINE m == IF n < Len(q) THEN n ELSE Len(q)
             a == SubSeq(q, 1, m)
             z == SubSeq(q, n + 1, Len(q))
             l == Len(q)
  <1>0. l \in Nat /\ \A k \in 1..l : q[k] \in Bytes
    BY LenProperties, ElementOfSeq
  <1>1. m \in Nat /\ m <= l
    BY <1>0
  <1>2. a \in Seq(Bytes) /\ Len(a) = m /\ \A k \in 1..m : a[k] = q[k]
    <2> HIDE DEF m
    <2>1. \A k \in 1..m : q[k] \in Bytes
      BY <1>0, <1>1
    <2>2. /\ a \in Seq(Bytes) /\ Len(a) = IF 1 <= m THEN m - 1 + 1 ELSE 0
          /\ \A k \in 1..m - 1 + 1 : a[k] = q[1 + k - 1]
      BY <1>1, <2>1, SubSeqProperties
    <2> QED
      BY <1>1, <2>2
  <1>3. z \in Seq(Bytes) /\ Len(z) = l - m /\ \A k \in 1..Len(z) : z[k] = q[m + k]
    <2> DEFINE lo == n + 1
    <2>1. lo \in Int /\ l \in Int /\ \A k \in lo..l : q[k] \in Bytes
      BY <1>0
    <2>2. /\ z \in Seq(Bytes) /\ Len(z) = IF lo <= l THEN l - lo + 1 ELSE 0
          /\ \A k \in 1..l - lo + 1 : z[k] = q[lo + k - 1]
      <3>1. z = SubSeq(q, lo, l)
        OBVIOUS
      <3> HIDE DEF lo, l, z
      <3> QED
        BY <2>1, <3>1, SubSeqProperties
    <2> HIDE DEF z, l
    <2>3. l \in Nat /\ m = IF n < l THEN n ELSE l
      BY <1>0 DEF l
    <2> HIDE DEF m
    <2>4. CASE n < l
      BY <2>2, <2>3, <2>4
    <2>5. CASE ~(n < l)
      BY <2>2, <2>3, <2>5
    <2> QED
      BY <2>4, <2>5
  <1> QED
    BY <1>1, <1>2, <1>3

(* Nothing was written yet.                                                   *)
LEMMA BufStart == BufInit => BufInv
  <1> SUFFICES ASSUME BufInit PROVE BufInv
    OBVIOUS
  <1>1. /\ buf.units = <<>> /\ buf.unit_cnt = 0 /\ buf.inited
        /\ DOMAIN buf = {"inited", "units", "unit_cnt"}
    BY DEF BufInit, buf_init
  <1>2. /\ io = Idle /\ io.op = "idle" /\ io.src = <<>> /\ io.left = 0 /\ io.at = 1
        /\ DOMAIN io = {"op", "src", "left", "at"}
    BY DEF BufInit, Idle, Call
  <1>3. dst = <<>> /\ fifo = <<>> /\ expect = <<>>
    BY DEF BufInit, Queue!Empty
  <1>4. BufferOf(buf)
    BY <1>1 DEF BufferOf, Chain
  <1>5. BufType
    BY <1>2, <1>3, <1>4 DEF BufType
  <1>6. Filling
    BY <1>1, <1>2, <1>3 DEF Filling, Size, Held
  <1>7. Phases /\ Reading /\ Peeking
    BY <1>1, <1>2, <1>3 DEF Phases, Reading, Peeking
  <1> QED
    BY <1>5, <1>6, <1>7 DEF BufInv

(* When no call is under way the units hold the queue.                        *)
LEMMA BufIdle ==
  ASSUME BufInv, io = Idle
  PROVE  /\ io.op = "idle" /\ io.src = <<>> /\ io.left = 0 /\ io.at = 1
         /\ Size(buf.units) = Len(fifo) /\ Held(buf.units, fifo, 0) /\ dst = expect
  <1>1. io.op = "idle" /\ io.src = <<>> /\ io.left = 0 /\ io.at = 1
    BY DEF Idle, Call
  <1>2. Size(buf.units) \in Nat
    BY SizeNat DEF BufInv, BufType, BufferOf
  <1> QED
    BY <1>1, <1>2 DEF BufInv, Filling, Phases

(* More bytes in the queue do not change the ones that are in the units.      *)
LEMMA HeldMore ==
  ASSUME NEW us, Chain(us), NEW q \in Seq(Bytes), NEW c \in Seq(Bytes), Held(us, q, 0),
         Size(us) <= Len(q)
  PROVE  Held(us, q \o c, 0)
  <1>1. Len(q) \in Nat /\ Len(c) \in Nat /\ Size(us) \in Nat
    BY LenProperties, SizeNat
  <1>2. \A k \in 1..Len(q) : (q \o c)[k] = q[k]
    BY <1>1, ConcatProperties
  <1>3. \A k \in 1..Size(us) : (q \o c)[0 + k] = q[0 + k]
    BY <1>1, <1>2
  <1> QED
    BY <1>3, HeldSame

(* buf_write starts.                                                          *)
LEMMA BufWriteStart == ASSUME BufInv, NEW src \in Seq(Bytes), buf_write(src) PROVE BufInv'
  <1>1. io = Idle /\ buf.inited
    BY DEF buf_write
  <1>2. /\ Size(buf.units) = Len(fifo) /\ Held(buf.units, fifo, 0) /\ BufferOf(buf)
        /\ fifo \in Seq(Bytes)
    BY <1>1, BufIdle DEF BufInv, BufType
  <1>3. HoldsSame(buf, buf')
    BY <1>2, BufGotHead DEF buf_write
  <1>4. /\ io'.op = "write" /\ io'.src = src /\ io'.left = 0 /\ io'.at = 1
        /\ DOMAIN io' = {"op", "src", "left", "at"}
    BY DEF buf_write, Call
  <1>5. dst' = <<>> /\ expect' = <<>> /\ fifo' = fifo \o src
    BY DEF buf_write, Queue!Put
  <1>6. /\ fifo' \in Seq(Bytes) /\ Len(fifo') = Len(fifo) + Len(src)
        /\ \A k \in 1..Len(fifo) + Len(src) :
              fifo'[k] = IF k <= Len(fifo) THEN fifo[k] ELSE src[k - Len(fifo)]
    BY <1>2, <1>5, ConcatProperties
  <1>7. Len(fifo) \in Nat /\ Len(src) \in Nat
    BY <1>2, LenProperties
  <1>8. BufType'
    BY <1>3, <1>4, <1>5, <1>6 DEF BufType, HoldsSame
  <1>9. Filling'
    <2>1. Held(buf.units, fifo', 0)
      BY <1>2, <1>5, <1>7, HeldMore DEF BufferOf
    <2>2. Held(buf'.units, fifo', 0) /\ Size(buf'.units) = Len(fifo)
      BY <1>2, <1>3, <2>1 DEF HoldsSame
    <2>3. \A k \in 1..Len(src) : src[k] = fifo'[Len(fifo) + k]
      <3> TAKE k \in 1..Len(src)
      <3>1. Len(fifo) + k \in 1..Len(fifo) + Len(src) /\ ~(Len(fifo) + k <= Len(fifo))
            /\ Len(fifo) + k - Len(fifo) = k
        BY <1>7
      <3> QED
        BY <1>6, <3>1
    <2> QED
      BY <1>4, <1>6, <2>2, <2>3 DEF Filling
  <1>10. Phases' /\ Reading' /\ Peeking'
    BY <1>1, <1>3, <1>4, <1>5 DEF Phases, Reading, Peeking, HoldsSame
  <1> QED
    BY <1>8, <1>9, <1>10 DEF BufInv

(* A round of buf_write.                                                      *)
LEMMA BufWriteStep == ASSUME BufInv, WriteUnit PROVE BufInv'
  <1> USE BufferAssumption
  <1> DEFINE room == WithRoom(buf)
             us   == buf.units
             w    == Wptr(room.units, Len(room.units))
             n    == AtMost(Len(io.src), bufunit_left(Last(room.units)))
             c    == SubSeq(io.src, 1, n)
             z    == SubSeq(io.src, n + 1, Len(io.src))
  <1>1. io.op = "write" /\ io.src # <<>> /\ BufferOf(buf) /\ us # <<>> /\ io.src \in Seq(Bytes)
        /\ fifo \in Seq(Bytes) /\ dst = expect
    BY DEF WriteUnit, BufInv, BufType, Phases
  <1>2. /\ Size(us) + Len(io.src) = Len(fifo) /\ Held(us, fifo, 0)
        /\ \A k \in 1..Len(io.src) : io.src[k] = fifo[Size(us) + k]
    BY <1>1 DEF BufInv, Filling
  <1>3. /\ HoldsSame(buf, room) /\ w < UnitSize /\ w \in Nat
        /\ bufunit_left(Last(room.units)) = UnitSize - w
    BY <1>1, BufGotRoom
  <1>4. buf' = Filled(room, c) /\ io' = [io EXCEPT !.src = z] /\ dst' = dst /\ fifo' = fifo
        /\ expect' = expect
    BY DEF WriteUnit
  <1> HIDE DEF room, w
  <1>5. Len(io.src) \in Nat /\ Size(us) \in Nat
    BY <1>1, LenProperties, SizeNat DEF BufferOf
  <1>6. n \in Nat /\ n <= UnitSize - w /\ n <= Len(io.src)
    BY <1>3, <1>5 DEF AtMost
  <1> HIDE DEF n
  <1>7. /\ c \in Seq(Bytes) /\ Len(c) = n /\ (\A k \in 1..n : c[k] = io.src[k])
        /\ z \in Seq(Bytes) /\ Len(z) = Len(io.src) - n
        /\ \A k \in 1..Len(z) : z[k] = io.src[n + k]
    <2> DEFINE m == IF n < Len(io.src) THEN n ELSE Len(io.src)
    <2>1. m = n
      BY <1>5, <1>6
    <2> HIDE DEF m
    <2>2. /\ m \in Nat /\ m <= Len(io.src)
          /\ SubSeq(io.src, 1, m) \in Seq(Bytes) /\ Len(SubSeq(io.src, 1, m)) = m
          /\ \A k \in 1..m : SubSeq(io.src, 1, m)[k] = io.src[k]
          /\ z \in Seq(Bytes) /\ Len(z) = Len(io.src) - m
          /\ \A k \in 1..Len(z) : z[k] = io.src[m + k]
      BY <1>1, <1>6, FrontRest DEF m
    <2> QED
      BY <2>1, <2>2
  <1> HIDE DEF c, z
  <1>8. /\ io'.op = "write" /\ io'.src = z /\ io'.left = io.left /\ io'.at = io.at
        /\ DOMAIN io' = {"op", "src", "left", "at"}
    BY <1>1, <1>4 DEF BufInv, BufType
  <1>9. /\ BufferOf(buf') /\ buf'.units # <<>> /\ buf'.inited = room.inited
        /\ Size(buf'.units) = Size(room.units) + Len(c)
        /\ \A s, d : d \in Nat /\ Held(room.units, s, d)
                       /\ (\A k \in 1..Len(c) : s[d + (Size(room.units) + k)] = c[k])
                     => Held(buf'.units, s, d)
    <2>1. BufferOf(room) /\ room.units # <<>>
      BY <1>3 DEF HoldsSame
    <2> QED
      BY <1>3, <1>4, <1>6, <1>7, <2>1, BufFilled DEF w
  <1>10. Size(room.units) = Size(us) /\ Held(room.units, fifo, 0) /\ room.inited = buf.inited
    BY <1>2, <1>3 DEF HoldsSame
  <1>11. Held(buf'.units, fifo, 0)
    <2>1. \A k \in 1..Len(c) : fifo[0 + (Size(room.units) + k)] = c[k]
      <3> TAKE k \in 1..Len(c)
      <3>1. k \in 1..Len(io.src) /\ k \in 1..n /\ 0 + (Size(us) + k) = Size(us) + k
        BY <1>5, <1>6, <1>7
      <3> QED
        BY <1>2, <1>7, <1>10, <3>1
    <2> QED
      BY <1>9, <1>10, <2>1
  <1>12. Filling'
    <2>1. Size(buf'.units) = Size(us) + n
      BY <1>7, <1>9, <1>10
    <2>2. Size(us) + n + Len(z) = Len(fifo)
      BY <1>2, <1>5, <1>6, <1>7
    <2>3. \A k \in 1..Len(z) : z[k] = fifo[Size(us) + n + k]
      <3> TAKE k \in 1..Len(z)
      <3>1. n + k \in 1..Len(io.src) /\ Size(us) + (n + k) = Size(us) + n + k
        BY <1>5, <1>6, <1>7
      <3> QED
        BY <1>2, <1>7, <3>1
    <2> QED
      BY <1>4, <1>8, <1>11, <2>1, <2>2, <2>3 DEF Filling
  <1>13. BufType'
    BY <1>4, <1>7, <1>8, <1>9 DEF BufType, BufInv
  <1>14. Phases'
    <2>1. ~buf'.inited => FALSE
      BY <1>1, <1>9, <1>10 DEF BufInv, Phases, Idle, Call
    <2> QED
      BY <1>1, <1>4, <1>8, <1>9, <2>1 DEF Phases
  <1>15. Reading' /\ Peeking'
    BY <1>8 DEF Reading, Peeking
  <1> QED
    BY <1>12, <1>13, <1>14, <1>15 DEF BufInv

(* A read or a peek starts: nothing was handed out yet.                       *)
LEMMA BufReadStart ==
  ASSUME BufInv, NEW readsz \in Nat, buf_read(readsz) \/ buf_peek(readsz)
  PROVE  BufInv'
  <1> DEFINE us == buf.units
             m  == IF readsz < Len(fifo) THEN readsz ELSE Len(fifo)
             a  == SubSeq(fifo, 1, m)
             z  == SubSeq(fifo, readsz + 1, Len(fifo))
  <1>1. io = Idle /\ buf.inited /\ buf' = buf /\ dst' = <<>> /\ expect' = a
    BY DEF buf_read, buf_peek, Queue!Take, Queue!Look, Queue!Front
  <1>2. /\ Size(us) = Len(fifo) /\ Held(us, fifo, 0) /\ BufferOf(buf)
        /\ fifo \in Seq(Bytes)
    BY <1>1, BufIdle DEF BufInv, BufType
  <1>3. /\ m \in Nat /\ m <= Len(fifo)
        /\ a \in Seq(Bytes) /\ Len(a) = m /\ (\A k \in 1..m : a[k] = fifo[k])
        /\ z \in Seq(Bytes) /\ Len(z) = Len(fifo) - m /\ \A k \in 1..Len(z) : z[k] = fifo[m + k]
    BY <1>2, FrontRest
  <1>4. Len(fifo) \in Nat /\ m = AtMost(readsz, Len(fifo))
    BY <1>2, LenProperties DEF AtMost
  <1> HIDE DEF a, z, m
  <1>5. CASE buf_read(readsz)
    <2>1. /\ io'.op = "read" /\ io'.src = <<>> /\ io'.left = readsz /\ io'.at = 1
          /\ DOMAIN io' = {"op", "src", "left", "at"}
      BY <1>5 DEF buf_read, Call
    <2>2. fifo' = z
      BY <1>5 DEF buf_read, Queue!Take, z
    <2>3. BufType'
      BY <1>1, <1>2, <1>3, <2>1, <2>2 DEF BufType
    <2>4. Reading'
      <3>1. Len(dst') = 0
        BY <1>1
      <3>2. /\ Len(a \o z) = Len(a) + Len(z)
            /\ \A k \in 1..Len(a) + Len(z) :
                  (a \o z)[k] = IF k <= Len(a) THEN a[k] ELSE z[k - Len(a)]
        BY <1>3, ConcatProperties
      <3>3. \A k \in 1..Size(us) : (a \o z)[0 + k] = fifo[0 + k]
        <4> TAKE k \in 1..Size(us)
        <4>1. k \in 1..Len(a) + Len(z) /\ k \in Nat
          BY <1>2, <1>3, <1>4
        <4>2. CASE k <= m
          BY <1>3, <3>2, <4>1, <4>2
        <4>3. CASE k > m
          <5>1. k - m \in 1..Len(z) /\ m + (k - m) = k
            BY <1>3, <1>4, <4>1, <4>3
          <5> QED
            BY <1>3, <3>2, <4>1, <4>3, <5>1
        <4> QED
          BY <1>3, <4>1, <4>2, <4>3
      <3>4. Held(us, a \o z, 0)
        BY <1>2, <3>3, HeldSame DEF BufferOf
      <3>5. NullUnit' => Size(us) = 0
        <4>1. us \in Seq(UnitRec)
          BY <1>2 DEF BufferOf, Chain
        <4>2. 1 > Len(us) => us = <<>>
          BY <4>1, LenProperties, EmptySeq
        <4> QED
          BY <1>1, <2>1, <4>2 DEF NullUnit, Size
      <3>6. 0 + Size(us) = Len(a) + Len(z) /\ 0 + AtMost(readsz, Size(us)) = Len(a)
        BY <1>2, <1>3, <1>4
      <3> QED
        BY <1>1, <2>1, <2>2, <3>1, <3>4, <3>5, <3>6 DEF Reading
    <2>5. Phases' /\ Filling' /\ Peeking'
      BY <1>1, <2>1 DEF Phases, Filling, Peeking
    <2> QED
      BY <2>3, <2>4, <2>5 DEF BufInv
  <1>6. CASE buf_peek(readsz)
    <2>1. /\ io'.op = "peek" /\ io'.src = <<>> /\ io'.left = readsz /\ io'.at = 1
          /\ DOMAIN io' = {"op", "src", "left", "at"}
      BY <1>6 DEF buf_peek, Call
    <2>2. fifo' = fifo
      BY <1>6 DEF buf_peek, Queue!Look
    <2>3. BufType'
      BY <1>1, <1>2, <1>3, <2>1, <2>2 DEF BufType
    <2>4. Peeking'
      <3>1. Len(dst') = 0 /\ Before(us, 1) = 0
        BY <1>1 DEF Before
      <3>2. Len(a) = 0 + AtMost(readsz, Len(fifo) - 0) /\ 0 <= Len(fifo)
        BY <1>3, <1>4
      <3> QED
        BY <1>1, <1>3, <2>1, <2>2, <3>1, <3>2 DEF Peeking
    <2>5. Filling'
      BY <1>1, <1>2, <1>4, <2>1, <2>2 DEF Filling
    <2>6. Phases' /\ Reading'
      BY <1>1, <2>1 DEF Phases, Reading
    <2> QED
      BY <2>3, <2>4, <2>5, <2>6 DEF BufInv
  <1> QED
    BY <1>5, <1>6

(* A round of buf_read.                                                       *)
LEMMA BufReadStep == ASSUME BufInv, ReadUnit PROVE BufInv'
  <1> DEFINE us  == buf.units
             u   == us[1]
             n   == AtMost(io.left, bufunit_used(u))
             c   == Content(u, n)
             all == expect \o fifo
             l   == Len(dst)
  <1>1. io.op = "read" /\ ~NullUnit /\ io.left > 0 /\ BufferOf(buf) /\ Chain(us)
        /\ dst \in Seq(Bytes) /\ fifo \in Seq(Bytes) /\ expect \in Seq(Bytes)
        /\ io.left \in Nat /\ io.at \in Nat \ {0}
    BY DEF ReadUnit, BufInv, BufType, BufferOf
  <1>2. /\ Held(us, all, l) /\ l + Size(us) = Len(expect) + Len(fifo)
        /\ l + AtMost(io.left, Size(us)) = Len(expect)
        /\ \A k \in 1..l : dst[k] = expect[k]
    BY <1>1 DEF BufInv, Reading
  <1>3. us # <<>> /\ 1 \in 1..Len(us) /\ Len(us) \in Nat
    <2>1. Len(us) \in Nat /\ us \in Seq(UnitRec)
      BY <1>1, ChainLen DEF Chain
    <2>2. Len(us) >= 1
      BY <1>1, <2>1 DEF NullUnit
    <2> QED
      BY <2>1, <2>2
  <1>4. /\ Wptr(us, 1) \in Nat /\ Rptr(us, 1) \in Nat /\ Rptr(us, 1) <= Wptr(us, 1)
        /\ bufunit_used(u) = Wptr(us, 1) - Rptr(us, 1)
    BY <1>1, <1>3, ChainUnit DEF bufunit_used, Wptr, Rptr
  <1>5. Size(us) \in Nat /\ Wptr(us, 1) - Rptr(us, 1) <= Size(us)
    BY <1>1, <1>3, SizeNat
  <1>6. /\ dst' = dst \o c /\ buf' = Drained(buf, n) /\ fifo' = fifo /\ expect' = expect
        /\ io' = [io EXCEPT !.left = @ - n,
                            !.at = IF n = bufunit_used(u) /\ Len(us) = 1 THEN 2 ELSE 1]
    BY DEF ReadUnit
  <1>7. n \in 0..bufunit_used(u) /\ n <= io.left /\ n <= Size(us) /\ n \in Nat
    BY <1>1, <1>4, <1>5 DEF AtMost
  <1> HIDE DEF n
  <1>8. /\ io'.op = "read" /\ io'.src = io.src /\ io'.left = io.left - n
        /\ io'.at = (IF n = bufunit_used(u) /\ Len(us) = 1 THEN 2 ELSE 1)
        /\ DOMAIN io' = {"op", "src", "left", "at"}
    BY <1>1, <1>6 DEF BufInv, BufType
  <1>9. /\ BufferOf(buf') /\ buf'.units # <<>> /\ buf'.inited = buf.inited
        /\ Size(buf'.units) = Size(us) - n
        /\ \A s, d : d \in Nat /\ Held(us, s, d) => Held(buf'.units, s, d + n)
    BY <1>1, <1>3, <1>6, <1>7, BufDrained
  <1>10. /\ c \in Seq(Bytes) /\ Len(c) = n /\ \A k \in 1..n : c[k] = all[l + k]
    <2>1. l \in Nat
      BY <1>1, LenProperties
    <2>2. n \in 0..Wptr(us, 1) - Rptr(us, 1)
      BY <1>4, <1>7
    <2>3. /\ c \in Seq(Bytes) /\ Len(c) = n
          /\ \A k \in 1..n : c[k] = all[l + (Start(1) + Rptr(us, 1) + k - Rptr(us, 1))]
      <3>1. Chain(us) /\ Held(us, all, l)
        BY <1>1, <1>2
      <3> HIDE DEF all, l, us
      <3> QED
        BY <1>3, <2>1, <2>2, <3>1, UnitContent
    <2>4. \A k \in 1..n : Start(1) + Rptr(us, 1) + k - Rptr(us, 1) = k
      BY <1>4, <1>7, StartNext
    <2> QED
      BY <2>3, <2>4
  <1>11. Len(expect) \in Nat /\ Len(fifo) \in Nat /\ l \in Nat
    BY <1>1, LenProperties
  <1>12. /\ all \in Seq(Bytes)
         /\ \A k \in 1..Len(expect) : all[k] = expect[k]
    <2>1. /\ all \in Seq(Bytes)
          /\ \A k \in 1..Len(expect) + Len(fifo) :
                all[k] = IF k <= Len(expect) THEN expect[k] ELSE fifo[k - Len(expect)]
      BY <1>1, ConcatProperties
    <2> QED
      BY <1>11, <2>1
  <1>13. /\ dst' \in Seq(Bytes) /\ Len(dst') = l + n
         /\ \A k \in 1..l + n : dst'[k] = IF k <= l THEN dst[k] ELSE c[k - l]
    BY <1>1, <1>6, <1>10, ConcatProperties
  <1> HIDE DEF c, all, l
  <1>14. l + n <= Len(expect) /\ l + n + AtMost(io.left - n, Size(us) - n) = Len(expect)
    <2> DEFINE x == io.left
               y == Size(us)
               e == Len(expect)
    <2>1. /\ x \in Nat /\ y \in Nat /\ n \in Nat /\ l \in Nat /\ e \in Nat
          /\ n <= x /\ n <= y /\ l + AtMost(x, y) = e
      BY <1>1, <1>2, <1>5, <1>7, <1>11
    <2> HIDE DEF x, y, e
    <2>2. l + n <= e /\ l + n + AtMost(x - n, y - n) = e
      BY <2>1 DEF AtMost
    <2> QED
      BY <2>2 DEF x, y, e
  <1>15. \A k \in 1..l + n : dst'[k] = expect[k]
    <2> TAKE k \in 1..l + n
    <2>1. CASE k <= l
      BY <1>2, <1>7, <1>11, <1>13, <2>1
    <2>2. CASE k > l
      <3>1. k - l \in 1..n /\ l + (k - l) = k /\ k \in 1..Len(expect) /\ ~(k <= l)
        BY <1>7, <1>11, <1>14, <2>2
      <3>2. dst'[k] = c[k - l]
        BY <1>13, <3>1
      <3>3. c[k - l] = all[l + (k - l)]
        BY <1>10, <3>1
      <3> QED
        BY <1>12, <3>1, <3>2, <3>3
    <2> QED
      BY <1>7, <1>11, <2>1, <2>2
  <1>16. NullUnit' => Size(buf'.units) = 0
    <2>1. CASE n = bufunit_used(u) /\ Len(us) = 1
      <3>1. Size(us) = Start(1) + Wptr(us, 1) - Rptr(us, 1)
        BY <1>3, <2>1 DEF Size
      <3>2. Size(us) = n
        BY <1>4, <2>1, <3>1, StartNext
      <3> QED
        BY <1>7, <1>9, <3>2
    <2>2. CASE ~(n = bufunit_used(u) /\ Len(us) = 1)
      <3>1. Len(buf'.units) \in Nat /\ Len(buf'.units) >= 1
        BY <1>9, ChainLen DEF BufferOf
      <3> QED
        BY <1>8, <2>2, <3>1 DEF NullUnit
    <2> QED
      BY <2>1, <2>2
  <1>17. Reading'
    <2>1. Held(buf'.units, all, l + n)
      BY <1>2, <1>9, <1>11 DEF all
    <2>2. l + n + Size(buf'.units) = Len(expect) + Len(fifo)
      BY <1>2, <1>5, <1>7, <1>9, <1>11 DEF l
    <2>3. (expect \o fifo)' = all
      BY <1>6 DEF all
    <2> QED
      BY <1>6, <1>8, <1>9, <1>13, <1>14, <1>15, <1>16, <2>1, <2>2, <2>3 DEF Reading
  <1>18. BufType'
    <2>1. io'.left \in Nat /\ io'.at \in Nat \ {0}
      BY <1>1, <1>7, <1>8
    <2> QED
      BY <1>1, <1>6, <1>8, <1>9, <1>13, <2>1 DEF BufType, BufInv
  <1>19. Phases' /\ Filling' /\ Peeking'
    <2>1. ~buf'.inited => FALSE
      BY <1>1, <1>9 DEF BufInv, Phases, Idle, Call
    <2>2. io'.src = <<>>
      BY <1>1, <1>8 DEF BufInv, Phases
    <2> QED
      BY <1>8, <2>1, <2>2 DEF Phases, Filling, Peeking
  <1> QED
    BY <1>17, <1>18, <1>19 DEF BufInv

(* A round of buf_peek.                                                       *)
LEMMA BufPeekStep == ASSUME BufInv, PeekUnit PROVE BufInv'
  <1> DEFINE us == buf.units
             i  == io.at
             u  == us[i]
             n  == AtMost(io.left, bufunit_used(u))
             c  == Content(u, n)
             l  == Len(dst)
             used == Wptr(us, i) - Rptr(us, i)
  <1>1. io.op = "peek" /\ ~NullUnit /\ io.left > 0 /\ BufferOf(buf) /\ Chain(us)
        /\ dst \in Seq(Bytes) /\ fifo \in Seq(Bytes) /\ expect \in Seq(Bytes)
        /\ io.left \in Nat /\ i \in Nat \ {0} /\ io.src = <<>>
    BY DEF PeekUnit, BufInv, BufType, BufferOf, Phases
  <1>2. /\ l <= Len(fifo) /\ Len(expect) = l + AtMost(io.left, Len(fifo) - l)
        /\ \A k \in 1..Len(expect) : expect[k] = fifo[k]
        /\ \A k \in 1..l : dst[k] = fifo[k]
        /\ l = Before(us, i)
    BY <1>1 DEF BufInv, Peeking
  <1>3. i \in 1..Len(us)
    BY <1>1, ChainLen DEF NullUnit
  <1>4. /\ used \in Nat /\ Before(us, i) \in Nat
        /\ Before(us, i) = Start(i) + Rptr(us, i) - Rptr(us, 1)
        /\ Before(us, i + 1) = Before(us, i) + used
        /\ Before(us, i) + used <= Size(us)
    BY <1>1, <1>3, BeforeNext, Zenon
  <1>5. bufunit_used(u) = used
    BY DEF bufunit_used, Wptr, Rptr
  <1>6. /\ dst' = dst \o c /\ buf' = buf /\ fifo' = fifo /\ expect' = expect
        /\ io' = [io EXCEPT !.left = @ - n, !.at = @ + 1]
    BY DEF PeekUnit
  <1>7. /\ n \in Nat /\ n <= io.left /\ n <= used /\ (n < io.left => n = used)
        /\ n \in 0..used
    BY <1>1, <1>4, <1>5 DEF AtMost
  <1>8. Size(us) \in Nat /\ Size(us) = Len(fifo) /\ Held(us, fifo, 0)
    <2>1. Size(us) \in Nat
      BY <1>1, SizeNat
    <2> QED
      BY <1>1, <2>1 DEF BufInv, Filling
  <1>9. /\ io'.op = "peek" /\ io'.src = io.src /\ io'.left = io.left - n
        /\ io'.at = i + 1 /\ DOMAIN io' = {"op", "src", "left", "at"}
    BY <1>1, <1>6 DEF BufInv, BufType
  <1> HIDE DEF n
  <1>10. /\ c \in Seq(Bytes) /\ Len(c) = n /\ \A k \in 1..n : c[k] = fifo[l + k]
    <2>1. /\ c \in Seq(Bytes) /\ Len(c) = n
          /\ \A k \in 1..n : c[k] = fifo[0 + (Start(i) + Rptr(us, i) + k - Rptr(us, 1))]
      <3>1. Chain(us) /\ 0 \in Nat
        BY <1>1
      <3> HIDE DEF us, i, used
      <3>2. n \in 0..Wptr(us, i) - Rptr(us, i)
        BY <1>7 DEF used
      <3> QED
        BY <1>3, <1>8, <3>1, <3>2, UnitContent
    <2>2. /\ Start(i) \in Nat /\ Rptr(us, i) \in Nat /\ Rptr(us, 1) \in Nat
      <3>1. 1 \in 1..Len(us)
        BY <1>3, ChainLen
      <3> QED
        BY <1>1, <1>3, <3>1, ChainUnit
    <2>3. \A k \in 1..n : 0 + (Start(i) + Rptr(us, i) + k - Rptr(us, 1)) = l + k
      <3> HIDE DEF us, i, l
      <3> QED
        BY <1>2, <1>4, <1>7, <2>2
    <2> QED
      BY <2>1, <2>3
  <1>11. Len(expect) \in Nat /\ Len(fifo) \in Nat /\ l \in Nat
    BY <1>1, LenProperties
  <1>12. /\ dst' \in Seq(Bytes) /\ Len(dst') = l + n
         /\ \A k \in 1..l + n : dst'[k] = IF k <= l THEN dst[k] ELSE c[k - l]
    <2> HIDE DEF c
    <2> QED
      BY <1>1, <1>6, <1>10, ConcatProperties
  <1> HIDE DEF c, l, us, i, used
  <1>13. l + n <= Len(fifo)
         /\ Len(expect) = l + n + AtMost(io.left - n, Len(fifo) - (l + n))
    <2>1. l + n <= Len(fifo)
      BY <1>2, <1>4, <1>7, <1>8, <1>11
    <2> QED
      BY <1>1, <1>2, <1>7, <1>11, <2>1 DEF AtMost
  <1>14. \A k \in 1..l + n : dst'[k] = fifo[k]
    <2> TAKE k \in 1..l + n
    <2>1. CASE k <= l
      BY <1>2, <1>7, <1>11, <1>12, <2>1
    <2>2. CASE k > l
      <3>1. k - l \in 1..n /\ l + (k - l) = k
        BY <1>7, <1>11, <2>2
      <3> QED
        BY <1>7, <1>10, <1>11, <1>12, <2>2, <3>1
    <2> QED
      BY <1>7, <1>11, <2>1, <2>2
  <1>15. io.left - n > 0 => l + n = Before(us, i + 1)
    BY <1>1, <1>2, <1>4, <1>7
  <1>16. Peeking'
    BY <1>2, <1>6, <1>9, <1>12, <1>13, <1>14, <1>15 DEF Peeking, us
  <1>17. BufType'
    <2>1. io'.left \in Nat /\ io'.at \in Nat \ {0}
      BY <1>1, <1>7, <1>9
    <2> QED
      BY <1>1, <1>6, <1>9, <1>12, <2>1 DEF BufType, BufInv
  <1>18. Filling'
    BY <1>1, <1>6, <1>8, <1>9, <1>11 DEF Filling, us
  <1>19. Phases' /\ Reading'
    <2>1. ~buf'.inited => FALSE
      BY <1>1, <1>6 DEF BufInv, Phases, Idle, Call
    <2> QED
      BY <1>1, <1>9, <2>1 DEF Phases, Reading
  <1> QED
    BY <1>16, <1>17, <1>18, <1>19 DEF BufInv

(* buf_fd_read and buf_fd_write start.                                        *)
LEMMA BufFdStart == ASSUME BufInv, buf_fd_read \/ buf_fd_write PROVE BufInv'
  <1>1. io = Idle /\ buf.inited
    BY DEF buf_fd_read, buf_fd_write
  <1>2. /\ Size(buf.units) = Len(fifo) /\ Held(buf.units, fifo, 0) /\ BufferOf(buf)
        /\ fifo \in Seq(Bytes) /\ Len(fifo) \in Nat
    BY <1>1, BufIdle, LenProperties DEF BufInv, BufType
  <1>3. dst' = <<>> /\ expect' = <<>> /\ fifo' = fifo
    <2>1. fifo \o <<>> = fifo
      BY <1>2, ConcatEmptySeq
    <2>2. CASE buf_fd_read
      BY <2>1, <2>2 DEF buf_fd_read, Queue!Put
    <2>3. CASE buf_fd_write
      <3>1. (IF 0 < Len(fifo) THEN 0 ELSE Len(fifo)) = 0
        BY <1>2
      <3>2. SubSeq(fifo, 1, 0) = <<>>
        BY SubSeqEmpty
      <3> QED
        BY <2>3, <3>1, <3>2 DEF buf_fd_write, Queue!Look, Queue!Front
    <2> QED
      BY <2>2, <2>3
  <1>4. /\ io'.op \in {"fd_read", "fd_write"} /\ io'.src = <<>> /\ io'.left = 0 /\ io'.at = 1
        /\ DOMAIN io' = {"op", "src", "left", "at"}
    BY DEF buf_fd_read, buf_fd_write, Call
  <1>5. /\ BufferOf(buf') /\ buf'.inited = buf.inited /\ Size(buf'.units) = Len(fifo)
        /\ Held(buf'.units, fifo, 0) /\ (io'.op = "fd_read" => buf'.units # <<>>)
    <2>1. CASE buf_fd_read
      <3> DEFINE h == WithHead(buf)
      <3>1. HoldsSame(buf, h)
        BY <1>2, BufGotHead
      <3>2. buf' = WithRoom(h)
        BY <2>1 DEF buf_fd_read
      <3> HIDE DEF h
      <3>3. HoldsSame(h, buf')
        BY <3>1, <3>2, BufGotRoom DEF HoldsSame
      <3> QED
        BY <1>2, <3>1, <3>3 DEF HoldsSame
    <2>2. CASE buf_fd_write
      BY <1>2, <2>2 DEF buf_fd_write, Call
    <2> QED
      BY <2>1, <2>2
  <1>6. BufType' /\ Filling'
    BY <1>2, <1>3, <1>4, <1>5 DEF BufType, Filling
  <1>7. Phases' /\ Reading' /\ Peeking'
    BY <1>1, <1>3, <1>4, <1>5 DEF Phases, Reading, Peeking
  <1> QED
    BY <1>6, <1>7 DEF BufInv

(* A round of buf_fd_read.                                                    *)
LEMMA BufFdReadStep == ASSUME BufInv, NEW src \in Seq(Bytes), FdReadUnit(src) PROVE BufInv'
  <1> USE BufferAssumption
  <1> DEFINE room == WithRoom(buf)
             us   == buf.units
             w    == Wptr(room.units, Len(room.units))
  <1>1. io.op = "fd_read" /\ BufferOf(buf) /\ us # <<>> /\ io.src = <<>> /\ fifo \in Seq(Bytes)
        /\ buf.inited
    BY DEF FdReadUnit, BufInv, BufType, Phases, Idle, Call
  <1>2. Len(fifo) \in Nat /\ Len(src) \in Nat /\ Size(us) \in Nat
    BY <1>1, LenProperties, SizeNat DEF BufferOf
  <1>3. Size(us) = Len(fifo) /\ Held(us, fifo, 0)
    BY <1>1, <1>2 DEF BufInv, Filling
  <1>4. /\ HoldsSame(buf, room) /\ w < UnitSize /\ w \in Nat
        /\ bufunit_left(Last(room.units)) = UnitSize - w
    BY <1>1, BufGotRoom
  <1>5. /\ Len(src) <= bufunit_left(Last(room.units)) /\ buf' = Filled(room, src)
        /\ dst' = <<>> /\ expect' = <<>> /\ fifo' = fifo \o src /\ (io' = Idle \/ io' = io)
    BY DEF FdReadUnit, Queue!Put
  <1> HIDE DEF room, w
  <1>6. /\ BufferOf(buf') /\ buf'.units # <<>> /\ buf'.inited = room.inited
        /\ Size(buf'.units) = Size(room.units) + Len(src)
        /\ \A s, d : d \in Nat /\ Held(room.units, s, d)
                       /\ (\A k \in 1..Len(src) : s[d + (Size(room.units) + k)] = src[k])
                     => Held(buf'.units, s, d)
    <2>1. BufferOf(room) /\ room.units # <<>>
      BY <1>4 DEF HoldsSame
    <2>2. Len(src) <= UnitSize - Wptr(room.units, Len(room.units))
      BY <1>4, <1>5 DEF w
    <2> QED
      BY <1>5, <2>1, <2>2, BufFilled
  <1>7. /\ fifo' \in Seq(Bytes) /\ Len(fifo') = Len(fifo) + Len(src)
        /\ \A k \in 1..Len(fifo) + Len(src) :
              fifo'[k] = IF k <= Len(fifo) THEN fifo[k] ELSE src[k - Len(fifo)]
    BY <1>1, <1>5, ConcatProperties
  <1>8. /\ Size(room.units) = Len(fifo) /\ Held(room.units, fifo', 0)
        /\ room.inited = buf.inited
    <2>1. Held(us, fifo', 0)
      BY <1>1, <1>2, <1>3, <1>5, HeldMore DEF BufferOf
    <2> QED
      BY <1>3, <1>4, <2>1 DEF HoldsSame
  <1>9. Held(buf'.units, fifo', 0)
    <2>1. \A k \in 1..Len(src) : fifo'[0 + (Size(room.units) + k)] = src[k]
      <3> TAKE k \in 1..Len(src)
      <3>1. Len(fifo) + k \in 1..Len(fifo) + Len(src) /\ ~(Len(fifo) + k <= Len(fifo))
            /\ Len(fifo) + k - Len(fifo) = k /\ 0 + (Len(fifo) + k) = Len(fifo) + k
        BY <1>2
      <3> QED
        BY <1>7, <1>8, <3>1
    <2> QED
      BY <1>6, <1>8, <2>1
  <1>10. /\ io'.op \in {"idle", "fd_read"} /\ io'.src = <<>> /\ io'.left \in Nat
         /\ io'.at \in Nat \ {0} /\ DOMAIN io' = {"op", "src", "left", "at"}
    BY <1>1, <1>5 DEF BufInv, BufType, Idle, Call
  <1>11. BufType' /\ Filling'
    <2>1. Size(buf'.units) = Len(fifo')
      BY <1>6, <1>7, <1>8
    <2>2. Len(fifo') \in Nat
      BY <1>7, LenProperties
    <2> QED
      BY <1>5, <1>6, <1>7, <1>9, <1>10, <2>1, <2>2 DEF BufType, Filling
  <1>12. Phases' /\ Reading' /\ Peeking'
    BY <1>1, <1>5, <1>6, <1>8, <1>10 DEF Phases, Reading, Peeking
  <1> QED
    BY <1>11, <1>12 DEF BufInv

(* A round of buf_fd_write.                                                   *)
LEMMA BufFdWriteStep == ASSUME BufInv, NEW n \in Nat, FdWriteUnit(n) PROVE BufInv'
  <1> DEFINE us == buf.units
             u  == us[1]
             c  == Content(u, n)
             m  == IF n < Len(fifo) THEN n ELSE Len(fifo)
             a  == SubSeq(fifo, 1, m)
             z  == SubSeq(fifo, n + 1, Len(fifo))
  <1>1. io.op = "fd_write" /\ ~NullUnit /\ BufferOf(buf) /\ Chain(us) /\ fifo \in Seq(Bytes)
        /\ io.at \in Nat \ {0} /\ io.src = <<>> /\ io.left \in Nat /\ buf.inited
    BY DEF FdWriteUnit, BufInv, BufType, BufferOf, Phases, Idle, Call
  <1>2. Len(fifo) \in Nat /\ Size(us) \in Nat
    BY <1>1, LenProperties, SizeNat
  <1>3. Size(us) = Len(fifo) /\ Held(us, fifo, 0)
    BY <1>1, <1>2 DEF BufInv, Filling
  <1>4. us # <<>> /\ 1 \in 1..Len(us) /\ Len(us) \in Nat
    <2>1. Len(us) \in Nat /\ us \in Seq(UnitRec)
      BY <1>1, ChainLen DEF Chain
    <2>2. Len(us) >= 1
      BY <1>1, <2>1 DEF NullUnit
    <2> QED
      BY <2>1, <2>2
  <1>5. /\ Wptr(us, 1) \in Nat /\ Rptr(us, 1) \in Nat /\ Rptr(us, 1) <= Wptr(us, 1)
        /\ bufunit_used(u) = Wptr(us, 1) - Rptr(us, 1) /\ Wptr(us, 1) - Rptr(us, 1) <= Size(us)
    BY <1>1, <1>4, ChainUnit, SizeNat DEF bufunit_used, Wptr, Rptr
  <1>6. /\ n <= bufunit_used(u) /\ dst' = c /\ buf' = Drained(buf, n)
        /\ expect' = a /\ fifo' = z
        /\ io' = [io EXCEPT !.at = IF n = bufunit_used(u) /\ Len(us) = 1 THEN 2 ELSE 1]
    BY DEF FdWriteUnit, Queue!Take, Queue!Front
  <1>7. /\ n \in 0..bufunit_used(u) /\ n \in 0..Wptr(us, 1) - Rptr(us, 1) /\ n <= Len(fifo)
        /\ m = n
    BY <1>2, <1>3, <1>5, <1>6
  <1>8. /\ io'.op = "fd_write" /\ io'.src = <<>> /\ io'.left \in Nat /\ io'.at \in Nat \ {0}
        /\ DOMAIN io' = {"op", "src", "left", "at"}
    BY <1>1, <1>6 DEF BufInv, BufType
  <1>9. /\ a \in Seq(Bytes) /\ Len(a) = n /\ (\A k \in 1..n : a[k] = fifo[k])
        /\ z \in Seq(Bytes) /\ Len(z) = Len(fifo) - n /\ \A k \in 1..Len(z) : z[k] = fifo[n + k]
    <2>1. /\ m \in Nat /\ m <= Len(fifo)
          /\ a \in Seq(Bytes) /\ Len(a) = m /\ (\A k \in 1..m : a[k] = fifo[k])
          /\ z \in Seq(Bytes) /\ Len(z) = Len(fifo) - m
          /\ \A k \in 1..Len(z) : z[k] = fifo[m + k]
      BY <1>1, FrontRest
    <2> HIDE DEF a, z, m
    <2> QED
      BY <1>7, <2>1
  <1>10. /\ c \in Seq(Bytes) /\ Len(c) = n /\ \A k \in 1..n : c[k] = fifo[k]
    <2>1. 0 \in Nat
      OBVIOUS
    <2>2. /\ c \in Seq(Bytes) /\ Len(c) = n
          /\ \A k \in 1..n : c[k] = fifo[0 + (Start(1) + Rptr(us, 1) + k - Rptr(us, 1))]
      <3> HIDE DEF us
      <3> QED
        BY <1>1, <1>3, <1>4, <1>7, <2>1, UnitContent
    <2>3. \A k \in 1..n : 0 + (Start(1) + Rptr(us, 1) + k - Rptr(us, 1)) = k
      BY <1>5, StartNext
    <2> QED
      BY <2>2, <2>3
  <1>11. /\ BufferOf(buf') /\ buf'.units # <<>> /\ buf'.inited = buf.inited
         /\ Size(buf'.units) = Size(us) - n
         /\ \A s, d : d \in Nat /\ Held(us, s, d) => Held(buf'.units, s, d + n)
    BY <1>1, <1>4, <1>6, <1>7, BufDrained
  <1> HIDE DEF a, c, z, m
  <1>12. dst' = expect'
    BY <1>6, <1>9, <1>10, SeqEqual
  <1>13. Held(buf'.units, fifo', 0)
    <2>1. Held(buf'.units, fifo, 0 + n)
      BY <1>3, <1>11
    <2>2. \A k \in 1..Size(buf'.units) : z[0 + k] = fifo[0 + n + k]
      BY <1>3, <1>9, <1>11
    <2>3. 0 + n \in Nat /\ 0 \in Nat
      OBVIOUS
    <2>4. Chain(buf'.units)
      BY <1>11 DEF BufferOf
    <2> DEFINE vs == buf'.units
               d  == 0 + n
    <2>5. /\ Chain(vs) /\ d \in Nat /\ 0 \in Nat /\ Held(vs, fifo, d)
          /\ \A k \in 1..Size(vs) : z[0 + k] = fifo[d + k]
      BY <2>1, <2>2, <2>3, <2>4
    <2> HIDE DEF vs, d
    <2>6. Held(vs, z, 0)
      BY <2>5, HeldSame
    <2>7. fifo' = z
      BY <1>6
    <2>8. Held(buf'.units, z, 0)
      BY <2>6, Zenon DEF vs
    <2> QED
      BY <2>7, <2>8
  <1>14. BufType'
    <2>1. dst' = c /\ expect' = a /\ fifo' = z
      BY <1>6
    <2>2. BufferOf(buf')
      BY <1>11
    <2>3. io'.src \in Seq(Bytes)
      BY <1>8
    <2> QED
      BY <1>8, <1>9, <1>10, <2>1, <2>2, <2>3 DEF BufType
  <1>15. Filling'
    <2>1. Size(buf'.units) = Len(fifo') /\ Len(fifo') \in Nat
      BY <1>3, <1>6, <1>9, <1>11, LenProperties
    <2> QED
      BY <1>8, <1>13, <2>1 DEF Filling
  <1>16. Phases' /\ Reading' /\ Peeking'
    BY <1>1, <1>8, <1>11, <1>12 DEF Phases, Reading, Peeking
  <1> QED
    BY <1>14, <1>15, <1>16 DEF BufInv

(* At the end of a call everything was written, or the whole answer given.    *)
LEMMA BufReturn == ASSUME BufInv, LoopEnds \/ FdWriteFails PROVE BufInv'
  <1> DEFINE us == buf.units
  <1>1. /\ io' = Idle /\ buf' = buf /\ dst' = dst /\ fifo' = fifo /\ expect' = expect
        /\ io.op \in {"write", "read", "peek", "fd_write"}
        /\ (io.op = "write" => io.src = <<>>)
        /\ (io.op \in {"read", "peek"} => NullUnit \/ io.left = 0)
    BY DEF LoopEnds, FdWriteFails
  <1>2. /\ io'.op = "idle" /\ io'.src = <<>> /\ io'.left = 0 /\ io'.at = 1
        /\ DOMAIN io' = {"op", "src", "left", "at"}
    BY <1>1 DEF Idle, Call
  <1>3. /\ BufferOf(buf) /\ Chain(us) /\ dst \in Seq(Bytes) /\ fifo \in Seq(Bytes)
        /\ expect \in Seq(Bytes) /\ io.left \in Nat /\ io.at \in Nat \ {0}
    BY DEF BufInv, BufType, BufferOf
  <1>4. Len(fifo) \in Nat /\ Len(dst) \in Nat /\ Len(expect) \in Nat /\ Size(us) \in Nat
    BY <1>3, LenProperties, SizeNat
  <1>5. dst = expect /\ Size(us) = Len(fifo) /\ Held(us, fifo, 0)
    <2>1. CASE io.op = "read"
      <3>1. /\ Held(us, expect \o fifo, Len(dst)) /\ Len(dst) + Size(us) = Len(expect) + Len(fifo)
            /\ Len(dst) + AtMost(io.left, Size(us)) = Len(expect)
            /\ (\A k \in 1..Len(dst) : dst[k] = expect[k]) /\ (NullUnit => Size(us) = 0)
        BY <2>1 DEF BufInv, Reading
      <3>2. AtMost(io.left, Size(us)) = 0
        BY <1>1, <1>3, <1>4, <2>1, <3>1 DEF AtMost
      <3>3. Len(dst) = Len(expect) /\ Size(us) = Len(fifo)
        BY <1>4, <3>1, <3>2
      <3>4. dst = expect
        BY <1>3, <3>1, <3>3, SeqEqual
      <3>5. \A k \in 1..Len(expect) + Len(fifo) : (expect \o fifo)[k] =
               IF k <= Len(expect) THEN expect[k] ELSE fifo[k - Len(expect)]
        BY <1>3, ConcatProperties
      <3>6. \A k \in 1..Size(us) : fifo[0 + k] = (expect \o fifo)[Len(dst) + k]
        <4> TAKE k \in 1..Size(us)
        <4>1. Len(expect) + k \in 1..Len(expect) + Len(fifo) /\ ~(Len(expect) + k <= Len(expect))
              /\ Len(expect) + k - Len(expect) = 0 + k
          BY <1>4, <3>3
        <4> QED
          BY <3>3, <3>5, <4>1
      <3>7. Held(us, fifo, 0)
        <4> DEFINE all == expect \o fifo
                   d   == Len(dst)
        <4>1. /\ Chain(us) /\ d \in Nat /\ 0 \in Nat /\ Held(us, all, d)
              /\ \A k \in 1..Size(us) : fifo[0 + k] = all[d + k]
          BY <1>3, <1>4, <3>1, <3>6
        <4> HIDE DEF all, d, us
        <4> QED
          BY <4>1, HeldSame
      <3> QED
        BY <3>3, <3>4, <3>7
    <2>2. CASE io.op # "read"
      <3>1. Size(us) = Len(fifo) /\ Held(us, fifo, 0)
        BY <1>1, <1>4, <2>2 DEF BufInv, Filling, Phases
      <3>2. CASE io.op = "peek"
        <4>1. /\ Len(dst) <= Len(fifo)
              /\ Len(expect) = Len(dst) + AtMost(io.left, Len(fifo) - Len(dst))
              /\ (\A k \in 1..Len(expect) : expect[k] = fifo[k])
              /\ (\A k \in 1..Len(dst) : dst[k] = fifo[k])
              /\ (io.left > 0 => Len(dst) = Before(us, io.at))
          BY <3>2 DEF BufInv, Peeking
        <4>2. Len(dst) = Len(expect)
          <5>1. CASE io.left = 0
            BY <1>4, <4>1, <5>1 DEF AtMost
          <5>2. CASE io.left > 0
            <6>1. io.at > Len(us)
              BY <1>1, <1>3, <3>2, <5>2 DEF NullUnit
            <6>2. Before(us, io.at) = Size(us)
              <7>1. Len(us) \in Nat /\ us \in Seq(UnitRec)
                BY <1>3, ChainLen DEF Chain
              <7>2. CASE io.at = 1
                <8>1. us = <<>>
                  BY <6>1, <7>1, <7>2, LenProperties, EmptySeq
                <8> QED
                  BY <7>2, <8>1 DEF Before, Size
              <7>3. CASE io.at # 1
                BY <1>3, <6>1, <7>1, <7>3 DEF Before
              <7> QED
                BY <7>2, <7>3
            <6>3. Len(dst) = Len(fifo)
              BY <3>1, <4>1, <5>2, <6>2
            <6>4. AtMost(io.left, Len(fifo) - Len(dst)) = 0
              BY <1>3, <1>4, <6>3 DEF AtMost
            <6> QED
              BY <1>4, <4>1, <6>4
          <5> QED
            BY <1>3, <5>1, <5>2
        <4> QED
          BY <1>3, <3>1, <4>1, <4>2, SeqEqual
      <3>3. CASE io.op # "peek"
        BY <2>2, <3>1, <3>3 DEF BufInv, Phases
      <3> QED
        BY <3>2, <3>3
    <2> QED
      BY <2>1, <2>2
  <1>6. BufType'
    BY <1>1, <1>2, <1>3 DEF BufType
  <1>7. Filling'
    BY <1>1, <1>2, <1>4, <1>5 DEF Filling
  <1>8. Phases' /\ Reading' /\ Peeking'
    BY <1>1, <1>2, <1>5 DEF Phases, Reading, Peeking
  <1> QED
    BY <1>6, <1>7, <1>8 DEF BufInv

(* buf_destroy and buf_init leave no unit.                                    *)
LEMMA BufReset == ASSUME BufInv, buf_destroy \/ buf_reinit PROVE BufInv'
  <1>1. io = Idle /\ io' = io /\ dst' = <<>> /\ fifo' = <<>> /\ expect' = <<>>
    BY DEF buf_destroy, buf_reinit, Queue!Reset, BufInv, Phases
  <1>2. /\ buf'.units = <<>> /\ buf'.unit_cnt = 0 /\ DOMAIN buf' = {"inited", "units", "unit_cnt"}
    <2>1. CASE buf_destroy
      <3>1. buf.unit_cnt = Len(buf.units) /\ Len(buf.units) \in Nat
        BY ChainLen DEF BufInv, BufType, BufferOf
      <3> QED
        BY <2>1, <3>1 DEF buf_destroy
    <2>2. CASE buf_reinit
      BY <2>2 DEF buf_reinit, buf_init
    <2> QED
      BY <2>1, <2>2
  <1>3. /\ io'.op = "idle" /\ io'.src = <<>> /\ io'.left = 0 /\ io'.at = 1
        /\ DOMAIN io' = {"op", "src", "left", "at"}
    BY <1>1 DEF Idle, Call
  <1>4. BufferOf(buf')
    BY <1>2 DEF BufferOf, Chain
  <1>5. BufType'
    BY <1>1, <1>3, <1>4 DEF BufType
  <1>6. Filling'
    BY <1>1, <1>2, <1>3 DEF Filling, Size, Held
  <1>7. Phases' /\ Reading' /\ Peeking'
    BY <1>1, <1>3 DEF Phases, Reading, Peeking
  <1> QED
    BY <1>5, <1>6, <1>7 DEF BufInv

(* Every step of a call keeps what the units hold in line with the queue.     *)
LEMMA BufStep == BufInv /\ [BufNext]_bufvars => BufInv'
  <1> SUFFICES ASSUME BufInv, [BufNext]_bufvars PROVE BufInv'
    OBVIOUS
  <1> USE BufferAssumption
  <1>0. \A n \in Nat : \A c \in Chunks(n) : c \in Seq(Bytes)
    BY DEF Chunks, BoundedSeq, SeqOf
  <1>1. ASSUME NEW src \in Chunks(MaxIo), buf_write(src) PROVE BufInv'
    BY <1>0, <1>1, BufWriteStart
  <1>2. ASSUME NEW n \in 0..MaxFill + 1, buf_read(n) \/ buf_peek(n) PROVE BufInv'
    <2>1. n \in Nat
      OBVIOUS
    <2> QED
      BY <1>2, <2>1, BufReadStart
  <1>3. ASSUME NEW src \in Chunks(UnitSize), FdReadUnit(src) PROVE BufInv'
    BY <1>0, <1>3, BufFdReadStep
  <1>4. ASSUME NEW n \in 0..UnitSize, FdWriteUnit(n) PROVE BufInv'
    <2>1. n \in Nat
      OBVIOUS
    <2> QED
      BY <1>4, <2>1, BufFdWriteStep
  <1>5. CASE WriteUnit
    BY <1>5, BufWriteStep
  <1>6. CASE ReadUnit
    BY <1>6, BufReadStep
  <1>7. CASE PeekUnit
    BY <1>7, BufPeekStep
  <1>8. CASE LoopEnds \/ FdWriteFails
    BY <1>8, BufReturn
  <1>9. CASE buf_fd_read \/ buf_fd_write
    BY <1>9, BufFdStart
  <1>10. CASE buf_destroy \/ buf_reinit
    BY <1>10, BufReset
  <1>11. CASE UNCHANGED bufvars
    <2>1. buf' = buf /\ io' = io /\ dst' = dst /\ fifo' = fifo /\ expect' = expect
      BY <1>11 DEF bufvars
    <2> QED
      BY <2>1 DEF BufInv, BufType, Phases, Filling, Reading, Peeking, NullUnit
  <1> QED
    BY <1>1, <1>2, <1>3, <1>4, <1>5, <1>6, <1>7, <1>8, <1>9, <1>10, <1>11, Zenon DEF BufNext

(* What a caller sees of a buffer.                                            *)
LEMMA BufSeen == BufInv => BufIsFifo
  <1> SUFFICES ASSUME BufInv PROVE BufIsFifo
    OBVIOUS
  <1>1. buf_used(buf) = Size(buf.units) /\ Size(buf.units) \in Nat
    BY UsedIsSize, SizeNat DEF BufInv, BufType, BufferOf
  <1>2. Len(fifo) \in Nat /\ Len(dst) \in Nat /\ Len(expect) \in Nat
    BY LenProperties DEF BufInv, BufType
  <1>3. io.op \notin {"read", "peek"} => dst = expect
    BY DEF BufInv, Phases
  <1>4. CASE io.op = "read"
    <2>1. io.src = <<>> /\ Len(io.src) = 0
      BY <1>4 DEF BufInv, Phases
    <2>2. Len(dst) + Size(buf.units) = Len(expect) + Len(fifo)
      BY <1>4 DEF BufInv, Reading
    <2>3. Size(buf.units) + Len(io.src) = Len(fifo) + (Len(expect) - Len(dst))
      BY <1>1, <1>2, <2>1, <2>2
    <2> QED
      BY <1>1, <1>3, <1>4, <2>3 DEF BufIsFifo
  <1>5. CASE io.op # "read"
    <2>1. Size(buf.units) + Len(io.src) = Len(fifo) + 0
      BY <1>2, <1>5 DEF BufInv, Filling
    <2> QED
      BY <1>1, <1>3, <1>5, <2>1 DEF BufIsFifo
  <1> QED
    BY <1>4, <1>5

(* For any bytes, unit size and number of units: a buffer is a queue of bytes *)
(* to its readers, and buf_used counts them.                                  *)
THEOREM BufIsFifoHolds == BufSpec => []BufIsFifo
  <1>1. BufInit => BufInv
    BY BufStart
  <1>2. BufInv /\ [BufNext]_bufvars => BufInv'
    BY BufStep
  <1>3. BufInv => BufIsFifo
    BY BufSeen
  <1> QED
    BY <1>1, <1>2, <1>3, PTL DEF BufSpec
=============================================================================
