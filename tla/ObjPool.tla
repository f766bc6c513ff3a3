------------------------------ MODULE ObjPool -------------------------------
(* objpool (objpool.c), from which a server takes its clients and its buffer  *)
(* units: blocks of objects on one free list. A server that runs in several   *)
(* loops passes OBJPOOL_LOCK with every call, one that runs in a single loop  *)
(* calls without the lock, from that loop's thread. An object that one thread *)
(* took may be given back by another.                                         *)
EXTENDS Integers, FiniteSets, Splst
CONSTANTS PoolThreads, BlkSize, MaxBlks

ASSUME PoolAssumption ==
    /\ PoolThreads \subseteq Nat \ {0} /\ PoolThreads # {}
    /\ BlkSize \in Nat \ {0} /\ MaxBlks \in Nat

VARIABLES op,      \* the pool: uselock, free_elem, next pointers, blkcnt, mutex
          at,      \* where each thread is in a call
          obj,     \* the object the call is about
          taken    \* the objects that callers hold

poolvars == <<op, at, obj, taken>>

NoObj == 0
NoOwner == 0
Objs == 1..BlkSize * MaxBlks
BlkObjs(b) == (b - 1) * BlkSize + 1..b * BlkSize

objpool_init(uselock) ==
    [uselock |-> uselock, free_elem |-> NoObj, next |-> [o \in Objs |-> NoObj],
     blkcnt |-> 0, mutex |-> NoOwner]

\* Callers of an unlocked pool are all in one thread.
Callers == IF op.uselock THEN PoolThreads ELSE {CHOOSE t \in PoolThreads : TRUE}

Goto(t, l) == at' = [at EXCEPT ![t] = l]

CallGet(t) ==
    /\ at[t] = "out" /\ Goto(t, IF op.uselock THEN "get_lock" ELSE "get")
    /\ UNCHANGED <<op, obj, taken>>

CallFree(t, o) ==
    /\ at[t] = "out" /\ Goto(t, IF op.uselock THEN "free_lock" ELSE "free")
    /\ obj' = [obj EXCEPT ![t] = o]
    /\ taken' = taken \ {o}
    /\ UNCHANGED op

\* The mutex is not waited for.
LockIgnored(t) ==
    /\ at[t] \in {"get_lock", "free_lock"}
    /\ op' = [op EXCEPT !.mutex = t]
    /\ Goto(t, IF at[t] = "get_lock" THEN "get" ELSE "free")
    /\ UNCHANGED <<obj, taken>>

Lock(t) ==
    /\ at[t] \in {"get_lock", "free_lock"} /\ op.mutex = NoOwner
    /\ op' = [op EXCEPT !.mutex = t]
    /\ Goto(t, IF at[t] = "get_lock" THEN "get" ELSE "free")
    /\ UNCHANGED <<obj, taken>>

\* A block's objects are put on the list one after the other, the last in front.
NewBlock(t) ==
    /\ at[t] = "get" /\ op.free_elem = NoObj /\ op.blkcnt < MaxBlks
    /\ LET b == BlkObjs(op.blkcnt + 1)
       IN  op' = [op EXCEPT !.blkcnt = @ + 1,
                            !.next = [o \in Objs |-> IF o \notin b THEN op.next[o]
                                                    ELSE IF o - 1 \in b THEN o - 1
                                                    ELSE NoObj],
                            !.free_elem = (op.blkcnt + 1) * BlkSize]
    /\ UNCHANGED <<at, obj, taken>>

\* malloc failed: the caller gets NULL.
NoBlock(t) ==
    /\ at[t] = "get" /\ op.free_elem = NoObj
    /\ obj' = [obj EXCEPT ![t] = NoObj]
    /\ Goto(t, "unlock") /\ UNCHANGED <<op, taken>>

ReadHead(t) ==
    /\ at[t] = "get" /\ op.free_elem # NoObj
    /\ obj' = [obj EXCEPT ![t] = op.free_elem]
    /\ Goto(t, "unlink") /\ UNCHANGED <<op, taken>>

\* splst_del looks for the object from the head on, here its first element.
Unlink(t) ==
    /\ at[t] = "unlink"
    /\ op' = [op EXCEPT !.free_elem = IF @ = obj[t] THEN op.next[obj[t]] ELSE @,
                        !.next[obj[t]] = NoObj]
    /\ Goto(t, "unlock") /\ UNCHANGED <<obj, taken>>

LinkNext(t) ==
    /\ at[t] = "free"
    /\ op' = [op EXCEPT !.next[obj[t]] = op.free_elem]
    /\ Goto(t, "link") /\ UNCHANGED <<obj, taken>>

LinkHead(t) ==
    /\ at[t] = "link"
    /\ op' = [op EXCEPT !.free_elem = obj[t]]
    /\ obj' = [obj EXCEPT ![t] = NoObj]
    /\ Goto(t, "unlock") /\ UNCHANGED taken

\* The end of a call; objpool_get_obj has the object in obj[t].
Return(t) ==
    /\ at[t] = "unlock"
    /\ op' = [op EXCEPT !.mutex = NoOwner]
    /\ taken' = taken \cup ({obj[t]} \ {NoObj})
    /\ obj' = [obj EXCEPT ![t] = NoObj]
    /\ Goto(t, "out")

\* All the blocks go, with the objects callers still hold; a pool may be
\* initialised again.
objpool_destroy ==
    /\ \A t \in PoolThreads : at[t] = "out"
    /\ op' \in {objpool_init(TRUE), objpool_init(FALSE)}
    /\ taken' = {} /\ UNCHANGED <<at, obj>>

PoolInit ==
    /\ op \in {objpool_init(TRUE), objpool_init(FALSE)}
    /\ at = [t \in PoolThreads |-> "out"]
    /\ obj = [t \in PoolThreads |-> NoObj]
    /\ taken = {}

PoolNext ==
    \/ \E t \in Callers :
          \/ CallGet(t) \/ \E o \in taken : CallFree(t, o)
          \/ Lock(t) \/ NewBlock(t) \/ NoBlock(t) \/ ReadHead(t) \/ Unlink(t)
          \/ LinkNext(t) \/ LinkHead(t) \/ Return(t)
    \/ objpool_destroy

PoolSpec == PoolInit /\ [][PoolNext]_poolvars
-----------------------------------------------------------------------------
InCall(t) == obj[t] # NoObj /\ at[t] \in {"unlink", "unlock", "free_lock", "free", "link"}

\* The free list.
Free == Reach(op.next, op.free_elem)

(* No object is handed to two callers and none is lost, whichever threads     *)
(* take and give back: the objects on the free list, those callers hold and   *)
(* those of calls under way are disjoint, except for the one the thread in    *)
(* the list's code has not unlinked yet, and together they are the objects of *)
(* all blocks.                                                                *)
NoObjectTwice ==
    LET moving == {t \in PoolThreads : InCall(t)}
        out    == {obj[t] : t \in {u \in moving : at[u] # "unlink"}}
    IN  /\ \A t, u \in moving : obj[t] = obj[u] => t = u
        /\ taken \cap {obj[t] : t \in moving} = {}
        /\ Free \cap (taken \cup out) = {}
        /\ Free \cup taken \cup out = 1..BlkSize * op.blkcnt
=============================================================================
