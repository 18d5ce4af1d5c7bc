------------------------------- MODULE MemCtl -------------------------------
(***************************************************************************)
(* The pool of huge pages the drivers take their DMA buffers from          *)
(* (QDMAController.cpp): two maps from address to length, one of the free  *)
(* and one of the used chunks, under one mutex.  A call is cut where       *)
(* another thread could come in between if the mutex did not keep it out.  *)
(* Addresses and lengths are in bytes.                                     *)
(***************************************************************************)
EXTENDS Integers, FiniteSetsExt, Functions

CONSTANTS
    Threads,
    BASE,      \* where mmap puts the pool
    PAGE,      \* bytes of a huge page, 2 MB in the code
    UNIT,      \* what lengths are rounded up to, 64 in the code
    PoolSizes, \* what callers of getInstance ask for
    Sizes,     \* what callers of alloc ask for
    Stray      \* pointers that alloc did not return, but somebody frees

NoThread == "none"

ASSUME MemCtlAssumption ==
    /\ NoThread \notin Threads
    /\ BASE \in Nat \ {0} /\ UNIT \in Nat \ {0} /\ PAGE \in Nat \ {0}
    /\ PAGE % UNIT = 0 /\ BASE % UNIT = 0
    /\ PoolSizes \subseteq Nat \ {0} /\ Sizes \subseteq Nat \ {0}
    /\ Stray \subseteq Nat /\ \A p \in Stray : p < BASE \/ p % UNIT # 0

VARIABLES
    pool_size,
    free_chunk,    \* address |-> length
    used_chunk,
    mutex,         \* allocMutex: the thread that has it, or NoThread
    call,          \* thread |-> the call it is in
    held,          \* the pointers the program has and has not freed
    exited         \* exit(1)

vars == <<pool_size, free_chunk, used_chunk, mutex, call, held, exited>>

(* What findFreeChunk gives back when it finds nothing.                     *)
NoChunk == [addr |-> 0, size |-> 0]

(* at: "call" before the lock, then "body" and "end"; size is the argument  *)
(* of alloc, or the length of the block to free; mine: the pointer came     *)
(* from alloc.                                                              *)
NoCall == [op |-> "none", at |-> "call", size |-> 0, ptr |-> 0, ck |-> NoChunk,
           mine |-> FALSE]

RoundUp(n, unit) == ((n + unit - 1) \div unit) * unit

(* The element a of a map f erased, set to v.                                *)
Without(f, a) == Restrict(f, DOMAIN f \ {a})
With(f, a, v) == [b \in DOMAIN f \cup {a} |-> IF b = a THEN v ELSE f[b]]

Init ==
    /\ pool_size = 0
    /\ free_chunk = <<>> /\ used_chunk = <<>>
    /\ mutex = NoThread
    /\ call = [t \in Threads |-> NoCall]
    /\ held = {} /\ exited = FALSE

-----------------------------------------------------------------------------
(* getInstance: the first caller makes the pool, its size rounded up to     *)
(* whole pages and all of it one free chunk; the size a later one asks for  *)
(* is ignored.  Its test and its creation are not guarded by a mutex, but   *)
(* every program calls it from main() before it has started a thread, so    *)
(* they are one step here.                                                  *)
GetInstance(n) ==
    /\ ~exited /\ pool_size = 0
    /\ pool_size' = RoundUp(n, PAGE)
    /\ free_chunk' = [a \in {BASE} |-> RoundUp(n, PAGE)]
    /\ UNCHANGED <<used_chunk, mutex, call, held, exited>>

CallAlloc(t, n) ==
    /\ ~exited /\ pool_size > 0 /\ call[t].op = "none"
    /\ call' = [call EXCEPT ![t] = [NoCall EXCEPT !.op = "alloc", !.size = RoundUp(n, UNIT)]]
    /\ UNCHANGED <<pool_size, free_chunk, used_chunk, mutex, held, exited>>

CallFree(t, p) ==
    /\ ~exited /\ pool_size > 0 /\ call[t].op = "none" /\ p \in held \cup Stray
    /\ call' = [call EXCEPT ![t] = [NoCall EXCEPT !.op = "free", !.ptr = p,
                                                  !.mine = p \in held]]
    /\ held' = held \ {p}
    /\ UNCHANGED <<pool_size, free_chunk, used_chunk, mutex, exited>>

(* No lock taken.                                                           *)
MayEnterAlways(t) == TRUE

MayEnter(t) == mutex = NoThread

(* std::lock_guard.                                                         *)
Lock(t) ==
    /\ ~exited /\ call[t].op # "none" /\ call[t].at = "call" /\ MayEnter(t)
    /\ mutex' = t
    /\ call' = [call EXCEPT ![t].at = "body"]
    /\ UNCHANGED <<pool_size, free_chunk, used_chunk, held, exited>>

-----------------------------------------------------------------------------
(* The lowest free chunk that is large enough.                              *)
FindFreeChunk(chunks, n) ==
    LET fit == {a \in DOMAIN chunks : chunks[a] >= n}
    IN  IF fit = {} THEN NoChunk ELSE [addr |-> Min(fit), size |-> chunks[Min(fit)]]

AllocFind(t) ==
    /\ ~exited /\ call[t].op = "alloc" /\ call[t].at = "body"
    /\ call' = [call EXCEPT ![t].ck = FindFreeChunk(free_chunk, call[t].size),
                            ![t].at = "end"]
    /\ UNCHANGED <<pool_size, free_chunk, used_chunk, mutex, held, exited>>

(* From the low end of the chunk.                                           *)
PlaceLow(a, len, n) == a

(* A block is cut from the high end of its chunk.                           *)
Place(a, len, n) == a + len - n

Returns(t) == mutex' = NoThread /\ call' = [call EXCEPT ![t] = NoCall]

AllocFails(t) ==
    /\ ~exited /\ call[t].op = "alloc" /\ call[t].at = "end" /\ call[t].ck.addr = 0
    /\ Returns(t)
    /\ UNCHANGED <<pool_size, free_chunk, used_chunk, held, exited>>

AllocTake(t) ==
    /\ ~exited /\ call[t].op = "alloc" /\ call[t].at = "end" /\ call[t].ck.addr # 0
    /\ LET a   == call[t].ck.addr
           n   == call[t].size
           len == call[t].ck.size
           ptr == IF len > n THEN Place(a, len, n) ELSE a
       IN  /\ free_chunk' = IF len > n THEN With(free_chunk, a, len - n)
                            ELSE Without(free_chunk, a)
           /\ used_chunk' = With(used_chunk, ptr, n)
           /\ held' = held \cup {ptr}
    /\ Returns(t)
    /\ UNCHANGED <<pool_size, exited>>

-----------------------------------------------------------------------------
(* "Pointer to free is not in Alloc Log".                                   *)
FreeUnknown(t) ==
    /\ ~exited /\ call[t].op = "free" /\ call[t].at = "body"
    /\ call[t].ptr \notin DOMAIN used_chunk
    /\ exited' = TRUE
    /\ UNCHANGED <<pool_size, free_chunk, used_chunk, mutex, call, held>>

FreeErase(t) ==
    /\ ~exited /\ call[t].op = "free" /\ call[t].at = "body"
    /\ call[t].ptr \in DOMAIN used_chunk
    /\ used_chunk' = Without(used_chunk, call[t].ptr)
    /\ call' = [call EXCEPT ![t].size = used_chunk[call[t].ptr], ![t].at = "end"]
    /\ UNCHANGED <<pool_size, free_chunk, mutex, held, exited>>

(* The chunks before and behind an address.  Where there is none before it, *)
(* std::prev of the first element is undefined: the libstdc++ tree gives    *)
(* back that element or its header, neither of which ends at the address.   *)
Before(a) == {b \in DOMAIN free_chunk : b <= a}
Behind(a) == {b \in DOMAIN free_chunk : b > a}
PrevEnds(a) == Before(a) # {} /\ Max(Before(a)) + free_chunk[Max(Before(a))] = a

(* The chunk behind is compared with where the block ends now that it has   *)
(* grown to len bytes at p; OldEnd forgets that it has.                     *)
OldEnd(p, len, n) == p + n
NewEnd(p, len, n) == p + len

(* The chunk a freed block becomes: it grows together with the chunk before *)
(* it and then with the chunk behind, which goes.                           *)
Merged(a, n) ==
    LET p    == IF PrevEnds(a) THEN Max(Before(a)) ELSE a
        len  == n + IF PrevEnds(a) THEN free_chunk[p] ELSE 0
        more == Behind(a) # {} /\ Min(Behind(a)) = NewEnd(p, len, n)
    IN  [ptr |-> p, size |-> len + IF more THEN free_chunk[Min(Behind(a))] ELSE 0,
         gone |-> IF more THEN {Min(Behind(a))} ELSE {}]

FreeMerge(t) ==
    /\ ~exited /\ call[t].op = "free" /\ call[t].at = "end"
    /\ LET c == Merged(call[t].ptr, call[t].size)
       IN  free_chunk' = With(Restrict(free_chunk, DOMAIN free_chunk \ c.gone), c.ptr, c.size)
    /\ Returns(t)
    /\ UNCHANGED <<pool_size, used_chunk, held, exited>>

(* The process is gone.                                                     *)
Exited == exited /\ UNCHANGED vars

Next ==
    \/ \E n \in PoolSizes : GetInstance(n)
    \/ \E t \in Threads :
        \/ \E n \in Sizes : CallAlloc(t, n)
        \/ \E p \in held \cup Stray : CallFree(t, p)
        \/ Lock(t)
        \/ AllocFind(t) \/ AllocFails(t) \/ AllocTake(t)
        \/ FreeUnknown(t) \/ FreeErase(t) \/ FreeMerge(t)
    \/ Exited

Spec == Init /\ [][Next]_vars

-----------------------------------------------------------------------------
Chunks == {<<a, free_chunk[a]>> : a \in DOMAIN free_chunk}
          \cup {<<a, used_chunk[a]>> : a \in DOMAIN used_chunk}

(* Whenever the mutex is free, free and used chunks tile the pool: they lie *)
(* in it, no two overlap and every byte is in one of them.  No two free     *)
(* ones touch, so that freeing in any order gives the pool back in one      *)
(* piece.                                                                   *)
PoolTiled ==
    mutex = NoThread /\ pool_size > 0 =>
        /\ DOMAIN free_chunk \cap DOMAIN used_chunk = {}
        /\ \A c \in Chunks : BASE <= c[1] /\ c[1] + c[2] <= BASE + pool_size
        /\ \A c, d \in Chunks : c # d => c[1] + c[2] <= d[1] \/ d[1] + d[2] <= c[1]
        /\ \A x \in BASE..(BASE + pool_size - 1) : \E c \in Chunks : c[1] <= x /\ x < c[1] + c[2]
        /\ \A a \in DOMAIN free_chunk : a + free_chunk[a] \notin DOMAIN free_chunk

(* A block stays in the log until the program frees it, whatever the other  *)
(* threads do: exit(1) ends the program only for a pointer that alloc did   *)
(* not return.                                                              *)
OwnBlocksLogged ==
    held \cup {call[t].ptr : t \in {u \in Threads :
                    call[u].op = "free" /\ call[u].at # "end" /\ call[u].mine}}
        \subseteq DOMAIN used_chunk

(* alloc and free do what BlockPool says: no overlap, and no failure while  *)
(* there is a gap.                                                          *)
Pool == INSTANCE BlockPool WITH
            PoolSizes <- {RoundUp(n, PAGE) : n \in PoolSizes},
            Lengths <- {RoundUp(n, UNIT) : n \in Sizes},
            size <- pool_size, live <- used_chunk,
            wanted <- [t \in Threads |-> IF call[t].op = "alloc" THEN call[t].size ELSE 0]

ImplementsPool == Pool!Spec
=============================================================================
