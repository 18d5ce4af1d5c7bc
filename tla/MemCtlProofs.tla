---------------------------- MODULE MemCtlProofs ----------------------------
(***************************************************************************)
(* MemCtl for any number of threads, any pool, any lengths and any stray   *)
(* pointers: the chunks always tile the pool, no thread loses a block it   *)
(* has not freed, and alloc and free implement BlockPool.                  *)
(***************************************************************************)
EXTENDS MemCtl, WellFoundedInduction, TLAPS

-----------------------------------------------------------------------------
(* The inductive invariant.                                                *)

IsMap(f) == f \in [DOMAIN f -> Nat \ {0}] /\ DOMAIN f \subseteq Nat

Calls == [op: {"none", "alloc", "free"}, at: {"call", "body", "end"}, size: Nat, ptr: Nat,
          ck: [addr: Nat, size: Nat], mine: BOOLEAN]

TypeOK ==
  /\ pool_size \in Nat
  /\ IsMap(free_chunk) /\ IsMap(used_chunk)
  /\ mutex \in Threads \cup {NoThread}
  /\ call \in [Threads -> Calls]
  /\ held \subseteq Nat

(* Who is past the lock has the mutex, and the other way round.            *)
MutexInv == \A t \in Threads :
  /\ call[t].at # "call" <=> mutex = t
  /\ call[t].op = "none" => call[t].at = "call"
  /\ pool_size = 0 => call[t].op = "none"

(* Two blocks have no byte in common; a block lies in the pool.            *)
Apart(a, m, b, n) == a + m <= b \/ b + n <= a
InPool(a, n) == BASE <= a /\ a + n <= BASE + pool_size
Aligned(a, n) == a % UNIT = 0 /\ n % UNIT = 0

MapOK(f) ==
  /\ \A a \in DOMAIN f : InPool(a, f[a]) /\ Aligned(a, f[a])
  /\ \A a, b \in DOMAIN f : a # b => Apart(a, f[a], b, f[b])

(* A block that free has taken from the one map and not yet put into the   *)
(* other.                                                                  *)
Between(t) == call[t].op = "free" /\ call[t].at = "end"

BlocksInv ==
  /\ pool_size % UNIT = 0
  /\ MapOK(free_chunk) /\ MapOK(used_chunk)
  /\ \A a \in DOMAIN free_chunk, b \in DOMAIN used_chunk :
       Apart(a, free_chunk[a], b, used_chunk[b])
  /\ \A a \in DOMAIN free_chunk : a + free_chunk[a] \notin DOMAIN free_chunk
BetweenInv == \A t \in Threads : Between(t) =>
  /\ call[t].size > 0 /\ InPool(call[t].ptr, call[t].size) /\ Aligned(call[t].ptr, call[t].size)
  /\ \A a \in DOMAIN free_chunk : Apart(a, free_chunk[a], call[t].ptr, call[t].size)
  /\ \A a \in DOMAIN used_chunk : Apart(a, used_chunk[a], call[t].ptr, call[t].size)

(* Every byte of the pool belongs to somebody.                             *)
Holds(x, a, n) == a <= x /\ x < a + n
Owned(x) ==
  \/ \E a \in DOMAIN free_chunk : Holds(x, a, free_chunk[a])
  \/ \E a \in DOMAIN used_chunk : Holds(x, a, used_chunk[a])
  \/ \E t \in Threads : Between(t) /\ Holds(x, call[t].ptr, call[t].size)
CoverInv == \A x \in BASE..(BASE + pool_size - 1) : Owned(x)

(* What findFreeChunk found is still so when it is used.                   *)
FoundInv == \A t \in Threads : call[t].op = "alloc" =>
  /\ call[t].size > 0 /\ call[t].size % UNIT = 0
  /\ call[t].at = "end" =>
       IF call[t].ck.addr = 0 THEN \A a \in DOMAIN free_chunk : free_chunk[a] < call[t].size
       ELSE /\ call[t].ck.addr \in DOMAIN free_chunk
            /\ call[t].ck.size = free_chunk[call[t].ck.addr] /\ call[t].ck.size >= call[t].size

(* A pointer the program has, or is about to free, is in the log, and in   *)
(* one of these places only.                                               *)
Freeing(t) == call[t].op = "free" /\ call[t].at # "end"
OwnInv ==
  /\ held \subseteq DOMAIN used_chunk
  /\ \A t \in Threads : Freeing(t) =>
       IF call[t].mine THEN call[t].ptr \in DOMAIN used_chunk \ held ELSE call[t].ptr \in Stray
  /\ \A t, u \in Threads : t # u /\ Freeing(t) /\ Freeing(u) /\ call[t].mine /\ call[u].mine =>
       call[t].ptr # call[u].ptr

IInv == TypeOK /\ MutexInv /\ BlocksInv /\ BetweenInv /\ CoverInv /\ FoundInv /\ OwnInv

-----------------------------------------------------------------------------
(* Arithmetic: least and greatest elements, multiples of UNIT.             *)

LEMMA NatMin ==
  ASSUME NEW T, T \subseteq Nat, T # {} PROVE \E x \in T : \A y \in T : x <= y
<1>1. \E x \in T : \A y \in T : ~ (<<y, x>> \in OpToRel(<, Nat))
  BY NatLessThanWellFounded, WFMin
<1>2. ASSUME NEW x \in Nat, NEW y \in Nat PROVE x <= y <=> ~ (<<y, x>> \in OpToRel(<, Nat))
  BY SMT DEF OpToRel
<1> QED
  BY <1>1, <1>2

LEMMA MinIs ==
  ASSUME NEW T, T \subseteq Nat, T # {} PROVE Min(T) \in T /\ \A y \in T : Min(T) <= y
  BY NatMin DEF Min

LEMMA MaxIs ==
  ASSUME NEW T, NEW N \in Nat, T \subseteq 0..N, T # {} PROVE Max(T) \in T /\ \A y \in T : Max(T) >= y
<1> DEFINE U == {n \in Nat : N - n \in T}
<1>1. PICK z \in T : TRUE
  OBVIOUS
<1>2. N - z \in U
  BY <1>1
<1>3. PICK u \in U : \A y \in U : u <= y
  BY <1>2, NatMin
<1>4. \A y \in T : N - u >= y
  <2> TAKE y \in T
  <2>1. N - y \in Nat /\ N - (N - y) = y
    OBVIOUS
  <2>2. N - y \in U
    BY <2>1
  <2> QED
    BY <1>3, <2>1, <2>2
<1>5. \E x \in T : \A y \in T : x >= y
  BY <1>3, <1>4
<1> QED
  BY <1>5 DEF Max

LEMMA Quotient ==
  ASSUME NEW a \in Nat, a % UNIT = 0 PROVE \E i \in Nat : a = UNIT * i
<1>1. a = UNIT * (a \div UNIT) /\ a \div UNIT \in Nat
  BY MemCtlAssumption
<1> QED
  BY <1>1

LEMMA Multiples ==
  ASSUME NEW a \in Nat, NEW b \in Nat, a % UNIT = 0, b % UNIT = 0
  PROVE  (a + b) % UNIT = 0 /\ (a >= b => (a - b) % UNIT = 0)
<1>1. UNIT \in Nat \ {0}
  BY MemCtlAssumption
<1>2. PICK i \in Nat : a = UNIT * i
  BY Quotient
<1>3. PICK j \in Nat : b = UNIT * j
  BY Quotient
<1>4. a + b = UNIT * (i + j) /\ a - b = UNIT * (i - j)
  BY <1>1, <1>2, <1>3
<1>5. ASSUME NEW k \in Int, UNIT * k >= 0 PROVE k >= 0
  BY <1>1, <1>5
<1>6. a >= b => i - j \in Nat
  BY <1>4, <1>5
<1>7. \A k \in Nat : (UNIT * k) % UNIT = 0
  BY <1>1
<1> QED
  BY <1>4, <1>6, <1>7

LEMMA Rounded ==
  ASSUME NEW n \in Nat \ {0}, NEW u \in Nat \ {0}, u % UNIT = 0
  PROVE  RoundUp(n, u) \in Nat \ {0} /\ RoundUp(n, u) % UNIT = 0
<1>1. UNIT \in Nat \ {0}
  BY MemCtlAssumption
<1>2. PICK i \in Nat : u = UNIT * i
  BY Quotient
<1> DEFINE k == (n + u - 1) \div u
<1>3. k \in Nat /\ RoundUp(n, u) = k * u
  BY DEF RoundUp
<1>4. RoundUp(n, u) >= n
  BY DEF RoundUp
<1> HIDE DEF k
<1>5. RoundUp(n, u) = UNIT * (i * k) /\ i * k \in Nat
  <2>1. i * k \in Nat
    BY <1>3
  <2>2. k * (UNIT * i) = UNIT * (i * k)
    BY <1>1, <1>3
  <2> QED
    BY <1>2, <1>3, <2>1, <2>2
<1>6. \A j \in Nat : (UNIT * j) % UNIT = 0
  BY <1>1
<1>7. RoundUp(n, u) \in Nat
  BY <1>3
<1> QED
  BY <1>4, <1>5, <1>6, <1>7

-----------------------------------------------------------------------------
(* The calls of the threads.                                               *)

LEMMA CallTypes ==
  ASSUME TypeOK, NEW t \in Threads
  PROVE  /\ call[t] \in Calls
         /\ call[t].op \in {"none", "alloc", "free"} /\ call[t].at \in {"call", "body", "end"}
         /\ call[t].size \in Nat /\ call[t].ptr \in Nat /\ call[t].mine \in BOOLEAN
         /\ call[t].ck \in [addr: Nat, size: Nat]
         /\ call[t].ck.addr \in Nat /\ call[t].ck.size \in Nat
  BY DEF TypeOK, Calls

LEMMA NoCallFields ==
  /\ NoCall \in Calls /\ NoCall.op = "none" /\ NoCall.at = "call"
  /\ NoThread \notin Threads
  BY MemCtlAssumption DEF NoCall, NoChunk, Calls

(* Maps and blocks in between that stay as they are.                       *)
LEMMA Quiet ==
  ASSUME IInv, UNCHANGED <<pool_size, free_chunk, used_chunk>>,
         \A u \in Threads :
            /\ (Between(u))' <=> Between(u)
            /\ Between(u) => call'[u].ptr = call[u].ptr /\ call'[u].size = call[u].size
  PROVE  BlocksInv' /\ BetweenInv' /\ CoverInv'
<1>1. BlocksInv'
  BY DEF IInv, BlocksInv, MapOK, InPool
<1>2. BetweenInv'
  BY DEF IInv, BetweenInv, InPool
<1>3. CoverInv'
  <2> SUFFICES ASSUME NEW x \in BASE..(BASE + pool_size - 1) PROVE Owned(x)'
    BY DEF CoverInv
  <2>1. Owned(x)
    BY DEF IInv, CoverInv
  <2> QED
    BY <2>1 DEF Owned
<1> QED
  BY <1>1, <1>2, <1>3

LEMMA InitInv == Init => IInv
<1> SUFFICES ASSUME Init PROVE IInv
  OBVIOUS
<1> USE DEF Init
<1>1. /\ pool_size = 0 /\ DOMAIN free_chunk = {} /\ DOMAIN used_chunk = {}
      /\ \A t \in Threads : call[t] = NoCall
  OBVIOUS
<1>2. TypeOK
  BY NoCallFields DEF TypeOK, IsMap
<1>3. MutexInv
  BY <1>1, NoCallFields DEF MutexInv
<1>4. BlocksInv
  BY <1>1, MemCtlAssumption DEF BlocksInv, MapOK
<1>5. BetweenInv /\ FoundInv /\ OwnInv
  BY <1>1, NoCallFields DEF BetweenInv, FoundInv, OwnInv, Between, Freeing
<1>6. CoverInv
  BY <1>1, MemCtlAssumption DEF CoverInv
<1> QED
  BY <1>2, <1>3, <1>4, <1>5, <1>6 DEF IInv

(* The pool is made: all of it is one free chunk.                          *)
LEMMA GetInstanceInv ==
  ASSUME IInv, NEW n \in PoolSizes, GetInstance(n) PROVE IInv'
<1> DEFINE p == RoundUp(n, PAGE)
<1>1. p \in Nat \ {0} /\ p % UNIT = 0 /\ BASE \in Nat \ {0} /\ BASE % UNIT = 0
  BY Rounded, MemCtlAssumption
<1>2. /\ pool_size = 0 /\ pool_size' = p /\ free_chunk' = [a \in {BASE} |-> p]
      /\ UNCHANGED <<used_chunk, mutex, call, held>>
  BY DEF GetInstance
<1> HIDE DEF p
<1>3. DOMAIN used_chunk = {}
  <2> SUFFICES ASSUME NEW a \in DOMAIN used_chunk PROVE FALSE
    OBVIOUS
  <2>1. a \in Nat /\ used_chunk[a] \in Nat \ {0}
    BY DEF IInv, TypeOK, IsMap
  <2>2. BASE <= a /\ a + used_chunk[a] <= BASE + pool_size
    BY DEF IInv, BlocksInv, MapOK, InPool
  <2> QED
    BY <1>1, <1>2, <2>1, <2>2
<1>4. \A t \in Threads : call[t].op = "none"
  BY <1>2 DEF IInv, MutexInv
<1>5. TypeOK'
  BY <1>1, <1>2 DEF IInv, TypeOK, IsMap
<1>6. MutexInv'
  BY <1>1, <1>2 DEF IInv, MutexInv
<1>7. BlocksInv'
  BY <1>1, <1>2, <1>3 DEF BlocksInv, MapOK, InPool, Aligned
<1>8. BetweenInv' /\ FoundInv' /\ OwnInv'
  BY <1>2, <1>4 DEF IInv, BetweenInv, FoundInv, OwnInv, Between, Freeing
<1>9. CoverInv'
  BY <1>1, <1>2 DEF CoverInv, Owned, Holds
<1> QED
  BY <1>5, <1>6, <1>7, <1>8, <1>9 DEF IInv

(* The steps that change no map.                                           *)
LEMMA CallAllocInv ==
  ASSUME IInv, NEW t \in Threads, NEW n \in Sizes, CallAlloc(t, n) PROVE IInv'
<1> DEFINE c == [NoCall EXCEPT !.op = "alloc", !.size = RoundUp(n, UNIT)]
<1>1. RoundUp(n, UNIT) \in Nat \ {0} /\ RoundUp(n, UNIT) % UNIT = 0
  <2>1. UNIT \in Nat \ {0} /\ n \in Nat \ {0} /\ UNIT % UNIT = 0
    BY MemCtlAssumption
  <2> QED
    BY <2>1, Rounded
<1>2. c \in Calls /\ c.op = "alloc" /\ c.at = "call" /\ c.size = RoundUp(n, UNIT)
  BY <1>1 DEF NoCall, NoChunk, Calls
<1> HIDE DEF c
<1>3. /\ call[t].op = "none" /\ pool_size > 0
      /\ call' = [call EXCEPT ![t] = c]
      /\ UNCHANGED <<pool_size, free_chunk, used_chunk, mutex, held>>
  BY DEF CallAlloc, c
<1>4. call'[t] = c /\ \A u \in Threads : u # t => call'[u] = call[u]
  BY <1>3 DEF IInv, TypeOK
<1>5. TypeOK'
  BY <1>2, <1>3 DEF IInv, TypeOK
<1>6. MutexInv'
  BY <1>2, <1>3, <1>4 DEF IInv, TypeOK, MutexInv
<1>7. BlocksInv' /\ BetweenInv' /\ CoverInv'
  BY <1>2, <1>3, <1>4, Quiet DEF Between
<1>8. FoundInv'
  BY <1>1, <1>2, <1>3, <1>4 DEF IInv, FoundInv
<1>9. OwnInv'
  BY <1>2, <1>3, <1>4 DEF IInv, OwnInv, Freeing
<1> QED
  BY <1>5, <1>6, <1>7, <1>8, <1>9 DEF IInv

LEMMA CallFreeInv ==
  ASSUME IInv, NEW t \in Threads, NEW p \in held \cup Stray, CallFree(t, p) PROVE IInv'
<1> DEFINE c == [NoCall EXCEPT !.op = "free", !.ptr = p, !.mine = p \in held]
<1>1. p \in Nat
  BY MemCtlAssumption DEF IInv, TypeOK
<1>2. /\ c \in Calls /\ c.op = "free" /\ c.at = "call" /\ c.ptr = p
      /\ c.mine <=> p \in held
  <2>1. (p \in held) \in BOOLEAN
    OBVIOUS
  <2>2. ASSUME NEW m \in BOOLEAN
        PROVE  LET d == [NoCall EXCEPT !.op = "free", !.ptr = p, !.mine = m] IN
               d \in Calls /\ d.op = "free" /\ d.at = "call" /\ d.ptr = p /\ d.mine = m
    BY <1>1 DEF NoCall, NoChunk, Calls
  <2> QED
    BY <2>1, <2>2, Zenon
<1> HIDE DEF c
<1>3. /\ call[t].op = "none" /\ pool_size > 0 /\ held' = held \ {p}
      /\ call' = [call EXCEPT ![t] = c]
      /\ UNCHANGED <<pool_size, free_chunk, used_chunk, mutex>>
  BY DEF CallFree, c
<1>4. call'[t] = c /\ \A u \in Threads : u # t => call'[u] = call[u]
  BY <1>3 DEF IInv, TypeOK
<1>5. TypeOK'
  BY <1>2, <1>3 DEF IInv, TypeOK
<1>6. MutexInv'
  BY <1>2, <1>3, <1>4 DEF IInv, TypeOK, MutexInv
<1>7. BlocksInv' /\ BetweenInv' /\ CoverInv'
  BY <1>2, <1>3, <1>4, Quiet DEF Between
<1>8. FoundInv'
  BY <1>2, <1>3, <1>4 DEF IInv, FoundInv
<1>9. OwnInv'
  <2>1. held' \subseteq DOMAIN used_chunk'
    BY <1>3 DEF IInv, OwnInv
  <2>2. ASSUME NEW u \in Threads, Freeing(u)'
        PROVE  IF call'[u].mine THEN call'[u].ptr \in DOMAIN used_chunk' \ held' ELSE call'[u].ptr \in Stray
    <3>1. CASE u = t
      BY <1>2, <1>3, <1>4, <3>1 DEF IInv, OwnInv
    <3>2. CASE u # t
      BY <1>3, <1>4, <2>2, <3>2 DEF IInv, OwnInv, Freeing
    <3> QED
      BY <3>1, <3>2
  <2>3. ASSUME NEW u \in Threads, NEW v \in Threads, u # v, Freeing(u)', Freeing(v)',
               call'[u].mine, call'[v].mine
        PROVE  call'[u].ptr # call'[v].ptr
    <3>1. CASE u # t /\ v # t
      BY <1>4, <2>3, <3>1 DEF IInv, OwnInv, Freeing
    <3>2. CASE u = t
      BY <1>2, <1>4, <2>3, <3>2 DEF IInv, OwnInv, Freeing
    <3>3. CASE v = t
      BY <1>2, <1>4, <2>3, <3>3 DEF IInv, OwnInv, Freeing
    <3> QED
      BY <3>1, <3>2, <3>3
  <2> QED
    BY <2>1, <2>2, <2>3 DEF OwnInv
<1> QED
  BY <1>5, <1>6, <1>7, <1>8, <1>9 DEF IInv

LEMMA LockInv == ASSUME IInv, NEW t \in Threads, Lock(t) PROVE IInv'
<1>1. /\ call[t].op # "none" /\ call[t].at = "call" /\ mutex = NoThread /\ mutex' = t
      /\ call' = [call EXCEPT ![t].at = "body"]
      /\ UNCHANGED <<pool_size, free_chunk, used_chunk, held>>
  BY DEF Lock, MayEnter
<1>2. /\ call'[t] \in Calls /\ call'[t].at = "body"
      /\ call'[t].op = call[t].op /\ call'[t].size = call[t].size /\ call'[t].ptr = call[t].ptr
      /\ call'[t].mine = call[t].mine
      /\ call' \in [Threads -> Calls]
      /\ \A u \in Threads : u # t => call'[u] = call[u]
  BY <1>1 DEF IInv, TypeOK, Calls
<1>3. TypeOK'
  BY <1>1, <1>2 DEF IInv, TypeOK
<1>4. MutexInv'
  BY <1>1, <1>2, NoCallFields DEF IInv, MutexInv
<1>5. BlocksInv' /\ BetweenInv' /\ CoverInv'
  BY <1>1, <1>2, Quiet DEF Between
<1>6. FoundInv'
  BY <1>1, <1>2 DEF IInv, FoundInv
<1>7. OwnInv'
  BY <1>1, <1>2 DEF IInv, OwnInv, Freeing
<1> QED
  BY <1>3, <1>4, <1>5, <1>6, <1>7 DEF IInv

LEMMA AllocFindInv == ASSUME IInv, NEW t \in Threads, AllocFind(t) PROVE IInv'
<1> DEFINE fit == {a \in DOMAIN free_chunk : free_chunk[a] >= call[t].size}
           ck  == FindFreeChunk(free_chunk, call[t].size)
<1>1. /\ call[t].op = "alloc" /\ call[t].at = "body"
      /\ call' = [call EXCEPT ![t].ck = ck, ![t].at = "end"]
      /\ UNCHANGED <<pool_size, free_chunk, used_chunk, mutex, held>>
  BY DEF AllocFind
<1>2. /\ ck \in [addr: Nat, size: Nat]
      /\ IF ck.addr = 0 THEN \A a \in DOMAIN free_chunk : free_chunk[a] < call[t].size
         ELSE /\ ck.addr \in DOMAIN free_chunk
              /\ ck.size = free_chunk[ck.addr] /\ ck.size >= call[t].size
  <2>1. CASE fit = {}
    <3>1. ck = NoChunk
      BY <2>1 DEF FindFreeChunk
    <3> QED
      BY <2>1, <3>1, CallTypes DEF NoChunk, IInv, TypeOK, IsMap
  <2>2. CASE fit # {}
    <3>1. ck = [addr |-> Min(fit), size |-> free_chunk[Min(fit)]]
      BY <2>2 DEF FindFreeChunk
    <3>2. Min(fit) \in fit
      BY <2>2, MinIs DEF IInv, TypeOK, IsMap
    <3> QED
      BY <3>1, <3>2, MemCtlAssumption DEF IInv, TypeOK, IsMap, BlocksInv, MapOK, InPool
  <2> QED
    BY <2>1, <2>2
<1> HIDE DEF ck, fit
<1>3. /\ call' \in [Threads -> Calls]
      /\ call'[t].op = "alloc" /\ call'[t].at = "end" /\ call'[t].ck = ck
      /\ call'[t].size = call[t].size
      /\ \A u \in Threads : u # t => call'[u] = call[u]
  BY <1>1, <1>2 DEF IInv, TypeOK, Calls
<1>4. TypeOK'
  BY <1>1, <1>3 DEF IInv, TypeOK
<1>5. MutexInv'
  BY <1>1, <1>3 DEF IInv, MutexInv
<1>6. BlocksInv' /\ BetweenInv' /\ CoverInv'
  BY <1>1, <1>3, Quiet DEF Between
<1>7. FoundInv'
  BY <1>1, <1>2, <1>3 DEF IInv, FoundInv
<1>8. OwnInv'
  BY <1>1, <1>3 DEF IInv, OwnInv, Freeing
<1> QED
  BY <1>4, <1>5, <1>6, <1>7, <1>8 DEF IInv

(* A call that ends leaves the mutex and the thread free.                  *)
LEMMA ReturnsInv ==
  ASSUME IInv, NEW t \in Threads, mutex = t, Returns(t), UNCHANGED pool_size
  PROVE  /\ mutex' \in Threads \cup {NoThread} /\ call' \in [Threads -> Calls]
         /\ MutexInv' /\ call'[t] = NoCall
         /\ \A u \in Threads : u # t => call'[u] = call[u] /\ call[u].at = "call"
<1>1. mutex' = NoThread /\ call' = [call EXCEPT ![t] = NoCall]
  BY DEF Returns
<1>2. call' \in [Threads -> Calls] /\ call'[t] = NoCall /\ \A u \in Threads : u # t => call'[u] = call[u]
  BY <1>1, NoCallFields DEF IInv, TypeOK
<1>3. \A u \in Threads : u # t => call[u].at = "call"
  BY DEF IInv, MutexInv
<1>4. MutexInv'
  BY <1>1, <1>2, <1>3, NoCallFields DEF IInv, MutexInv
<1> QED
  BY <1>1, <1>2, <1>3, <1>4

LEMMA AllocFailsInv == ASSUME IInv, NEW t \in Threads, AllocFails(t) PROVE IInv'
<1>1. /\ call[t].op = "alloc" /\ call[t].at = "end" /\ Returns(t)
      /\ UNCHANGED <<pool_size, free_chunk, used_chunk, held>>
  BY DEF AllocFails
<1>2. mutex = t
  BY <1>1 DEF IInv, MutexInv
<1>3. /\ mutex' \in Threads \cup {NoThread} /\ call' \in [Threads -> Calls]
      /\ MutexInv' /\ call'[t] = NoCall
      /\ \A u \in Threads : u # t => call'[u] = call[u]
  BY <1>1, <1>2, ReturnsInv
<1>4. TypeOK'
  BY <1>1, <1>3 DEF IInv, TypeOK
<1>5. BlocksInv' /\ BetweenInv' /\ CoverInv'
  BY <1>1, <1>3, NoCallFields, Quiet DEF Between
<1>6. FoundInv'
  BY <1>1, <1>3, NoCallFields DEF IInv, FoundInv
<1>7. OwnInv'
  BY <1>1, <1>3, NoCallFields DEF IInv, OwnInv, Freeing
<1> QED
  BY <1>3, <1>4, <1>5, <1>6, <1>7 DEF IInv

-----------------------------------------------------------------------------
(* The maps.                                                               *)

LEMMA MapTypes ==
  ASSUME TypeOK
  PROVE  /\ \A a \in DOMAIN free_chunk : a \in Nat /\ free_chunk[a] \in Nat \ {0}
         /\ \A a \in DOMAIN used_chunk : a \in Nat /\ used_chunk[a] \in Nat \ {0}
         /\ BASE \in Nat \ {0} /\ UNIT \in Nat \ {0} /\ pool_size \in Nat
  BY MemCtlAssumption DEF TypeOK, IsMap

LEMMA RestrictIs ==
  ASSUME NEW f, IsMap(f), NEW S, S \subseteq DOMAIN f
  PROVE  /\ IsMap(Restrict(f, S)) /\ DOMAIN Restrict(f, S) = S
         /\ \A b \in S : Restrict(f, S)[b] = f[b]
  BY DEF Restrict, IsMap

LEMMA WithoutIs ==
  ASSUME NEW f, IsMap(f), NEW a
  PROVE  /\ IsMap(Without(f, a)) /\ DOMAIN Without(f, a) = DOMAIN f \ {a}
         /\ \A b \in DOMAIN f : b # a => Without(f, a)[b] = f[b]
  BY RestrictIs DEF Without

(* What a successful alloc does: a block of n bytes is cut from the high   *)
(* end of the chunk at a, which shrinks, or goes if nothing is left.       *)
Takes(t, a, n) ==
  LET ptr == a + free_chunk[a] - n IN
  /\ n = call[t].size /\ n <= free_chunk[a] /\ n % UNIT = 0 /\ ptr \in Nat
  /\ IsMap(free_chunk') /\ IsMap(used_chunk')
  /\ DOMAIN free_chunk' = IF n < free_chunk[a] THEN DOMAIN free_chunk
                          ELSE DOMAIN free_chunk \ {a}
  /\ \A b \in DOMAIN free_chunk' : free_chunk'[b] = IF b = a THEN free_chunk[a] - n ELSE free_chunk[b]
  /\ DOMAIN used_chunk' = DOMAIN used_chunk \cup {ptr}
  /\ used_chunk'[ptr] = n
  /\ \A b \in DOMAIN used_chunk : b # ptr => used_chunk'[b] = used_chunk[b]
  /\ held' = held \cup {ptr}
  /\ used_chunk' = With(used_chunk, ptr, n)
  /\ mutex = t /\ Returns(t) /\ UNCHANGED pool_size

LEMMA TakeFacts ==
  ASSUME IInv, NEW t \in Threads, AllocTake(t)
  PROVE  \E a \in DOMAIN free_chunk, n \in Nat \ {0} : Takes(t, a, n)
<1> DEFINE a == call[t].ck.addr
           n == call[t].size
           len == call[t].ck.size
           ptr == IF len > n THEN Place(a, len, n) ELSE a
<1>1. /\ call[t].op = "alloc" /\ call[t].at = "end" /\ call[t].ck.addr # 0
      /\ free_chunk' = IF len > n THEN With(free_chunk, a, len - n) ELSE Without(free_chunk, a)
      /\ used_chunk' = With(used_chunk, ptr, n) /\ held' = held \cup {ptr}
      /\ Returns(t) /\ UNCHANGED pool_size
  BY DEF AllocTake
<1>2. /\ a \in DOMAIN free_chunk /\ len = free_chunk[a] /\ len >= n /\ n > 0 /\ n % UNIT = 0
  BY <1>1 DEF IInv, FoundInv
<1>3. a \in Nat /\ len \in Nat \ {0} /\ n \in Nat \ {0}
  BY <1>2, CallTypes, MapTypes DEF IInv
<1>4. ptr = a + len - n /\ ptr \in Nat
  BY <1>2, <1>3 DEF Place
<1>5. mutex = t
  BY <1>1 DEF IInv, MutexInv
<1>6. IsMap(free_chunk) /\ IsMap(used_chunk)
  BY DEF IInv, TypeOK
<1> HIDE DEF a, n, len, ptr
<1>7. /\ IsMap(used_chunk') /\ DOMAIN used_chunk' = DOMAIN used_chunk \cup {ptr}
      /\ used_chunk'[ptr] = n
      /\ \A b \in DOMAIN used_chunk : b # ptr => used_chunk'[b] = used_chunk[b]
  <2>1. used_chunk' = With(used_chunk, ptr, n)
    BY <1>1
  <2> QED
    BY <1>3, <1>4, <1>6, <2>1 DEF With, IsMap
<1>8. /\ IsMap(free_chunk')
      /\ DOMAIN free_chunk' = IF n < len THEN DOMAIN free_chunk ELSE DOMAIN free_chunk \ {a}
      /\ \A b \in DOMAIN free_chunk' : free_chunk'[b] = IF b = a THEN len - n ELSE free_chunk[b]
  <2>1. CASE len > n
    <3>1. len - n \in Nat \ {0} /\ n < len
      BY <1>3, <2>1
    <3>2. free_chunk' = With(free_chunk, a, len - n)
      BY <1>1, <2>1
    <3>3. /\ IsMap(free_chunk') /\ DOMAIN free_chunk' = DOMAIN free_chunk \cup {a}
          /\ free_chunk'[a] = len - n
          /\ \A b \in DOMAIN free_chunk : b # a => free_chunk'[b] = free_chunk[b]
      BY <1>3, <1>6, <3>1, <3>2 DEF With, IsMap
    <3> QED
      BY <1>2, <3>1, <3>3
  <2>2. CASE ~(len > n)
    <3>1. free_chunk' = Without(free_chunk, a) /\ ~(n < len)
      BY <1>1, <1>3, <2>2
    <3>2. /\ IsMap(free_chunk') /\ DOMAIN free_chunk' = DOMAIN free_chunk \ {a}
          /\ \A b \in DOMAIN free_chunk : b # a => free_chunk'[b] = free_chunk[b]
      BY <1>6, <3>1, WithoutIs, Zenon
    <3> QED
      BY <3>1, <3>2
  <2> QED
    BY <2>1, <2>2
<1>9. n = call[t].size /\ n <= len
  BY <1>2, <1>3 DEF n
<1>10. ptr = a + free_chunk[a] - n
  BY <1>2, <1>4
<1>11. Takes(t, a, n)
  BY <1>1, <1>2, <1>4, <1>5, <1>7, <1>8, <1>9, <1>10 DEF Takes
<1> QED
  BY <1>2, <1>3, <1>11

LEMMA AllocTakeInv == ASSUME IInv, NEW t \in Threads, AllocTake(t) PROVE IInv'
<1>0. PICK a \in DOMAIN free_chunk, n \in Nat \ {0} : Takes(t, a, n)
  BY TakeFacts
<1> DEFINE ptr == a + free_chunk[a] - n
<1>1. /\ n = call[t].size /\ n <= free_chunk[a] /\ n % UNIT = 0 /\ ptr \in Nat
      /\ IsMap(free_chunk') /\ IsMap(used_chunk')
      /\ DOMAIN free_chunk' = IF n < free_chunk[a] THEN DOMAIN free_chunk
                              ELSE DOMAIN free_chunk \ {a}
      /\ \A b \in DOMAIN free_chunk' : free_chunk'[b] = IF b = a THEN free_chunk[a] - n ELSE free_chunk[b]
      /\ DOMAIN used_chunk' = DOMAIN used_chunk \cup {ptr}
      /\ used_chunk'[ptr] = n
      /\ \A b \in DOMAIN used_chunk : b # ptr => used_chunk'[b] = used_chunk[b]
      /\ held' = held \cup {ptr}
      /\ used_chunk' = With(used_chunk, ptr, n)
      /\ mutex = t /\ Returns(t) /\ UNCHANGED pool_size
  BY <1>0 DEF Takes
<1>2. /\ \A b \in DOMAIN free_chunk : b \in Nat /\ free_chunk[b] \in Nat \ {0}
      /\ \A b \in DOMAIN used_chunk : b \in Nat /\ used_chunk[b] \in Nat \ {0}
      /\ BASE \in Nat \ {0} /\ pool_size \in Nat
  BY MapTypes DEF IInv
<1>3. /\ mutex' \in Threads \cup {NoThread} /\ call' \in [Threads -> Calls]
      /\ MutexInv' /\ call'[t] = NoCall
      /\ \A u \in Threads : u # t => call'[u] = call[u] /\ call[u].at = "call"
  BY <1>1, ReturnsInv
<1>4. TypeOK'
  BY <1>1, <1>2, <1>3 DEF IInv, TypeOK
<1>5. /\ ptr % UNIT = 0 /\ (free_chunk[a] - n) % UNIT = 0
      /\ InPool(a, free_chunk[a])
      /\ \A b \in DOMAIN free_chunk : b # a => Apart(a, free_chunk[a], b, free_chunk[b])
      /\ \A b \in DOMAIN used_chunk : Apart(a, free_chunk[a], b, used_chunk[b])
  <2>1. a % UNIT = 0 /\ free_chunk[a] % UNIT = 0
    BY DEF IInv, BlocksInv, MapOK, Aligned
  <2>2. free_chunk[a] - n \in Nat /\ (free_chunk[a] - n) % UNIT = 0
    <3>1. n \in Nat /\ n % UNIT = 0 /\ free_chunk[a] >= n /\ free_chunk[a] \in Nat
      BY <1>1, <1>2
    <3>2. (free_chunk[a] - n) % UNIT = 0
      BY <2>1, <3>1, Multiples, Zenon
    <3> QED
      BY <3>1, <3>2
  <2>3. (a + (free_chunk[a] - n)) % UNIT = 0 /\ ptr = a + (free_chunk[a] - n)
    BY <1>2, <2>1, <2>2, Multiples
  <2> QED
    BY <2>2, <2>3 DEF IInv, BlocksInv, MapOK
<1>6. ptr \notin DOMAIN used_chunk
  BY <1>1, <1>2, <1>5 DEF Apart
<1>7. BlocksInv'
  <2>1. ASSUME NEW b \in DOMAIN free_chunk'
        PROVE  /\ b \in DOMAIN free_chunk /\ InPool(b, free_chunk'[b]) /\ Aligned(b, free_chunk'[b])
               /\ free_chunk'[b] \in Nat \ {0} /\ free_chunk'[b] <= free_chunk[b]
               /\ b = a => free_chunk'[b] = free_chunk[a] - n
    BY <1>1, <1>2, <1>5, <2>1 DEF IInv, BlocksInv, MapOK, InPool, Aligned, IsMap
  <2>2. MapOK(free_chunk)'
    <3>1. ASSUME NEW b \in DOMAIN free_chunk', NEW c \in DOMAIN free_chunk', b # c
          PROVE  Apart(b, free_chunk'[b], c, free_chunk'[c])
      BY <1>2, <2>1, <3>1 DEF IInv, BlocksInv, MapOK, Apart
    <3> QED
      BY <1>1, <2>1, <3>1 DEF MapOK, InPool
  <2>3. ASSUME NEW b \in DOMAIN used_chunk'
        PROVE  InPool(b, used_chunk'[b]) /\ Aligned(b, used_chunk'[b])
    <3>1. CASE b = ptr
      BY <1>1, <1>2, <1>5, <3>1 DEF InPool, Aligned
    <3>2. CASE b # ptr
      BY <1>1, <1>2, <3>2 DEF IInv, BlocksInv, MapOK, InPool
    <3> QED
      BY <3>1, <3>2
  <2>4. ASSUME NEW b \in DOMAIN used_chunk', NEW c \in DOMAIN used_chunk', b # c
        PROVE  Apart(b, used_chunk'[b], c, used_chunk'[c])
    <3>1. CASE b = ptr
      BY <1>1, <1>2, <1>5, <2>4, <3>1 DEF Apart
    <3>2. CASE c = ptr
      BY <1>1, <1>2, <1>5, <2>4, <3>2 DEF Apart
    <3>3. CASE b # ptr /\ c # ptr
      BY <1>1, <2>4, <3>3 DEF IInv, BlocksInv, MapOK
    <3> QED
      BY <3>1, <3>2, <3>3
  <2>5. ASSUME NEW b \in DOMAIN free_chunk', NEW c \in DOMAIN used_chunk'
        PROVE  Apart(b, free_chunk'[b], c, used_chunk'[c])
    <3>1. CASE c = ptr
      BY <1>1, <1>2, <1>5, <2>1, <3>1 DEF Apart
    <3>2. CASE c # ptr
      BY <1>1, <1>2, <2>1, <3>2 DEF IInv, BlocksInv, Apart
    <3> QED
      BY <3>1, <3>2
  <2>6. ASSUME NEW b \in DOMAIN free_chunk' PROVE b + free_chunk'[b] \notin DOMAIN free_chunk'
    <3>1. CASE b = a
      BY <1>1, <1>2, <1>5, <2>1, <3>1 DEF Apart
    <3>2. CASE b # a
      BY <1>1, <2>1, <3>2 DEF IInv, BlocksInv
    <3> QED
      BY <3>1, <3>2
  <2> QED
    <3>1. MapOK(used_chunk)'
      BY <1>1, <2>3, <2>4 DEF MapOK, InPool
    <3> QED
      BY <1>1, <2>2, <2>5, <2>6, <3>1 DEF IInv, BlocksInv
<1>8. BetweenInv' /\ FoundInv'
  BY <1>3, NoCallFields DEF IInv, BetweenInv, FoundInv, Between
<1>9. CoverInv'
  <2> SUFFICES ASSUME NEW x \in BASE..(BASE + pool_size - 1) PROVE Owned(x)'
    BY <1>1 DEF CoverInv
  <2>1. x \in Int /\ Owned(x) /\ \A u \in Threads : ~Between(u)
    <3>1. call[t].op = "alloc"
      BY DEF AllocTake
    <3> QED
      BY <1>2, <1>3, <3>1 DEF IInv, CoverInv, Between
  <2>2. CASE \E b \in DOMAIN used_chunk : Holds(x, b, used_chunk[b])
    BY <1>1, <1>6, <2>2 DEF Owned
  <2>3. CASE \E b \in DOMAIN free_chunk : b # a /\ Holds(x, b, free_chunk[b])
    BY <1>1, <2>3 DEF Owned
  <2>4. CASE Holds(x, a, free_chunk[a])
    <3>1. CASE x < ptr
      <4>1. a \in DOMAIN free_chunk' /\ free_chunk'[a] = free_chunk[a] - n
        BY <1>1, <1>2, <2>1, <2>4, <3>1 DEF Holds
      <4>2. Holds(x, a, free_chunk'[a])
        BY <1>1, <1>2, <2>1, <2>4, <3>1, <4>1 DEF Holds
      <4> QED
        BY <4>1, <4>2 DEF Owned
    <3>2. CASE ~(x < ptr)
      <4>1. Holds(x, ptr, used_chunk'[ptr]) /\ ptr \in DOMAIN used_chunk'
        BY <1>1, <1>2, <2>1, <2>4, <3>2 DEF Holds
      <4> QED
        BY <4>1 DEF Owned
    <3> QED
      BY <3>1, <3>2
  <2> QED
    BY <2>1, <2>2, <2>3, <2>4 DEF Owned
<1>10. OwnInv'
  BY <1>1, <1>3, <1>6, NoCallFields DEF IInv, OwnInv, Freeing
<1> QED
  BY <1>3, <1>4, <1>7, <1>8, <1>9, <1>10 DEF IInv

(* A block leaves the log and is in between.  The pointer is one that      *)
(* alloc returned: a stray one is below the pool or not a multiple of UNIT.*)
LEMMA FreeEraseInv == ASSUME IInv, NEW t \in Threads, FreeErase(t) PROVE IInv'
<1> DEFINE p == call[t].ptr
<1>1. /\ call[t].op = "free" /\ call[t].at = "body" /\ p \in DOMAIN used_chunk
      /\ used_chunk' = Without(used_chunk, p)
      /\ call' = [call EXCEPT ![t].size = used_chunk[p], ![t].at = "end"]
      /\ UNCHANGED <<pool_size, free_chunk, mutex, held>>
  BY DEF FreeErase
<1>2. /\ \A b \in DOMAIN free_chunk : b \in Nat /\ free_chunk[b] \in Nat \ {0}
      /\ \A b \in DOMAIN used_chunk : b \in Nat /\ used_chunk[b] \in Nat \ {0}
      /\ BASE \in Nat \ {0} /\ pool_size \in Nat
  BY MapTypes DEF IInv
<1>3. /\ IsMap(used_chunk') /\ DOMAIN used_chunk' = DOMAIN used_chunk \ {p}
      /\ \A b \in DOMAIN used_chunk' : used_chunk'[b] = used_chunk[b]
  <2>1. IsMap(used_chunk)
    BY DEF IInv, TypeOK
  <2>2. /\ IsMap(Without(used_chunk, p)) /\ DOMAIN Without(used_chunk, p) = DOMAIN used_chunk \ {p}
        /\ \A b \in DOMAIN used_chunk : b # p => Without(used_chunk, p)[b] = used_chunk[b]
    BY <2>1, WithoutIs, Zenon
  <2> QED
    BY <1>1, <2>2
<1>4. /\ call' \in [Threads -> Calls]
      /\ call'[t].op = "free" /\ call'[t].at = "end" /\ call'[t].ptr = p
      /\ call'[t].size = used_chunk[p]
      /\ \A u \in Threads : u # t => call'[u] = call[u]
  BY <1>1, <1>2 DEF IInv, TypeOK, Calls
<1>5. mutex = t /\ \A u \in Threads : u # t => call[u].at = "call"
  BY <1>1 DEF IInv, MutexInv
<1>6. call[t].mine /\ p \notin held
  <2>1. p % UNIT = 0 /\ p >= BASE
    BY <1>1, <1>2 DEF IInv, BlocksInv, MapOK, Aligned, InPool
  <2>2. p \notin Stray
    BY <1>1, <1>2, <2>1, MemCtlAssumption
  <2> QED
    BY <1>1, <2>2 DEF IInv, OwnInv, Freeing
<1> HIDE DEF p
<1>7. TypeOK'
  BY <1>1, <1>3, <1>4 DEF IInv, TypeOK
<1>8. MutexInv'
  BY <1>1, <1>4, <1>5 DEF IInv, MutexInv
<1>9. BlocksInv'
  BY <1>1, <1>3 DEF IInv, BlocksInv, MapOK, InPool
<1>10. BetweenInv'
  <2>1. \A u \in Threads : Between(u)' => u = t
    BY <1>4, <1>5 DEF Between
  <2>2. InPool(p, used_chunk[p]) /\ Aligned(p, used_chunk[p])
    BY <1>1 DEF IInv, BlocksInv, MapOK
  <2>3. /\ \A b \in DOMAIN free_chunk : Apart(b, free_chunk[b], p, used_chunk[p])
        /\ \A b \in DOMAIN used_chunk : b # p => Apart(b, used_chunk[b], p, used_chunk[p])
    BY <1>1 DEF IInv, BlocksInv, MapOK
  <2>4. used_chunk[p] > 0
    BY <1>1, <1>2
  <2> QED
    BY <1>1, <1>3, <1>4, <2>1, <2>2, <2>3, <2>4 DEF BetweenInv, InPool
<1>11. CoverInv'
  <2> SUFFICES ASSUME NEW x \in BASE..(BASE + pool_size - 1) PROVE Owned(x)'
    BY <1>1 DEF CoverInv
  <2>1. Owned(x) /\ \A u \in Threads : ~Between(u)
    BY <1>1, <1>5 DEF IInv, CoverInv, Between
  <2>2. CASE \E b \in DOMAIN free_chunk : Holds(x, b, free_chunk[b])
    BY <1>1, <2>2 DEF Owned
  <2>3. CASE \E b \in DOMAIN used_chunk : b # p /\ Holds(x, b, used_chunk[b])
    BY <1>3, <2>3 DEF Owned
  <2>4. CASE Holds(x, p, used_chunk[p])
    BY <1>4, <2>4 DEF Owned, Between
  <2> QED
    BY <2>1, <2>2, <2>3, <2>4 DEF Owned
<1>12. FoundInv'
  BY <1>1, <1>4 DEF IInv, FoundInv
<1>13. OwnInv'
  <2>1. held' \subseteq DOMAIN used_chunk'
    BY <1>1, <1>3, <1>6 DEF IInv, OwnInv
  <2>2. \A u \in Threads : Freeing(u)' => u # t /\ call'[u] = call[u] /\ Freeing(u)
    BY <1>4 DEF Freeing
  <2>3. \A u \in Threads : Freeing(u) /\ u # t /\ call[u].mine => call[u].ptr # p
    BY <1>1, <1>6 DEF IInv, OwnInv, Freeing, p
  <2>4. ASSUME NEW u \in Threads, Freeing(u)'
        PROVE  IF call'[u].mine THEN call'[u].ptr \in DOMAIN used_chunk' \ held' ELSE call'[u].ptr \in Stray
    <3>1. u # t /\ call'[u] = call[u] /\ Freeing(u)
      BY <2>2, <2>4
    <3>2. CASE call[u].mine
      <4>1. call[u].ptr \in DOMAIN used_chunk \ held /\ call[u].ptr # p
        BY <2>3, <3>1, <3>2 DEF IInv, OwnInv
      <4> QED
        BY <1>1, <1>3, <3>1, <3>2, <4>1
    <3>3. CASE ~call[u].mine
      BY <3>1, <3>3 DEF IInv, OwnInv
    <3> QED
      BY <3>2, <3>3
  <2>5. ASSUME NEW u \in Threads, NEW v \in Threads, u # v, Freeing(u)', Freeing(v)',
               call'[u].mine, call'[v].mine
        PROVE  call'[u].ptr # call'[v].ptr
    BY <2>2, <2>5 DEF IInv, OwnInv
  <2> QED
    BY <2>1, <2>4, <2>5 DEF OwnInv
<1> QED
  BY <1>7, <1>8, <1>9, <1>10, <1>11, <1>12, <1>13 DEF IInv

(* The process ends, or does nothing.                                      *)
LEMMA SameInv ==
  ASSUME IInv, UNCHANGED <<pool_size, free_chunk, used_chunk, mutex, call, held>> PROVE IInv'
<1>1. TypeOK' /\ MutexInv' /\ FoundInv' /\ OwnInv'
  BY DEF IInv, TypeOK, MutexInv, FoundInv, OwnInv, Freeing
<1>2. BlocksInv' /\ BetweenInv' /\ CoverInv'
  BY Quiet DEF Between
<1> QED
  BY <1>1, <1>2 DEF IInv

(* The free chunks around a block in between, which no free chunk overlaps. *)
LEMMA Neighbours ==
  ASSUME IInv, NEW t \in Threads, Between(t), NEW a, a = call[t].ptr, NEW n, n = call[t].size
  PROVE  /\ a \in Nat /\ n \in Nat \ {0}
         /\ PrevEnds(a) => Max(Before(a)) \in DOMAIN free_chunk
                           /\ Max(Before(a)) + free_chunk[Max(Before(a))] = a
         /\ ~PrevEnds(a) => \A b \in DOMAIN free_chunk : b + free_chunk[b] # a
         /\ Behind(a) # {} /\ Min(Behind(a)) = a + n => a + n \in DOMAIN free_chunk
         /\ ~(Behind(a) # {} /\ Min(Behind(a)) = a + n) => a + n \notin DOMAIN free_chunk
<1>1. /\ \A b \in DOMAIN free_chunk : b \in Nat /\ free_chunk[b] \in Nat \ {0}
      /\ BASE \in Nat \ {0} /\ pool_size \in Nat
  BY MapTypes DEF IInv
<1>2. a \in Nat /\ n \in Nat \ {0}
  BY CallTypes DEF IInv, BetweenInv
<1>3. \A b \in DOMAIN free_chunk : Apart(b, free_chunk[b], a, n)
  BY DEF IInv, BetweenInv
<1>4. \A b, c \in DOMAIN free_chunk : b # c => Apart(b, free_chunk[b], c, free_chunk[c])
  BY DEF IInv, BlocksInv, MapOK
<1>5. ASSUME Before(a) # {}
      PROVE  /\ Max(Before(a)) \in DOMAIN free_chunk /\ Max(Before(a)) <= a
             /\ \A b \in DOMAIN free_chunk : b <= a => b <= Max(Before(a))
  <2>1. Before(a) \subseteq 0..a
    BY <1>1, <1>2 DEF Before
  <2>2. Max(Before(a)) \in Before(a) /\ \A b \in Before(a) : Max(Before(a)) >= b
    BY <1>2, <1>5, <2>1, MaxIs
  <2> QED
    BY <1>1, <1>2, <2>2 DEF Before
<1>6. ASSUME Behind(a) # {}
      PROVE  /\ Min(Behind(a)) \in DOMAIN free_chunk /\ Min(Behind(a)) > a
             /\ \A b \in DOMAIN free_chunk : b > a => b >= Min(Behind(a))
  <2>1. Behind(a) \subseteq Nat
    BY <1>1 DEF Behind
  <2>2. Min(Behind(a)) \in Behind(a) /\ \A b \in Behind(a) : Min(Behind(a)) <= b
    BY <1>6, <2>1, MinIs
  <2> QED
    BY <1>1, <1>2, <2>2 DEF Behind
<1>7. ASSUME ~PrevEnds(a), NEW b \in DOMAIN free_chunk, b + free_chunk[b] = a PROVE FALSE
  <2> DEFINE m == Max(Before(a))
  <2>1. Before(a) # {} /\ b <= a
    BY <1>1, <1>2, <1>7 DEF Before
  <2>2. m \in DOMAIN free_chunk /\ m <= a /\ b <= m
    BY <1>5, <2>1
  <2>3. m + free_chunk[m] # a
    BY <1>7, <2>1 DEF PrevEnds
  <2> HIDE DEF m
  <2>4. m # b
    BY <1>7, <2>3
  <2>5. b \in Nat /\ free_chunk[b] \in Nat \ {0} /\ m \in Nat /\ free_chunk[m] \in Nat \ {0}
    BY <1>1, <2>2
  <2>6. Apart(b, free_chunk[b], m, free_chunk[m]) /\ Apart(m, free_chunk[m], a, n)
    BY <1>3, <1>4, <2>2, <2>4
  <2> QED
    BY <1>2, <1>7, <2>2, <2>5, <2>6 DEF Apart
<1>8. ASSUME a + n \in DOMAIN free_chunk PROVE Behind(a) # {} /\ Min(Behind(a)) = a + n
  <2> DEFINE m == Min(Behind(a))
  <2>1. Behind(a) # {}
    BY <1>2, <1>8 DEF Behind
  <2>2. m \in DOMAIN free_chunk /\ m > a /\ m <= a + n
    BY <1>1, <1>2, <1>6, <1>8, <2>1
  <2> HIDE DEF m
  <2>3. Apart(m, free_chunk[m], a, n) /\ m \in Nat /\ free_chunk[m] \in Nat \ {0}
    BY <1>1, <1>3, <2>2
  <2>4. m = a + n
    BY <1>2, <2>2, <2>3 DEF Apart
  <2> QED
    BY <2>1, <2>4 DEF m
<1> QED
  BY <1>2, <1>5, <1>6, <1>7, <1>8 DEF PrevEnds

(* What the end of free does: the block and the free chunks that touch it  *)
(* become one, from lo to hi.                                              *)
Joins(t, a, n, lo, hi) ==
  /\ a = call[t].ptr /\ n = call[t].size
  /\ Between(t) /\ mutex = t /\ Returns(t) /\ UNCHANGED <<pool_size, used_chunk, held>>
  /\ n \in Nat \ {0} /\ lo <= a /\ a + n <= hi
  /\ \/ lo = a /\ \A b \in DOMAIN free_chunk : b + free_chunk[b] # a
     \/ lo \in DOMAIN free_chunk /\ lo + free_chunk[lo] = a
  /\ \/ hi = a + n /\ a + n \notin DOMAIN free_chunk
     \/ a + n \in DOMAIN free_chunk /\ hi = a + n + free_chunk[a + n]
  /\ IsMap(free_chunk') /\ DOMAIN free_chunk' = (DOMAIN free_chunk \ {a + n}) \cup {lo}
  /\ free_chunk'[lo] = hi - lo
  /\ \A b \in DOMAIN free_chunk' : b # lo => free_chunk'[b] = free_chunk[b]

LEMMA MergeFacts ==
  ASSUME IInv, NEW t \in Threads, FreeMerge(t)
  PROVE  \E a, n, lo, hi \in Nat : Joins(t, a, n, lo, hi)
<1>0. PICK a, n \in Nat : a = call[t].ptr /\ n = call[t].size
  BY CallTypes DEF IInv
<1> DEFINE p    == IF PrevEnds(a) THEN Max(Before(a)) ELSE a
           len  == n + IF PrevEnds(a) THEN free_chunk[p] ELSE 0
           more == Behind(a) # {} /\ Min(Behind(a)) = a + n
           hi   == a + n + IF more THEN free_chunk[a + n] ELSE 0
           gone == IF more THEN {a + n} ELSE {}
           rest == Restrict(free_chunk, DOMAIN free_chunk \ gone)
<1>1. Between(t) /\ Returns(t) /\ UNCHANGED <<pool_size, used_chunk, held>>
  BY DEF FreeMerge, Between
<1>2. mutex = t
  BY <1>1 DEF IInv, MutexInv, Between
<1>3. \A b \in DOMAIN free_chunk : b \in Nat /\ free_chunk[b] \in Nat \ {0}
  BY MapTypes DEF IInv
<1>4. /\ a \in Nat /\ n \in Nat \ {0}
      /\ PrevEnds(a) => Max(Before(a)) \in DOMAIN free_chunk
                        /\ Max(Before(a)) + free_chunk[Max(Before(a))] = a
      /\ ~PrevEnds(a) => \A b \in DOMAIN free_chunk : b + free_chunk[b] # a
      /\ more => a + n \in DOMAIN free_chunk
      /\ ~more => a + n \notin DOMAIN free_chunk
  BY <1>0, <1>1, Neighbours
<1>5. /\ p \in Nat /\ p <= a /\ p + len = a + n
      /\ \/ p = a /\ \A b \in DOMAIN free_chunk : b + free_chunk[b] # a
         \/ p \in DOMAIN free_chunk /\ p + free_chunk[p] = a
  BY <1>3, <1>4
<1>6. /\ hi \in Nat /\ a + n <= hi
      /\ \/ hi = a + n /\ a + n \notin DOMAIN free_chunk
         \/ a + n \in DOMAIN free_chunk /\ hi = a + n + free_chunk[a + n]
  BY <1>3, <1>4
<1>7. Merged(a, n) = [ptr |-> p, size |-> hi - p, gone |-> gone]
  <2>1. /\ (Behind(a) # {} /\ Min(Behind(a)) = NewEnd(p, len, n)) <=> more
        /\ len + (IF more THEN free_chunk[a + n] ELSE 0) = hi - p
    BY <1>3, <1>4, <1>5 DEF NewEnd
  <2> QED
    BY <2>1 DEF Merged
<1>8. free_chunk' = With(rest, p, hi - p)
  BY <1>0, <1>7 DEF FreeMerge
<1>9. IsMap(rest) /\ DOMAIN rest = DOMAIN free_chunk \ {a + n} /\ \A b \in DOMAIN rest : rest[b] = free_chunk[b]
  <2>1. IsMap(free_chunk)
    BY DEF IInv, TypeOK
  <2>2. /\ IsMap(rest) /\ DOMAIN rest = DOMAIN free_chunk \ gone
        /\ \A b \in DOMAIN free_chunk \ gone : rest[b] = free_chunk[b]
    BY <2>1 DEF Restrict, IsMap
  <2>3. DOMAIN free_chunk \ gone = DOMAIN free_chunk \ {a + n}
    BY <1>4
  <2> QED
    BY <2>2, <2>3
<1> HIDE DEF rest, p, hi
<1>10. hi - p \in Nat \ {0}
  BY <1>4, <1>5, <1>6
<1>11. /\ IsMap(free_chunk') /\ DOMAIN free_chunk' = (DOMAIN free_chunk \ {a + n}) \cup {p}
       /\ free_chunk'[p] = hi - p
       /\ \A b \in DOMAIN free_chunk' : b # p => free_chunk'[b] = free_chunk[b]
  BY <1>5, <1>8, <1>9, <1>10 DEF With, IsMap
<1>12. Joins(t, a, n, p, hi)
  BY <1>0, <1>1, <1>2, <1>4, <1>5, <1>6, <1>11 DEF Joins
<1> QED
  BY <1>5, <1>6, <1>12

LEMMA FreeMergeInv == ASSUME IInv, NEW t \in Threads, FreeMerge(t) PROVE IInv'
<1>0. PICK a, n, lo, hi \in Nat : Joins(t, a, n, lo, hi)
  BY MergeFacts
<1>1./\ a = call[t].ptr /\ n = call[t].size
      /\ Between(t) /\ mutex = t /\ Returns(t) /\ UNCHANGED <<pool_size, used_chunk, held>>
      /\ n \in Nat \ {0} /\ lo <= a /\ a + n <= hi
      /\ \/ lo = a /\ \A b \in DOMAIN free_chunk : b + free_chunk[b] # a
         \/ lo \in DOMAIN free_chunk /\ lo + free_chunk[lo] = a
      /\ \/ hi = a + n /\ a + n \notin DOMAIN free_chunk
         \/ a + n \in DOMAIN free_chunk /\ hi = a + n + free_chunk[a + n]
      /\ IsMap(free_chunk') /\ DOMAIN free_chunk' = (DOMAIN free_chunk \ {a + n}) \cup {lo}
      /\ free_chunk'[lo] = hi - lo
      /\ \A b \in DOMAIN free_chunk' : b # lo => free_chunk'[b] = free_chunk[b]
  BY <1>0 DEF Joins
<1>2. /\ \A b \in DOMAIN free_chunk : b \in Nat /\ free_chunk[b] \in Nat \ {0}
      /\ \A b \in DOMAIN used_chunk : b \in Nat /\ used_chunk[b] \in Nat \ {0}
      /\ BASE \in Nat \ {0} /\ pool_size \in Nat
  BY MapTypes DEF IInv
<1>3. /\ mutex' \in Threads \cup {NoThread} /\ call' \in [Threads -> Calls]
      /\ MutexInv' /\ call'[t] = NoCall
      /\ \A u \in Threads : u # t => call'[u] = call[u] /\ call[u].at = "call"
  BY <1>1, ReturnsInv
<1>4. TypeOK'
  BY <1>1, <1>3 DEF IInv, TypeOK
<1>5. /\ InPool(a, n) /\ Aligned(a, n)
      /\ \A b \in DOMAIN free_chunk : Apart(b, free_chunk[b], a, n)
      /\ \A b \in DOMAIN used_chunk : Apart(b, used_chunk[b], a, n)
  BY <1>1 DEF IInv, BetweenInv
<1>6. /\ \A b \in DOMAIN free_chunk : InPool(b, free_chunk[b]) /\ Aligned(b, free_chunk[b])
      /\ \A b, c \in DOMAIN free_chunk : b # c => Apart(b, free_chunk[b], c, free_chunk[c])
      /\ \A b \in DOMAIN free_chunk, c \in DOMAIN used_chunk : Apart(b, free_chunk[b], c, used_chunk[c])
      /\ \A b \in DOMAIN free_chunk : b + free_chunk[b] \notin DOMAIN free_chunk
  BY DEF IInv, BlocksInv, MapOK
<1>7. BASE <= lo /\ hi <= BASE + pool_size /\ lo % UNIT = 0 /\ (hi - lo) % UNIT = 0
  <2>1. BASE <= lo /\ hi <= BASE + pool_size
    BY <1>1, <1>2, <1>5, <1>6 DEF InPool
  <2>2. lo % UNIT = 0
    BY <1>1, <1>5, <1>6 DEF Aligned
  <2>3. (a + n) % UNIT = 0
    BY <1>1, <1>5, Multiples DEF Aligned
  <2>4. hi % UNIT = 0
    <3>1. CASE a + n \in DOMAIN free_chunk /\ hi = a + n + free_chunk[a + n]
      <4>1. a + n \in Nat /\ free_chunk[a + n] \in Nat /\ free_chunk[a + n] % UNIT = 0
        BY <1>2, <1>6, <3>1 DEF Aligned
      <4>2. ((a + n) + free_chunk[a + n]) % UNIT = 0
        BY <2>3, <4>1, Multiples
      <4> QED
        BY <1>1, <3>1, <4>1, <4>2
    <3> QED
      BY <1>1, <2>3, <3>1
  <2>5. hi >= lo
    BY <1>1
  <2> QED
    BY <2>1, <2>2, <2>4, <2>5, Multiples
<1>8. /\ hi - lo \in Nat \ {0} /\ lo + (hi - lo) = hi /\ lo \in DOMAIN free_chunk'
      /\ \A b \in DOMAIN free_chunk' : b # lo => b \in DOMAIN free_chunk /\ b # a + n
                                                 /\ free_chunk'[b] = free_chunk[b]
  BY <1>1
<1>9. ASSUME NEW b \in DOMAIN free_chunk, b # lo, b # a + n
      PROVE  /\ b + free_chunk[b] <= lo \/ hi <= b
             /\ b + free_chunk[b] # lo /\ hi # b
  <2>1. b \in Nat /\ free_chunk[b] \in Nat \ {0} /\ Apart(b, free_chunk[b], a, n)
    BY <1>2, <1>5
  <2>2. CASE b + free_chunk[b] <= a
    <3>1. CASE lo = a /\ \A c \in DOMAIN free_chunk : c + free_chunk[c] # a
      BY <1>1, <2>1, <2>2, <3>1
    <3>2. CASE lo \in DOMAIN free_chunk /\ lo + free_chunk[lo] = a
      <4>1. Apart(b, free_chunk[b], lo, free_chunk[lo]) /\ b + free_chunk[b] # lo
        BY <1>6, <1>9, <3>2
      <4> QED
        BY <1>1, <2>1, <2>2, <3>2, <4>1 DEF Apart
    <3> QED
      BY <1>1, <3>1, <3>2
  <2>3. CASE a + n <= b
    <3>1. CASE hi = a + n /\ a + n \notin DOMAIN free_chunk
      BY <1>1, <1>9, <2>1, <2>3, <3>1
    <3>2. CASE a + n \in DOMAIN free_chunk /\ hi = a + n + free_chunk[a + n]
      <4>1. Apart(b, free_chunk[b], a + n, free_chunk[a + n]) /\ hi # b
        BY <1>6, <1>9, <3>2
      <4> QED
        BY <1>1, <2>1, <2>3, <3>2, <4>1 DEF Apart
    <3> QED
      BY <1>1, <3>1, <3>2
  <2> QED
    BY <1>1, <2>1, <2>2, <2>3 DEF Apart
<1>10. ASSUME NEW b \in DOMAIN used_chunk PROVE b + used_chunk[b] <= lo \/ hi <= b
  <2>1. b \in Nat /\ used_chunk[b] \in Nat \ {0} /\ Apart(b, used_chunk[b], a, n)
    BY <1>2, <1>5
  <2>2. b + used_chunk[b] <= a => b + used_chunk[b] <= lo
    <3>1. lo \in DOMAIN free_chunk => Apart(lo, free_chunk[lo], b, used_chunk[b])
      BY <1>6
    <3> QED
      BY <1>1, <2>1, <3>1 DEF Apart
  <2>3. a + n <= b => hi <= b
    <3>1. a + n \in DOMAIN free_chunk => Apart(a + n, free_chunk[a + n], b, used_chunk[b])
      BY <1>6
    <3>2. CASE a + n \in DOMAIN free_chunk
      BY <1>1, <1>2, <2>1, <3>1, <3>2 DEF Apart
    <3> QED
      BY <1>1, <3>2
  <2> QED
    BY <1>1, <2>1, <2>2, <2>3 DEF Apart
<1>11. BlocksInv'
  <2>1. ASSUME NEW b \in DOMAIN free_chunk' PROVE InPool(b, free_chunk'[b]) /\ Aligned(b, free_chunk'[b])
    BY <1>1, <1>2, <1>6, <1>7, <1>8 DEF InPool, Aligned
  <2>2. ASSUME NEW b \in DOMAIN free_chunk', NEW c \in DOMAIN free_chunk', b # c
        PROVE  Apart(b, free_chunk'[b], c, free_chunk'[c])
    <3>1. CASE b = lo
      BY <1>1, <1>8, <1>9, <2>2, <3>1 DEF Apart
    <3>2. CASE c = lo
      BY <1>1, <1>8, <1>9, <2>2, <3>2 DEF Apart
    <3>3. CASE b # lo /\ c # lo
      BY <1>6, <1>8, <2>2, <3>3
    <3> QED
      BY <3>1, <3>2, <3>3
  <2>3. ASSUME NEW b \in DOMAIN free_chunk', NEW c \in DOMAIN used_chunk
        PROVE  Apart(b, free_chunk'[b], c, used_chunk[c])
    <3>1. CASE b = lo
      BY <1>1, <1>8, <1>10, <3>1 DEF Apart
    <3>2. CASE b # lo
      BY <1>6, <1>8, <3>2
    <3> QED
      BY <3>1, <3>2
  <2>4. ASSUME NEW b \in DOMAIN free_chunk' PROVE b + free_chunk'[b] \notin DOMAIN free_chunk'
    <3>1. CASE b = lo
      <4>1. b + free_chunk'[b] = hi /\ hi # lo
        BY <1>1, <1>8, <3>1
      <4>2. hi \notin DOMAIN free_chunk'
        BY <1>8, <1>9, <4>1
      <4> QED
        BY <4>1, <4>2
    <3>2. CASE b # lo
      <4>1. b + free_chunk'[b] \notin DOMAIN free_chunk /\ b + free_chunk'[b] # lo
        BY <1>6, <1>8, <1>9, <3>2
      <4> QED
        BY <1>1, <4>1
    <3> QED
      BY <3>1, <3>2
  <2>5. MapOK(free_chunk)' /\ MapOK(used_chunk)'
    BY <1>1, <2>1, <2>2 DEF IInv, BlocksInv, MapOK, InPool
  <2> QED
    BY <1>1, <2>3, <2>4, <2>5 DEF IInv, BlocksInv
<1>12. BetweenInv' /\ FoundInv'
  BY <1>3, NoCallFields DEF IInv, BetweenInv, FoundInv, Between
<1>13. CoverInv'
  <2> SUFFICES ASSUME NEW x \in BASE..(BASE + pool_size - 1) PROVE Owned(x)'
    BY <1>1 DEF CoverInv
  <2>1. x \in Int /\ Owned(x) /\ \A u \in Threads : Between(u) => u = t
    BY <1>2, <1>3 DEF IInv, CoverInv, Between
  <2>2. CASE \E b \in DOMAIN used_chunk : Holds(x, b, used_chunk[b])
    BY <1>1, <2>2 DEF Owned
  <2>3. ASSUME lo <= x, x < hi PROVE Owned(x)'
    <3>1. Holds(x, lo, free_chunk'[lo])
      BY <1>1, <1>8, <2>1, <2>3 DEF Holds
    <3> QED
      BY <1>8, <3>1 DEF Owned
  <2>4. ASSUME NEW b \in DOMAIN free_chunk, Holds(x, b, free_chunk[b]) PROVE Owned(x)'
    <3>1. CASE b = lo
      <4>1. lo <= x /\ x < hi
        <5>1. free_chunk[lo] \in Nat \ {0} /\ lo \in DOMAIN free_chunk
          BY <1>2, <3>1
        <5>2. lo + free_chunk[lo] = a
          <6>1. lo # a
            BY <1>1, <1>2, <1>5, <5>1 DEF Apart
          <6> QED
            BY <1>1, <6>1
        <5> QED
          BY <1>1, <2>1, <2>4, <3>1, <5>1, <5>2 DEF Holds
      <4> QED
        BY <2>3, <4>1
    <3>2. CASE b = a + n
      <4>1. lo <= x /\ x < hi
        BY <1>1, <1>2, <2>1, <2>4, <3>2 DEF Holds
      <4> QED
        BY <2>3, <4>1
    <3>3. CASE b # lo /\ b # a + n
      <4>1. b \in DOMAIN free_chunk' /\ free_chunk'[b] = free_chunk[b]
        BY <1>1, <3>3
      <4> QED
        BY <2>4, <4>1 DEF Owned
    <3> QED
      BY <3>1, <3>2, <3>3
  <2>5. CASE Holds(x, a, n)
    BY <1>1, <2>1, <2>3, <2>5 DEF Holds
  <2>6. (\E u \in Threads : Between(u) /\ Holds(x, call[u].ptr, call[u].size)) => Holds(x, a, n)
    BY <1>1, <2>1
  <2> QED
    BY <2>1, <2>2, <2>4, <2>5, <2>6 DEF Owned
<1>14. OwnInv'
  BY <1>1, <1>3, NoCallFields DEF IInv, OwnInv, Freeing
<1> QED
  BY <1>3, <1>4, <1>11, <1>12, <1>13, <1>14 DEF IInv

-----------------------------------------------------------------------------
(* The invariant holds in every state.                                     *)

LEMMA NextInv == IInv /\ [Next]_vars => IInv'
<1> SUFFICES ASSUME IInv, [Next]_vars PROVE IInv'
  OBVIOUS
<1>1. CASE \E n \in PoolSizes : GetInstance(n)
  BY <1>1, GetInstanceInv
<1>2. ASSUME NEW t \in Threads, \E n \in Sizes : CallAlloc(t, n) PROVE IInv'
  BY <1>2, CallAllocInv
<1>3. ASSUME NEW t \in Threads, \E p \in held \cup Stray : CallFree(t, p) PROVE IInv'
  BY <1>3, CallFreeInv
<1>4. ASSUME NEW t \in Threads, Lock(t) PROVE IInv'
  BY <1>4, LockInv
<1>5. ASSUME NEW t \in Threads, AllocFind(t) \/ AllocFails(t) \/ AllocTake(t) PROVE IInv'
  BY <1>5, AllocFindInv, AllocFailsInv, AllocTakeInv
<1>6. ASSUME NEW t \in Threads, FreeErase(t) \/ FreeMerge(t) PROVE IInv'
  BY <1>6, FreeEraseInv, FreeMergeInv
<1>7. ASSUME NEW t \in Threads, FreeUnknown(t) PROVE IInv'
  BY <1>7, SameInv DEF FreeUnknown
<1>8. CASE UNCHANGED vars
  BY <1>8, SameInv DEF vars
<1> QED
  BY <1>1, <1>2, <1>3, <1>4, <1>5, <1>6, <1>7, <1>8 DEF Next, Exited

(* The inductive invariant of alloc and free: the mutex protects who is    *)
(* past it, the blocks and the block in between tile the pool, what        *)
(* findFreeChunk found stays so until it is used.                          *)
THEOREM MemCtlInvariant == Spec => []IInv
<1> QED
  BY InitInv, NextInv, PTL DEF Spec

LEMMA TiledWhenFree == IInv => PoolTiled
<1> SUFFICES ASSUME IInv, mutex = NoThread, pool_size > 0
             PROVE  /\ DOMAIN free_chunk \cap DOMAIN used_chunk = {}
                    /\ \A c \in Chunks : BASE <= c[1] /\ c[1] + c[2] <= BASE + pool_size
                    /\ \A c, d \in Chunks : c # d => c[1] + c[2] <= d[1] \/ d[1] + d[2] <= c[1]
                    /\ \A x \in BASE..(BASE + pool_size - 1) :
                         \E c \in Chunks : c[1] <= x /\ x < c[1] + c[2]
                    /\ \A a \in DOMAIN free_chunk : a + free_chunk[a] \notin DOMAIN free_chunk
  BY DEF PoolTiled
<1>1. /\ \A b \in DOMAIN free_chunk : b \in Nat /\ free_chunk[b] \in Nat \ {0}
      /\ \A b \in DOMAIN used_chunk : b \in Nat /\ used_chunk[b] \in Nat \ {0}
  BY MapTypes DEF IInv
<1>2. /\ MapOK(free_chunk) /\ MapOK(used_chunk)
      /\ \A a \in DOMAIN free_chunk, b \in DOMAIN used_chunk :
           Apart(a, free_chunk[a], b, used_chunk[b])
      /\ \A a \in DOMAIN free_chunk : a + free_chunk[a] \notin DOMAIN free_chunk
  BY DEF IInv, BlocksInv
<1>3. \A t \in Threads : ~Between(t)
  BY NoCallFields DEF IInv, MutexInv, Between
<1>4. DOMAIN free_chunk \cap DOMAIN used_chunk = {}
  BY <1>1, <1>2 DEF Apart
<1>5. \A c \in Chunks :
        \/ \E a \in DOMAIN free_chunk : c = <<a, free_chunk[a]>> /\ c[1] = a /\ c[2] = free_chunk[a]
        \/ \E a \in DOMAIN used_chunk : c = <<a, used_chunk[a]>> /\ c[1] = a /\ c[2] = used_chunk[a]
  BY DEF Chunks
<1>6. \A c \in Chunks : BASE <= c[1] /\ c[1] + c[2] <= BASE + pool_size
  BY <1>2, <1>5 DEF MapOK, InPool
<1>7. ASSUME NEW c \in Chunks, NEW d \in Chunks, c # d PROVE Apart(c[1], c[2], d[1], d[2])
  <2>1. CASE \E a \in DOMAIN free_chunk : c = <<a, free_chunk[a]>> /\ c[1] = a /\ c[2] = free_chunk[a]
    BY <1>2, <1>5, <1>7, <2>1 DEF MapOK
  <2>2. CASE \E a \in DOMAIN used_chunk : c = <<a, used_chunk[a]>> /\ c[1] = a /\ c[2] = used_chunk[a]
    <3>1. PICK a \in DOMAIN used_chunk : c = <<a, used_chunk[a]>> /\ c[1] = a /\ c[2] = used_chunk[a]
      BY <2>2
    <3>2. CASE \E b \in DOMAIN used_chunk : d = <<b, used_chunk[b]>> /\ d[1] = b /\ d[2] = used_chunk[b]
      BY <1>2, <1>7, <3>1, <3>2 DEF MapOK
    <3>3. CASE \E b \in DOMAIN free_chunk : d = <<b, free_chunk[b]>> /\ d[1] = b /\ d[2] = free_chunk[b]
      BY <1>2, <3>1, <3>3 DEF Apart
    <3> QED
      BY <1>5, <3>2, <3>3
  <2> QED
    BY <1>5, <2>1, <2>2
<1>8. ASSUME NEW x \in BASE..(BASE + pool_size - 1)
      PROVE  \E c \in Chunks : c[1] <= x /\ x < c[1] + c[2]
  <2>1. Owned(x)
    BY DEF IInv, CoverInv
  <2>2. CASE \E a \in DOMAIN free_chunk : Holds(x, a, free_chunk[a])
    <3>1. PICK a \in DOMAIN free_chunk : Holds(x, a, free_chunk[a])
      BY <2>2
    <3>2. <<a, free_chunk[a]>> \in Chunks
      BY DEF Chunks
    <3> QED
      BY <3>1, <3>2 DEF Holds
  <2>3. CASE \E a \in DOMAIN used_chunk : Holds(x, a, used_chunk[a])
    <3>1. PICK a \in DOMAIN used_chunk : Holds(x, a, used_chunk[a])
      BY <2>3
    <3>2. <<a, used_chunk[a]>> \in Chunks
      BY DEF Chunks
    <3> QED
      BY <3>1, <3>2 DEF Holds
  <2> QED
    BY <1>3, <2>1, <2>2, <2>3 DEF Owned
<1> QED
  BY <1>2, <1>4, <1>6, <1>7, <1>8 DEF Apart

(* Whatever the threads allocate and free, and however many there are: the *)
(* chunks tile the pool whenever the mutex is free, and the free ones have *)
(* been merged.                                                            *)
THEOREM PoolAlwaysTiled == Spec => []PoolTiled
<1> QED
  BY MemCtlInvariant, TiledWhenFree, PTL

(* free never finds a block missing that alloc returned: exit(1) happens   *)
(* for stray pointers only.                                                *)
THEOREM NoBlockLost == Spec => []OwnBlocksLogged
<1>1. IInv => OwnBlocksLogged
  BY DEF IInv, OwnInv, OwnBlocksLogged, Freeing
<1> QED
  BY MemCtlInvariant, <1>1, PTL

-----------------------------------------------------------------------------
(* alloc and free implement BlockPool.                                     *)

Wanted == [t \in Threads |-> IF call[t].op = "alloc" THEN call[t].size ELSE 0]

LEMMA GetInstanceCreates ==
  ASSUME NEW n \in PoolSizes, GetInstance(n) PROVE Pool!Create
  BY DEF GetInstance, Pool!Create

LEMMA CallAllocRequests ==
  ASSUME IInv, NEW t \in Threads, NEW n \in Sizes, CallAlloc(t, n) PROVE Pool!Request(t)
<1> DEFINE c == [NoCall EXCEPT !.op = "alloc", !.size = RoundUp(n, UNIT)]
<1>1. /\ call[t].op = "none" /\ call' = [call EXCEPT ![t] = c]
      /\ UNCHANGED <<pool_size, used_chunk>>
  BY DEF CallAlloc
<1>2. c.op = "alloc" /\ c.size = RoundUp(n, UNIT)
  BY DEF NoCall
<1> HIDE DEF c
<1>3. call'[t] = c /\ \A u \in Threads : u # t => call'[u] = call[u]
  BY <1>1 DEF IInv, TypeOK
<1>4. Wanted[t] = 0 /\ Wanted' = [Wanted EXCEPT ![t] = RoundUp(n, UNIT)]
  <2>1. call[t].op = "none" /\ call'[t].op = "alloc" /\ call'[t].size = RoundUp(n, UNIT)
    BY <1>1, <1>2, <1>3
  <2> QED
    BY <1>3, <2>1 DEF Wanted
<1> QED
  BY <1>1, <1>4 DEF Pool!Request, Wanted

(* A call that ends takes its request back.                                *)
LEMMA ReturnsWanted ==
  ASSUME IInv, NEW t \in Threads, mutex = t, Returns(t), UNCHANGED pool_size
  PROVE  Wanted' = [Wanted EXCEPT ![t] = 0]
<1>1. call'[t] = NoCall /\ \A u \in Threads : u # t => call'[u] = call[u]
  BY ReturnsInv
<1> QED
  BY <1>1, NoCallFields DEF Wanted

LEMMA AllocTakeGrants ==
  ASSUME IInv, NEW t \in Threads, AllocTake(t) PROVE Pool!Grant(t)
<1>0. PICK a \in DOMAIN free_chunk, n \in Nat \ {0} : Takes(t, a, n)
  BY TakeFacts
<1> DEFINE ptr == a + free_chunk[a] - n
<1>1. /\ n = call[t].size /\ n <= free_chunk[a] /\ n % UNIT = 0 /\ ptr \in Nat
      /\ used_chunk' = With(used_chunk, ptr, n)
      /\ mutex = t /\ Returns(t) /\ UNCHANGED pool_size
  BY <1>0 DEF Takes
<1>2. /\ a \in Nat /\ free_chunk[a] \in Nat \ {0}
      /\ \A b \in DOMAIN used_chunk : b \in Nat /\ used_chunk[b] \in Nat \ {0}
      /\ BASE \in Nat \ {0} /\ UNIT \in Nat \ {0} /\ pool_size \in Nat /\ BASE % UNIT = 0
  BY MapTypes, MemCtlAssumption DEF IInv
<1>3. /\ a % UNIT = 0 /\ free_chunk[a] % UNIT = 0 /\ InPool(a, free_chunk[a])
      /\ \A b \in DOMAIN used_chunk : Apart(a, free_chunk[a], b, used_chunk[b])
  BY DEF IInv, BlocksInv, MapOK, Aligned
<1>4. Wanted[t] = n /\ Wanted' = [Wanted EXCEPT ![t] = 0]
  <2>1. call[t].op = "alloc"
    BY DEF AllocTake
  <2> QED
    BY <1>1, <2>1, ReturnsWanted DEF Wanted
<1>5. Pool!Gap(ptr, n)
  BY <1>1, <1>2, <1>3 DEF Pool!Gap, InPool, Apart
<1>6. ptr \in Pool!Units
  <2>1. ptr % UNIT = 0 /\ ptr >= BASE /\ ptr - BASE <= pool_size
    <3>1. free_chunk[a] - n \in Nat /\ ptr = a + (free_chunk[a] - n)
      BY <1>1, <1>2
    <3>2. (free_chunk[a] - n) % UNIT = 0
      <4>1. n \in Nat /\ free_chunk[a] \in Nat /\ free_chunk[a] >= n
        BY <1>1, <1>2
      <4> QED
        BY <1>1, <1>3, <4>1, Multiples, Zenon
    <3>3. (a + (free_chunk[a] - n)) % UNIT = 0
      BY <1>2, <1>3, <3>1, <3>2, Multiples
    <3> QED
      BY <1>2, <1>3, <3>1, <3>3 DEF InPool
  <2> HIDE DEF ptr
  <2>2. ptr - BASE \in Nat /\ (ptr - BASE) % UNIT = 0
    <3>1. ptr \in Nat /\ BASE \in Nat
      BY <1>1, <1>2
    <3>2. (ptr - BASE) % UNIT = 0
      BY <1>2, <2>1, <3>1, Multiples, Zenon
    <3> QED
      BY <2>1, <3>1, <3>2
  <2>3. PICK k \in Nat : ptr - BASE = UNIT * k
    BY <2>2, Quotient
  <2>4. UNIT * k <= pool_size
    BY <2>1, <2>3
  <2>5. k <= pool_size \div UNIT
    BY <1>2, <2>4
  <2>6. ptr = BASE + UNIT * k
    BY <1>1, <1>2, <2>3
  <2>7. k \in 0..(pool_size \div UNIT)
    BY <1>2, <2>5
  <2> QED
    BY <2>6, <2>7 DEF Pool!Units
<1> HIDE DEF ptr
<1>7. used_chunk' = [b \in DOMAIN used_chunk \cup {ptr} |-> IF b = ptr THEN n ELSE used_chunk[b]]
  BY <1>1 DEF With
<1> QED
  BY <1>1, <1>4, <1>5, <1>6, <1>7 DEF Pool!Grant, Wanted

(* A failing alloc: no free chunk is large enough, and because touching    *)
(* ones have been merged a gap is never made of two.                       *)
LEMMA AllocFailsRefuses ==
  ASSUME IInv, NEW t \in Threads, AllocFails(t) PROVE Pool!Refuse(t)
<1> DEFINE n == call[t].size
<1>1. /\ call[t].op = "alloc" /\ call[t].at = "end" /\ call[t].ck.addr = 0 /\ Returns(t)
      /\ UNCHANGED <<pool_size, used_chunk>>
  BY DEF AllocFails
<1>2. mutex = t
  BY <1>1 DEF IInv, MutexInv
<1>3. n \in Nat \ {0} /\ \A b \in DOMAIN free_chunk : free_chunk[b] < n
  BY <1>1, CallTypes DEF IInv, FoundInv
<1>4. Wanted[t] = n /\ Wanted' = [Wanted EXCEPT ![t] = 0]
  BY <1>1, <1>2, ReturnsWanted DEF Wanted
<1>5. /\ \A b \in DOMAIN free_chunk : b \in Nat /\ free_chunk[b] \in Nat \ {0}
      /\ \A b \in DOMAIN used_chunk : b \in Nat /\ used_chunk[b] \in Nat \ {0}
      /\ BASE \in Nat \ {0} /\ UNIT \in Nat \ {0} /\ pool_size \in Nat
  BY MapTypes DEF IInv
<1> HIDE DEF n
<1>6. ASSUME NEW a \in Pool!Units, Pool!Gap(a, n) PROVE FALSE
  <2>1. a \in Nat
    BY <1>5 DEF Pool!Units
  <2>2. /\ a >= BASE /\ a + n <= BASE + pool_size
        /\ \A b \in DOMAIN used_chunk : b + used_chunk[b] <= a \/ a + n <= b
    BY <1>6 DEF Pool!Gap
  <2>3. ASSUME NEW x \in Nat, a <= x, x < a + n
        PROVE  \E b \in DOMAIN free_chunk : Holds(x, b, free_chunk[b])
    <3>1. x \in BASE..(BASE + pool_size - 1)
      BY <1>3, <1>5, <2>1, <2>2, <2>3
    <3>2. Owned(x) /\ \A u \in Threads : ~Between(u)
      BY <1>1, <1>2, <3>1 DEF IInv, CoverInv, MutexInv, Between
    <3>3. \A b \in DOMAIN used_chunk : ~Holds(x, b, used_chunk[b])
      BY <1>3, <1>5, <2>1, <2>2, <2>3 DEF Holds
    <3> QED
      BY <3>2, <3>3 DEF Owned
  <2>4. PICK b \in DOMAIN free_chunk : Holds(a, b, free_chunk[b])
    BY <1>3, <2>1, <2>3
  <2> DEFINE e == b + free_chunk[b]
  <2>5. e \in Nat /\ a <= e /\ e < a + n
    BY <1>3, <1>5, <2>1, <2>4 DEF Holds
  <2>6. PICK c \in DOMAIN free_chunk : Holds(e, c, free_chunk[c])
    BY <2>3, <2>5
  <2>7. c # b /\ c # e
    BY <1>5, <2>6 DEF Holds, IInv, BlocksInv
  <2>8. Apart(b, free_chunk[b], c, free_chunk[c])
    BY <2>7 DEF IInv, BlocksInv, MapOK
  <2> QED
    BY <1>5, <2>6, <2>7, <2>8 DEF Holds, Apart
<1> QED
  BY <1>1, <1>3, <1>4, <1>6 DEF Pool!Refuse, Wanted

LEMMA FreeEraseReleases ==
  ASSUME IInv, NEW t \in Threads, FreeErase(t) PROVE Pool!Release
<1> DEFINE p == call[t].ptr
<1>1. /\ call[t].op = "free" /\ p \in DOMAIN used_chunk
      /\ used_chunk' = Without(used_chunk, p)
      /\ call' = [call EXCEPT ![t].size = used_chunk[p], ![t].at = "end"]
      /\ UNCHANGED pool_size
  BY DEF FreeErase
<1>2. call'[t].op = "free" /\ \A u \in Threads : u # t => call'[u] = call[u]
  BY <1>1 DEF IInv, TypeOK, Calls
<1>3. Wanted' = Wanted
  <2>1. call[t].op = "free"
    BY <1>1
  <2> QED
    BY <1>2, <2>1 DEF Wanted
<1> HIDE DEF p
<1>4. used_chunk' = [b \in DOMAIN used_chunk \ {p} |-> used_chunk[b]]
  BY <1>1 DEF Without, Restrict
<1> QED
  BY <1>1, <1>3, <1>4 DEF Pool!Release, Wanted

(* The other steps change neither the log nor what somebody waits for.     *)
LEMMA OthersStutter ==
  ASSUME IInv, NEW t \in Threads,
         (\E p \in held \cup Stray : CallFree(t, p)) \/ Lock(t) \/ AllocFind(t) \/ FreeUnknown(t)
           \/ FreeMerge(t)
  PROVE  UNCHANGED <<pool_size, used_chunk>> /\ Wanted' = Wanted
<1>1. ASSUME NEW p \in held \cup Stray, CallFree(t, p) PROVE Wanted' = Wanted
  <2> DEFINE c == [NoCall EXCEPT !.op = "free", !.ptr = p, !.mine = p \in held]
  <2>1. c.op = "free"
    BY DEF NoCall
  <2> HIDE DEF c
  <2>2. call[t].op = "none" /\ call' = [call EXCEPT ![t] = c]
    BY <1>1 DEF CallFree, c
  <2>3. call'[t] = c /\ \A u \in Threads : u # t => call'[u] = call[u]
    BY <2>2 DEF IInv, TypeOK
  <2> QED
    BY <2>1, <2>2, <2>3 DEF Wanted
<1>2. ASSUME Lock(t) \/ AllocFind(t) PROVE Wanted' = Wanted
  <2>1. call'[t].op = call[t].op /\ call'[t].size = call[t].size /\ \A u \in Threads : u # t => call'[u] = call[u]
    BY <1>2 DEF Lock, AllocFind, IInv, TypeOK, Calls
  <2> QED
    BY <2>1 DEF Wanted
<1>3. ASSUME FreeMerge(t) PROVE Wanted' = Wanted
  <2>1. call[t].op = "free" /\ call' = [call EXCEPT ![t] = NoCall]
    BY <1>3 DEF FreeMerge, Returns
  <2>2. call'[t].op = "none" /\ \A u \in Threads : u # t => call'[u] = call[u]
    BY <2>1, NoCallFields DEF IInv, TypeOK
  <2> QED
    BY <2>1, <2>2 DEF Wanted
<1>4. ASSUME FreeUnknown(t) PROVE Wanted' = Wanted
  BY <1>4 DEF FreeUnknown, Wanted
<1> QED
  BY <1>1, <1>2, <1>3, <1>4 DEF CallFree, Lock, AllocFind, FreeUnknown, FreeMerge

(* Every step of alloc and free is a step of BlockPool or none: blocks     *)
(* that are handed out never overlap, and alloc fails only when no gap     *)
(* between them is large enough.                                           *)
THEOREM MemCtlImplementsPool == Spec => ImplementsPool
<1>1. Init => Pool!Init
  <2> SUFFICES ASSUME Init PROVE Pool!Init
    OBVIOUS
  <2>1. \A t \in Threads : call[t].op = "none"
    BY NoCallFields DEF Init
  <2> QED
    BY <2>1 DEF Init, Pool!Init
<1>2. IInv /\ [Next]_vars => [Pool!Next]_(Pool!poolVars)
  <2> SUFFICES ASSUME IInv, [Next]_vars PROVE Pool!Next \/ UNCHANGED Pool!poolVars
    OBVIOUS
  <2>1. CASE \E n \in PoolSizes : GetInstance(n)
    BY <2>1, GetInstanceCreates DEF Pool!Next
  <2>2. ASSUME NEW t \in Threads, \E n \in Sizes : CallAlloc(t, n) PROVE Pool!Next
    BY <2>2, CallAllocRequests DEF Pool!Next
  <2>3. ASSUME NEW t \in Threads, AllocTake(t) \/ AllocFails(t) PROVE Pool!Next
    BY <2>3, AllocTakeGrants, AllocFailsRefuses DEF Pool!Next
  <2>4. ASSUME NEW t \in Threads, FreeErase(t) PROVE Pool!Next
    BY <2>4, FreeEraseReleases DEF Pool!Next
  <2>5. ASSUME NEW t \in Threads,
               (\E p \in held \cup Stray : CallFree(t, p)) \/ Lock(t) \/ AllocFind(t)
                 \/ FreeUnknown(t) \/ FreeMerge(t)
        PROVE  UNCHANGED Pool!poolVars
    BY <2>5, OthersStutter DEF Pool!poolVars, Wanted
  <2>6. CASE UNCHANGED vars
    BY <2>6 DEF vars, Pool!poolVars
  <2> QED
    BY <2>1, <2>2, <2>3, <2>4, <2>5, <2>6 DEF Next, Exited
<1> QED
  BY <1>1, <1>2, MemCtlInvariant, PTL DEF Spec, ImplementsPool, Pool!Spec

=============================================================================
