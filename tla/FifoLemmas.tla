----------------------------- MODULE FifoLemmas -----------------------------
(* What a push and a pop do to a queue, for a queue of any element type,   *)
(* and the arithmetic of counters that wrap.                               *)
EXTENDS Integers, Sequences, TLAPS

(* A push keeps the type, adds one element at the end and moves no other.  *)
LEMMA Push ==
  ASSUME NEW S, NEW q \in Seq(S), NEW x \in S
  PROVE  /\ Append(q, x) \in Seq(S)
         /\ Len(Append(q, x)) = Len(q) + 1
         /\ \A i \in 1..Len(q) : Append(q, x)[i] = q[i]
         /\ Append(q, x)[Len(q) + 1] = x
  OBVIOUS

(* A pop of a queue that is not empty yields its first element and moves   *)
(* every other one place to the front.                                     *)
LEMMA Pop ==
  ASSUME NEW S, NEW q \in Seq(S), q # <<>>
  PROVE  /\ Tail(q) \in Seq(S)
         /\ Len(q) > 0 /\ Len(Tail(q)) = Len(q) - 1
         /\ Head(q) \in S /\ Head(q) = q[1]
         /\ \A i \in 1..Len(Tail(q)) : Tail(q)[i] = q[i + 1]
  OBVIOUS

(* An empty queue has no elements.                                         *)
LEMMA EmptyQueue ==
  ASSUME NEW S, NEW q \in Seq(S)
  PROVE  /\ Len(q) \in Nat
         /\ q = <<>> <=> Len(q) = 0
         /\ \A i \in 1..Len(q) : q[i] \in S
  OBVIOUS

-----------------------------------------------------------------------------
(* A queue that carries a stream in order.  K[x] is the place of element x *)
(* in the stream and F[c] the place after c: the queue holds the elements  *)
(* from place a up to, and not including, place z.                         *)
Chain(q, K, F, a, z) ==
  /\ Len(q) = 0 => a = z
  /\ Len(q) > 0 => K[q[1]] = a /\ F[K[q[Len(q)]]] = z
  /\ \A i, j \in 1..Len(q) : j = i + 1 => K[q[j]] = F[K[q[i]]]

(* The element pushed is the one at place z.                               *)
LEMMA ChainPush ==
  ASSUME NEW S, NEW q \in Seq(S), NEW x \in S, NEW K, NEW F, NEW a, NEW z,
         Chain(q, K, F, a, z), K[x] = z
  PROVE  Chain(Append(q, x), K, F, a, F[z])
<1> DEFINE r == Append(q, x)
<1>1. /\ Len(q) \in Nat /\ Len(r) = Len(q) + 1
      /\ \A i \in 1..Len(q) : r[i] = q[i]
      /\ r[Len(q) + 1] = x
  BY Push
<1> HIDE DEF r
<1>2. K[r[1]] = a /\ F[K[r[Len(r)]]] = F[z]
  BY <1>1 DEF Chain
<1>3. ASSUME NEW i \in 1..Len(r), NEW j \in 1..Len(r), j = i + 1
      PROVE  K[r[j]] = F[K[r[i]]]
  <2>1. i \in 1..Len(q) /\ r[i] = q[i]
    BY <1>1, <1>3
  <2>2. CASE j \in 1..Len(q)
    BY <1>1, <1>3, <2>1, <2>2 DEF Chain
  <2>3. CASE j = Len(q) + 1
    BY <1>1, <1>3, <2>1, <2>3 DEF Chain
  <2> QED
    BY <1>1, <2>2, <2>3
<1>4. Chain(r, K, F, a, F[z])
  BY <1>1, <1>2, <1>3 DEF Chain
<1> QED
  BY <1>4 DEF r

(* The element popped is the one at place a.                               *)
LEMMA ChainPop ==
  ASSUME NEW S, NEW q \in Seq(S), q # <<>>, NEW K, NEW F, NEW a, NEW z,
         Chain(q, K, F, a, z)
  PROVE  K[Head(q)] = a /\ Chain(Tail(q), K, F, F[a], z)
<1> DEFINE r == Tail(q)
<1>1. /\ Len(q) \in Nat /\ Len(q) > 0 /\ Len(r) = Len(q) - 1
      /\ Head(q) = q[1]
      /\ \A i \in 1..Len(r) : r[i] = q[i + 1]
  BY Pop
<1> HIDE DEF r
<1>2. K[Head(q)] = a
  BY <1>1 DEF Chain
<1>3. Len(r) = 0 => F[a] = z
  <2>1. Len(r) = 0 => Len(q) = 1
    BY <1>1
  <2> QED
    BY <1>1, <2>1 DEF Chain
<1>4. Len(r) > 0 => K[r[1]] = F[a] /\ F[K[r[Len(r)]]] = z
  <2> SUFFICES ASSUME Len(r) > 0 PROVE K[r[1]] = F[a] /\ F[K[r[Len(r)]]] = z
    OBVIOUS
  <2>1. 1 \in 1..Len(q) /\ 2 \in 1..Len(q) /\ r[1] = q[2] /\ r[Len(r)] = q[Len(q)]
    BY <1>1
  <2>2. K[q[2]] = F[K[q[1]]]
    BY <2>1 DEF Chain
  <2> QED
    BY <1>1, <2>1, <2>2 DEF Chain
<1>5. ASSUME NEW i \in 1..Len(r), NEW j \in 1..Len(r), j = i + 1
      PROVE  K[r[j]] = F[K[r[i]]]
  <2>1. r[i] = q[i + 1] /\ r[j] = q[j + 1] /\ i + 1 \in 1..Len(q) /\ j + 1 \in 1..Len(q)
        /\ j + 1 = (i + 1) + 1
    BY <1>1, <1>5
  <2>2. K[q[j + 1]] = F[K[q[i + 1]]]
    BY <2>1 DEF Chain
  <2> QED
    BY <2>1, <2>2
<1>6. Chain(r, K, F, F[a], z)
  BY <1>3, <1>4, <1>5 DEF Chain
<1> QED
  BY <1>2, <1>6 DEF r

(* Place a is the place of the first element, or z when there is none.     *)
LEMMA ChainHead ==
  ASSUME NEW S, NEW q \in Seq(S), NEW K, NEW F, NEW a, NEW z, Chain(q, K, F, a, z)
  PROVE  a = IF q = <<>> THEN z ELSE K[q[1]]
  BY EmptyQueue DEF Chain

(* Only the places of the elements matter.                                 *)
LEMMA ChainSame ==
  ASSUME NEW S, NEW q \in Seq(S), NEW K, NEW F, NEW G, NEW a, NEW z,
         Chain(q, K, F, a, z), \A i \in 1..Len(q) : F[K[q[i]]] = G[K[q[i]]]
  PROVE  Chain(q, K, G, a, z)
<1>1. Len(q) \in Nat
  OBVIOUS
<1>2. Len(q) > 0 => K[q[1]] = a /\ G[K[q[Len(q)]]] = z
  BY <1>1 DEF Chain
<1> QED
  BY <1>1, <1>2 DEF Chain

-----------------------------------------------------------------------------
(* The places of a list are numbers from one to its length.               *)
LEMMA Between ==
  \A c \in Nat : \A x \in 1..c : x \in Nat /\ x > 0 /\ x <= c
  OBVIOUS

(* What is left to come numbers the next of the things that come.          *)
LEMMA NextOf ==
  \A m, n \in Nat : n > 0 /\ n <= m => m - n + 1 \in 1..m
  OBVIOUS

(* Arithmetic of a counter that wraps.                                     *)
LEMMA Rearrange == \A a, b, c \in Int : c = a - b => a = b + c
  OBVIOUS

(* Division with remainder.                                                *)
LEMMA DivMod ==
  ASSUME NEW x \in Nat, NEW m \in Nat \ {0}
  PROVE  x = m * (x \div m) + (x % m) /\ x % m \in 0..(m - 1) /\ x \div m \in Nat
<1>1. x % m \in 0..(m - 1)
  OBVIOUS
<1>2. x \div m \in Nat
  OBVIOUS
<1>3. x % m = x - m * (x \div m)
  OBVIOUS
<1>4. m * (x \div m) \in Int /\ x \in Int /\ x % m \in Int
  BY <1>1, <1>2
<1>6. x = m * (x \div m) + (x % m)
  BY <1>3, <1>4, Rearrange, Zenon
<1> QED
  BY <1>1, <1>2, <1>6, Zenon

(* A smaller quotient leaves room for a whole divisor.                     *)
LEMMA Mult ==
  ASSUME NEW m \in Nat \ {0}, NEW p \in Int, NEW q \in Int, p < q PROVE m * p + m <= m * q
<1>1. m * (q - p) >= m
  OBVIOUS
<1> QED
  BY <1>1

(* Quotient and remainder are determined by the number.                    *)
LEMMA Unique ==
  ASSUME NEW x \in Nat, NEW m \in Nat \ {0}, NEW q \in Int, NEW r \in 0..(m - 1), x = m * q + r
  PROVE  q = x \div m /\ r = x % m
<1>1. x = m * (x \div m) + (x % m) /\ x % m \in 0..(m - 1) /\ x \div m \in Nat
  BY DivMod
<1>2. ~(q < x \div m)
  <2> SUFFICES ASSUME q < x \div m PROVE FALSE
    OBVIOUS
  <2>1. m * q + m <= m * (x \div m)
    BY <1>1, Mult
  <2> QED
  BY <1>1, <2>1
<1>3. ~(x \div m < q)
  <2> SUFFICES ASSUME x \div m < q PROVE FALSE
    OBVIOUS
  <2>1. m * (x \div m) + m <= m * q
    BY <1>1, Mult
  <2> QED
  BY <1>1, <2>1
<1>4. q = x \div m
  BY <1>1, <1>2, <1>3
<1> QED
  BY <1>1, <1>4

(* Adding one before or after the wrap is the same.                        *)
LEMMA ModStep ==
  ASSUME NEW x \in Nat, NEW m \in Nat \ {0} PROVE ((x % m) + 1) % m = (x + 1) % m
<1> DEFINE y == x % m
           k == x \div m
<1>1. x = m * k + y /\ y \in 0..(m - 1) /\ k \in Nat
  BY DivMod
<1> HIDE DEF y, k
<1>2. CASE y + 1 < m
  <2>1. x + 1 = m * k + (y + 1) /\ y + 1 \in 0..(m - 1) /\ x + 1 \in Nat /\ k \in Int
    BY <1>1, <1>2
  <2>2. y + 1 = (x + 1) % m
    BY <2>1, Unique, Zenon
  <2>3. (y + 1) % m = y + 1
    BY <1>1, <1>2
  <2> QED
  BY <2>2, <2>3 DEF y
<1>3. CASE y + 1 = m
  <2>1. x + 1 = m * (k + 1) + 0
    BY <1>1, <1>3
  <2>2. 0 = (x + 1) % m
    BY <1>1, <2>1, Unique
  <2>3. (y + 1) % m = 0
    BY <1>1, <1>3
  <2> QED
  BY <2>2, <2>3 DEF y
<1> QED
  BY <1>1, <1>2, <1>3

(* Wrapping at a multiple of e first does not change the remainder by e.   *)
LEMMA ModMod ==
  ASSUME NEW x \in Nat, NEW m \in Nat \ {0}, NEW e \in Nat \ {0}, m % e = 0
  PROVE  (x % m) % e = x % e
<1> DEFINE y == x % m
           k == x \div m
           u == y \div e
           v == y % e
           g == m \div e
<1>1. x = m * k + y /\ y \in Nat /\ k \in Nat
  BY DivMod
<1>2. m = e * g /\ g \in Nat
  BY DivMod
<1>3. y = e * u + v /\ v \in 0..(e - 1) /\ u \in Nat
  BY <1>1, DivMod
<1> HIDE DEF y, k, u, v, g
<1>4. x = e * (g * k + u) + v /\ g * k + u \in Nat
  <2>1. e * (g * k + u) = (e * g) * k + e * u
    BY <1>1, <1>2, <1>3
  <2>2. g * k + u \in Nat
    BY <1>1, <1>2, <1>3
  <2> QED
  BY <1>1, <1>2, <1>3, <2>1, <2>2
<1>5. v = x % e
  BY <1>3, <1>4, Unique
<1> QED
  BY <1>5 DEF v, y
=============================================================================
