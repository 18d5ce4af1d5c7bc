----------------------------- MODULE BlockPool -----------------------------
(***************************************************************************)
(* What MemCtl promises its callers: a block that is handed out lies in    *)
(* the pool and overlaps no other live block, and an allocation fails only *)
(* if no gap between the live blocks is large enough.  Where in the pool a *)
(* block lies, and how the gaps are kept, is left open.                    *)
(***************************************************************************)
EXTENDS Integers, FiniteSets

CONSTANTS
    Threads,
    BASE,      \* where the pool begins
    UNIT,      \* blocks begin at multiples of it
    PoolSizes, \* how large the pool may be
    Lengths    \* how long a block may be

VARIABLES
    size,     \* bytes of the pool, 0 while there is none
    live,     \* the blocks handed out: address |-> length
    wanted    \* thread |-> the length it is waiting for, 0 if none

poolVars == <<size, live, wanted>>

Init == size = 0 /\ live = <<>> /\ wanted = [t \in Threads |-> 0]

(* The bytes a..a+len-1 lie in the pool and belong to nobody.               *)
Gap(a, len) ==
    /\ a >= BASE /\ a + len <= BASE + size
    /\ \A b \in DOMAIN live : b + live[b] <= a \/ a + len <= b

Units == {BASE + UNIT * k : k \in 0..(size \div UNIT)}

Create ==
    /\ size = 0
    /\ size' \in PoolSizes
    /\ UNCHANGED <<live, wanted>>

Request(t) ==
    /\ wanted[t] = 0
    /\ \E n \in Lengths : wanted' = [wanted EXCEPT ![t] = n]
    /\ UNCHANGED <<size, live>>

Grant(t) ==
    /\ wanted[t] > 0
    /\ \E a \in Units :
        /\ Gap(a, wanted[t])
        /\ live' = [b \in DOMAIN live \cup {a} |-> IF b = a THEN wanted[t] ELSE live[b]]
    /\ wanted' = [wanted EXCEPT ![t] = 0]
    /\ UNCHANGED size

Refuse(t) ==
    /\ wanted[t] > 0
    /\ \A a \in Units : ~Gap(a, wanted[t])
    /\ wanted' = [wanted EXCEPT ![t] = 0]
    /\ UNCHANGED <<size, live>>

Release ==
    /\ \E a \in DOMAIN live : live' = [b \in DOMAIN live \ {a} |-> live[b]]
    /\ UNCHANGED <<size, wanted>>

Next == Create \/ Release \/ \E t \in Threads : Request(t) \/ Grant(t) \/ Refuse(t)

Spec == Init /\ [][Next]_poolVars
=============================================================================
