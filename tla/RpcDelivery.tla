----------------------------- MODULE RpcDelivery -----------------------------
(***************************************************************************)
(* What the receive side of the card promises.  Messages arrive in order.  *)
(* Each one, in that order, is given to one of the active lanes, or is     *)
(* lost while more than DROP_LIMIT wait.  A lane puts out the stream of    *)
(* the messages it was given, whole, in order, and nothing else.           *)
(*                                                                         *)
(* The promise ends when it breaks, and it may break only after a message  *)
(* so short that LEN_DEPTH like it have fewer than RX_DEPTH beats.         *)
(***************************************************************************)
EXTENDS Integers, Sequences, FiniteSets

CONSTANTS
  Lanes, ActiveLanes,
  Sizes,        \* numbers of beats a message may have
  DROP_LIMIT,
  RX_DEPTH, LEN_DEPTH

VARIABLES
  sent,    \* number of beats of message 1, 2, ...
  given,   \* per lane, the messages given to it
  got,     \* per lane, the beats <<message, k>> it has put out
  lost,    \* the messages dropped
  broken   \* the promise is no longer kept

beats == <<sent, given, got, lost>>
vars  == <<beats, broken>>

Init ==
  /\ sent = <<>>
  /\ given = [l \in Lanes |-> <<>>]
  /\ got = [l \in Lanes |-> <<>>]
  /\ lost = <<>>
  /\ broken = FALSE

Elements(s) == {s[i] : i \in 1..Len(s)}
Waiting     == (1..Len(sent)) \ (Elements(lost) \cup UNION {Elements(given[l]) : l \in Lanes})
IsNext(n)   == n \in Waiting /\ \A m \in Waiting : n <= m

Send ==
  /\ \E k \in Sizes : sent' = Append(sent, k)
  /\ UNCHANGED <<given, got, lost>>

Give(l) ==
  /\ \E n \in Waiting : IsNext(n) /\ given' = [given EXCEPT ![l] = Append(@, n)]
  /\ UNCHANGED <<sent, got, lost>>

Drop ==
  /\ Cardinality(Waiting) > DROP_LIMIT
  /\ \E n \in Waiting : IsNext(n) /\ lost' = Append(lost, n)
  /\ UNCHANGED <<sent, given, got>>

(* b follows what lane l has put out: the next beat of the same message,   *)
(* or the first one of the message given to the lane after it.             *)
Follows(b, l) ==
  IF got[l] = <<>> THEN given[l] # <<>> /\ b = <<Head(given[l]), 1>>
  ELSE LET last == got[l][Len(got[l])] IN
       IF last[2] < sent[last[1]] THEN b = <<last[1], last[2] + 1>>
       ELSE \E i \in 2..Len(given[l]) : given[l][i - 1] = last[1] /\ b = <<given[l][i], 1>>

Put(l) ==
  /\ \E n \in Elements(given[l]) : \E k \in 1..sent[n] :
       Follows(<<n, k>>, l) /\ got' = [got EXCEPT ![l] = Append(@, <<n, k>>)]
  /\ UNCHANGED <<sent, given, lost>>

Deliver ==
  /\ ~broken /\ UNCHANGED broken
  /\ Send \/ Drop \/ (\E l \in ActiveLanes : Give(l)) \/ (\E l \in Lanes : Put(l))

(* The step that breaks the promise, and whatever happens after it.        *)
Break ==
  /\ ~broken /\ broken' /\ UNCHANGED beats
  /\ \E n \in 1..Len(sent) : sent[n] * LEN_DEPTH < RX_DEPTH

Astray == broken /\ broken'

Next == Deliver \/ Break \/ Astray

Spec == Init /\ [][Next]_vars

=============================================================================
