------------------------------ MODULE LRUCache ------------------------------
(***************************************************************************)
(* What the query cache promises: a bounded map with time to live that     *)
(* evicts the key used least recently.  order lists the keys, the most     *)
(* recently used first; ages are in ticks since the value was stored.      *)
(***************************************************************************)
EXTENDS Naturals, Sequences

CONSTANTS Keys, Vals, NoVal, MaxSize, TTL

VARIABLES
  order,   \* the cached keys, most recently used first
  val,     \* [Keys -> Vals \cup {NoVal}]
  age,     \* [Keys -> 0 .. TTL + 1]: ticks since Set, saturating
  answer   \* what the last Get returned

vars == <<order, val, age, answer>>

Members(o) == {o[i] : i \in DOMAIN o}
Cached     == Members(order)

\* o without its key k; and whether t is o with the keys of S only, in their order
\* (o lists no key twice).
Place(o, k)    == CHOOSE i \in DOMAIN o : o[i] = k
Without(o, k)  ==
  IF k \in Members(o)
  THEN [i \in 1 .. Len(o) - 1 |-> IF i < Place(o, k) THEN o[i] ELSE o[i + 1]]
  ELSE o
Keeps(t, o, S) ==
  /\ t \in Seq(S) /\ Members(t) = Members(o) \cap S
  /\ \A i, j \in DOMAIN t :
       i < j => \E x, y \in DOMAIN o : x < y /\ t[i] = o[x] /\ t[j] = o[y]

Forget(S) == /\ val' = [k \in Keys |-> IF k \in S THEN NoVal ELSE val[k]]
             /\ age' = [k \in Keys |-> IF k \in S THEN 0 ELSE age[k]]

Init ==
  /\ order = <<>> /\ answer = NoVal
  /\ val = [k \in Keys |-> NoVal] /\ age = [k \in Keys |-> 0]

GetHit(k) ==
  /\ k \in Cached /\ age[k] <= TTL
  /\ answer' = val[k]
  /\ order' = <<k>> \o Without(order, k)
  /\ UNCHANGED <<val, age>>

GetMiss(k) ==
  /\ k \notin Cached /\ answer' = NoVal
  /\ UNCHANGED <<order, val, age>>

GetExpired(k) ==
  /\ k \in Cached /\ age[k] > TTL
  /\ answer' = NoVal
  /\ order' = Without(order, k) /\ Forget({k})

Set(k, v) ==
  LET o == <<k>> \o Without(order, k) IN
  /\ order' = SubSeq(o, 1, IF Len(o) > MaxSize THEN MaxSize ELSE Len(o))
  /\ LET out == {o[i] : i \in DOMAIN o \ 1 .. MaxSize} IN
       /\ val' = [x \in Keys |-> IF x = k THEN v
                                 ELSE IF x \in out THEN NoVal ELSE val[x]]
       /\ age' = [x \in Keys |-> IF x \in {k} \cup out THEN 0 ELSE age[x]]
  /\ UNCHANGED answer

Cleanup ==
  /\ Keeps(order', order, {k \in Cached : age[k] <= TTL})
  /\ Forget({k \in Cached : age[k] > TTL})
  /\ UNCHANGED answer

Clear ==
  /\ order' = <<>> /\ Forget(Keys) /\ UNCHANGED answer

Tick ==
  /\ age' = [k \in Keys |-> IF k \in Cached /\ age[k] <= TTL THEN age[k] + 1
                            ELSE age[k]]
  /\ UNCHANGED <<order, val, answer>>

Next ==
  \/ \E k \in Keys : GetHit(k) \/ GetMiss(k) \/ GetExpired(k)
  \/ \E k \in Keys, v \in Vals : Set(k, v)
  \/ Cleanup \/ Clear \/ Tick

Spec == Init /\ [][Next]_vars
=============================================================================
