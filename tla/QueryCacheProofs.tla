--------------------------- MODULE QueryCacheProofs ---------------------------
(***************************************************************************)
(* Proofs about the query cache, for any keys, values and memory and any   *)
(* size: the map and the doubly linked list of its entries agree, and      *)
(* together they implement a bounded map with time to live (LRUCache).     *)
(***************************************************************************)
EXTENDS QueryCache, FiniteSetTheorems, FunctionTheorems, SequenceTheorems,
        WellFoundedInduction, TLAPS

\* An order of n entries, the most recently used first: each occurs once.
Orders(n)     == {s \in [1 .. n -> Addrs] :
                    \A i, j \in 1 .. n : s[i] = s[j] => i = j}
Members(s, n) == {s[i] : i \in 1 .. n}
At(s, n, i)   == IF i \in 1 .. n THEN s[i] ELSE Nil

Pushed(s, n, e) == [i \in 1 .. n + 1 |-> IF i = 1 THEN e ELSE s[i - 1]]
Dropped(s, n, j) == [i \in 1 .. n - 1 |-> IF i < j THEN s[i] ELSE s[i + 1]]

Lists == [head : Addrs \cup {Nil}, tail : Addrs \cup {Nil}, size : Nat,
          prev : [Addrs -> Addrs \cup {Nil}], next : [Addrs -> Addrs \cup {Nil}]]

\* The list l links the entries of s in their order, both ways, and no others.
Linked(l, s, n) ==
  /\ l.head = At(s, n, 1) /\ l.tail = At(s, n, n) /\ l.size = n
  /\ \A i \in 1 .. n : l.next[s[i]] = At(s, n, i + 1) /\ l.prev[s[i]] = At(s, n, i - 1)
  /\ \A e \in Addrs \ Members(s, n) : l.next[e] = Nil /\ l.prev[e] = Nil

Chain(l, s, n) == n \in Nat /\ s \in Orders(n) /\ l \in Lists /\ Linked(l, s, n)

-----------------------------------------------------------------------------
(* The operations on the list.                                             *)

\* Nothing but an entry is linked; Nil is none.
LEMMA NilIs == Nil \notin Addrs
BY QCAssumption

\* The entries of an order, and whether one is Nil.
LEMMA AtIs ==
  ASSUME NEW n \in Nat, NEW s \in Orders(n), NEW i \in Int
  PROVE  /\ At(s, n, i) \in Addrs \cup {Nil}
         /\ At(s, n, i) = Nil <=> i \notin 1 .. n
         /\ i \in 1 .. n => At(s, n, i) = s[i] /\ s[i] \in Addrs
BY NilIs DEF At, Orders

\* An entry at the front is an order, of one entry more.
LEMMA PushedIs ==
  ASSUME NEW n \in Nat, NEW s \in Orders(n), NEW e \in Addrs \ Members(s, n)
  PROVE  /\ Pushed(s, n, e) \in Orders(n + 1)
         /\ Pushed(s, n, e)[1] = e
         /\ \A i \in 1 .. n : Pushed(s, n, e)[i + 1] = s[i]
         /\ Members(Pushed(s, n, e), n + 1) = Members(s, n) \cup {e}
<1> DEFINE t == Pushed(s, n, e)
<1>1. t \in [1 .. n + 1 -> Addrs]
  BY DEF Pushed, Orders
<1>2. t[1] = e /\ \A i \in 2 .. n + 1 : t[i] = s[i - 1] /\ i - 1 \in 1 .. n
  BY DEF Pushed
<1>3. \A i \in 1 .. n : t[i + 1] = s[i] /\ i + 1 \in 1 .. n + 1
  BY DEF Pushed
<1> HIDE DEF t
<1>4. \A i, j \in 1 .. n + 1 : t[i] = t[j] => i = j
  <2> SUFFICES ASSUME NEW i \in 1 .. n + 1, NEW j \in 1 .. n + 1, t[i] = t[j]
               PROVE  i = j
    OBVIOUS
  <2>1. CASE i = 1 \/ j = 1
    BY <1>2, <2>1 DEF Members
  <2>2. CASE i # 1 /\ j # 1
    <3>1. i - 1 \in 1 .. n /\ j - 1 \in 1 .. n /\ s[i - 1] = s[j - 1]
      BY <1>2, <2>2
    <3> QED
      BY <3>1 DEF Orders
  <2> QED
    BY <2>1, <2>2
<1>5. Members(t, n + 1) = Members(s, n) \cup {e}
  <2>1. ASSUME NEW i \in 1 .. n + 1 PROVE t[i] \in Members(s, n) \cup {e}
    BY <1>2 DEF Members
  <2>2. ASSUME NEW x \in Members(s, n) \cup {e} PROVE \E i \in 1 .. n + 1 : x = t[i]
    BY <1>2, <1>3 DEF Members
  <2> QED
    BY <2>1, <2>2 DEF Members
<1> QED
  BY <1>1, <1>2, <1>4, <1>5 DEF Orders, t

\* Leaving out an entry leaves an order, of one entry less.
LEMMA DroppedIs ==
  ASSUME NEW n \in Nat, NEW s \in Orders(n), NEW j \in 1 .. n
  PROVE  /\ n - 1 \in Nat /\ Dropped(s, n, j) \in Orders(n - 1)
         /\ \A i \in 1 .. n - 1 :
              Dropped(s, n, j)[i] = IF i < j THEN s[i] ELSE s[i + 1]
         /\ Members(Dropped(s, n, j), n - 1) = Members(s, n) \ {s[j]}
<1> DEFINE t == Dropped(s, n, j)
<1>1. n - 1 \in Nat /\ t \in [1 .. n - 1 -> Addrs]
  BY DEF Dropped, Orders
<1>2. \A i \in 1 .. n - 1 : t[i] = IF i < j THEN s[i] ELSE s[i + 1]
  BY DEF Dropped
<1>3. \A i \in 1 .. n - 1 : i \in 1 .. n /\ i + 1 \in 1 .. n
  OBVIOUS
<1> HIDE DEF t
<1>4. \A i, k \in 1 .. n : s[i] = s[k] => i = k
  BY DEF Orders
<1>5. \A i, k \in 1 .. n - 1 : t[i] = t[k] => i = k
  <2> SUFFICES ASSUME NEW i \in 1 .. n - 1, NEW k \in 1 .. n - 1, t[i] = t[k]
               PROVE  i = k
    OBVIOUS
  <2> DEFINE p == IF i < j THEN i ELSE i + 1
             q == IF k < j THEN k ELSE k + 1
  <2>1. p \in 1 .. n /\ q \in 1 .. n /\ t[i] = s[p] /\ t[k] = s[q]
    BY <1>2, <1>3
  <2>2. p = q
    BY <1>4, <2>1
  <2> QED
    BY <2>2
<1>6. Members(t, n - 1) = Members(s, n) \ {s[j]}
  <2>1. ASSUME NEW i \in 1 .. n - 1 PROVE t[i] \in Members(s, n) /\ t[i] # s[j]
    <3> DEFINE p == IF i < j THEN i ELSE i + 1
    <3>1. p \in 1 .. n /\ p # j /\ t[i] = s[p]
      BY <1>2, <1>3
    <3> QED
      BY <1>4, <3>1 DEF Members
  <2>2. ASSUME NEW i \in 1 .. n, s[i] # s[j] PROVE \E k \in 1 .. n - 1 : s[i] = t[k]
    <3>1. CASE i < j
      <4>1. i \in 1 .. n - 1
        BY <3>1
      <4> QED
        BY <1>2, <3>1, <4>1
    <3>2. CASE i > j
      <4>1. i - 1 \in 1 .. n - 1 /\ ~(i - 1 < j) /\ (i - 1) + 1 = i
        BY <3>2
      <4>2. t[i - 1] = s[i]
        BY <1>2, <4>1
      <4> QED
        BY <4>1, <4>2
    <3> QED
      BY <2>2, <3>1, <3>2
  <2> QED
    BY <2>1, <2>2 DEF Members
<1> QED
  BY <1>1, <1>2, <1>6 DEF Orders, t

\* addToFront puts the entry in front.
LEMMA AddToFrontIs ==
  ASSUME NEW l, NEW n, NEW s, Chain(l, s, n), NEW e \in Addrs \ Members(s, n)
  PROVE  Chain(AddToFront(l, e), Pushed(s, n, e), n + 1)
<1> DEFINE t == Pushed(s, n, e)
           k == AddToFront(l, e)
<1> USE DEF Chain
<1>1. /\ t \in Orders(n + 1) /\ t[1] = e
      /\ \A i \in 1 .. n : t[i + 1] = s[i]
      /\ Members(t, n + 1) = Members(s, n) \cup {e}
  BY PushedIs
<1> HIDE DEF t
<1>2. \A i \in 1 .. n : s[i] \in Addrs /\ s[i] # e /\ s[i] # Nil
  BY NilIs DEF Orders, Members
<1>3. l.next[e] = Nil /\ l.prev[e] = Nil
  BY DEF Linked
<1>4. CASE n = 0
  <2>1. l.head = Nil
    BY <1>4 DEF Linked, At
  <2>2. k = [l EXCEPT !.head = e, !.tail = e, !.size = @ + 1]
    BY <2>1 DEF AddToFront
  <2>3. k \in Lists
    <3>1. l.size + 1 \in Nat
      BY DEF Lists
    <3> QED
      BY <2>2, <3>1 DEF Lists
  <2>4. /\ k.head = e /\ k.tail = e /\ k.size = 1 /\ k.next = l.next /\ k.prev = l.prev
    BY <1>4, <2>2 DEF Lists, Linked
  <2> HIDE DEF k
  <2>5. Linked(k, t, 1)
    BY <1>1, <1>4, <2>4 DEF Linked, At
  <2> QED
    BY <1>1, <1>4, <2>3, <2>5 DEF k, t
<1>5. CASE n > 0
  <2>1. l.head = s[1] /\ s[1] \in Addrs /\ s[1] # Nil
    BY <1>2, <1>5 DEF Linked, At
  <2>2. k = [l EXCEPT !.next[e] = s[1], !.prev[s[1]] = e, !.head = e, !.size = @ + 1]
    BY <2>1 DEF AddToFront
  <2>3. /\ k.head = e /\ k.tail = l.tail /\ k.size = n + 1
        /\ k.next = [l.next EXCEPT ![e] = s[1]] /\ k.prev = [l.prev EXCEPT ![s[1]] = e]
        /\ k = [head |-> k.head, tail |-> k.tail, size |-> k.size, prev |-> k.prev,
                next |-> k.next]
    BY <2>2 DEF Lists, Linked
  <2> HIDE DEF k
  <2>4. /\ k.next \in [Addrs -> Addrs \cup {Nil}] /\ k.prev \in [Addrs -> Addrs \cup {Nil}]
    BY <2>1, <2>3 DEF Lists
  <2>5. k \in Lists
    BY <2>3, <2>4 DEF Lists
  <2>6. /\ k.head = At(t, n + 1, 1) /\ k.tail = At(t, n + 1, n + 1)
    BY <1>1, <1>5, <2>3 DEF Linked, At
  <2>7. ASSUME NEW i \in 1 .. n + 1
        PROVE  k.next[t[i]] = At(t, n + 1, i + 1) /\ k.prev[t[i]] = At(t, n + 1, i - 1)
    <3>1. CASE i = 1
      <4>1. e # s[1] /\ t[2] = s[1] /\ t[i] = e
        BY <1>1, <1>2, <1>5, <3>1
      <4> QED
        BY <1>3, <1>5, <2>3, <3>1, <4>1 DEF At, Lists
    <3>2. CASE i > 1
      <4> DEFINE m == i - 1
      <4>1. m \in 1 .. n /\ i = m + 1
        BY <3>2
      <4> HIDE DEF m
      <4>2. t[i] = s[m] /\ s[m] \in Addrs /\ s[m] # e
        BY <1>1, <1>2, <4>1
      <4>3. /\ l.next[s[m]] = At(s, n, m + 1) /\ l.prev[s[m]] = At(s, n, m - 1)
        BY <4>1 DEF Linked
      <4>4. At(s, n, m + 1) = At(t, n + 1, i + 1)
        BY <1>1, <4>1 DEF At
      <4>5. k.next[s[m]] = l.next[s[m]]
        BY <2>3, <4>2 DEF Lists
      <4>6. CASE m = 1
        BY <1>1, <2>3, <4>1, <4>2, <4>3, <4>6 DEF At, Lists
      <4>7. CASE m > 1
        <5>1. s[m] # s[1]
          BY <1>5, <4>1, <4>7 DEF Orders
        <5>2. k.prev[s[m]] = l.prev[s[m]]
          BY <2>3, <4>2, <5>1 DEF Lists
        <5>3. m - 1 \in 1 .. n /\ i - 1 = (m - 1) + 1 /\ i - 1 \in 1 .. n + 1
          BY <4>1, <4>7
        <5>4. At(s, n, m - 1) = At(t, n + 1, i - 1)
          BY <1>1, <5>3 DEF At
        <5> QED
          BY <4>2, <4>3, <4>4, <4>5, <5>2, <5>4
      <4> QED
        BY <4>1, <4>6, <4>7
    <3> QED
      BY <3>1, <3>2
  <2>8. ASSUME NEW a \in Addrs \ Members(t, n + 1)
        PROVE  k.next[a] = Nil /\ k.prev[a] = Nil
    <3>1. a # e /\ a \notin Members(s, n) /\ a # s[1]
      BY <1>1, <1>5, <2>8 DEF Members
    <3> QED
      BY <2>3, <3>1 DEF Linked, Lists
  <2>9. Linked(k, t, n + 1)
    BY <2>3, <2>6, <2>7, <2>8 DEF Linked
  <2> QED
    BY <1>1, <2>5, <2>9 DEF k, t
<1> QED
  BY <1>4, <1>5

\* What is at each place once entry j is left out.
LEMMA AtDropped ==
  ASSUME NEW n \in Nat, NEW s \in Orders(n), NEW j \in 1 .. n, NEW i \in Int
  PROVE  At(Dropped(s, n, j), n - 1, i) = IF i < j THEN At(s, n, i) ELSE At(s, n, i + 1)
<1>1. CASE i \in 1 .. n - 1
  BY <1>1, DroppedIs DEF At
<1>2. CASE i \notin 1 .. n - 1
  <2>1. i < j => i \notin 1 .. n
    BY <1>2
  <2>2. i >= j => i + 1 \notin 1 .. n
    BY <1>2
  <2> QED
    BY <1>2, <2>1, <2>2 DEF At
<1> QED
  BY <1>1, <1>2

\* removeFromList takes the entry out, wherever it is.
LEMMA RemoveFromListIs ==
  ASSUME NEW l, NEW n, NEW s, Chain(l, s, n), NEW j \in 1 .. n
  PROVE  Chain(RemoveFromList(l, s[j]), Dropped(s, n, j), n - 1)
<1> DEFINE t == Dropped(s, n, j)
           k == RemoveFromList(l, s[j])
           before == At(s, n, j - 1)
           after  == At(s, n, j + 1)
<1> USE DEF Chain
<1>1. /\ n - 1 \in Nat /\ t \in Orders(n - 1)
      /\ \A i \in 1 .. n - 1 : t[i] = IF i < j THEN s[i] ELSE s[i + 1]
      /\ Members(t, n - 1) = Members(s, n) \ {s[j]}
  BY DroppedIs
<1>2. \A i \in Int : At(t, n - 1, i) = IF i < j THEN At(s, n, i) ELSE At(s, n, i + 1)
  BY AtDropped
<1> HIDE DEF t
<1>3. \A i \in 1 .. n : s[i] \in Addrs /\ s[i] # Nil
  BY NilIs DEF Orders
<1>4. \A i, m \in 1 .. n : s[i] = s[m] => i = m
  BY DEF Orders
<1>5. /\ before \in Addrs \cup {Nil} /\ after \in Addrs \cup {Nil}
      /\ before = Nil <=> j = 1
      /\ after = Nil <=> j = n
      /\ j > 1 => before = s[j - 1] /\ j - 1 \in 1 .. n
      /\ j < n => after = s[j + 1] /\ j + 1 \in 1 .. n
  BY AtIs
<1>6. l.prev[s[j]] = before /\ l.next[s[j]] = after
  BY DEF Linked
<1> HIDE DEF before, after
<1>7. /\ k.head = (IF before = Nil THEN after ELSE l.head)
      /\ k.tail = (IF after = Nil THEN before ELSE l.tail)
      /\ k.size = n - 1
      /\ k.next = [(IF before = Nil THEN l.next ELSE [l.next EXCEPT ![before] = after])
                     EXCEPT ![s[j]] = Nil]
      /\ k.prev = [(IF after = Nil THEN l.prev ELSE [l.prev EXCEPT ![after] = before])
                     EXCEPT ![s[j]] = Nil]
      /\ k = [head |-> k.head, tail |-> k.tail, size |-> k.size, prev |-> k.prev,
              next |-> k.next]
  <2> DEFINE l1 == IF before # Nil THEN [l EXCEPT !.next[before] = after]
                   ELSE [l EXCEPT !.head = after]
             l2 == IF after # Nil THEN [l1 EXCEPT !.prev[after] = before]
                   ELSE [l1 EXCEPT !.tail = before]
  <2>1. k = [l2 EXCEPT !.prev[s[j]] = Nil, !.next[s[j]] = Nil, !.size = @ - 1]
    BY <1>6 DEF RemoveFromList
  <2>2. l = [head |-> l.head, tail |-> l.tail, size |-> n, prev |-> l.prev, next |-> l.next]
    BY DEF Lists, Linked
  <2> HIDE DEF k
  <2>3. l1 = [head |-> IF before = Nil THEN after ELSE l.head, tail |-> l.tail, size |-> n,
              prev |-> l.prev,
              next |-> IF before = Nil THEN l.next ELSE [l.next EXCEPT ![before] = after]]
    BY <2>2
  <2> HIDE DEF l1
  <2>4. l2 = [head |-> l1.head, tail |-> IF after = Nil THEN before ELSE l.tail, size |-> n,
              prev |-> IF after = Nil THEN l.prev ELSE [l.prev EXCEPT ![after] = before],
              next |-> l1.next]
    BY <2>3
  <2> HIDE DEF l2
  <2>5. k = [head |-> l2.head, tail |-> l2.tail, size |-> n - 1,
             prev |-> [l2.prev EXCEPT ![s[j]] = Nil],
             next |-> [l2.next EXCEPT ![s[j]] = Nil]]
    BY <2>1, <2>4
  <2> QED
    BY <2>3, <2>4, <2>5
<1> HIDE DEF k
<1>8. k \in Lists
  <2>1. k.next \in [Addrs -> Addrs \cup {Nil}]
    BY <1>5, <1>7 DEF Lists
  <2>2. k.prev \in [Addrs -> Addrs \cup {Nil}]
    BY <1>5, <1>7 DEF Lists
  <2>3. k.head \in Addrs \cup {Nil} /\ k.tail \in Addrs \cup {Nil}
    BY <1>5, <1>7 DEF Lists
  <2> QED
    BY <1>7, <2>1, <2>2, <2>3 DEF Lists
<1>9. k.head = At(t, n - 1, 1) /\ k.tail = At(t, n - 1, n - 1)
  <2>1. l.head = At(s, n, 1) /\ l.tail = At(s, n, n)
    BY DEF Linked
  <2>2. k.head = At(t, n - 1, 1)
    <3>1. CASE j = 1
      BY <1>2, <1>5, <1>7, <3>1 DEF after
    <3>2. CASE j > 1
      BY <1>2, <1>5, <1>7, <2>1, <3>2
    <3> QED
      BY <3>1, <3>2
  <2>3. k.tail = At(t, n - 1, n - 1)
    <3>1. CASE j = n
      BY <1>2, <1>5, <1>7, <3>1 DEF before
    <3>2. CASE j < n
      BY <1>2, <1>5, <1>7, <2>1, <3>2
    <3> QED
      BY <3>1, <3>2
  <2> QED
    BY <2>2, <2>3
<1>10. ASSUME NEW m \in 1 .. n, m # j
       PROVE  /\ k.next[s[m]] = IF m = j - 1 THEN after ELSE At(s, n, m + 1)
              /\ k.prev[s[m]] = IF m = j + 1 THEN before ELSE At(s, n, m - 1)
  <2>1. s[m] # s[j] /\ s[m] \in Addrs
    BY <1>3, <1>4, <1>10
  <2>2. l.next[s[m]] = At(s, n, m + 1) /\ l.prev[s[m]] = At(s, n, m - 1)
    BY DEF Linked
  <2>3. before # Nil => (before = s[m] <=> m = j - 1)
    BY <1>4, <1>5
  <2>4. after # Nil => (after = s[m] <=> m = j + 1)
    BY <1>4, <1>5
  <2>5. k.next[s[m]] = IF before # Nil /\ s[m] = before THEN after ELSE l.next[s[m]]
    BY <1>7, <2>1 DEF Lists
  <2>6. k.prev[s[m]] = IF after # Nil /\ s[m] = after THEN before ELSE l.prev[s[m]]
    BY <1>7, <2>1 DEF Lists
  <2>7. m = j - 1 => before # Nil
    BY <1>5
  <2>8. m = j + 1 => after # Nil
    BY <1>5
  <2> QED
    BY <2>2, <2>3, <2>4, <2>5, <2>6, <2>7, <2>8
<1>11. ASSUME NEW i \in 1 .. n - 1
       PROVE  k.next[t[i]] = At(t, n - 1, i + 1) /\ k.prev[t[i]] = At(t, n - 1, i - 1)
  <2>1. /\ At(t, n - 1, i + 1) = IF i + 1 < j THEN At(s, n, i + 1) ELSE At(s, n, i + 2)
        /\ At(t, n - 1, i - 1) = IF i - 1 < j THEN At(s, n, i - 1) ELSE At(s, n, i)
    <3>1. i + 1 \in Int /\ i - 1 \in Int /\ (i + 1) + 1 = i + 2 /\ (i - 1) + 1 = i
      OBVIOUS
    <3> QED
      BY <1>2, <3>1
  <2>2. CASE i < j
    <3>1. t[i] = s[i] /\ i \in 1 .. n /\ i # j
      BY <1>1, <2>2
    <3>2. /\ k.next[s[i]] = IF i = j - 1 THEN after ELSE At(s, n, i + 1)
          /\ k.prev[s[i]] = IF i = j + 1 THEN before ELSE At(s, n, i - 1)
      BY <1>10, <3>1
    <3>3. i = j - 1 => after = At(s, n, i + 2)
      BY DEF after
    <3> QED
      BY <2>1, <2>2, <3>1, <3>2, <3>3
  <2>3. CASE i >= j
    <3> DEFINE m == i + 1
    <3>1. t[i] = s[m] /\ m \in 1 .. n /\ m # j /\ m + 1 = i + 2 /\ m - 1 = i
      BY <1>1, <2>3
    <3> HIDE DEF m
    <3>2. /\ k.next[s[m]] = IF m = j - 1 THEN after ELSE At(s, n, i + 2)
          /\ k.prev[s[m]] = IF m = j + 1 THEN before ELSE At(s, n, i)
      BY <1>10, <3>1
    <3>3. m # j - 1 /\ (m = j + 1 <=> i = j)
      BY <2>3, <3>1
    <3>4. i = j => before = At(s, n, i - 1)
      BY DEF before
    <3> QED
      BY <2>1, <2>3, <3>1, <3>2, <3>4
  <2> QED
    BY <2>2, <2>3
<1>12. ASSUME NEW a \in Addrs \ Members(t, n - 1)
       PROVE  k.next[a] = Nil /\ k.prev[a] = Nil
  <2>1. CASE a = s[j]
    BY <1>7, <2>1 DEF Lists
  <2>2. CASE a # s[j]
    <3>1. a \notin Members(s, n)
      BY <1>1, <2>2
    <3>2. a # before /\ a # after
      BY <1>5, <3>1, NilIs DEF Members
    <3> QED
      BY <1>7, <3>1, <3>2 DEF Lists, Linked
  <2> QED
    BY <2>1, <2>2
<1> QED
  BY <1>1, <1>7, <1>8, <1>9, <1>11, <1>12 DEF Linked, t, k

\* moveToFront does both.
LEMMA MoveToFrontIs ==
  ASSUME NEW l, NEW n, NEW s, Chain(l, s, n), NEW j \in 1 .. n
  PROVE  /\ Chain(MoveToFront(l, s[j]), Pushed(Dropped(s, n, j), n - 1, s[j]), n)
         /\ Members(Pushed(Dropped(s, n, j), n - 1, s[j]), n) = Members(s, n)
<1> DEFINE t == Dropped(s, n, j)
<1>1. Chain(RemoveFromList(l, s[j]), t, n - 1)
  BY RemoveFromListIs
<1>2. /\ n \in Nat /\ n - 1 \in Nat /\ (n - 1) + 1 = n /\ t \in Orders(n - 1)
      /\ Members(t, n - 1) = Members(s, n) \ {s[j]}
  BY DroppedIs DEF Chain
<1>3. s[j] \in Addrs /\ s[j] \in Members(s, n)
  BY DEF Chain, Orders, Members
<1> HIDE DEF t
<1>4. Chain(AddToFront(RemoveFromList(l, s[j]), s[j]), Pushed(t, n - 1, s[j]), (n - 1) + 1)
  BY <1>1, <1>2, <1>3, AddToFrontIs
<1>5. Members(Pushed(t, n - 1, s[j]), (n - 1) + 1) = (Members(s, n) \ {s[j]}) \cup {s[j]}
  BY <1>2, <1>3, PushedIs
<1> QED
  BY <1>2, <1>3, <1>4, <1>5 DEF MoveToFront, t
-----------------------------------------------------------------------------
(* The two recursions of the model: RemoveAll over a set, Nth over numbers. *)

\* A set of numbers has a least element.
LEMMA Smallest ==
  ASSUME NEW T \in SUBSET Nat, T # {} PROVE \E x \in T : \A y \in T : x <= y
<1> DEFINE R == OpToRel(<, Nat)
<1>1. IsWellFoundedOn(R, Nat)
  BY NatLessThanWellFounded
<1>2. \A x, y \in Nat : x < y => <<x, y>> \in R
  BY DEF OpToRel
<1> HIDE DEF R
<1>3. PICK x \in T : \A y \in T : ~(<<y, x>> \in R)
  BY <1>1, WFMin
<1>4. ASSUME NEW y \in T PROVE x <= y
  <2>1. x \in Nat /\ y \in Nat
    OBVIOUS
  <2>2. ~(y < x)
    BY <1>2, <1>3, <2>1
  <2> QED
    BY <2>1, <2>2
<1> QED
  BY <1>4

\* What RemoveAll makes of the subsets S of the set it removes, given what R makes
\* of the smaller ones.
Picked(S)          == CHOOSE e \in S : TRUE
Removing(l, R, S)  == IF S = {} THEN l
                      ELSE RemoveFromList(R[S \ {Picked(S)}], Picked(S))
Recursion(l, E, R) == [S \in SUBSET E |-> Removing(l, R, S)]

\* There is such a function.
LEMMA RecursionExists ==
  ASSUME NEW l, NEW E, IsFiniteSet(E)  PROVE \E R : R = Recursion(l, E, R)
<1> DEFINE Ranked(k) == {S \in SUBSET E : Cardinality(S) <= k}
           Has(k)    == \E R : R = [S \in Ranked(k) |-> Removing(l, R, S)]
           Bad       == {k \in Nat : ~Has(k)}
<1>1. \A S \in SUBSET E : /\ IsFiniteSet(S) /\ Cardinality(S) \in Nat
                          /\ Cardinality(S) <= Cardinality(E)
  BY FS_Subset, FS_CardinalityType
<1>2. \A S \in SUBSET E : S # {} =>
        /\ S \ {Picked(S)} \in SUBSET E
        /\ Cardinality(S \ {Picked(S)}) = Cardinality(S) - 1
        /\ Cardinality(S) > 0
  <2> SUFFICES ASSUME NEW S \in SUBSET E, S # {}
               PROVE  /\ S \ {Picked(S)} \in SUBSET E
                      /\ Cardinality(S \ {Picked(S)}) = Cardinality(S) - 1
                      /\ Cardinality(S) > 0
    OBVIOUS
  <2>1. Picked(S) \in S
    BY DEF Picked
  <2>2. Cardinality(S \ {Picked(S)}) = Cardinality(S) - 1
    BY <1>1, <2>1, FS_RemoveElement
  <2>3. Cardinality(S) # 0
    BY <1>1, FS_EmptySet
  <2> QED
    BY <1>1, <2>2, <2>3
<1>3. Has(0)
  <2> DEFINE f == [S \in Ranked(0) |-> l]
  <2>1. \A S \in Ranked(0) : S = {}
    <3> SUFFICES ASSUME NEW S \in SUBSET E, Cardinality(S) <= 0 PROVE S = {}
      OBVIOUS
    <3>1. ~(Cardinality(S) > 0)
      BY <1>1
    <3> QED
      BY <1>2, <3>1
  <2>2. \A S \in Ranked(0) : Removing(l, f, S) = l
    BY <2>1 DEF Removing
  <2>3. f = [S \in Ranked(0) |-> Removing(l, f, S)]
    BY <2>2
  <2> QED
    BY <2>3
<1>4. ASSUME NEW k \in Nat, Has(k) PROVE Has(k + 1)
  <2>1. PICK f : f = [S \in Ranked(k) |-> Removing(l, f, S)]
    BY <1>4
  <2> DEFINE g == [S \in Ranked(k + 1) |-> Removing(l, f, S)]
  <2>2. Ranked(k) \subseteq Ranked(k + 1)
    BY <1>1
  <2>3. \A S \in Ranked(k) : f[S] = Removing(l, f, S)
    BY <2>1, Zenon
  <2>4. \A S \in Ranked(k + 1) : g[S] = Removing(l, f, S)
    OBVIOUS
  <2>5. \A S \in Ranked(k) : g[S] = f[S]
    BY <2>2, <2>3, <2>4
  <2> HIDE DEF g
  <2>6. \A S \in Ranked(k + 1) : S # {} => S \ {Picked(S)} \in Ranked(k)
    BY <1>1, <1>2
  <2>7. \A S \in Ranked(k + 1) : Removing(l, g, S) = Removing(l, f, S)
    BY <2>5, <2>6 DEF Removing
  <2>8. g = [S \in Ranked(k + 1) |-> Removing(l, g, S)]
    BY <2>7 DEF g
  <2> QED
    BY <2>8
<1>5. Bad = {}
  <2> SUFFICES ASSUME Bad # {} PROVE FALSE
    OBVIOUS
  <2> HIDE DEF Has
  <2>1. PICK k \in Bad : \A i \in Bad : k <= i
    BY Smallest
  <2>2. k \in Nat /\ k # 0 /\ ~Has(k)
    BY <1>3, <2>1
  <2>3. k - 1 \in Nat /\ (k - 1) + 1 = k /\ ~(k <= k - 1)
    BY <2>2
  <2>4. Has(k - 1)
    BY <2>1, <2>3
  <2> QED
    BY <1>4, <2>3, <2>4
<1>6. Has(Cardinality(E))
  <2>1. Cardinality(E) \in Nat
    BY <1>1
  <2> HIDE DEF Has
  <2> QED
    BY <1>5, <2>1
<1>7. Ranked(Cardinality(E)) = SUBSET E
  BY <1>1
<1> QED
  BY <1>6, <1>7 DEF Recursion

\* RemoveAll is the value of one at the whole set.
Removes(l, E, R) == /\ RemoveAll(l, E) = R[E]
                    /\ \A S \in SUBSET E : R[S] = Removing(l, R, S)
LEMMA RemoveAllIs ==
  ASSUME NEW l, NEW E, IsFiniteSet(E)  PROVE \E R : Removes(l, E, R)
<1> DEFINE g == CHOOSE R : R = Recursion(l, E, R)
<1>1. RemoveAll(l, E) = g[E]
  BY DEF RemoveAll, Recursion, Removing, Picked
<1>2. g = Recursion(l, E, g)
  BY RecursionExists, Zenon
<1> HIDE DEF g
<1>3. \A S \in SUBSET E : g[S] = Removing(l, g, S)
  BY <1>2 DEF Recursion
<1> QED
  BY <1>1, <1>3 DEF Removes

\* What is left keeps its order.
InOrder(t, m, s, n) ==
  \A a, b \in 1 .. m, x, y \in 1 .. n : t[a] = s[x] /\ t[b] = s[y] /\ a < b => x < y

\* The members of an order are finitely many.
LEMMA MembersFinite ==
  ASSUME NEW n \in Nat, NEW s \in Orders(n)
  PROVE  IsFiniteSet(Members(s, n)) /\ Cardinality(Members(s, n)) = n
<1>1. IsFiniteSet(1 .. n) /\ Cardinality(1 .. n) = n
  BY FS_Interval
<1>2. s \in Bijection(1 .. n, Members(s, n))
  <2>1. s \in [1 .. n -> Members(s, n)] /\ \A t \in Members(s, n) : \E i \in 1 .. n : s[i] = t
    BY DEF Orders, Members
  <2>2. \A i, j \in 1 .. n : s[i] = s[j] => i = j
    BY DEF Orders
  <2> QED
    BY <2>1, <2>2 DEF Bijection, Injection, Surjection, IsInjective
<1>3. ExistsBijection(1 .. n, Members(s, n))
  BY <1>2 DEF ExistsBijection
<1> QED
  BY <1>1, <1>3, FS_Bijection

\* Leaving out an entry keeps the order.
LEMMA DroppedInOrder ==
  ASSUME NEW n \in Nat, NEW s \in Orders(n), NEW m \in Nat, NEW t \in Orders(m),
         Members(t, m) \subseteq Members(s, n), InOrder(t, m, s, n), NEW j \in 1 .. m
  PROVE  InOrder(Dropped(t, m, j), m - 1, s, n)
<1> DEFINE u == Dropped(t, m, j)
           Old(i) == IF i < j THEN i ELSE i + 1
<1>1. \A i \in 1 .. m - 1 : u[i] = t[Old(i)] /\ Old(i) \in 1 .. m
  <2> SUFFICES ASSUME NEW i \in 1 .. m - 1 PROVE u[i] = t[Old(i)] /\ Old(i) \in 1 .. m
    OBVIOUS
  <2>1. u[i] = IF i < j THEN t[i] ELSE t[i + 1]
    BY DroppedIs
  <2> QED
    BY <2>1
<1>2. \A a, b \in 1 .. m - 1 : a < b => Old(a) < Old(b)
  OBVIOUS
<1> HIDE DEF u, Old
<1> QED
  BY <1>1, <1>2 DEF InOrder, u

\* RemoveAll takes out all the entries of E and leaves the others in their order.
LEMMA AllRemoved ==
  ASSUME NEW l, NEW n, NEW s, Chain(l, s, n), NEW E \in SUBSET Members(s, n)
  PROVE  \E m \in Nat : \E t \in Orders(m) :
           /\ Chain(RemoveAll(l, E), t, m)
           /\ Members(t, m) = Members(s, n) \ E /\ InOrder(t, m, s, n)
<1> DEFINE Left(k, S) ==
             \E m \in Nat : \E t \in Orders(m) :
               /\ Chain(k, t, m)
               /\ Members(t, m) = Members(s, n) \ S /\ InOrder(t, m, s, n)
<1>1. n \in Nat /\ s \in Orders(n)
  BY DEF Chain
<1>2. IsFiniteSet(E)
  BY <1>1, MembersFinite, FS_Subset
<1>3. PICK R : Removes(l, E, R)
  BY <1>2, RemoveAllIs
<1>4. RemoveAll(l, E) = R[E] /\ \A S \in SUBSET E : R[S] = Removing(l, R, S)
  BY <1>3 DEF Removes
<1>5. ASSUME NEW S \in SUBSET E, S # {}, Left(R[S \ {Picked(S)}], S \ {Picked(S)})
      PROVE  Left(R[S], S)
  <2> DEFINE e == Picked(S)
             k == R[S \ {e}]
  <2>1. e \in S
    BY <1>5 DEF Picked
  <2>2. R[S] = RemoveFromList(k, e)
    BY <1>4, <1>5 DEF Removing
  <2> DEFINE Rest(m, t) == /\ Chain(k, t, m)
                           /\ Members(t, m) = Members(s, n) \ (S \ {e})
                           /\ InOrder(t, m, s, n)
  <2>3. PICK m \in Nat : \E t \in Orders(m) : Rest(m, t)
    BY <1>5
  <2>4. PICK t \in Orders(m) : Rest(m, t)
    BY <2>3
  <2>5. /\ Chain(k, t, m)
        /\ Members(t, m) = Members(s, n) \ (S \ {e}) /\ InOrder(t, m, s, n)
    BY <2>4
  <2> HIDE DEF e, k
  <2>6. PICK j \in 1 .. m : e = t[j]
    BY <2>1, <2>5 DEF Members
  <2>7. Chain(RemoveFromList(k, e), Dropped(t, m, j), m - 1)
    BY <2>5, <2>6, RemoveFromListIs
  <2>8. /\ m - 1 \in Nat /\ Dropped(t, m, j) \in Orders(m - 1)
        /\ Members(Dropped(t, m, j), m - 1) = Members(t, m) \ {e}
    BY <2>6, DroppedIs
  <2>9. InOrder(Dropped(t, m, j), m - 1, s, n)
    BY <1>1, <2>5, DroppedInOrder
  <2>10. Members(t, m) \ {e} = Members(s, n) \ S
    BY <2>1, <2>5
  <2> QED
    BY <2>2, <2>7, <2>8, <2>9, <2>10
<1>6. Left(R[{}], {})
  <2>1. R[{}] = l
    BY <1>4 DEF Removing
  <2>2. InOrder(s, n, s, n)
    BY <1>1 DEF InOrder, Orders
  <2> QED
    BY <1>1, <2>1, <2>2
<1> HIDE DEF Left
<1>7. \A S \in SUBSET E : Left(R[S], S)
  <2> DEFINE Bad == {S \in SUBSET E : ~Left(R[S], S)}
  <2> SUFFICES ASSUME Bad # {} PROVE FALSE
    OBVIOUS
  <2>1. FiniteSubsetsOf(E) = SUBSET E
    BY <1>2, FS_FiniteSubsetsOfFinite
  <2>2. IsWellFoundedOn(StrictSubsetOrdering(E), SUBSET E)
    BY <2>1, FS_StrictSubsetOrderingWellFounded
  <2>3. PICK S \in Bad : \A U \in Bad : <<U, S>> \notin StrictSubsetOrdering(E)
    BY <2>2, WFMin
  <2>4. S # {} /\ S \in SUBSET E
    BY <1>6, <2>3
  <2>5. Picked(S) \in S
    BY <2>4 DEF Picked
  <2>6. <<S \ {Picked(S)}, S>> \in StrictSubsetOrdering(E)
    BY <2>4, <2>5 DEF StrictSubsetOrdering
  <2>7. Left(R[S \ {Picked(S)}], S \ {Picked(S)})
    BY <2>3, <2>4, <2>6
  <2> QED
    BY <1>5, <2>7
<1>8. Left(R[E], E)
  BY <1>7
<1> QED
  BY <1>4, <1>8 DEF Left

\* Nth finds the entries in their order, and nothing after the last.
LEMMA NthIs ==
  ASSUME NEW n, NEW s, Chain(list, s, n)
  PROVE  \A i \in Nat : Nth[i] = At(s, n, i + 1)
<1> DEFINE Step(N, i) == IF i = 0 THEN list.head
                         ELSE IF N[i - 1] = Nil THEN Nil ELSE list.next[N[i - 1]]
           f == [i \in Nat |-> At(s, n, i + 1)]
<1>1. n \in Nat /\ s \in Orders(n) /\ Linked(list, s, n)
  BY DEF Chain
<1>2. ASSUME NEW i \in Nat PROVE At(s, n, i + 1) = Step(f, i)
  <2>1. CASE i = 0
    BY <1>1, <2>1 DEF Linked
  <2>2. CASE i # 0
    <3>1. i - 1 \in Nat /\ (i - 1) + 1 = i /\ f[i - 1] = At(s, n, i)
      BY <2>2
    <3> HIDE DEF f
    <3>2. CASE i \in 1 .. n
      <4>1. At(s, n, i) = s[i] /\ s[i] # Nil /\ list.next[s[i]] = At(s, n, i + 1)
        BY <1>1, <3>2, NilIs DEF At, Orders, Linked
      <4> QED
        BY <2>2, <3>1, <4>1
    <3>3. CASE i \notin 1 .. n
      <4>1. At(s, n, i) = Nil /\ At(s, n, i + 1) = Nil
        BY <1>1, <2>2, <3>3 DEF At
      <4> QED
        BY <2>2, <3>1, <4>1
    <3> QED
      BY <3>2, <3>3
  <2> QED
    BY <2>1, <2>2
<1>3. f = [i \in Nat |-> Step(f, i)]
  BY <1>2
<1>4. Nth = [i \in Nat |-> Step(Nth, i)]
  BY <1>3, Zenon DEF Nth
<1>5. \A i \in Nat : Nth[i] = Step(Nth, i)
  BY <1>4, Zenon
<1> DEFINE Bad == {i \in Nat : Nth[i] # At(s, n, i + 1)}
<1>6. Bad = {}
  <2> SUFFICES ASSUME Bad # {} PROVE FALSE
    OBVIOUS
  <2>1. PICK i \in Bad : \A j \in Bad : i <= j
    BY Smallest
  <2>2. i \in Nat /\ Nth[i] = Step(Nth, i) /\ At(s, n, i + 1) = Step(f, i)
    BY <1>2, <1>5, <2>1
  <2>3. i # 0 => i - 1 \in Nat /\ (i - 1) + 1 = i /\ i - 1 \notin Bad
    BY <2>1
  <2>4. i # 0 => Nth[i - 1] = f[i - 1]
    BY <2>3
  <2>5. Step(Nth, i) = Step(f, i)
    BY <2>4
  <2> QED
    BY <2>1, <2>2, <2>5
<1> QED
  BY <1>6
-----------------------------------------------------------------------------
(* The inductive invariant.                                                *)

\* The map and the memory: an entry is in use just when a key refers to it, and
\* it is stored under its own key (so no two keys share one).
StoreOK ==
  /\ cache \in [Keys -> Addrs \cup {Nil}]
  /\ entry \in [Addrs -> [key : Keys \cup {None}, val : Vals \cup {None},
                          age : 0 .. TTL + 1]]
  /\ {e \in Addrs : entry[e] # Zero} = Entries
  /\ \A k \in Cached : entry[cache[k]].key = k

RestOK ==
  /\ idle \in 0 .. CleanupInterval + 1 /\ cleaners \in 0 .. MaxCleaners
  /\ answer \in Vals \cup {None}

\* The list is an order of the entries of the map, no more than MaxSize of them.
Kept(s, n) == n <= MaxSize /\ Chain(list, s, n) /\ Members(s, n) = Entries

IInv == StoreOK /\ RestOK /\ \E n \in Nat : \E s \in Orders(n) : Kept(s, n)

\* An entry of the map: its address, its key, its place in the list.
LEMMA EntryIs ==
  ASSUME StoreOK, NEW k \in Cached
  PROVE  /\ cache[k] \in Addrs /\ cache[k] \in Entries /\ entry[cache[k]].key = k
         /\ \A x \in Cached : cache[x] = cache[k] => x = k
BY DEF StoreOK, Cached, Entries

LEMMA PlaceIs ==
  ASSUME NEW n, NEW s, Kept(s, n), NEW e \in Entries
  PROVE  \E j \in 1 .. n : s[j] = e
BY DEF Kept, Members

\* Forgetting some entries, in the map and in memory.
LEMMA Forgotten ==
  ASSUME StoreOK, NEW E \in SUBSET Entries,
         cache' = [k \in Keys |-> IF cache[k] \in E THEN Nil ELSE cache[k]], Free(E)
  PROVE  StoreOK' /\ Entries' = Entries \ E
<1>1. Cached' = {k \in Cached : cache[k] \notin E}
  BY NilIs DEF Cached, StoreOK, Entries
<1>2. \A k \in Cached' : cache'[k] = cache[k] /\ k \in Cached /\ cache[k] \notin E
  BY <1>1 DEF Cached
<1>3. Entries' = Entries \ E
  <2>1. \A k \in Cached : cache[k] \notin E => k \in Cached'
    BY <1>1
  <2> QED
    BY <1>1, <1>2, <2>1 DEF Entries
<1>4. cache' \in [Keys -> Addrs \cup {Nil}]
  BY DEF StoreOK
<1>5. \A e \in Addrs : entry'[e] = IF e \in E THEN Zero ELSE entry[e]
  BY DEF Free
<1>6. Zero \in [key : Keys \cup {None}, val : Vals \cup {None}, age : 0 .. TTL + 1]
  BY QCAssumption DEF Zero
<1>7. entry' \in [Addrs -> [key : Keys \cup {None}, val : Vals \cup {None},
                            age : 0 .. TTL + 1]]
  BY <1>6 DEF Free, StoreOK
<1>8. {e \in Addrs : entry'[e] # Zero} = Entries'
  BY <1>3, <1>5 DEF StoreOK
<1>9. \A k \in Cached' : entry'[cache'[k]].key = k
  BY <1>2, <1>5, EntryIs
<1> QED
  BY <1>3, <1>7, <1>8, <1>9 DEF StoreOK
-----------------------------------------------------------------------------
(* One lemma for each operation: the store, and the order it leaves.       *)

LEMMA GetMissStep ==
  ASSUME StoreOK, RestOK, NEW k \in Keys, GetMiss(k)
  PROVE  StoreOK' /\ RestOK' /\ (\A s, n : Kept(s, n) => Kept(s, n)')
BY DEF GetMiss, StoreOK, RestOK, Kept, Cached, Entries

\* A hit moves the entry to the front.
LEMMA GetHitStep ==
  ASSUME StoreOK, RestOK, NEW n \in Nat, NEW s \in Orders(n), Kept(s, n),
         NEW k \in Keys, GetHit(k)
  PROVE  /\ StoreOK' /\ RestOK'
         /\ \E j \in 1 .. n :
              /\ s[j] = cache[k]
              /\ Kept(Pushed(Dropped(s, n, j), n - 1, s[j]), n)'
<1>1. PICK j \in 1 .. n : s[j] = cache[k]
  BY EntryIs, PlaceIs DEF GetHit
<1> DEFINE t == Pushed(Dropped(s, n, j), n - 1, s[j])
<1>2. Chain(list', t, n) /\ Members(t, n) = Members(s, n)
  BY <1>1, MoveToFrontIs DEF GetHit, Kept
<1> HIDE DEF t
<1>3. Entries' = Entries /\ Cached' = Cached
  BY DEF GetHit, Entries, Cached
<1>4. Kept(t, n)'
  BY <1>2, <1>3 DEF Kept
<1>5. StoreOK'
  BY <1>3 DEF GetHit, StoreOK
<1>6. RestOK'
  BY EntryIs DEF GetHit, StoreOK, RestOK
<1> QED
  BY <1>1, <1>4, <1>5, <1>6 DEF t

\* An expired entry found is left out.
LEMMA GetExpiredStep ==
  ASSUME StoreOK, RestOK, NEW n \in Nat, NEW s \in Orders(n), Kept(s, n),
         NEW k \in Keys, GetExpired(k)
  PROVE  /\ StoreOK' /\ RestOK'
         /\ \E j \in 1 .. n : s[j] = cache[k] /\ Kept(Dropped(s, n, j), n - 1)'
<1>1. PICK j \in 1 .. n : s[j] = cache[k]
  BY EntryIs, PlaceIs DEF GetExpired
<1> DEFINE t == Dropped(s, n, j)
<1>2. Chain(list', t, n - 1)
  BY <1>1, RemoveFromListIs DEF GetExpired, Kept
<1>3. Members(t, n - 1) = Members(s, n) \ {cache[k]} /\ n - 1 \in Nat
  BY <1>1, DroppedIs
<1> HIDE DEF t
<1>4. cache' = [x \in Keys |-> IF cache[x] \in {cache[k]} THEN Nil ELSE cache[x]]
  <2>1. k \in Cached
    BY DEF GetExpired
  <2>2. \A x \in Keys : cache[x] = cache[k] => x = k
    BY <2>1, EntryIs, NilIs DEF Cached
  <2> QED
    BY <2>2 DEF GetExpired, StoreOK
<1>5. StoreOK' /\ Entries' = Entries \ {cache[k]}
  <2>1. {cache[k]} \in SUBSET Entries
    BY EntryIs DEF GetExpired
  <2> QED
    BY <1>4, <2>1, Forgotten DEF GetExpired
<1>6. Kept(t, n - 1)'
  <2>1. n - 1 <= MaxSize
    BY QCAssumption DEF Kept
  <2> QED
    BY <1>2, <1>3, <1>5, <2>1 DEF Kept
<1>7. RestOK'
  BY DEF GetExpired, RestOK
<1> QED
  BY <1>1, <1>5, <1>6, <1>7 DEF t

\* The entry of a key given a new value.
LEMMA NewValueIs ==
  ASSUME StoreOK, NEW k \in Keys, NEW v \in Vals, SetExisting(k, v)
  PROVE  /\ \A e \in Addrs : entry'[e] = IF e = cache[k] THEN [key |-> k, val |-> v, age |-> 0]
                                         ELSE entry[e]
         /\ DOMAIN entry' = Addrs
<1>1. PICK a \in Addrs : a = cache[k] /\ entry[a].key = k
  BY EntryIs DEF SetExisting
<1>2. DOMAIN entry = Addrs
  BY DEF StoreOK
<1>3. entry[a] = [key |-> k, val |-> entry[a].val, age |-> entry[a].age]
  BY <1>1 DEF StoreOK
<1>4. PICK r : r = [entry[a] EXCEPT !.val = v]
  OBVIOUS
<1>5. r = [key |-> k, val |-> v, age |-> entry[a].age]
  BY <1>3, <1>4
<1>6. [r EXCEPT !.age = 0] = [key |-> k, val |-> v, age |-> 0]
  BY <1>5
<1>7. entry' = [entry EXCEPT ![a] = [r EXCEPT !.age = 0]]
  BY <1>1, <1>2, <1>4 DEF SetExisting
<1> QED
  BY <1>1, <1>2, <1>6, <1>7

\* A new value for a key the cache has moves its entry to the front.
LEMMA SetExistingStep ==
  ASSUME StoreOK, RestOK, NEW n \in Nat, NEW s \in Orders(n), Kept(s, n),
         NEW k \in Keys, NEW v \in Vals, SetExisting(k, v)
  PROVE  /\ StoreOK' /\ RestOK'
         /\ \E j \in 1 .. n :
              /\ s[j] = cache[k]
              /\ Kept(Pushed(Dropped(s, n, j), n - 1, s[j]), n)'
<1>1. PICK j \in 1 .. n : s[j] = cache[k]
  BY EntryIs, PlaceIs DEF SetExisting
<1> DEFINE t == Pushed(Dropped(s, n, j), n - 1, s[j])
<1>2. Chain(list', t, n) /\ Members(t, n) = Members(s, n)
  BY <1>1, MoveToFrontIs DEF SetExisting, Kept
<1> HIDE DEF t
<1>3. Entries' = Entries /\ Cached' = Cached
  BY DEF SetExisting, Entries, Cached
<1>4. Kept(t, n)'
  BY <1>2, <1>3 DEF Kept
<1>5. /\ \A e \in Addrs : entry'[e] = IF e = cache[k] THEN [key |-> k, val |-> v, age |-> 0]
                                      ELSE entry[e]
      /\ DOMAIN entry' = Addrs
  BY NewValueIs
<1>6. StoreOK'
  <2>1. [key |-> k, val |-> v, age |-> 0] # Zero
    BY QCAssumption DEF Zero
  <2>2. entry' \in [Addrs -> [key : Keys \cup {None}, val : Vals \cup {None},
                              age : 0 .. TTL + 1]]
    <3>1. [key |-> k, val |-> v, age |-> 0]
            \in [key : Keys \cup {None}, val : Vals \cup {None}, age : 0 .. TTL + 1]
      BY QCAssumption
    <3>2. entry' = [e \in Addrs |-> entry'[e]]
      BY DEF SetExisting, StoreOK
    <3> QED
      BY <1>5, <3>1, <3>2 DEF StoreOK
  <2>3. cache[k] \in Entries
    BY EntryIs DEF SetExisting
  <2>4. {e \in Addrs : entry'[e] # Zero} = Entries'
    BY <1>3, <1>5, <2>1, <2>3 DEF StoreOK
  <2>5. \A x \in Cached' : entry'[cache'[x]].key = x
    <3>1. \A x \in Cached : cache[x] \in Addrs /\ entry[cache[x]].key = x
                            /\ (cache[x] = cache[k] => x = k)
      BY EntryIs DEF SetExisting
    <3> QED
      BY <1>3, <1>5, <3>1 DEF SetExisting
  <2>6. cache' \in [Keys -> Addrs \cup {Nil}]
    BY DEF SetExisting, StoreOK
  <2> QED
    BY <2>2, <2>4, <2>5, <2>6 DEF StoreOK
<1>7. RestOK'
  BY DEF SetExisting, RestOK
<1> QED
  BY <1>1, <1>4, <1>6, <1>7 DEF t

\* A new key is put in front; the last entry leaves when there were MaxSize.
Evicted(s, n) == IF n = MaxSize THEN {s[n]} ELSE {}
StoresNew(k, v, e, s, n) ==
  /\ \A x \in Keys : cache'[x] = IF x = k THEN e
                                 ELSE IF cache[x] \in Evicted(s, n) THEN Nil ELSE cache[x]
  /\ \A a \in Addrs : entry'[a] = IF a \in Evicted(s, n) THEN Zero
                                  ELSE IF a = e THEN [key |-> k, val |-> v, age |-> 0]
                                  ELSE entry[a]
LinksNew(e, s, n) ==
  IF n = MaxSize THEN Kept(Dropped(Pushed(s, n, e), n + 1, n + 1), n)'
  ELSE Kept(Pushed(s, n, e), n + 1)'

LEMMA SetNewStep ==
  ASSUME StoreOK, RestOK, NEW n \in Nat, NEW s \in Orders(n), Kept(s, n),
         NEW k \in Keys, NEW v \in Vals, SetNew(k, v)
  PROVE  /\ StoreOK' /\ RestOK'
         /\ k \notin Cached
         /\ \E e \in Addrs \ Entries :
              LinksNew(e, s, n) /\ StoresNew(k, v, e, s, n)
<1> DEFINE l(e)    == AddToFront(list, e)
           e1(e)   == [entry EXCEPT ![e] = [key |-> k, val |-> v, age |-> 0]]
           Done(e) ==
             /\ k \notin Cached
             /\ IF l(e).size > MaxSize
                THEN /\ list' = RemoveFromList(l(e), l(e).tail)
                     /\ cache' = [cache EXCEPT ![k] = e, ![e1(e)[l(e).tail].key] = Nil]
                     /\ entry' = [e1(e) EXCEPT ![l(e).tail] = Zero]
                ELSE list' = l(e) /\ cache' = [cache EXCEPT ![k] = e] /\ entry' = e1(e)
             /\ IF idle > CleanupInterval
                THEN cleaners < MaxCleaners /\ cleaners' = cleaners + 1
                ELSE UNCHANGED cleaners
             /\ UNCHANGED <<idle, answer>>
<1>1. PICK e \in Addrs \ Entries : Done(e)
  BY DEF SetNew
<1> DEFINE q == Pushed(s, n, e)
           c == [cache EXCEPT ![k] = e]
           m == e1(e)
<1>2. /\ q \in Orders(n + 1) /\ q[1] = e /\ \A i \in 1 .. n : q[i + 1] = s[i]
      /\ Members(q, n + 1) = Entries \cup {e}
  BY PushedIs DEF Kept
<1>3. Chain(l(e), q, n + 1)
  BY AddToFrontIs DEF Kept
<1>4. l(e).size = n + 1 /\ l(e).tail = q[n + 1] /\ q[n + 1] \in Addrs
  BY <1>3 DEF Chain, Linked, At, Orders
<1> DEFINE Stored(ca, en, in) ==
             /\ ca \in [Keys -> Addrs \cup {Nil}]
             /\ en \in [Addrs -> [key : Keys \cup {None}, val : Vals \cup {None},
                                  age : 0 .. TTL + 1]]
             /\ {a \in Addrs : en[a] # Zero} = in
             /\ \A x \in Keys : ca[x] # Nil => en[ca[x]].key = x
             /\ \A a \in in : \E x \in Keys : ca[x] = a
             /\ \A x \in Keys : ca[x] # Nil => ca[x] \in in
<1>5. /\ \A x \in Keys : c[x] = IF x = k THEN e ELSE cache[x]
      /\ \A a \in Addrs : m[a] = IF a = e THEN [key |-> k, val |-> v, age |-> 0]
                                 ELSE entry[a]
  <2>1. \A x \in Keys : c[x] = IF x = k THEN e ELSE cache[x]
    BY DEF StoreOK
  <2>2. \A a \in Addrs : m[a] = IF a = e THEN [key |-> k, val |-> v, age |-> 0]
                                ELSE entry[a]
    BY DEF StoreOK
  <2> QED
    BY <2>1, <2>2
<1>6. Stored(c, m, Entries \cup {e})
  <2>1. [key |-> k, val |-> v, age |-> 0]
          \in [key : Keys \cup {None}, val : Vals \cup {None}, age : 0 .. TTL + 1]
        /\ [key |-> k, val |-> v, age |-> 0] # Zero
    BY QCAssumption DEF Zero
  <2>2. c \in [Keys -> Addrs \cup {Nil}]
    BY DEF StoreOK
  <2>3. m \in [Addrs -> [key : Keys \cup {None}, val : Vals \cup {None},
                         age : 0 .. TTL + 1]]
    BY <2>1 DEF StoreOK
  <2>4. \A a \in Addrs : m[a] = IF a = e THEN [key |-> k, val |-> v, age |-> 0] ELSE entry[a]
    BY DEF StoreOK
  <2>5. \A x \in Keys : c[x] = IF x = k THEN e ELSE cache[x]
    BY DEF StoreOK
  <2> HIDE DEF c, m
  <2>6. {a \in Addrs : m[a] # Zero} = Entries \cup {e}
    BY <2>1, <2>4 DEF StoreOK
  <2>7. \A x \in Keys : c[x] # Nil => m[c[x]].key = x
    <3> SUFFICES ASSUME NEW x \in Keys, c[x] # Nil PROVE m[c[x]].key = x
      OBVIOUS
    <3>1. CASE x = k
      BY <2>4, <2>5, <3>1
    <3>2. CASE x # k
      <4>1. x \in Cached /\ c[x] = cache[x]
        BY <2>5, <3>2 DEF Cached
      <4>2. cache[x] \in Entries /\ cache[x] \in Addrs /\ entry[cache[x]].key = x
        BY <4>1, EntryIs
      <4> QED
        BY <2>4, <4>1, <4>2
    <3> QED
      BY <3>1, <3>2
  <2>8. \A a \in Entries \cup {e} : \E x \in Keys : c[x] = a
    <3>1. \A a \in Entries : \E x \in Cached : cache[x] = a
      BY DEF Entries
    <3>2. k \notin Cached
      BY <1>1
    <3>3. \A x \in Cached : x \in Keys /\ c[x] = cache[x]
      BY <2>5, <3>2 DEF Cached
    <3> QED
      BY <2>5, <3>1, <3>3
  <2>9. \A x \in Keys : c[x] # Nil => c[x] \in Entries \cup {e}
    BY <2>5 DEF Entries, Cached
  <2> QED
    BY <2>2, <2>3, <2>6, <2>7, <2>8, <2>9
<1>7. ASSUME NEW in, Stored(cache', entry', in) PROVE StoreOK' /\ Entries' = in
  <2>1. \A x \in Cached' : x \in Keys /\ cache'[x] # Nil
    BY DEF Cached
  <2>2. \A x \in Keys : cache'[x] # Nil => x \in Cached'
    BY DEF Cached
  <2>3. in \subseteq Addrs
    BY <1>7
  <2>4. Entries' = in
    BY <1>7, <2>1, <2>2, NilIs DEF Entries
  <2> QED
    BY <1>7, <2>1, <2>4 DEF StoreOK
<1>8. RestOK'
  BY <1>1, QCAssumption DEF RestOK
<1>9. CASE n # MaxSize
  <2>1. ~(l(e).size > MaxSize) /\ n + 1 <= MaxSize
    BY <1>4, <1>9, QCAssumption DEF Kept
  <2>2. list' = l(e) /\ cache' = c /\ entry' = m
    BY <1>1, <2>1
  <2> HIDE DEF q, c, m, l, Stored
  <2>3. StoreOK' /\ Entries' = Entries \cup {e}
    BY <1>6, <1>7, <2>2
  <2>4. Kept(q, n + 1)'
    BY <1>2, <1>3, <2>1, <2>2, <2>3 DEF Kept
  <2>5. StoresNew(k, v, e, s, n)
    BY <1>9, <1>5, <2>2 DEF Evicted, StoresNew
  <2> QED
    BY <1>1, <1>8, <1>9, <2>3, <2>4, <2>5 DEF q, LinksNew
<1>10. CASE n = MaxSize
  <2>1. l(e).size > MaxSize /\ n >= 1
    BY <1>4, <1>10, QCAssumption
  <2> DEFINE last == q[n + 1]
             old  == m[last].key
             t    == Dropped(q, n + 1, n + 1)
  <2>2. /\ list' = RemoveFromList(l(e), last)
        /\ cache' = [c EXCEPT ![old] = Nil] /\ entry' = [m EXCEPT ![last] = Zero]
    <3>1. /\ list' = RemoveFromList(l(e), l(e).tail)
          /\ cache' = [cache EXCEPT ![k] = e, ![e1(e)[l(e).tail].key] = Nil]
          /\ entry' = [e1(e) EXCEPT ![l(e).tail] = Zero]
      BY <1>1, <2>1
    <3> QED
      BY <1>4, <3>1
  <2> HIDE DEF l, c, m
  <2>3. /\ Members(t, n) = (Entries \cup {e}) \ {last}
        /\ t \in Orders(n)
    <3>1. n + 1 \in Nat /\ n + 1 \in 1 .. n + 1 /\ (n + 1) - 1 = n
      OBVIOUS
    <3> QED
      BY <1>2, <3>1, DroppedIs
  <2>4. Chain(list', t, n)
    <3>1. n + 1 \in Nat /\ n + 1 \in 1 .. n + 1 /\ (n + 1) - 1 = n
      OBVIOUS
    <3> HIDE DEF q
    <3> QED
      BY <1>3, <2>2, RemoveFromListIs
  <2>5. last = s[n] /\ s[n] \in Members(s, n) /\ Evicted(s, n) = {last}
    BY <1>2, <1>10, <2>1 DEF Members, Evicted
  <2>6. last \in Entries \cup {e} /\ last # e
    BY <2>5 DEF Kept
  <2> HIDE DEF q, t, last
  <2>7. old \in Keys /\ c[old] = last /\ \A x \in Keys : c[x] = last => x = old
    <3>1. PICK x \in Keys : c[x] = last
      BY <1>6, <2>6
    <3>2. last # Nil
      BY <1>4, NilIs DEF last
    <3> QED
      BY <1>6, <3>1, <3>2
  <2>8. Stored(cache', entry', (Entries \cup {e}) \ {last})
    <3>1. \A x \in Keys : cache'[x] = IF c[x] = last THEN Nil ELSE c[x]
      BY <1>6, <2>2, <2>7
    <3>2. \A a \in Addrs : entry'[a] = IF a = last THEN Zero ELSE m[a]
      BY <1>6, <2>2
    <3>3. Zero \in [key : Keys \cup {None}, val : Vals \cup {None}, age : 0 .. TTL + 1]
      BY QCAssumption DEF Zero
    <3>4. cache' \in [Keys -> Addrs \cup {Nil}]
      BY <1>6, <2>2
    <3>5. entry' \in [Addrs -> [key : Keys \cup {None}, val : Vals \cup {None},
                                age : 0 .. TTL + 1]]
      BY <1>6, <2>2, <3>3
    <3> HIDE DEF old, Zero
    <3>6. {a \in Addrs : entry'[a] # Zero} = (Entries \cup {e}) \ {last}
      BY <1>6, <3>2
    <3>7. \A x \in Keys : cache'[x] # Nil => cache'[x] = c[x] /\ c[x] # last /\ c[x] \in Addrs
      BY <1>6, <3>1
    <3>8. \A x \in Keys : cache'[x] # Nil => entry'[cache'[x]].key = x
      BY <1>6, <3>2, <3>7
    <3>9. \A a \in (Entries \cup {e}) \ {last} : \E x \in Keys : cache'[x] = a
      BY <1>6, <3>1
    <3>10. \A x \in Keys : cache'[x] # Nil => cache'[x] \in (Entries \cup {e}) \ {last}
      BY <1>6, <3>7
    <3> QED
      BY <3>4, <3>5, <3>6, <3>8, <3>9, <3>10
  <2>9. StoresNew(k, v, e, s, n)
    <3>1. \A x \in Keys : cache'[x] = IF c[x] = last THEN Nil ELSE c[x]
      BY <1>6, <2>2, <2>7
    <3>2. \A a \in Addrs : entry'[a] = IF a = last THEN Zero ELSE m[a]
      BY <1>6, <2>2
    <3> QED
      BY <1>5, <2>6, <2>5, <3>1, <3>2 DEF StoresNew
  <2> HIDE DEF Stored
  <2>10. StoreOK' /\ Entries' = (Entries \cup {e}) \ {last}
    BY <1>7, <2>8
  <2>11. Kept(t, n)'
    BY <2>3, <2>4, <2>10 DEF Kept
  <2> QED
    BY <1>1, <1>8, <1>10, <2>10, <2>11, <2>9 DEF t, q, LinksNew
<1> QED
  BY <1>9, <1>10

\* A cleanup leaves out the expired entries and keeps the order of the others.
LEMMA CleanupStep ==
  ASSUME StoreOK, RestOK, NEW n \in Nat, NEW s \in Orders(n), Kept(s, n), CleanupExpired
  PROVE  /\ StoreOK' /\ RestOK'
         /\ \E m \in Nat : \E t \in Orders(m) : Kept(t, m)' /\ InOrder(t, m, s, n)
<1> DEFINE E == {e \in Entries : Expired(e)}
<1>1. StoreOK' /\ Entries' = Entries \ E
  BY Forgotten DEF CleanupExpired
<1>2. RestOK'
  BY QCAssumption DEF CleanupExpired, RestOK
<1>3. E \in SUBSET Members(s, n)
  BY DEF Kept
<1>4. list' = RemoveAll(list, E)
  BY DEF CleanupExpired
<1> HIDE DEF E
<1> DEFINE Rest(m, t) == /\ Chain(list', t, m)
                         /\ Members(t, m) = Members(s, n) \ E /\ InOrder(t, m, s, n)
<1>5. PICK m \in Nat : \E t \in Orders(m) : Rest(m, t)
  BY <1>3, <1>4, AllRemoved DEF Kept
<1>6. PICK t \in Orders(m) : Rest(m, t)
  BY <1>5
<1>7. m <= MaxSize
  <2>1. /\ IsFiniteSet(Members(s, n)) /\ Cardinality(Members(s, n)) = n
        /\ Cardinality(Members(t, m)) = m
    BY MembersFinite
  <2>2. Cardinality(Members(t, m)) <= Cardinality(Members(s, n))
    BY <1>6, <2>1, FS_Subset
  <2> QED
    BY <2>1, <2>2, QCAssumption DEF Kept
<1>8. Kept(t, m)'
  BY <1>1, <1>6, <1>7 DEF Kept
<1> QED
  BY <1>1, <1>2, <1>6, <1>8

\* Nothing is cached.
EmptyOrder == [i \in 1 .. 0 |-> Nil]

LEMMA EmptyIs ==
  /\ 0 \in Nat /\ EmptyOrder \in Orders(0) /\ Chain(EmptyList, EmptyOrder, 0)
  /\ Members(EmptyOrder, 0) = {}
<1>1. 1 .. 0 = {}
  OBVIOUS
<1>2. EmptyOrder \in Orders(0) /\ Members(EmptyOrder, 0) = {}
  BY <1>1 DEF EmptyOrder, Orders, Members
<1>3. EmptyList \in Lists
  BY DEF EmptyList, Lists
<1>4. Linked(EmptyList, EmptyOrder, 0)
  BY <1>1 DEF Linked, EmptyList, At
<1> QED
  BY <1>2, <1>3, <1>4 DEF Chain

LEMMA EmptyStore ==
  ASSUME cache = [k \in Keys |-> Nil], entry = [e \in Addrs |-> Zero]
  PROVE  StoreOK /\ Entries = {}
<1>1. Zero \in [key : Keys \cup {None}, val : Vals \cup {None}, age : 0 .. TTL + 1]
  BY QCAssumption DEF Zero
<1>2. Cached = {}
  BY DEF Cached
<1> QED
  BY <1>1, <1>2 DEF StoreOK, Entries

LEMMA ClearStep ==
  ASSUME RestOK, Clear
  PROVE  StoreOK' /\ RestOK' /\ Kept(EmptyOrder, 0)'
<1>1. entry' = [e \in Addrs |-> Zero]
  BY DEF Clear, Free
<1>2. StoreOK' /\ Entries' = {}
  <2>1. (cache = [k \in Keys |-> Nil] /\ entry = [e \in Addrs |-> Zero]
           => StoreOK /\ Entries = {})'
    BY EmptyStore, PTL
  <2> QED
    BY <1>1, <2>1 DEF Clear
<1> QED
  BY <1>2, EmptyIs, QCAssumption DEF Clear, RestOK, Kept

LEMMA TickStep ==
  ASSUME StoreOK, RestOK, Tick
  PROVE  StoreOK' /\ RestOK' /\ (\A s, n : Kept(s, n) => Kept(s, n)')
<1>1. Entries' = Entries /\ Cached' = Cached
  BY DEF Tick, Entries, Cached
<1>2. RestOK'
  BY QCAssumption DEF Tick, RestOK
<1>3. ASSUME NEW e \in Addrs
      PROVE  /\ entry'[e] \in [key : Keys \cup {None}, val : Vals \cup {None},
                               age : 0 .. TTL + 1]
             /\ entry'[e].key = entry[e].key
             /\ entry'[e] # Zero <=> entry[e] # Zero
  <2>1. entry[e] \in [key : Keys \cup {None}, val : Vals \cup {None}, age : 0 .. TTL + 1]
    BY DEF StoreOK
  <2>2. entry'[e] = IF e \in Entries /\ ~Expired(e)
                    THEN [entry[e] EXCEPT !.age = @ + 1] ELSE entry[e]
    BY DEF Tick
  <2>3. CASE ~(e \in Entries /\ ~Expired(e))
    BY <2>1, <2>2, <2>3
  <2>4. CASE e \in Entries /\ ~Expired(e)
    <3>1. PICK r : r = entry[e]
      OBVIOUS
    <3>2. r.age \in 0 .. TTL /\ r.age + 1 \in 0 .. TTL + 1
      BY <2>1, <2>4, <3>1, QCAssumption DEF Expired
    <3>3. r = [key |-> r.key, val |-> r.val, age |-> r.age]
      BY <2>1, <3>1
    <3>4. entry'[e] = [r EXCEPT !.age = r.age + 1]
      BY <2>2, <2>4, <3>1
    <3>5. entry'[e] = [key |-> r.key, val |-> r.val, age |-> r.age + 1]
      BY <3>3, <3>4
    <3>6. entry'[e] # Zero
      BY <3>2, <3>5 DEF Zero
    <3>7. entry[e] # Zero
      BY <2>4 DEF StoreOK
    <3> QED
      BY <2>1, <3>1, <3>2, <3>5, <3>6, <3>7
  <2> QED
    BY <2>3, <2>4
<1>4. StoreOK'
  <2>1. entry' \in [Addrs -> [key : Keys \cup {None}, val : Vals \cup {None},
                              age : 0 .. TTL + 1]]
    BY <1>3 DEF Tick
  <2>2. {e \in Addrs : entry'[e] # Zero} = Entries'
    BY <1>1, <1>3 DEF StoreOK
  <2>3. \A k \in Cached' : entry'[cache'[k]].key = k
    <3>1. \A k \in Cached : cache[k] \in Addrs /\ entry[cache[k]].key = k
      BY EntryIs
    <3> QED
      BY <1>1, <1>3, <3>1 DEF Tick
  <2>4. cache' \in [Keys -> Addrs \cup {Nil}]
    BY DEF Tick, StoreOK
  <2> QED
    BY <2>1, <2>2, <2>3, <2>4 DEF StoreOK
<1> QED
  BY <1>1, <1>2, <1>4 DEF Kept, Tick
-----------------------------------------------------------------------------
(* The theorems.                                                           *)

LEMMA InitInv == Init => IInv
<1> SUFFICES ASSUME Init PROVE IInv
  OBVIOUS
<1>1. StoreOK /\ Entries = {}
  BY EmptyStore DEF Init
<1>2. RestOK
  BY QCAssumption DEF Init, RestOK
<1>3. Kept(EmptyOrder, 0)
  BY <1>1, EmptyIs, QCAssumption DEF Init, Kept
<1> QED
  BY <1>1, <1>2, <1>3, EmptyIs DEF IInv

LEMMA NextInv == IInv /\ [Next]_vars => IInv'
<1> SUFFICES ASSUME IInv, [Next]_vars PROVE IInv'
  OBVIOUS
<1>1. StoreOK /\ RestOK
  BY DEF IInv
<1>2. PICK n \in Nat : \E s \in Orders(n) : Kept(s, n)
  BY DEF IInv
<1>3. PICK s \in Orders(n) : Kept(s, n)
  BY <1>2
<1>4. ASSUME NEW m \in Nat, NEW t \in Orders(m), StoreOK', RestOK', Kept(t, m)'
      PROVE  IInv'
  BY <1>4 DEF IInv
<1>5. ASSUME NEW j \in 1 .. n
      PROVE  /\ n - 1 \in Nat /\ Dropped(s, n, j) \in Orders(n - 1)
             /\ Pushed(Dropped(s, n, j), n - 1, s[j]) \in Orders(n)
  <2>1. /\ n - 1 \in Nat /\ Dropped(s, n, j) \in Orders(n - 1)
        /\ Members(Dropped(s, n, j), n - 1) = Members(s, n) \ {s[j]}
    BY DroppedIs
  <2>2. s[j] \in Addrs /\ (n - 1) + 1 = n
    BY DEF Orders
  <2>3. Pushed(Dropped(s, n, j), n - 1, s[j]) \in Orders((n - 1) + 1)
    BY <2>1, <2>2, PushedIs
  <2> QED
    BY <2>1, <2>2, <2>3
<1>6. ASSUME NEW k \in Keys, GetMiss(k) PROVE IInv'
  BY <1>1, <1>3, <1>4, <1>6, GetMissStep
<1>7. ASSUME NEW k \in Keys, GetHit(k) PROVE IInv'
  BY <1>1, <1>3, <1>4, <1>5, <1>7, GetHitStep
<1>8. ASSUME NEW k \in Keys, GetExpired(k) PROVE IInv'
  BY <1>1, <1>3, <1>4, <1>5, <1>8, GetExpiredStep
<1>9. ASSUME NEW k \in Keys, NEW v \in Vals, SetExisting(k, v) PROVE IInv'
  BY <1>1, <1>3, <1>4, <1>5, <1>9, SetExistingStep
<1>10. ASSUME NEW k \in Keys, NEW v \in Vals, SetNew(k, v) PROVE IInv'
  <2>1. PICK e \in Addrs \ Entries : LinksNew(e, s, n)
    BY <1>1, <1>3, <1>10, SetNewStep
  <2>2. Pushed(s, n, e) \in Orders(n + 1)
    BY <1>3, PushedIs DEF Kept
  <2>3. Dropped(Pushed(s, n, e), n + 1, n + 1) \in Orders(n)
    <3>1. n + 1 \in Nat /\ n + 1 \in 1 .. n + 1 /\ (n + 1) - 1 = n
      OBVIOUS
    <3> QED
      BY <2>2, <3>1, DroppedIs
  <2>4. StoreOK' /\ RestOK'
    BY <1>1, <1>3, <1>10, SetNewStep
  <2>5. n + 1 \in Nat
    OBVIOUS
  <2> QED
    BY <1>4, <2>1, <2>2, <2>3, <2>4 DEF LinksNew
<1>11. CASE CleanupExpired
  BY <1>1, <1>3, <1>4, <1>11, CleanupStep
<1>12. CASE Clear
  BY <1>1, <1>4, <1>12, ClearStep, EmptyIs
<1>13. CASE Tick
  BY <1>1, <1>3, <1>4, <1>13, TickStep
<1>14. CASE UNCHANGED vars
  BY <1>14 DEF IInv, StoreOK, RestOK, Kept, Entries, Cached, vars
<1> QED
  BY <1>6, <1>7, <1>8, <1>9, <1>10, <1>11, <1>12, <1>13, <1>14 DEF Next

\* However the cache is used, an entry is in memory just when its key refers to
\* it, and the list is an order of them, linked both ways, of at most MaxSize.
THEOREM Invariance == Spec => []IInv
BY InitInv, NextInv, PTL DEF Spec

LEMMA IInvTypes == IInv => TypeOK
BY DEF IInv, StoreOK, RestOK, Kept, Chain, Lists, TypeOK

\* The types of the cache's map, memory and list; and nothing but what the map
\* refers to is in memory: no operation leaks an entry or frees one in use.
THEOREM TypeCorrect == Spec => []TypeOK
BY Invariance, IInvTypes, PTL

\* The entries that walking next finds, when the list is the order s.
LEMMA WalkIs ==
  ASSUME NEW n \in Nat, NEW s \in Orders(n), Kept(s, n)
  PROVE  /\ list.size = n
         /\ \A i \in 0 .. n - 1 : Nth[i] = s[i + 1]
         /\ Nth[n] = Nil
         /\ {Nth[i] : i \in 0 .. n - 1} = Entries
         /\ list.tail = IF n = 0 THEN Nil ELSE Nth[n - 1]
         /\ \A i \in 1 .. n : /\ list.next[s[i]] = At(s, n, i + 1)
                              /\ list.prev[s[i]] = At(s, n, i - 1)
<1>1. /\ list.size = n /\ list.tail = At(s, n, n)
      /\ \A i \in 1 .. n : list.next[s[i]] = At(s, n, i + 1) /\ list.prev[s[i]] = At(s, n, i - 1)
  BY DEF Kept, Chain, Linked
<1>2. \A i \in Nat : Nth[i] = At(s, n, i + 1)
  BY NthIs DEF Kept
<1>3. \A i \in 0 .. n - 1 : i \in Nat /\ i + 1 \in 1 .. n /\ Nth[i] = s[i + 1]
  BY <1>2 DEF At
<1>4. Nth[n] = Nil
  BY <1>2 DEF At
<1>5. \A i \in 1 .. n : i - 1 \in 0 .. n - 1 /\ (i - 1) + 1 = i
  OBVIOUS
<1>6. {Nth[i] : i \in 0 .. n - 1} = Members(s, n)
  <2>1. \A i \in 1 .. n : Nth[i - 1] = s[i]
    BY <1>3, <1>5
  <2> QED
    BY <1>3, <1>5, <2>1 DEF Members
<1>7. list.tail = IF n = 0 THEN Nil ELSE Nth[n - 1]
  BY <1>1, <1>3, <1>5 DEF At
<1> QED
  BY <1>1, <1>3, <1>4, <1>6, <1>7 DEF Kept

LEMMA IInvAgrees == IInv => ListMatchesMap
<1> SUFFICES ASSUME IInv PROVE ListMatchesMap
  OBVIOUS
<1>1. PICK n \in Nat : \E s \in Orders(n) : Kept(s, n)
  BY DEF IInv
<1>2. PICK s \in Orders(n) : Kept(s, n)
  BY <1>1
<1>3. n = Cardinality(Cached)
  <2>1. Cardinality(Entries) = n /\ IsFiniteSet(Entries)
    BY <1>2, MembersFinite DEF Kept
  <2> DEFINE f == [k \in Cached |-> cache[k]]
  <2>2. f \in Bijection(Cached, Entries)
    <3>1. f \in [Cached -> Entries] /\ \A e \in Entries : \E k \in Cached : f[k] = e
      BY DEF Entries
    <3>2. \A k, x \in Cached : f[k] = f[x] => k = x
      BY EntryIs DEF IInv
    <3> QED
      BY <3>1, <3>2 DEF Bijection, Injection, Surjection, IsInjective
  <2>3. ExistsBijection(Entries, Cached)
    <3>1. ExistsBijection(Cached, Entries)
      BY <2>2 DEF ExistsBijection
    <3> QED
      BY <3>1, Fun_ExistsBijSymmetric
  <2> QED
    BY <2>1, <2>3, FS_Bijection
<1>4. \A e, f \in Entries : list.next[e] = f <=> list.prev[f] = e
  <2>1. \A i, j \in 1 .. n : list.next[s[i]] = s[j] <=> j = i + 1
    <3> SUFFICES ASSUME NEW i \in 1 .. n, NEW j \in 1 .. n
                 PROVE  list.next[s[i]] = s[j] <=> j = i + 1
      OBVIOUS
    <3>1. list.next[s[i]] = At(s, n, i + 1)
      BY <1>2, WalkIs
    <3>2. s[j] # Nil
      BY NilIs DEF Orders
    <3> QED
      BY <3>1, <3>2 DEF At, Orders
  <2>2. \A i, j \in 1 .. n : list.prev[s[j]] = s[i] <=> i = j - 1
    <3> SUFFICES ASSUME NEW i \in 1 .. n, NEW j \in 1 .. n
                 PROVE  list.prev[s[j]] = s[i] <=> i = j - 1
      OBVIOUS
    <3>1. list.prev[s[j]] = At(s, n, j - 1)
      BY <1>2, WalkIs
    <3>2. s[i] # Nil
      BY NilIs DEF Orders
    <3> QED
      BY <3>1, <3>2 DEF At, Orders
  <2>3. \A e \in Entries : \E i \in 1 .. n : s[i] = e
    BY <1>2, PlaceIs
  <2>4. \A i, j \in 1 .. n : j = i + 1 <=> i = j - 1
    OBVIOUS
  <2> QED
    BY <2>1, <2>2, <2>3
<1>5. \A k \in Cached : entry[cache[k]].key = k
  BY DEF IInv, StoreOK
<1>6. /\ list.size = n /\ {Nth[i] : i \in 0 .. n - 1} = Entries /\ Nth[n] = Nil
      /\ list.tail = IF n = 0 THEN Nil ELSE Nth[n - 1]
  BY <1>2, WalkIs
<1> QED
  BY <1>3, <1>4, <1>5, <1>6 DEF ListMatchesMap

\* The list and the map hold the same entries: next and prev walk every cached entry
\* once, from the head to the tail and back, and size counts them.
THEOREM ListAgrees == Spec => []ListMatchesMap
BY Invariance, IInvAgrees, PTL
-----------------------------------------------------------------------------
(* The cache implements LRUCache.                                          *)

\* A function on 1 .. n is a sequence.
LEMMA SequenceIs ==
  ASSUME NEW S, NEW n \in Nat, NEW o \in [1 .. n -> S]
  PROVE  o \in Seq(S) /\ Len(o) = n /\ DOMAIN o = 1 .. n
OBVIOUS

LEMMA ConsIs ==
  ASSUME NEW S, NEW m \in Nat, NEW q \in [1 .. m -> S], NEW k \in S
  PROVE  <<k>> \o q = Pushed(q, m, k)
<1>1. q \in Seq(S) /\ Len(q) = m /\ <<k>> \in Seq(S) /\ Len(<<k>>) = 1
  BY SequenceIs
<1> DEFINE t == <<k>> \o q
<1>2. t \in Seq(S) /\ Len(t) = 1 + m
      /\ \A i \in 1 .. 1 + m : t[i] = IF i <= 1 THEN <<k>>[i] ELSE q[i - 1]
  BY <1>1, ConcatProperties
<1>3. DOMAIN t = 1 .. m + 1 /\ t = [i \in DOMAIN t |-> t[i]]
  BY <1>1, <1>2
<1> HIDE DEF t
<1>4. \A i \in 1 .. m + 1 : t[i] = IF i = 1 THEN k ELSE q[i - 1]
  BY <1>2
<1> QED
  BY <1>3, <1>4 DEF Pushed, t

\* Without leaves out the place of the key.
LEMMA WithoutIs ==
  ASSUME NEW n \in Nat, NEW o \in [1 .. n -> Keys], NEW j \in 1 .. n,
         \A i, m \in 1 .. n : o[i] = o[m] => i = m
  PROVE  Abstract!Without(o, o[j]) = Dropped(o, n, j)
<1>1. Len(o) = n /\ DOMAIN o = 1 .. n
  BY SequenceIs
<1>2. o[j] \in Abstract!Members(o)
  BY <1>1 DEF Abstract!Members
<1>3. Abstract!Place(o, o[j]) = j
  BY <1>1 DEF Abstract!Place
<1> QED
  BY <1>2, <1>3 DEF Abstract!Without, Dropped

LEMMA WithoutNone ==
  ASSUME NEW o, NEW k, k \notin Abstract!Members(o)
  PROVE  Abstract!Without(o, k) = o
BY DEF Abstract!Without

\* The keys of the entries of s, in its order.
Keyed(s, n) == [i \in 1 .. n |-> entry[s[i]].key]

LEMMA KeyedIs ==
  ASSUME StoreOK, NEW n \in Nat, NEW s \in Orders(n), Kept(s, n)
  PROVE  /\ Keyed(s, n) \in [1 .. n -> Keys]
         /\ \A i, j \in 1 .. n : Keyed(s, n)[i] = Keyed(s, n)[j] => i = j
         /\ \A i \in 1 .. n : Keyed(s, n)[i] \in Cached /\ cache[Keyed(s, n)[i]] = s[i]
         /\ \A k \in Cached, i \in 1 .. n : s[i] = cache[k] => Keyed(s, n)[i] = k
         /\ LRUOrder = Keyed(s, n)
         /\ Abstract!Members(Keyed(s, n)) = Cached
<1> DEFINE o == Keyed(s, n)
<1>1. \A i \in 1 .. n : s[i] \in Entries
  BY DEF Kept, Members
<1>2. ASSUME NEW i \in 1 .. n PROVE o[i] \in Cached /\ cache[o[i]] = s[i]
  <2>1. PICK k \in Cached : cache[k] = s[i]
    BY <1>1 DEF Entries
  <2> QED
    BY <2>1, EntryIs DEF Keyed
<1>3. o \in [1 .. n -> Keys]
  BY <1>2 DEF Keyed, Cached
<1>4. \A k \in Cached, i \in 1 .. n : s[i] = cache[k] => o[i] = k
  BY EntryIs DEF Keyed
<1>5. LRUOrder = o
  <2>1. list.size = n /\ \A i \in 1 .. n : Nth[i - 1] = s[i]
    <3>1. \A i \in 1 .. n : i - 1 \in 0 .. n - 1 /\ (i - 1) + 1 = i
      OBVIOUS
    <3> QED
      BY <3>1, WalkIs
  <2> QED
    BY <2>1 DEF LRUOrder, Keyed
<1> HIDE DEF o
<1>6. \A i, j \in 1 .. n : o[i] = o[j] => i = j
  BY <1>2 DEF Orders
<1>7. Abstract!Members(o) = Cached
  <2>1. DOMAIN o = 1 .. n
    BY <1>3
  <2>2. \A k \in Cached : \E i \in 1 .. n : s[i] = cache[k]
    BY EntryIs, PlaceIs
  <2> QED
    BY <1>2, <1>4, <2>1, <2>2 DEF Abstract!Members
<1> QED
  BY <1>2, <1>3, <1>4, <1>5, <1>6, <1>7 DEF o

ListsKeys == \A m \in Nat : \A t \in Orders(m) :
               Kept(t, m) => LRUOrder = [i \in 1 .. m |-> entry[t[i]].key]

LEMMA LRUOrderIs == StoreOK => ListsKeys
BY KeyedIs DEF ListsKeys, Keyed

LEMMA LRUOrderNext ==
  ASSUME StoreOK', NEW n \in Nat, NEW s \in Orders(n), Kept(s, n)'
  PROVE  LRUOrder' = [i \in 1 .. n |-> entry'[s[i]].key]
<1>1. (StoreOK => ListsKeys)'
  BY LRUOrderIs, PTL
<1> QED
  BY <1>1 DEF ListsKeys

\* A key moved to the front, or left out.
LEMMA OrderMoved ==
  ASSUME StoreOK, NEW n \in Nat, NEW s \in Orders(n), Kept(s, n), NEW j \in 1 .. n,
         NEW k \in Cached, s[j] = cache[k]
  PROVE  /\ Abstract!Without(LRUOrder, k) = Dropped(Keyed(s, n), n, j)
         /\ Dropped(Keyed(s, n), n, j) = Keyed(Dropped(s, n, j), n - 1)
         /\ <<k>> \o Abstract!Without(LRUOrder, k)
              = Keyed(Pushed(Dropped(s, n, j), n - 1, s[j]), n)
<1> DEFINE o == Keyed(s, n)
<1>1. /\ o \in [1 .. n -> Keys] /\ \A i, m \in 1 .. n : o[i] = o[m] => i = m
      /\ o[j] = k /\ LRUOrder = o
  BY KeyedIs
<1>2. \A i \in 1 .. n : o[i] = entry[s[i]].key
  BY DEF Keyed
<1> HIDE DEF o
<1>3. Abstract!Without(LRUOrder, k) = Dropped(o, n, j)
  BY <1>1, WithoutIs
<1>4. Dropped(o, n, j) = Keyed(Dropped(s, n, j), n - 1)
  <2>1. \A i \in 1 .. n - 1 : i \in 1 .. n /\ i + 1 \in 1 .. n
    OBVIOUS
  <2> QED
    BY <1>2, <2>1 DEF Dropped, Keyed
<1>5. n - 1 \in Nat /\ (n - 1) + 1 = n /\ k \in Keys
  BY DEF Cached
<1>6. Dropped(o, n, j) \in [1 .. n - 1 -> Keys]
  BY <1>1 DEF Dropped
<1> DEFINE d == Dropped(o, n, j)
<1>7. <<k>> \o d = Pushed(d, n - 1, k)
  <2> HIDE DEF d
  <2> QED
    BY <1>5, <1>6, ConsIs DEF d
<1>8. Pushed(d, n - 1, k) = Keyed(Pushed(Dropped(s, n, j), n - 1, s[j]), n)
  <2> DEFINE e == Dropped(s, n, j)
  <2>1. \A i \in 1 .. n - 1 : d[i] = entry[e[i]].key
    BY <1>4 DEF Keyed
  <2>2. entry[s[j]].key = k
    BY <1>1, <1>2
  <2> HIDE DEF d, e
  <2>3. \A i \in 1 .. n : i # 1 => i - 1 \in 1 .. n - 1
    OBVIOUS
  <2>4. Pushed(d, n - 1, k) = [i \in 1 .. n |-> IF i = 1 THEN k ELSE d[i - 1]]
    BY <1>5 DEF Pushed
  <2>5. Pushed(e, n - 1, s[j]) = [i \in 1 .. n |-> IF i = 1 THEN s[j] ELSE e[i - 1]]
    BY <1>5 DEF Pushed
  <2>6. Keyed(Pushed(e, n - 1, s[j]), n) = [i \in 1 .. n |-> IF i = 1 THEN k ELSE d[i - 1]]
    BY <2>1, <2>2, <2>5 DEF Keyed
  <2> QED
    BY <2>4, <2>6 DEF d, e
<1> QED
  BY <1>3, <1>4, <1>7, <1>8 DEF o

\* What the abstract cache holds for a key.
LEMMA ValuesAre ==
  ASSUME StoreOK
  PROVE  /\ \A k \in Cached : /\ ValOf[k] = entry[cache[k]].val
                              /\ AgeOf[k] = entry[cache[k]].age
                              /\ AgeOf[k] \in 0 .. TTL + 1
                              /\ Expired(cache[k]) <=> AgeOf[k] > TTL
         /\ \A k \in Keys \ Cached : ValOf[k] = None /\ AgeOf[k] = 0
<1>1. \A k \in Cached : k \in Keys /\ cache[k] \in Addrs
  BY EntryIs DEF Cached
<1>2. \A k \in Cached : entry[cache[k]].age \in 0 .. TTL + 1
  BY <1>1 DEF StoreOK
<1> QED
  BY <1>1, <1>2 DEF ValOf, AgeOf, Expired

LEMMA AbstractCached ==
  ASSUME StoreOK, NEW n \in Nat, NEW s \in Orders(n), Kept(s, n)
  PROVE  Abstract!Cached = Cached
BY KeyedIs DEF Abstract!Cached

\* A step that leaves the keys and the list alone leaves the order.
LEMMA OrderKept ==
  ASSUME StoreOK, StoreOK', NEW n \in Nat, NEW s \in Orders(n), Kept(s, n), Kept(s, n)',
         \A e \in Entries : entry'[e].key = entry[e].key
  PROVE  LRUOrder' = LRUOrder
<1>1. LRUOrder' = [i \in 1 .. n |-> entry'[s[i]].key]
  BY LRUOrderNext
<1>2. LRUOrder = [i \in 1 .. n |-> entry[s[i]].key]
  BY KeyedIs DEF Keyed
<1>3. \A i \in 1 .. n : s[i] \in Entries
  BY DEF Kept, Members
<1> QED
  BY <1>1, <1>2, <1>3

LEMMA GetMissRefines ==
  ASSUME StoreOK, RestOK, NEW n \in Nat, NEW s \in Orders(n), Kept(s, n),
         NEW k \in Keys, GetMiss(k)
  PROVE  Abstract!GetMiss(k)
<1>1. StoreOK' /\ Kept(s, n)' /\ entry' = entry /\ cache' = cache
  BY GetMissStep DEF GetMiss
<1>2. LRUOrder' = LRUOrder
  BY <1>1, OrderKept
<1>3. ValOf' = ValOf /\ AgeOf' = AgeOf
  BY <1>1 DEF ValOf, AgeOf, Cached
<1>4. k \notin Abstract!Cached
  BY AbstractCached DEF GetMiss
<1> QED
  BY <1>2, <1>3, <1>4 DEF Abstract!GetMiss, GetMiss

LEMMA GetHitRefines ==
  ASSUME StoreOK, RestOK, NEW n \in Nat, NEW s \in Orders(n), Kept(s, n),
         NEW k \in Keys, GetHit(k)
  PROVE  Abstract!GetHit(k)
<1>1. k \in Cached /\ entry' = entry /\ cache' = cache
  BY DEF GetHit
<1>2. StoreOK'
  BY GetHitStep
<1>3. PICK j \in 1 .. n : s[j] = cache[k] /\ Kept(Pushed(Dropped(s, n, j), n - 1, s[j]), n)'
  BY GetHitStep
<1> DEFINE t == Pushed(Dropped(s, n, j), n - 1, s[j])
<1>4. t \in Orders(n)
  BY <1>3 DEF Kept, Chain
<1> HIDE DEF t
<1>5. LRUOrder' = Keyed(t, n)
  BY <1>1, <1>2, <1>3, <1>4, LRUOrderNext DEF Keyed, t
<1>6. LRUOrder' = <<k>> \o Abstract!Without(LRUOrder, k)
  BY <1>1, <1>3, <1>5, OrderMoved DEF t
<1>7. ValOf' = ValOf /\ AgeOf' = AgeOf
  BY <1>1 DEF ValOf, AgeOf, Cached
<1>8. answer' = ValOf[k] /\ AgeOf[k] <= TTL
  BY <1>1, ValuesAre, QCAssumption DEF GetHit
<1>9. k \in Abstract!Cached
  BY <1>1, AbstractCached
<1> QED
  BY <1>6, <1>7, <1>8, <1>9 DEF Abstract!GetHit

LEMMA GetExpiredRefines ==
  ASSUME StoreOK, RestOK, NEW n \in Nat, NEW s \in Orders(n), Kept(s, n),
         NEW k \in Keys, GetExpired(k)
  PROVE  Abstract!GetExpired(k)
<1>1. k \in Cached
  BY DEF GetExpired
<1>2. StoreOK'
  BY GetExpiredStep
<1>3. PICK j \in 1 .. n : s[j] = cache[k] /\ Kept(Dropped(s, n, j), n - 1)'
  BY GetExpiredStep
<1> DEFINE t == Dropped(s, n, j)
<1>4. n - 1 \in Nat /\ t \in Orders(n - 1) /\ Members(t, n - 1) = Members(s, n) \ {cache[k]}
  BY <1>3, DroppedIs
<1> HIDE DEF t
<1>5. \A x \in Keys : cache'[x] = IF x = k THEN Nil ELSE cache[x]
  BY DEF GetExpired, StoreOK
<1>6. \A e \in Addrs : e # cache[k] => entry'[e] = entry[e]
  BY DEF GetExpired, Free
<1>7. LRUOrder' = Keyed(t, n - 1)
  <2>1. \A i \in 1 .. n - 1 : t[i] \in Members(t, n - 1)
    BY DEF Members
  <2>2. \A i \in 1 .. n - 1 : t[i] \in Addrs /\ t[i] # cache[k]
    BY <1>4, <2>1 DEF Orders
  <2>3. LRUOrder' = [i \in 1 .. n - 1 |-> entry'[t[i]].key]
    BY <1>2, <1>3, <1>4, LRUOrderNext DEF t
  <2> QED
    BY <1>6, <2>2, <2>3 DEF Keyed
<1>8. LRUOrder' = Abstract!Without(LRUOrder, k)
  BY <1>1, <1>3, <1>7, OrderMoved DEF t
<1>9. /\ ValOf' = [x \in Keys |-> IF x \in {k} THEN None ELSE ValOf[x]]
      /\ AgeOf' = [x \in Keys |-> IF x \in {k} THEN 0 ELSE AgeOf[x]]
  <2>1. Cached' = Cached \ {k}
    BY <1>5 DEF Cached
  <2>2. \A x \in Cached : x # k => /\ x \in Keys /\ cache'[x] = cache[x]
                                   /\ entry'[cache[x]] = entry[cache[x]]
    <3>1. \A x \in Cached : x # k => x \in Keys /\ cache[x] \in Addrs /\ cache[x] # cache[k]
      BY <1>1, EntryIs DEF Cached
    <3> QED
      BY <1>5, <1>6, <3>1
  <2> QED
    BY <2>1, <2>2 DEF ValOf, AgeOf
<1>10. AgeOf[k] > TTL /\ answer' = None
  BY <1>1, ValuesAre DEF GetExpired
<1>11. k \in Abstract!Cached
  BY <1>1, AbstractCached
<1> QED
  BY <1>8, <1>9, <1>10, <1>11 DEF Abstract!GetExpired, Abstract!Forget

\* The abstract Set: its order before the eviction has length m, and out leaves it.
Fronted(k)  == <<k>> \o Abstract!Without(LRUOrder, k)
Out(k)      == {Fronted(k)[i] : i \in DOMAIN Fronted(k) \ 1 .. MaxSize}
Smaller(m)  == IF m > MaxSize THEN MaxSize ELSE m

LEMMA SetIs ==
  ASSUME NEW k \in Keys, NEW v \in Vals,
         NEW m \in Nat, NEW o \in [1 .. m -> Keys], Fronted(k) = o,
         LRUOrder' = [i \in 1 .. Smaller(m) |-> o[i]],
         ValOf' = [x \in Keys |-> IF x = k THEN v ELSE IF x \in Out(k) THEN None ELSE ValOf[x]],
         AgeOf' = [x \in Keys |-> IF x \in {k} \cup Out(k) THEN 0 ELSE AgeOf[x]],
         answer' = answer
  PROVE  Abstract!Set(k, v)
<1>1. o \in Seq(Keys) /\ Len(o) = m
  BY SequenceIs
<1>2. SubSeq(o, 1, Smaller(m)) = [i \in 1 .. Smaller(m) |-> o[i]]
  <2>1. PICK p \in Nat : p = Smaller(m) /\ p <= m
    BY QCAssumption DEF Smaller
  <2>2. /\ SubSeq(o, 1, p) \in Seq(Keys) /\ Len(SubSeq(o, 1, p)) = p
        /\ \A i \in 1 .. p : SubSeq(o, 1, p)[i] = o[i]
    BY <1>1, <2>1
  <2>3. SubSeq(o, 1, p) = [i \in 1 .. p |-> o[i]]
    BY <2>2
  <2> QED
    BY <2>1, <2>3
<1>3. LRUOrder' = SubSeq(Fronted(k), 1, Smaller(Len(Fronted(k))))
  BY <1>1, <1>2
<1> QED
  BY <1>3 DEF Abstract!Set, Fronted, Out, Smaller

LEMMA SetExistingRefines ==
  ASSUME StoreOK, RestOK, NEW n \in Nat, NEW s \in Orders(n), Kept(s, n),
         NEW k \in Keys, NEW v \in Vals, SetExisting(k, v)
  PROVE  Abstract!Set(k, v)
<1>1. k \in Cached /\ cache' = cache
  BY DEF SetExisting
<1>2. StoreOK'
  BY SetExistingStep
<1>3. PICK j \in 1 .. n : s[j] = cache[k] /\ Kept(Pushed(Dropped(s, n, j), n - 1, s[j]), n)'
  BY SetExistingStep
<1> DEFINE t == Pushed(Dropped(s, n, j), n - 1, s[j])
<1>4. t \in Orders(n) /\ Members(t, n) = Entries
  BY <1>1, <1>3 DEF Kept, Chain, Entries, Cached
<1>5. <<k>> \o Abstract!Without(LRUOrder, k) = Keyed(t, n)
  BY <1>1, <1>3, OrderMoved
<1> HIDE DEF t
<1>6. /\ \A e \in Addrs : e # cache[k] => entry'[e] = entry[e]
      /\ entry'[cache[k]].val = v /\ entry'[cache[k]].age = 0 /\ entry'[cache[k]].key = k
  <2>1. cache[k] \in Addrs
    BY <1>1, EntryIs
  <2>2. \A e \in Addrs : entry'[e] = IF e = cache[k] THEN [key |-> k, val |-> v, age |-> 0]
                                     ELSE entry[e]
    BY NewValueIs
  <2>3. entry'[cache[k]] = [key |-> k, val |-> v, age |-> 0]
    BY <2>1, <2>2
  <2> QED
    BY <2>2, <2>3
<1>7. \A x \in Cached : x \in Keys /\ cache[x] \in Addrs /\ (x # k => cache[x] # cache[k])
                        /\ entry[cache[x]].key = x
  BY <1>1, EntryIs DEF Cached
<1>8. LRUOrder' = Keyed(t, n)
  <2>1. \A i \in 1 .. n : \E x \in Cached : t[i] = cache[x]
    BY <1>4 DEF Entries, Members
  <2>2. \A i \in 1 .. n : entry'[t[i]].key = entry[t[i]].key
    BY <1>6, <1>7, <2>1
  <2>3. LRUOrder' = [i \in 1 .. n |-> entry'[t[i]].key]
    BY <1>2, <1>3, <1>4, LRUOrderNext DEF t
  <2> QED
    BY <2>2, <2>3 DEF Keyed
<1>9. /\ ValOf' = [x \in Keys |-> IF x = k THEN v ELSE ValOf[x]]
      /\ AgeOf' = [x \in Keys |-> IF x = k THEN 0 ELSE AgeOf[x]]
  <2>1. Cached' = Cached
    BY <1>1 DEF Cached
  <2> QED
    BY <1>1, <1>6, <1>7, <2>1 DEF ValOf, AgeOf
<1> DEFINE o == Keyed(t, n)
<1>10. o \in [1 .. n -> Keys] /\ o = [i \in 1 .. n |-> o[i]]
  <2>1. \A i \in 1 .. n : \E x \in Cached : t[i] = cache[x]
    BY <1>4 DEF Entries, Members
  <2>2. \A i \in 1 .. n : entry[t[i]].key \in Keys
    BY <1>7, <2>1
  <2> QED
    BY <2>2 DEF Keyed
<1>11. n = Smaller(n) /\ Out(k) = {}
  <2>1. n <= MaxSize /\ DOMAIN o = 1 .. n
    BY <1>10 DEF Kept
  <2>2. Out(k) = {o[i] : i \in DOMAIN o \ 1 .. MaxSize}
    BY <1>5 DEF Out, Fronted
  <2> HIDE DEF o
  <2>3. DOMAIN o \ 1 .. MaxSize = {}
    BY <2>1, QCAssumption
  <2> QED
    BY <2>1, <2>2, QCAssumption DEF Smaller
<1>12. answer' = answer
  BY DEF SetExisting
<1> HIDE DEF o
<1>13. /\ Fronted(k) = o
       /\ LRUOrder' = [i \in 1 .. Smaller(n) |-> o[i]]
  BY <1>5, <1>8, <1>10, <1>11 DEF o, Fronted
<1>14. /\ ValOf' = [x \in Keys |-> IF x = k THEN v
                                   ELSE IF x \in Out(k) THEN None ELSE ValOf[x]]
       /\ AgeOf' = [x \in Keys |-> IF x \in {k} \cup Out(k) THEN 0 ELSE AgeOf[x]]
  BY <1>9, <1>11
<1> QED
  BY <1>10, <1>12, <1>13, <1>14, SetIs

LEMMA SetNewRefines ==
  ASSUME StoreOK, RestOK, NEW n \in Nat, NEW s \in Orders(n), Kept(s, n),
         NEW k \in Keys, NEW v \in Vals, SetNew(k, v)
  PROVE  Abstract!Set(k, v)
<1>1. StoreOK' /\ k \notin Cached
  BY SetNewStep
<1>2. PICK e \in Addrs \ Entries :
        LinksNew(e, s, n) /\ StoresNew(k, v, e, s, n)
  BY SetNewStep
<1> DEFINE q == Keyed(s, n)
           o == Pushed(q, n, k)
<1>3. /\ q \in [1 .. n -> Keys] /\ LRUOrder = q /\ Abstract!Members(q) = Cached
      /\ \A i \in 1 .. n : q[i] \in Cached /\ cache[q[i]] = s[i] /\ q[i] = entry[s[i]].key
  BY KeyedIs DEF Keyed
<1> HIDE DEF q
<1>4. Fronted(k) = o
  <2>1. Abstract!Without(LRUOrder, k) = q
    BY <1>1, <1>3, WithoutNone
  <2>2. q \in [1 .. n -> Keys]
    BY <1>3
  <2>3. <<k>> \o q = Pushed(q, n, k)
    BY <2>2, ConsIs
  <2> QED
    BY <2>1, <2>3 DEF Fronted
<1>5. o \in [1 .. n + 1 -> Keys] /\ o[1] = k /\ \A i \in 1 .. n + 1 : i # 1 => o[i] = q[i - 1]
  BY <1>3 DEF Pushed
<1> HIDE DEF o
<1>6. n <= MaxSize /\ MaxSize >= 1 /\ MaxSize \in Nat /\ n + 1 \in Nat
  BY QCAssumption DEF Kept
<1>7. Evicted(s, n) \subseteq Entries /\ e \notin Evicted(s, n)
  BY <1>6 DEF Evicted, Kept, Members
\* The order after the step.
<1> DEFINE t == Pushed(s, n, e)
           u == IF n = MaxSize THEN Dropped(t, n + 1, n + 1) ELSE t
           m == Smaller(n + 1)
<1>8. /\ t \in Orders(n + 1) /\ t[1] = e
      /\ \A i \in 1 .. n + 1 : i # 1 => i - 1 \in 1 .. n /\ t[i] = s[i - 1]
  <2>1. \A i \in 1 .. n : t[i + 1] = s[i]
    BY <1>2, PushedIs DEF Kept
  <2>2. \A i \in 1 .. n + 1 : i # 1 => i - 1 \in 1 .. n /\ (i - 1) + 1 = i
    OBVIOUS
  <2>3. t \in Orders(n + 1) /\ t[1] = e
    BY <1>2, PushedIs DEF Kept
  <2> HIDE DEF t
  <2> QED
    BY <2>1, <2>2, <2>3
<1> HIDE DEF t
<1>9. m \in Nat /\ m <= n + 1 /\ u \in Orders(m) /\ \A i \in 1 .. m : u[i] = t[i]
  <2>1. CASE n = MaxSize
    <3>1. n + 1 \in 1 .. n + 1 /\ (n + 1) - 1 = n /\ m = n
      BY <1>6, <2>1 DEF Smaller
    <3>2. /\ Dropped(t, n + 1, n + 1) \in Orders((n + 1) - 1)
          /\ \A i \in 1 .. (n + 1) - 1 : Dropped(t, n + 1, n + 1)[i]
                                           = IF i < n + 1 THEN t[i] ELSE t[i + 1]
      BY <1>8, DroppedIs
    <3> QED
      BY <2>1, <3>1, <3>2
  <2>2. CASE n # MaxSize
    BY <1>6, <1>8, <2>2 DEF Smaller
  <2> QED
    BY <2>1, <2>2
<1>10. Kept(u, m)'
  BY <1>2, <1>6 DEF t, Smaller, LinksNew
<1> HIDE DEF u
<1>11. LRUOrder' = [i \in 1 .. m |-> o[i]]
  <2>1. LRUOrder' = [i \in 1 .. m |-> entry'[u[i]].key]
    BY <1>1, <1>9, <1>10, LRUOrderNext
  <2>2. ASSUME NEW i \in 1 .. m PROVE entry'[u[i]].key = o[i]
    <3>1. i \in 1 .. n + 1 /\ u[i] = t[i]
      BY <1>6, <1>9
    <3>2. CASE i = 1
      <4>1. entry'[e] = [key |-> k, val |-> v, age |-> 0]
        BY <1>2, <1>7 DEF StoresNew
      <4> QED
        BY <1>5, <1>8, <3>1, <3>2, <4>1
    <3>3. CASE i # 1
      <4>1. i - 1 \in 1 .. n /\ u[i] = s[i - 1] /\ o[i] = q[i - 1]
        BY <1>5, <1>8, <3>1, <3>3
      <4>2. s[i - 1] \in Entries /\ s[i - 1] \in Addrs /\ s[i - 1] # e
        BY <4>1 DEF Kept, Members, Orders
      <4>3. s[i - 1] \notin Evicted(s, n)
        <5>1. n = MaxSize => i - 1 # n
          BY <1>6, <3>3 DEF Smaller
        <5>2. n \in 1 .. n
          BY <4>1
        <5> QED
          BY <4>1, <5>1 DEF Evicted, Orders
      <4>4. entry'[s[i - 1]] = entry[s[i - 1]]
        BY <1>2, <4>2, <4>3 DEF StoresNew
      <4> QED
        BY <1>3, <4>1, <4>4
    <3> QED
      BY <3>2, <3>3
  <2> QED
    BY <2>1, <2>2
\* What leaves the abstract order is the key of the entry evicted.
<1>12. \A x \in Keys : x \in Out(k) <=> x \in Cached /\ cache[x] \in Evicted(s, n)
  <2>1. Out(k) = {o[i] : i \in (1 .. n + 1) \ 1 .. MaxSize}
    BY <1>4, <1>5 DEF Out
  <2>2. CASE n # MaxSize
    <3>1. (1 .. n + 1) \ 1 .. MaxSize = {}
      BY <1>6, <2>2
    <3> QED
      BY <2>1, <2>2, <3>1 DEF Evicted
  <2>3. CASE n = MaxSize
    <3>1. (1 .. n + 1) \ 1 .. MaxSize = {n + 1}
      BY <1>6, <2>3
    <3>2. n + 1 # 1 /\ n + 1 \in 1 .. n + 1 /\ (n + 1) - 1 = n /\ n \in 1 .. n
      BY <1>6, <2>3
    <3>3. Out(k) = {q[n]}
      BY <1>5, <2>1, <3>1, <3>2
    <3>4. q[n] \in Cached /\ cache[q[n]] = s[n]
      BY <1>3, <3>2
    <3>5. \A x \in Cached : cache[x] = s[n] => x = q[n]
      BY <3>4, EntryIs
    <3> QED
      BY <2>3, <3>3, <3>4, <3>5 DEF Evicted
  <2> QED
    BY <2>2, <2>3
<1>13. Cached' = {k} \cup {x \in Cached : cache[x] \notin Evicted(s, n)}
  <2>1. \A x \in Keys : cache'[x] # Nil
                          <=> x = k \/ (cache[x] \notin Evicted(s, n) /\ cache[x] # Nil)
    BY <1>2, NilIs DEF StoresNew
  <2> QED
    BY <2>1 DEF Cached
<1>14. ASSUME NEW x \in Keys
       PROVE  /\ (IF x \in Cached' THEN entry'[cache'[x]].val ELSE None)
                   = IF x = k THEN v ELSE IF x \in Out(k) THEN None ELSE ValOf[x]
              /\ (IF x \in Cached' THEN entry'[cache'[x]].age ELSE 0)
                   = IF x \in {k} \cup Out(k) THEN 0 ELSE AgeOf[x]
  <2>1. CASE x = k
    <3>1. entry'[e] = [key |-> k, val |-> v, age |-> 0] /\ cache'[x] = e /\ x \in Cached'
      BY <1>2, <1>7, <1>13, <2>1 DEF StoresNew
    <3> QED
      BY <2>1, <3>1
  <2>2. CASE x # k /\ x \in Cached /\ cache[x] \notin Evicted(s, n)
    <3>1. cache[x] \in Addrs /\ cache[x] # e
      BY <1>2, <2>2, EntryIs
    <3>2. cache'[x] = cache[x] /\ entry'[cache[x]] = entry[cache[x]] /\ x \in Cached'
      BY <1>2, <1>13, <2>2, <3>1 DEF StoresNew
    <3> QED
      BY <1>12, <2>2, <3>2, ValuesAre
  <2>3. CASE x # k /\ (x \notin Cached \/ cache[x] \in Evicted(s, n))
    <3>1. x \notin Cached'
      BY <1>13, <2>3
    <3>2. x \notin Cached => ValOf[x] = None /\ AgeOf[x] = 0 /\ x \notin Out(k)
      BY <1>12, ValuesAre
    <3> QED
      BY <1>12, <2>3, <3>1, <3>2
  <2> QED
    BY <2>1, <2>2, <2>3
<1>15. /\ ValOf' = [x \in Keys |-> IF x = k THEN v
                                   ELSE IF x \in Out(k) THEN None ELSE ValOf[x]]
       /\ AgeOf' = [x \in Keys |-> IF x \in {k} \cup Out(k) THEN 0 ELSE AgeOf[x]]
  BY <1>14 DEF ValOf, AgeOf
<1>16. answer' = answer
  BY DEF SetNew
<1> QED
  BY <1>4, <1>5, <1>11, <1>15, <1>16, SetIs

LEMMA CleanupRefines ==
  ASSUME StoreOK, RestOK, NEW n \in Nat, NEW s \in Orders(n), Kept(s, n), CleanupExpired
  PROVE  Abstract!Cleanup
<1> DEFINE E     == {e \in Entries : Expired(e)}
           Young == {k \in Cached : AgeOf[k] <= TTL}
           Old   == {k \in Cached : AgeOf[k] > TTL}
<1>1. /\ cache' = [k \in Keys |-> IF cache[k] \in E THEN Nil ELSE cache[k]]
      /\ Free(E) /\ answer' = answer
  BY DEF CleanupExpired
<1>2. StoreOK'
  BY CleanupStep
<1>3. Entries' = Entries \ E
  <2>1. E \in SUBSET Entries
    OBVIOUS
  <2> HIDE DEF E
  <2> QED
    BY <1>1, <2>1, Forgotten
<1>4. PICK m \in Nat : \E t \in Orders(m) : Kept(t, m)' /\ InOrder(t, m, s, n)
  BY CleanupStep
<1>5. PICK t \in Orders(m) : Kept(t, m)' /\ InOrder(t, m, s, n)
  BY <1>4
<1>6. \A k \in Cached : /\ k \in Keys /\ cache[k] \in Addrs /\ entry[cache[k]].key = k
                        /\ cache[k] \in E <=> k \in Old
                        /\ k \in Old <=> k \notin Young
  <2>1. \A k \in Cached : /\ k \in Keys /\ cache[k] \in Addrs /\ cache[k] \in Entries
                          /\ entry[cache[k]].key = k
    BY EntryIs DEF Cached
  <2>2. \A k \in Cached : AgeOf[k] \in 0 .. TTL + 1 /\ (Expired(cache[k]) <=> AgeOf[k] > TTL)
    BY ValuesAre
  <2>3. \A k \in Cached : AgeOf[k] > TTL <=> ~(AgeOf[k] <= TTL)
    BY <2>2, QCAssumption
  <2> QED
    BY <2>1, <2>2, <2>3
<1>7. \A e \in Addrs \ E : entry'[e] = entry[e]
  BY <1>1 DEF Free
<1>8. Entries \subseteq Addrs
  BY <1>6 DEF Entries
<1> HIDE DEF E
<1>9. \A i \in 1 .. m : t[i] \in Entries /\ t[i] \notin E
  BY <1>3, <1>5 DEF Kept, Members
<1>10. LRUOrder' = Keyed(t, m)
  <2>1. LRUOrder' = [i \in 1 .. m |-> entry'[t[i]].key]
    BY <1>2, <1>5, LRUOrderNext
  <2> QED
    BY <1>7, <1>8, <1>9, <2>1 DEF Keyed
<1> DEFINE o == Keyed(s, n)
           p == Keyed(t, m)
<1>11. ASSUME NEW i \in 1 .. m PROVE p[i] \in Young /\ cache[p[i]] = t[i]
  <2>1. PICK k \in Cached : cache[k] = t[i]
    BY <1>9 DEF Entries
  <2>2. p[i] = k
    BY <1>6, <2>1 DEF Keyed
  <2> QED
    BY <1>6, <1>9, <2>1, <2>2
<1>12. /\ LRUOrder = o /\ Abstract!Members(o) = Cached /\ DOMAIN o = 1 .. n
       /\ \A i \in 1 .. n : o[i] = entry[s[i]].key
  BY KeyedIs DEF Keyed
<1>13. DOMAIN p = 1 .. m /\ p = [i \in 1 .. m |-> p[i]]
       /\ \A i \in 1 .. m : p[i] = entry[t[i]].key
  BY DEF Keyed
<1> HIDE DEF o, p
<1>14. p \in Seq(Young)
  <2>1. p \in [1 .. m -> Young]
    BY <1>11, <1>13
  <2> HIDE DEF Young
  <2> QED
    BY <2>1, SequenceIs
<1>15. Abstract!Members(p) = Abstract!Members(o) \cap Young
  <2>1. ASSUME NEW k \in Young PROVE \E i \in 1 .. m : p[i] = k
    <3>1. k \in Cached /\ cache[k] \in Entries \ E
      BY <1>6, EntryIs
    <3>2. PICK i \in 1 .. m : t[i] = cache[k]
      BY <1>3, <1>5, <3>1 DEF Kept, Members
    <3>3. p[i] = k
      BY <1>6, <1>13, <3>2
    <3> QED
      BY <3>3
  <2> QED
    BY <1>11, <1>12, <1>13, <2>1 DEF Abstract!Members
<1>16. \A i, j \in 1 .. m : i < j => \E x, y \in 1 .. n : x < y /\ p[i] = o[x] /\ p[j] = o[y]
  <2> SUFFICES ASSUME NEW i \in 1 .. m, NEW j \in 1 .. m, i < j
               PROVE  \E x, y \in 1 .. n : x < y /\ p[i] = o[x] /\ p[j] = o[y]
    OBVIOUS
  <2>1. PICK x \in 1 .. n : s[x] = t[i]
    BY <1>9, PlaceIs
  <2>2. PICK y \in 1 .. n : s[y] = t[j]
    BY <1>9, PlaceIs
  <2>3. x < y
    BY <1>5, <2>1, <2>2 DEF InOrder
  <2> QED
    BY <1>12, <1>13, <2>1, <2>2, <2>3
<1>17. /\ ValOf' = [k \in Keys |-> IF k \in Old THEN None ELSE ValOf[k]]
       /\ AgeOf' = [k \in Keys |-> IF k \in Old THEN 0 ELSE AgeOf[k]]
  <2>1. \A k \in Keys : k \in Cached' <=> k \in Cached /\ k \notin Old
    <3>1. \A k \in Keys : cache'[k] # Nil <=> cache[k] \notin E /\ cache[k] # Nil
      BY <1>1
    <3> QED
      BY <1>6, <3>1 DEF Cached
  <2>2. ASSUME NEW k \in Cached, k \notin Old
        PROVE  cache'[k] = cache[k] /\ entry'[cache[k]] = entry[cache[k]]
    BY <1>1, <1>6, <1>7, <2>2
  <2> HIDE DEF Old
  <2>3. ASSUME NEW k \in Keys
        PROVE  /\ (IF k \in Cached' THEN entry'[cache'[k]].val ELSE None)
                    = IF k \in Old THEN None ELSE ValOf[k]
               /\ (IF k \in Cached' THEN entry'[cache'[k]].age ELSE 0)
                    = IF k \in Old THEN 0 ELSE AgeOf[k]
    BY <2>1, <2>2, ValuesAre
  <2> QED
    BY <2>3 DEF ValOf, AgeOf
<1>18. Abstract!Cached = Cached
  BY AbstractCached
<1>19. Abstract!Keeps(LRUOrder', LRUOrder, Young)
  <2> HIDE DEF Young
  <2> QED
    BY <1>10, <1>12, <1>13, <1>14, <1>15, <1>16 DEF Abstract!Keeps, p
<1>20. {k \in Abstract!Cached : AgeOf[k] > TTL} = Old
       /\ {k \in Abstract!Cached : AgeOf[k] <= TTL} = Young
  BY <1>18
<1> HIDE DEF Old, Young
<1> QED
  BY <1>1, <1>17, <1>19, <1>20 DEF Abstract!Cleanup, Abstract!Forget

LEMMA ClearRefines ==
  ASSUME RestOK, Clear
  PROVE  Abstract!Clear
<1>1. StoreOK' /\ Kept(EmptyOrder, 0)'
  BY ClearStep
<1>2. LRUOrder' = <<>>
  <2>1. LRUOrder' = [i \in 1 .. 0 |-> entry'[EmptyOrder[i]].key]
    BY <1>1, EmptyIs, LRUOrderNext
  <2>2. 1 .. 0 = {}
    OBVIOUS
  <2> QED
    BY <2>1, <2>2
<1>3. ValOf' = [k \in Keys |-> None] /\ AgeOf' = [k \in Keys |-> 0]
  <2>1. Cached' = {}
    BY DEF Clear, Cached
  <2> QED
    BY <2>1 DEF ValOf, AgeOf
<1> QED
  BY <1>2, <1>3 DEF Abstract!Clear, Abstract!Forget, Clear

LEMMA TickRefines ==
  ASSUME StoreOK, RestOK, NEW n \in Nat, NEW s \in Orders(n), Kept(s, n), Tick
  PROVE  Abstract!Tick
<1>1. StoreOK' /\ Kept(s, n)'
  BY TickStep
<1>2. \A e \in Entries : /\ entry'[e].key = entry[e].key /\ entry'[e].val = entry[e].val
                         /\ entry'[e].age = IF Expired(e) THEN entry[e].age
                                            ELSE entry[e].age + 1
  <2> SUFFICES ASSUME NEW e \in Entries
               PROVE  /\ entry'[e].key = entry[e].key /\ entry'[e].val = entry[e].val
                      /\ entry'[e].age = IF Expired(e) THEN entry[e].age
                                         ELSE entry[e].age + 1
    OBVIOUS
  <2>1. e \in Addrs /\ entry[e] \in [key : Keys \cup {None}, val : Vals \cup {None},
                                     age : 0 .. TTL + 1]
    BY EntryIs DEF StoreOK, Entries
  <2>2. PICK r : r = entry[e]
    OBVIOUS
  <2>3. r = [key |-> r.key, val |-> r.val, age |-> r.age]
    BY <2>1, <2>2
  <2>4. entry'[e] = IF Expired(e) THEN r ELSE [r EXCEPT !.age = r.age + 1]
    BY <2>1, <2>2 DEF Tick
  <2>5. [r EXCEPT !.age = r.age + 1] = [key |-> r.key, val |-> r.val, age |-> r.age + 1]
    BY <2>3
  <2> QED
    BY <2>2, <2>4, <2>5
<1>3. LRUOrder' = LRUOrder
  BY <1>1, <1>2, OrderKept
<1>4. Cached' = Cached /\ cache' = cache
  BY DEF Tick, Cached
<1>5. \A k \in Cached : cache[k] \in Entries
  BY EntryIs
<1>6. ValOf' = ValOf
  BY <1>2, <1>4, <1>5 DEF ValOf
<1>7. ASSUME NEW k \in Keys
      PROVE  (IF k \in Cached' THEN entry'[cache'[k]].age ELSE 0)
               = IF k \in Cached /\ AgeOf[k] <= TTL THEN AgeOf[k] + 1 ELSE AgeOf[k]
  <2>1. CASE k \notin Cached
    BY <1>4, <2>1, ValuesAre
  <2>2. CASE k \in Cached
    <3>1. /\ AgeOf[k] = entry[cache[k]].age /\ AgeOf[k] \in 0 .. TTL + 1
          /\ Expired(cache[k]) <=> AgeOf[k] > TTL
      BY <2>2, ValuesAre
    <3>2. entry'[cache[k]].age = IF Expired(cache[k]) THEN AgeOf[k] ELSE AgeOf[k] + 1
      BY <1>2, <1>5, <2>2, <3>1
    <3> QED
      BY <1>4, <2>2, <3>1, <3>2, QCAssumption
  <2> QED
    BY <2>1, <2>2
<1>8. AgeOf' = [k \in Keys |-> IF k \in Cached /\ AgeOf[k] <= TTL THEN AgeOf[k] + 1
                               ELSE AgeOf[k]]
  BY <1>7 DEF AgeOf
<1>9. Abstract!Cached = Cached
  BY AbstractCached
<1> QED
  BY <1>3, <1>6, <1>8, <1>9 DEF Abstract!Tick, Tick

LEMMA InitRefines == Init => Abstract!Init
<1> SUFFICES ASSUME Init PROVE Abstract!Init
  OBVIOUS
<1>1. Cached = {} /\ list.size = 0
  BY DEF Init, Cached, EmptyList
<1>2. LRUOrder = <<>>
  <2>1. 1 .. 0 = {}
    OBVIOUS
  <2> QED
    BY <1>1, <2>1 DEF LRUOrder
<1>3. ValOf = [k \in Keys |-> None] /\ AgeOf = [k \in Keys |-> 0]
  BY <1>1 DEF ValOf, AgeOf
<1> QED
  BY <1>2, <1>3 DEF Abstract!Init, Init

LEMMA StepRefines == IInv /\ [Next]_vars => [Abstract!Next]_Abstract!vars
<1> SUFFICES ASSUME IInv, [Next]_vars PROVE [Abstract!Next]_Abstract!vars
  OBVIOUS
<1>1. StoreOK /\ RestOK
  BY DEF IInv
<1>2. PICK n \in Nat : \E s \in Orders(n) : Kept(s, n)
  BY DEF IInv
<1>3. PICK s \in Orders(n) : Kept(s, n)
  BY <1>2
<1>4. ASSUME NEW k \in Keys, GetMiss(k) PROVE Abstract!GetMiss(k)
  BY <1>1, <1>3, <1>4, GetMissRefines
<1>5. ASSUME NEW k \in Keys, GetExpired(k) PROVE Abstract!GetExpired(k)
  BY <1>1, <1>3, <1>5, GetExpiredRefines
<1>6. ASSUME NEW k \in Keys, GetHit(k) PROVE Abstract!GetHit(k)
  BY <1>1, <1>3, <1>6, GetHitRefines
<1>7. ASSUME NEW k \in Keys, NEW v \in Vals, SetExisting(k, v) PROVE Abstract!Set(k, v)
  BY <1>1, <1>3, <1>7, SetExistingRefines
<1>8. ASSUME NEW k \in Keys, NEW v \in Vals, SetNew(k, v) PROVE Abstract!Set(k, v)
  BY <1>1, <1>3, <1>8, SetNewRefines
<1>9. CleanupExpired => Abstract!Cleanup
  BY <1>1, <1>3, CleanupRefines
<1>10. Clear => Abstract!Clear
  BY <1>1, ClearRefines
<1>11. Tick => Abstract!Tick
  BY <1>1, <1>3, TickRefines
<1>12. UNCHANGED vars => UNCHANGED Abstract!vars
  <2> SUFFICES ASSUME UNCHANGED vars PROVE UNCHANGED Abstract!vars
    OBVIOUS
  <2>1. StoreOK' /\ Kept(s, n)'
    BY <1>1, <1>3 DEF StoreOK, Kept, Entries, Cached, vars
  <2>2. LRUOrder' = LRUOrder
    BY <1>1, <1>3, <2>1, OrderKept DEF vars
  <2>3. ValOf' = ValOf /\ AgeOf' = AgeOf
    BY DEF ValOf, AgeOf, Cached, vars
  <2> QED
    BY <2>2, <2>3 DEF Abstract!vars, vars
<1>13. Next => Abstract!Next
  BY <1>4, <1>5, <1>6, <1>7, <1>8, <1>9, <1>10, <1>11 DEF Next, Abstract!Next
<1> QED
  BY <1>12, <1>13

\* The map and the linked list implement the bounded map with time to live: a hit
\* moves its key to the front, Set evicts the key used least recently, expired
\* entries leave on sight or at a cleanup, and no two keys are ever confused.
THEOREM Refinement == Spec => ImplementsLRUCache
<1>1. Init => Abstract!Init
  BY InitRefines
<1>2. IInv /\ [Next]_vars => [Abstract!Next]_Abstract!vars
  BY StepRefines
<1> QED
  BY <1>1, <1>2, Invariance, PTL DEF Spec, ImplementsLRUCache, Abstract!Spec
===============================================================================
