------------------------ MODULE HandleMessageProofs ------------------------
(***************************************************************************)
(* Proofs about HandleMessage and the modules it is made of, for any       *)
(* clients, workers, buckets, rates, functions and bodies: the limiter's   *)
(* overrun is bounded (RateLimiter), functions only run with arguments of  *)
(* their signature (FunctionCalls), and only pings go unanswered.          *)
(***************************************************************************)
EXTENDS HandleMessage, FiniteSetTheorems, SequenceTheorems, WellFoundedInduction,
        TLAPS

N == Cardinality(Workers)

\* Workers about to charge a client's request to a bucket that is not, or no
\* longer, the client's.
Orphans(c) == {w \in Workers : ptr[w] # Nil /\ client[w] = c /\ ptr[w] # buckets[c]}

\* The tokens a client's next lookup will find.
Available(c) == IF buckets[c] = Nil THEN Burst ELSE Refilled(buckets[c])

\* A bucket is one client's; who holds it deals with that client's request.
BucketsInv ==
  /\ \A c, d \in Clients : buckets[c] = buckets[d] /\ buckets[c] # Nil => c = d
  /\ \A w \in Workers, c \in Clients : ptr[w] = buckets[c] /\ ptr[w] # Nil => client[w] = c

\* The bucket has at most one token per worker more than the ideal one, less what
\* orphans may still charge elsewhere; the ideal bucket refills with the time
\* gone by; and there are orphans only at the instant the bucket was dropped or
\* made.
Covered(c)   == credit[c] + N >= Available(c) + Cardinality(Orphans(c))
Recovered(c) == buckets[c] # Nil => credit[c] >= Capped(idle[buckets[c]] * Rate - N)
Instant(c)   == Orphans(c) # {} => buckets[c] = Nil \/ idle[buckets[c]] = 0
CreditInv    == \A c \in Clients : Covered(c) /\ Recovered(c) /\ Instant(c)

\* What the bound on the overrun presupposes: a bucket is dropped only when it
\* would be full even after one more request per worker.
SlowCleanup == Rate * Cutoff >= Burst + N

\* Unless the cleanup ever dropped it under a worker, everybody uses the client's
\* one bucket, and that has no more tokens than the ideal one.
OneBucket(c) == c \notin raced => Orphans(c) = {} /\ credit[c] >= Available(c)
FairInv      == \A c \in Clients : OneBucket(c)

\* What is presupposed for that: a bucket that is dropped would be full.
FullWhenDropped == Rate * Cutoff >= Burst

LimiterInv ==
  /\ TypeOK /\ BucketsInv
  /\ SlowCleanup => CreditInv
  /\ FullWhenDropped => FairInv
-----------------------------------------------------------------------------
(* Lemmas about the data of the limiter.                                   *)

\* What products of numbers the proofs need.
LEMMA Products ==
  ASSUME NEW i \in Nat
  PROVE  /\ i * Rate \in Nat /\ (i + 1) * Rate = i * Rate + Rate
         /\ 0 * Rate = 0
         /\ \A j \in Nat : j <= i => j * Rate <= i * Rate
         /\ i <= i * Rate /\ Rate * i = i * Rate
<1> USE RLAssumption
<1>1. i * Rate \in Nat /\ (i + 1) * Rate = i * Rate + Rate /\ 0 * Rate = 0
  OBVIOUS
<1>2. ASSUME NEW j \in Nat, j <= i PROVE j * Rate <= i * Rate
  <2>1. (i - j) * Rate \in Nat
    BY <1>2
  <2>2. i * Rate = j * Rate + (i - j) * Rate
    BY <1>2
  <2>3. j * Rate \in Nat
    OBVIOUS
  <2> QED
    BY <2>1, <2>2, <2>3
<1>3. i <= i * Rate
  <2>1. i * (Rate - 1) \in Nat
    OBVIOUS
  <2>2. i * Rate = i + i * (Rate - 1)
    OBVIOUS
  <2> QED
    BY <2>1, <2>2
<1> QED
  BY <1>1, <1>2, <1>3

\* A bucket never holds more than the burst.
LEMMA RefilledType ==
  ASSUME TypeOK, NEW b \in Buckets PROVE Refilled(b) \in 0 .. Burst
<1>1. tokens[b] \in Nat /\ idle[b] \in Nat
  BY RLAssumption DEF TypeOK, Long
<1>2. idle[b] * Rate \in Nat
  BY <1>1, Products
<1> QED
  BY <1>1, <1>2, RLAssumption DEF Refilled, Capped

\* There are no more orphans than workers.
LEMMA OrphansType ==
  ASSUME NEW S \in SUBSET Workers
  PROVE  /\ N \in Nat /\ IsFiniteSet(S) /\ Cardinality(S) \in Nat /\ Cardinality(S) <= N
BY RLAssumption, FS_Subset, FS_CardinalityType DEF N
-----------------------------------------------------------------------------
(* The limiter's steps preserve its types and the owners of buckets.       *)

\* Types: refilled and charged, a bucket holds between nothing and the burst.
LEMMA TypeStep == ASSUME TypeOK, [Next]_vars PROVE TypeOK'
<1> USE RLAssumption DEF TypeOK
<1>1. ASSUME NEW w \in Workers, NEW c \in Clients, Lookup(w, c) \/ Miss(w, c)
      PROVE  TypeOK'
  BY <1>1 DEF Lookup, Miss, Free
<1>2. ASSUME NEW w \in Workers, SecondLook(w) PROVE TypeOK'
  BY <1>2 DEF SecondLook, NewTokenBucket, Long
<1>3. ASSUME NEW w \in Workers, Take(w) PROVE TypeOK'
  <2>1. ptr[w] \in Buckets
    BY <1>3 DEF Take
  <2>2. Refilled(ptr[w]) \in 0 .. Burst
    BY <2>1, RefilledType
  <2>3. (IF Granted(w) THEN Refilled(ptr[w]) - 1 ELSE Refilled(ptr[w])) \in 0 .. Burst
    BY <2>2 DEF Granted
  <2> QED
    BY <1>3, <2>1, <2>3 DEF Take, Long
<1>4. CASE PerformCleanup
  BY <1>4 DEF PerformCleanup, Drop
<1>5. CASE Tick
  <2>1. idle' \in [Buckets -> 0 .. Long]
    BY <1>5 DEF Tick, Long
  <2>2. credit' \in [Clients -> Int]
    BY <1>5 DEF Tick, Capped
  <2> QED
    BY <1>5, <2>1, <2>2 DEF Tick
<1>6. CASE UNCHANGED vars
  BY <1>6 DEF vars
<1> QED
  BY <1>1, <1>2, <1>3, <1>4, <1>5, <1>6 DEF Next

\* A new bucket is nobody's; a cleanup only takes buckets away.
LEMMA BucketsStep == ASSUME TypeOK, BucketsInv, [Next]_vars PROVE BucketsInv'
<1> USE RLAssumption DEF TypeOK, BucketsInv
<1>1. ASSUME NEW w \in Workers, NEW c \in Clients, Lookup(w, c) \/ Miss(w, c)
      PROVE  BucketsInv'
  BY <1>1 DEF Lookup, Miss, Free
<1>2. ASSUME NEW w \in Workers, SecondLook(w) PROVE BucketsInv'
  BY <1>2 DEF SecondLook, NewTokenBucket, InUse
<1>3. ASSUME NEW w \in Workers, Take(w) PROVE BucketsInv'
  BY <1>3 DEF Take
<1>4. CASE PerformCleanup
  BY <1>4 DEF PerformCleanup, Drop
<1>5. CASE Tick
  BY <1>5 DEF Tick
<1>6. CASE UNCHANGED vars
  BY <1>6 DEF vars
<1> QED
  BY <1>1, <1>2, <1>3, <1>4, <1>5, <1>6 DEF Next
-----------------------------------------------------------------------------
(* The limiter's steps preserve its credit.                                *)

\* What is known of a client's credit in numbers.
LEMMA CreditNumbers ==
  ASSUME TypeOK, NEW c \in Clients
  PROVE  /\ credit[c] \in Int /\ N \in Nat /\ Burst \in Nat /\ Rate \in Nat \ {0}
         /\ Available(c) \in 0 .. Burst
         /\ Cardinality(Orphans(c)) \in 0 .. N
         /\ buckets[c] # Nil => /\ buckets[c] \in Buckets
                               /\ idle[buckets[c]] \in Nat /\ idle[buckets[c]] <= Long
                               /\ tokens[buckets[c]] \in Nat
<1>1. Orphans(c) \in SUBSET Workers
  BY DEF Orphans
<1>2. N \in Nat /\ Cardinality(Orphans(c)) \in 0 .. N
  BY <1>1, OrphansType
<1>3. Available(c) \in 0 .. Burst
  BY RefilledType, RLAssumption DEF Available, TypeOK
<1> QED
  BY <1>2, <1>3, RLAssumption DEF TypeOK, Long

\* What leaves a client's bucket, its credit and its orphans alone.
LEMMA SameCredit ==
  ASSUME TypeOK, NEW c \in Clients, Covered(c), Recovered(c), Instant(c),
         buckets'[c] = buckets[c], credit'[c] = credit[c], Orphans(c)' = Orphans(c),
         buckets[c] # Nil => /\ tokens'[buckets[c]] = tokens[buckets[c]]
                             /\ idle'[buckets[c]] = idle[buckets[c]]
  PROVE  Covered(c)' /\ Recovered(c)' /\ Instant(c)'
<1>1. Available(c)' = Available(c)
  BY DEF Available, Refilled
<1> QED
  BY <1>1 DEF Covered, Recovered, Instant

\* A bucket whose idle time is zero owes nothing to the time gone by.
LEMMA JustUsed ==
  ASSUME TypeOK, NEW c \in Clients, NEW x \in Int, x + N >= 0
  PROVE  x >= Capped(0 * Rate - N)
<1>1. 0 * Rate = 0 /\ N \in Nat /\ Burst \in Nat
  BY CreditNumbers, Products
<1>2. Capped(0 * Rate - N) = 0 - N
  BY <1>1 DEF Capped
<1> QED
  BY <1>1, <1>2

\* A worker that looks and finds the client's bucket, or finds none, is no orphan.
Looked(w) ==
  /\ UNCHANGED <<buckets, tokens, idle, credit>>
  /\ \A v \in Workers \ {w} : ptr'[v] = ptr[v] /\ client'[v] = client[v]
  /\ ptr[w] = Nil /\ ptr'[w] \in {Nil, buckets[client'[w]]}

LEMMA LookIsLooked ==
  ASSUME TypeOK, NEW w \in Workers,
         (\E c \in Clients : Lookup(w, c) \/ Miss(w, c))
           \/ (SecondLook(w) /\ buckets[client[w]] # Nil)
  PROVE  Looked(w) /\ raced' = raced
BY DEF TypeOK, Lookup, Miss, Free, SecondLook, Looked

\* A look makes no orphan.
LEMMA LookupStep ==
  ASSUME TypeOK, CreditInv, NEW w \in Workers, Looked(w)
  PROVE  CreditInv'
<1> SUFFICES ASSUME NEW d \in Clients PROVE Covered(d)' /\ Recovered(d)' /\ Instant(d)'
  BY DEF CreditInv
<1>1. Orphans(d)' = Orphans(d)
  BY DEF TypeOK, Looked, Orphans
<1> QED
  BY <1>1, SameCredit DEF CreditInv, Looked

\* A new bucket is full, as the client without a bucket was taken to be.
LEMMA NewBucketStep ==
  ASSUME TypeOK, CreditInv, NEW w \in Workers, NEW c \in Clients, c = client[w],
         SecondLook(w), buckets[c] = Nil
  PROVE  CreditInv'
<1> SUFFICES ASSUME NEW d \in Clients PROVE Covered(d)' /\ Recovered(d)' /\ Instant(d)'
  BY DEF CreditInv
<1>1. PICK b \in Buckets :
        /\ ~InUse(b)
        /\ buckets' = [buckets EXCEPT ![c] = b]
        /\ tokens' = [tokens EXCEPT ![b] = Burst]
        /\ idle' = [idle EXCEPT ![b] = 0]
        /\ ptr' = [ptr EXCEPT ![w] = b]
  BY DEF SecondLook, NewTokenBucket
<1>2. b # Nil
  BY RLAssumption
<1>3. /\ ptr[w] = Nil /\ buckets[c] = Nil /\ credit' = credit
      /\ client' = client /\ client[w] = c
  BY DEF SecondLook, TypeOK
<1>4. Orphans(d)' = Orphans(d)
  BY <1>1, <1>2, <1>3 DEF TypeOK, Orphans, InUse
<1>5. CASE d # c
  <2>1. buckets'[d] = buckets[d] /\ buckets[d] # b
    BY <1>1, <1>5 DEF TypeOK, InUse
  <2> QED
    BY <1>1, <1>3, <1>4, <2>1, SameCredit DEF CreditInv, TypeOK
<1>6. CASE d = c
  <2>1. buckets'[d] = b /\ tokens'[b] = Burst /\ idle'[b] = 0
    BY <1>1, <1>6 DEF TypeOK
  <2>2. Available(d)' = Burst
    <3>1. Refilled(b)' = Capped(Burst + 0 * Rate)
      BY <2>1 DEF Refilled, Capped
    <3> QED
      BY <1>2, <2>1, <3>1, Products, RLAssumption DEF Available, Capped
  <2>3. Available(d) = Burst
    BY <1>3, <1>6 DEF Available
  <2>4. Covered(d)'
    BY <1>3, <1>4, <2>2, <2>3 DEF CreditInv, Covered
  <2>5. credit[d] + N >= 0
    BY <2>3, CreditNumbers DEF CreditInv, Covered
  <2>6. Recovered(d)'
    BY <1>3, <2>1, <2>5, CreditNumbers, JustUsed DEF Recovered, Capped
  <2> QED
    BY <2>1, <2>4, <2>6 DEF Instant
<1> QED
  BY <1>5, <1>6

\* A request is charged to the client's bucket or by an orphan, who is then none.
LEMMA TakeStep ==
  ASSUME TypeOK, BucketsInv, CreditInv, NEW w \in Workers, Take(w)
  PROVE  CreditInv'
<1> SUFFICES ASSUME NEW d \in Clients PROVE Covered(d)' /\ Recovered(d)' /\ Instant(d)'
  BY DEF CreditInv
<1> PICK b \in Buckets : b = ptr[w]
  BY DEF TypeOK, Take
<1> PICK paid \in 0 .. 1 : paid = IF Granted(w) THEN 1 ELSE 0
  OBVIOUS
<1>1. /\ b \in Buckets /\ b # Nil /\ buckets' = buckets /\ client' = client
      /\ ptr' = [ptr EXCEPT ![w] = Nil]
      /\ idle' = [idle EXCEPT ![b] = 0]
  BY DEF TypeOK, Take
<1>2. Refilled(b) \in 0 .. Burst /\ paid \in 0 .. 1
  BY <1>1, RefilledType
<1>3. tokens'[b] = Refilled(b) - paid /\ \A a \in Buckets \ {b} : tokens'[a] = tokens[a]
  BY <1>1, <1>2 DEF TypeOK, Take
<1>4. credit'[d] = credit[d] - (IF d = client[w] THEN paid ELSE 0)
  BY <1>1 DEF TypeOK, Take
<1>5. /\ credit[d] \in Int /\ N \in Nat /\ Available(d) \in 0 .. Burst
      /\ Cardinality(Orphans(d)) \in 0 .. N
  BY CreditNumbers
<1>6. Covered(d) /\ Recovered(d) /\ Instant(d)
  BY DEF CreditInv
<1>7. CASE d # client[w]
  <2>1. Orphans(d)' = Orphans(d)
    BY <1>1, <1>7 DEF Orphans, TypeOK
  <2>2. buckets[d] # b
    BY <1>1, <1>7 DEF BucketsInv
  <2>3. credit'[d] = credit[d]
    BY <1>4, <1>5, <1>7
  <2>4. buckets[d] # Nil => tokens'[buckets[d]] = tokens[buckets[d]]
                            /\ idle'[buckets[d]] = idle[buckets[d]]
    BY <1>1, <1>3, <2>2 DEF TypeOK
  <2> QED
    BY <1>1, <1>6, <2>1, <2>3, <2>4, SameCredit
<1>8. CASE d = client[w] /\ buckets[d] = b
  <2>1. Orphans(d)' = Orphans(d)
    BY <1>1, <1>8 DEF Orphans, TypeOK
  <2>2. idle'[b] = 0
    BY <1>1 DEF TypeOK
  <2>3. Available(d) = Refilled(b)
    BY <1>1, <1>8 DEF Available
  <2>4. Available(d)' = Refilled(b) - paid
    <3>1. Refilled(b)' = Capped(Refilled(b) - paid + 0 * Rate)
      BY <1>3, <2>2 DEF Refilled, Capped
    <3>2. Refilled(b) - paid \in Int /\ Refilled(b) - paid <= Burst
      BY <1>2, RLAssumption
    <3>3. Capped(Refilled(b) - paid + 0 * Rate) = Refilled(b) - paid
      <4> DEFINE r == Refilled(b) - paid
      <4>1. r \in Int /\ r <= Burst /\ 0 * Rate = 0
        BY <3>2, Products
      <4> HIDE DEF r
      <4>2. Capped(r + 0 * Rate) = r
        BY <4>1, RLAssumption DEF Capped
      <4> QED
        BY <4>2 DEF r
    <3> QED
      BY <1>1, <1>8, <3>1, <3>3 DEF Available
  <2>5. credit'[d] + N >= (Refilled(b) - paid) + Cardinality(Orphans(d))
    BY <1>2, <1>4, <1>5, <1>6, <1>8, <2>3 DEF Covered
  <2>6. Covered(d)'
    BY <2>1, <2>4, <2>5 DEF Covered
  <2>7. credit'[d] \in Int /\ credit'[d] + N >= 0
    <3>1. Refilled(b) - paid >= 0
      BY <1>1, <1>2 DEF Granted
    <3> QED
      BY <1>2, <1>4, <1>5, <2>5, <3>1
  <2>8. Recovered(d)'
    BY <1>1, <1>8, <2>2, <2>7, JustUsed DEF Recovered, Capped
  <2> QED
    BY <1>1, <1>8, <2>2, <2>6, <2>8 DEF Instant
<1>9. CASE d = client[w] /\ buckets[d] # b
  <2>1. Orphans(d)' = Orphans(d) \ {w} /\ w \in Orphans(d)
    BY <1>1, <1>9 DEF Orphans, TypeOK
  <2>2. Cardinality(Orphans(d))' = Cardinality(Orphans(d)) - 1
    <3>1. Orphans(d) \in SUBSET Workers
      BY DEF Orphans
    <3>2. IsFiniteSet(Orphans(d))
      BY <3>1, OrphansType
    <3> QED
      BY <2>1, <3>2, FS_RemoveElement
  <2>3. buckets'[d] = Nil \/ (buckets'[d] \in Buckets /\ idle'[buckets'[d]] = 0)
    BY <1>1, <1>6, <2>1 DEF Instant, TypeOK
  <2>4. Available(d)' = Available(d)
    <3>1. buckets[d] # Nil => tokens'[buckets[d]] = tokens[buckets[d]]
                              /\ idle'[buckets[d]] = idle[buckets[d]]
      BY <1>1, <1>3, <1>9 DEF TypeOK
    <3> QED
      BY <1>1, <3>1 DEF Available, Refilled
  <2>5. Covered(d)'
    BY <1>2, <1>4, <1>5, <1>6, <1>9, <2>2, <2>4 DEF Covered
  <2>6. credit'[d] \in Int /\ credit'[d] + N >= 0
    <3>1. Cardinality(Orphans(d)) >= 1
      BY <1>5, <2>1, FS_EmptySet, OrphansType DEF Orphans
    <3> QED
      BY <1>2, <1>4, <1>5, <1>6, <1>9, <3>1 DEF Covered
  <2>7. Recovered(d)'
    BY <2>3, <2>6, JustUsed DEF Recovered, Capped
  <2> QED
    BY <2>3, <2>5, <2>7 DEF Instant
<1> QED
  BY <1>7, <1>8, <1>9

\* A bucket is dropped when its client's credit is whole again: whoever still
\* holds it, the N workers at most, may charge it once more each.
LEMMA CleanupStep ==
  ASSUME TypeOK, CreditInv, SlowCleanup, PerformCleanup
  PROVE  CreditInv'
<1> SUFFICES ASSUME NEW d \in Clients PROVE Covered(d)' /\ Recovered(d)' /\ Instant(d)'
  BY DEF CreditInv
<1>1. /\ UNCHANGED <<tokens, idle, ptr, client, credit>>
      /\ buckets'[d] = IF buckets[d] # Nil /\ idle[buckets[d]] > Cutoff THEN Nil
                       ELSE buckets[d]
  BY DEF PerformCleanup, Drop
<1>2. Covered(d) /\ Recovered(d) /\ Instant(d)
  BY DEF CreditInv
<1>3. CASE buckets'[d] = buckets[d]
  <2>1. Orphans(d)' = Orphans(d)
    BY <1>1, <1>3 DEF Orphans
  <2> QED
    BY <1>1, <1>2, <1>3, <2>1, SameCredit
<1>4. CASE buckets'[d] # buckets[d]
  <2> DEFINE i == idle[buckets[d]]
  <2>1. buckets[d] # Nil /\ i > Cutoff /\ buckets'[d] = Nil
    BY <1>1, <1>4
  <2>2. /\ i \in Nat /\ credit[d] \in Int /\ N \in Nat /\ Burst \in Nat /\ Cutoff \in Nat
    BY <2>1, CreditNumbers, RLAssumption
  <2> HIDE DEF i
  <2>3. i * Rate \in Nat /\ Cutoff * Rate <= i * Rate /\ Rate * Cutoff = Cutoff * Rate
    BY <2>1, <2>2, Products
  <2>4. Rate * Cutoff \in Nat
    BY <2>2, <2>3, Products
  <2>5. i * Rate - N >= Burst
    BY <2>2, <2>3, <2>4 DEF SlowCleanup
  <2>6. Capped(i * Rate - N) = Burst
    BY <2>2, <2>3, <2>5 DEF Capped
  <2>7. credit[d] >= Burst
    BY <1>2, <2>1, <2>6 DEF Recovered, i
  <2>8. Available(d)' = Burst
    BY <2>1 DEF Available
  <2>9. Cardinality(Orphans(d)') \in Nat /\ Cardinality(Orphans(d)') <= N
    <3>1. Orphans(d)' \in SUBSET Workers
      BY DEF Orphans
    <3> QED
      BY <3>1, OrphansType
  <2>10. Covered(d)'
    BY <1>1, <2>2, <2>7, <2>8, <2>9 DEF Covered
  <2> QED
    BY <2>1, <2>10 DEF Recovered, Instant
<1> QED
  BY <1>3, <1>4

\* A tick refills a bucket for one more tick, or it was full before.
LEMMA TickRefills ==
  ASSUME TypeOK, Tick, NEW d \in Clients, buckets[d] # Nil
  PROVE  \E x \in Nat, y \in Nat, t \in Nat :
           /\ x = idle[buckets[d]] * Rate /\ y = idle'[buckets[d]] * Rate
           /\ y = x + Rate \/ (y = x /\ x >= Burst)
           /\ Available(d) = Capped(t + x) /\ Available(d)' = Capped(t + y)
<1> PICK b \in Buckets : b = buckets[d]
  BY DEF TypeOK
<1> PICK i \in Nat : i = idle[b] /\ i <= Long
  BY CreditNumbers
<1> PICK j \in Nat : j = idle'[b] /\ j = IF i < Long THEN i + 1 ELSE Long
  <2>1. InUse(b)
    BY DEF InUse
  <2>2. idle'[b] = IF i < Long THEN i + 1 ELSE Long
    BY <2>1 DEF Tick
  <2>3. Long \in Nat
    BY RLAssumption DEF Long
  <2> QED
    BY <2>2, <2>3
<1> PICK t \in Nat : t = tokens[b]
  BY RLAssumption DEF TypeOK
<1>1. /\ i * Rate \in Nat /\ j * Rate \in Nat
      /\ j * Rate = i * Rate + Rate \/ (j = i /\ i * Rate >= Burst)
  <2>1. CASE i < Long
    <3>1. j = i + 1
      BY <2>1
    <3> QED
      BY <3>1, Products
  <2>2. CASE ~(i < Long)
    <3>1. Long \in Nat /\ Long >= Burst /\ Burst \in Nat
      BY RLAssumption DEF Long
    <3>2. i = Long /\ j = Long
      BY <2>2, <3>1
    <3>3. i <= i * Rate /\ i * Rate \in Nat
      BY Products
    <3> QED
      BY <3>1, <3>2, <3>3
  <2> QED
    BY <2>1, <2>2
<1>2. Available(d) = Capped(t + i * Rate) /\ Available(d)' = Capped(t + j * Rate)
  BY DEF Available, Refilled, Capped, Tick
<1> DEFINE x == i * Rate
           y == j * Rate
<1>3. /\ x \in Nat /\ y \in Nat /\ x = idle[buckets[d]] * Rate
      /\ y = idle'[buckets[d]] * Rate
      /\ y = x + Rate \/ (y = x /\ x >= Burst)
      /\ Available(d) = Capped(t + x) /\ Available(d)' = Capped(t + y)
  BY <1>1, <1>2
<1> HIDE DEF x, y
<1> QED
  BY <1>3

\* Time passes when no worker holds a bucket: bucket and ideal bucket refill alike.
LEMMA TickStep ==
  ASSUME TypeOK, CreditInv, Tick
  PROVE  CreditInv'
<1> SUFFICES ASSUME NEW d \in Clients PROVE Covered(d)' /\ Recovered(d)' /\ Instant(d)'
  BY DEF CreditInv
<1>1. Orphans(d) = {} /\ Orphans(d)' = {} /\ Cardinality({}) = 0
  BY FS_EmptySet DEF Tick, Free, Orphans
<1>2. Covered(d) /\ Recovered(d)
  BY DEF CreditInv
<1>3. /\ credit[d] \in Int /\ N \in Nat /\ Burst \in Nat /\ Rate \in Nat \ {0}
      /\ Available(d) \in 0 .. Burst
  BY CreditNumbers
<1>4. /\ credit'[d] = Capped(credit[d] + Rate) /\ UNCHANGED <<buckets, tokens, ptr>>
  BY DEF Tick
<1>5. credit[d] + N >= Available(d)
  BY <1>1, <1>2, <1>3 DEF Covered
<1>6. CASE buckets[d] = Nil
  <2>1. Available(d) = Burst /\ Available(d)' = Burst
    BY <1>4, <1>6 DEF Available
  <2>2. credit'[d] + N >= Burst
    BY <1>3, <1>4, <1>5, <2>1 DEF Capped
  <2>3. Covered(d)'
    BY <1>1, <1>3, <2>1, <2>2 DEF Covered
  <2> QED
    BY <1>1, <1>4, <1>6, <2>3 DEF Recovered, Instant
<1>7. CASE buckets[d] # Nil
  <2> PICK x \in Nat, y \in Nat, t \in Nat :
        /\ x = idle[buckets[d]] * Rate /\ y = idle'[buckets[d]] * Rate
        /\ y = x + Rate \/ (y = x /\ x >= Burst)
        /\ Available(d) = Capped(t + x) /\ Available(d)' = Capped(t + y)
    BY <1>7, TickRefills
  <2>1. credit[d] >= Capped(x - N)
    BY <1>2, <1>7 DEF Recovered
  <2>2. Covered(d)'
    <3>1. Capped(credit[d] + Rate) + N >= Capped(t + y) + 0
      BY <1>3, <1>5 DEF Capped
    <3> QED
      BY <1>1, <1>4, <3>1 DEF Covered
  <2>3. Recovered(d)'
    <3>1. Capped(credit[d] + Rate) >= Capped(y - N)
      BY <1>3, <2>1 DEF Capped
    <3> QED
      BY <1>4, <3>1 DEF Recovered, Capped
  <2> QED
    BY <1>1, <2>2, <2>3 DEF Instant
<1> QED
  BY <1>6, <1>7

-----------------------------------------------------------------------------
(* The limiter's steps preserve the one bucket of clients without a race.  *)

\* What leaves a client's bucket, its credit and its orphans alone.
LEMMA SameOneBucket ==
  ASSUME NEW c \in Clients, OneBucket(c), c \in raced => c \in raced',
         buckets'[c] = buckets[c], credit'[c] = credit[c], Orphans(c)' = Orphans(c),
         buckets[c] # Nil => /\ tokens'[buckets[c]] = tokens[buckets[c]]
                             /\ idle'[buckets[c]] = idle[buckets[c]]
  PROVE  OneBucket(c)'
<1>1. Available(c)' = Available(c)
  BY DEF Available, Refilled
<1> QED
  BY <1>1 DEF OneBucket

\* Who looks finds the one bucket.
LEMMA FairLook ==
  ASSUME TypeOK, FairInv, NEW w \in Workers, Looked(w), raced' = raced
  PROVE  FairInv'
<1> SUFFICES ASSUME NEW d \in Clients PROVE OneBucket(d)'
  BY DEF FairInv
<1>1. Orphans(d)' = Orphans(d)
  BY DEF TypeOK, Looked, Orphans
<1> QED
  BY <1>1, SameOneBucket DEF FairInv, Looked

\* Who makes a bucket found none: the second look is what this rests on.
LEMMA FairNewBucket ==
  ASSUME TypeOK, FairInv, NEW w \in Workers, SecondLook(w), buckets[client[w]] = Nil
  PROVE  FairInv'
<1> SUFFICES ASSUME NEW d \in Clients PROVE OneBucket(d)'
  BY DEF FairInv
<1>1. PICK b \in Buckets :
        /\ ~InUse(b)
        /\ buckets' = [buckets EXCEPT ![client[w]] = b]
        /\ tokens' = [tokens EXCEPT ![b] = Burst]
        /\ idle' = [idle EXCEPT ![b] = 0]
        /\ ptr' = [ptr EXCEPT ![w] = b]
  BY DEF SecondLook, NewTokenBucket
<1>2. b # Nil
  BY RLAssumption
<1>3. ptr[w] = Nil /\ UNCHANGED <<credit, client, raced>>
  BY DEF SecondLook, TypeOK
<1>4. Orphans(d)' = Orphans(d)
  BY <1>1, <1>2, <1>3 DEF TypeOK, Orphans, InUse
<1>5. CASE d # client[w]
  <2>1. buckets'[d] = buckets[d] /\ buckets[d] # b
    BY <1>1, <1>5 DEF TypeOK, InUse
  <2> QED
    BY <1>1, <1>3, <1>4, <2>1, SameOneBucket DEF FairInv, TypeOK
<1>6. CASE d = client[w]
  <2>1. buckets'[d] = b /\ tokens'[b] = Burst /\ idle'[b] = 0
    BY <1>1, <1>6 DEF TypeOK
  <2>2. Available(d)' = Burst
    <3>1. Refilled(b)' = Capped(Burst + 0 * Rate)
      BY <2>1 DEF Refilled, Capped
    <3> QED
      BY <1>2, <2>1, <3>1, Products, RLAssumption DEF Available, Capped
  <2>3. Available(d) = Burst
    BY <1>6 DEF Available
  <2> QED
    BY <1>3, <1>4, <2>2, <2>3 DEF FairInv, OneBucket
<1> QED
  BY <1>5, <1>6

\* A client without a race is charged to its bucket.
LEMMA FairTake ==
  ASSUME TypeOK, BucketsInv, FairInv, NEW w \in Workers, Take(w)
  PROVE  FairInv'
<1> SUFFICES ASSUME NEW d \in Clients, d \notin raced
             PROVE  Orphans(d)' = {} /\ credit'[d] >= Available(d)'
  BY DEF FairInv, OneBucket, Take
<1> PICK b \in Buckets : b = ptr[w]
  BY DEF TypeOK, Take
<1> PICK paid \in 0 .. 1 : paid = IF Granted(w) THEN 1 ELSE 0
  OBVIOUS
<1>1. /\ b # Nil /\ buckets' = buckets /\ client' = client
      /\ ptr' = [ptr EXCEPT ![w] = Nil]
      /\ idle' = [idle EXCEPT ![b] = 0]
  BY DEF TypeOK, Take
<1>2. Orphans(d) = {} /\ credit[d] >= Available(d) /\ credit[d] \in Int
  BY DEF FairInv, OneBucket, TypeOK
<1>3. Orphans(d)' = {}
  BY <1>1, <1>2 DEF Orphans, TypeOK
<1>4. Refilled(b) \in 0 .. Burst /\ Burst \in Nat
  BY RefilledType, RLAssumption
<1>5. tokens'[b] = Refilled(b) - paid /\ \A a \in Buckets \ {b} : tokens'[a] = tokens[a]
  BY <1>4 DEF TypeOK, Take
<1>6. credit'[d] = credit[d] - (IF d = client[w] THEN paid ELSE 0)
  BY <1>1 DEF TypeOK, Take
<1>7. CASE d # client[w]
  <2>1. buckets[d] # b
    BY <1>1, <1>7 DEF BucketsInv
  <2>2. buckets[d] # Nil => tokens'[buckets[d]] = tokens[buckets[d]]
                            /\ idle'[buckets[d]] = idle[buckets[d]]
    BY <1>1, <1>5, <2>1 DEF TypeOK
  <2>3. Available(d)' = Available(d)
    BY <1>1, <2>2 DEF Available, Refilled
  <2> QED
    BY <1>2, <1>3, <1>6, <1>7, <2>3
<1>8. CASE d = client[w]
  <2>1. buckets[d] = b
    BY <1>1, <1>2, <1>8 DEF Orphans
  <2>2. Available(d) = Refilled(b)
    BY <1>1, <2>1 DEF Available
  <2>3. idle'[b] = 0
    BY <1>1 DEF TypeOK
  <2> DEFINE r == Refilled(b) - paid
  <2>4. Refilled(b)' = Capped(r + 0 * Rate)
    BY <1>5, <2>3 DEF Refilled, Capped
  <2>5. r \in Int /\ r <= Burst /\ 0 * Rate = 0
    BY <1>4, Products
  <2>6. Available(d)' = Capped(r + 0 * Rate)
    BY <1>1, <2>1, <2>4 DEF Available
  <2> HIDE DEF r
  <2>7. Available(d)' = r
    BY <1>4, <2>5, <2>6 DEF Capped
  <2>8. credit'[d] >= r
    BY <1>2, <1>4, <1>6, <1>8, <2>2 DEF r
  <2> QED
    BY <1>3, <2>7, <2>8
<1> QED
  BY <1>7, <1>8

\* A bucket that is dropped while nobody holds it is as good as none.
LEMMA FairCleanup ==
  ASSUME TypeOK, FairInv, FullWhenDropped, PerformCleanup
  PROVE  FairInv'
<1> SUFFICES ASSUME NEW d \in Clients PROVE OneBucket(d)'
  BY DEF FairInv
<1> DEFINE dropped == buckets[d] # Nil /\ idle[buckets[d]] > Cutoff
<1>1. /\ UNCHANGED <<tokens, idle, ptr, client, credit>>
      /\ buckets'[d] = IF dropped THEN Nil ELSE buckets[d]
      /\ raced \subseteq raced'
      /\ dropped /\ d \notin raced' => \A w \in Workers : ptr[w] # buckets[d]
  BY DEF PerformCleanup, Drop
<1>2. OneBucket(d)
  BY DEF FairInv
<1>3. CASE ~dropped
  <2>1. Orphans(d)' = Orphans(d)
    BY <1>1, <1>3 DEF Orphans
  <2> QED
    BY <1>1, <1>2, <1>3, <2>1, SameOneBucket
<1>4. CASE dropped /\ d \notin raced'
  <2>1. Orphans(d) = {} /\ credit[d] >= Available(d)
    BY <1>1, <1>2, <1>4 DEF OneBucket
  <2>2. Orphans(d)' = {}
    BY <1>1, <1>4, <2>1 DEF Orphans
  <2> PICK i \in Nat, t \in Nat, x \in Nat :
        i = idle[buckets[d]] /\ t = tokens[buckets[d]] /\ x = i * Rate
    BY <1>4, CreditNumbers, Products
  <2>3. Cutoff \in Nat /\ Rate * Cutoff = Cutoff * Rate /\ Cutoff * Rate \in Nat
    BY RLAssumption, Products
  <2>4. Cutoff * Rate <= x
    BY <1>4, <2>3, Products
  <2>5. x >= Burst /\ Burst \in Nat
    BY <2>3, <2>4, RLAssumption DEF FullWhenDropped
  <2>6. Available(d) = Capped(t + x)
    BY <1>4 DEF Available, Refilled
  <2>7. Available(d) = Burst
    BY <2>5, <2>6 DEF Capped
  <2>8. Available(d)' = Burst
    BY <1>1, <1>4 DEF Available
  <2> QED
    BY <1>1, <2>1, <2>2, <2>7, <2>8 DEF OneBucket
<1>5. CASE dropped /\ d \in raced'
  BY <1>5 DEF OneBucket
<1> QED
  BY <1>3, <1>4, <1>5

\* The bucket refills no faster than the ideal one.
LEMMA FairTick ==
  ASSUME TypeOK, FairInv, Tick
  PROVE  FairInv'
<1> SUFFICES ASSUME NEW d \in Clients, d \notin raced
             PROVE  Orphans(d)' = {} /\ credit'[d] >= Available(d)'
  BY DEF FairInv, OneBucket, Tick
<1>1. Orphans(d)' = {}
  BY DEF Tick, Free, Orphans
<1>2. credit[d] >= Available(d)
  BY DEF FairInv, OneBucket
<1>3. /\ credit[d] \in Int /\ Burst \in Nat /\ Rate \in Nat \ {0}
      /\ Available(d) \in 0 .. Burst
  BY CreditNumbers
<1>4. /\ credit'[d] = Capped(credit[d] + Rate) /\ UNCHANGED <<buckets, tokens, ptr>>
  BY DEF Tick
<1>5. CASE buckets[d] = Nil
  <2>1. Available(d) = Burst /\ Available(d)' = Burst
    BY <1>4, <1>5 DEF Available
  <2> QED
    BY <1>1, <1>2, <1>3, <1>4, <2>1 DEF Capped
<1>6. CASE buckets[d] # Nil
  <2> PICK x \in Nat, y \in Nat, t \in Nat :
        /\ y = x + Rate \/ (y = x /\ x >= Burst)
        /\ Available(d) = Capped(t + x) /\ Available(d)' = Capped(t + y)
    BY <1>6, TickRefills
  <2>1. Capped(credit[d] + Rate) >= Capped(t + y)
    BY <1>2, <1>3 DEF Capped
  <2> QED
    BY <1>1, <1>4, <2>1
<1> QED
  BY <1>5, <1>6

\* Every step of the limiter preserves its invariant.
LEMMA LimiterStep == ASSUME LimiterInv, [Next]_vars PROVE LimiterInv'
<1> USE DEF LimiterInv
<1>1. TypeOK' /\ BucketsInv'
  BY TypeStep, BucketsStep
<1>2. SlowCleanup' = SlowCleanup
  BY DEF SlowCleanup, N
<1>3. ASSUME CreditInv, UNCHANGED vars PROVE CreditInv'
  BY <1>3 DEF CreditInv, Covered, Recovered, Instant, Orphans, Available, Refilled, vars
<1>4. ASSUME FairInv, UNCHANGED vars PROVE FairInv'
  BY <1>4 DEF FairInv, OneBucket, Orphans, Available, Refilled, vars
<1>5. ASSUME NEW w \in Workers, SecondLook(w), buckets[client[w]] = Nil
      PROVE  /\ CreditInv => CreditInv'
             /\ FairInv => FairInv'
  <2>1. client[w] \in Clients
    BY DEF TypeOK
  <2> QED
    BY <1>5, <2>1, NewBucketStep, FairNewBucket
<1>6. ASSUME NEW w \in Workers, Looked(w), raced' = raced
      PROVE  /\ CreditInv => CreditInv'
             /\ FairInv => FairInv'
  BY <1>6, LookupStep, FairLook
<1>7. \/ \E w \in Workers : Looked(w) /\ raced' = raced
      \/ \E w \in Workers : SecondLook(w) /\ buckets[client[w]] = Nil
      \/ \E w \in Workers : Take(w)
      \/ PerformCleanup \/ Tick \/ UNCHANGED vars
  BY LookIsLooked DEF Next
<1>8. ASSUME SlowCleanup PROVE CreditInv'
  BY <1>3, <1>5, <1>6, <1>7, <1>8, TakeStep, CleanupStep, TickStep
<1>9. ASSUME FullWhenDropped PROVE FairInv'
  BY <1>4, <1>5, <1>6, <1>7, <1>9, FairTake, FairCleanup, FairTick
<1>10. FullWhenDropped' = FullWhenDropped
  BY DEF FullWhenDropped
<1> QED
  BY <1>1, <1>2, <1>8, <1>9, <1>10

\* With a full credit nobody has asked yet.
LEMMA LimiterInit == Init => LimiterInv
<1> SUFFICES ASSUME Init PROVE LimiterInv
  OBVIOUS
<1>1. TypeOK
  BY RLAssumption DEF Init, TypeOK, Long
<1>2. BucketsInv
  BY DEF Init, BucketsInv
<1>3. ASSUME NEW c \in Clients PROVE Covered(c) /\ Recovered(c) /\ Instant(c)
  <2>1. Orphans(c) = {} /\ Cardinality({}) = 0
    BY FS_EmptySet DEF Init, Orphans
  <2>2. N \in Nat /\ Burst \in Nat
    BY <1>1, CreditNumbers
  <2> QED
    BY <2>1, <2>2 DEF Init, Covered, Recovered, Instant, Available
<1>4. ASSUME NEW c \in Clients PROVE OneBucket(c)
  BY RLAssumption DEF Init, OneBucket, Orphans, Available
<1> QED
  BY <1>1, <1>2, <1>3, <1>4 DEF LimiterInv, CreditInv, FairInv

\* What the invariant says of the overrun.
LEMMA CreditBounded == LimiterInv => OverrunBounded
<1> SUFFICES ASSUME LimiterInv, SlowCleanup, NEW c \in Clients
             PROVE  credit[c] >= 0 - N
  BY DEF OverrunBounded, SlowCleanup, N
<1>1. Covered(c)
  BY DEF LimiterInv, CreditInv
<1> QED
  BY <1>1, CreditNumbers DEF LimiterInv, Covered

\* What it says of clients without a race.
LEMMA CreditFair == LimiterInv => OnlyCleanupOverruns
<1> SUFFICES ASSUME LimiterInv, FullWhenDropped, NEW c \in Clients, c \notin raced
             PROVE  credit[c] >= 0
  BY DEF OnlyCleanupOverruns, FullWhenDropped
<1>1. OneBucket(c)
  BY DEF LimiterInv, FairInv
<1> QED
  BY <1>1, CreditNumbers DEF LimiterInv, OneBucket
-----------------------------------------------------------------------------
(* Lemmas about FunctionCalls.                                             *)

\* A set of numbers has a least element.
LEMMA Smallest ==
  ASSUME NEW T \in SUBSET Nat, T # {} PROVE \E x \in T : \A y \in T : x <= y
<1> DEFINE R == OpToRel(<, Nat)
<1>1. IsWellFoundedOn(R, Nat)
  BY NatLessThanWellFounded
<1>2. \A x, y \in Nat : x < y => <<x, y>> \in R
  BY DEF OpToRel
<1> HIDE DEF R
<1>3. PICK x \in T : \A y \in T : ~(<<y, x>> \in R)
  BY <1>1, WFMin
<1>4. ASSUME NEW y \in T PROVE x <= y
  <2>1. x \in Nat /\ y \in Nat
    OBVIOUS
  <2>2. ~(y < x)
    BY <1>2, <1>3, <2>1
  <2> QED
    BY <2>1, <2>2
<1> QED
  BY <1>4

\* The outcome of several conversions is "ok" when all are, or else one of them.
LEMMA FirstFailureIs ==
  ASSUME NEW s, DOMAIN s \subseteq Nat
  PROVE  \/ FirstFailure(s) = "ok" /\ \A i \in DOMAIN s : s[i] = "ok"
         \/ \E i \in DOMAIN s : s[i] # "ok" /\ FirstFailure(s) = s[i]
<1> DEFINE bad == {i \in DOMAIN s : s[i] # "ok"}
<1>1. CASE bad = {}
  BY <1>1 DEF FirstFailure
<1>2. CASE bad # {}
  <2> DEFINE first == CHOOSE i \in bad : \A j \in bad : i <= j
  <2>1. \E i \in bad : \A j \in bad : i <= j
    BY <1>2, Smallest
  <2>2. first \in bad
    BY <2>1
  <2>3. FirstFailure(s) = s[first]
    BY <1>2 DEF FirstFailure
  <2> QED
    BY <2>2, <2>3
<1> QED
  BY <1>1, <1>2

\* A sequence is indexed from one to its length.
LEMMA SequenceDomain ==
  ASSUME NEW s, IsSequence(s)
  PROVE  Len(s) \in Nat /\ DOMAIN s = 1 .. Len(s) /\ DOMAIN s \subseteq Nat
BY LenProperties DEF IsSequence

\* The element type of a slice type is a type, plain if that was.
LEMMA ElemIsType ==
  ASSUME NEW type, IsType(type), Is("slice", type)
  PROVE  IsType(Elem(type)) /\ (Plain(type) => Plain(Elem(type)))
<1> DEFINE K == [kind : STRING, named : BOOLEAN]
<1>1. /\ type \in Seq(K) /\ type # <<>> /\ Len(type) \in Nat \ {0}
      /\ DOMAIN type = 1 .. Len(type)
  BY LenProperties, EmptySeq DEF IsType
<1>2. Len(type) >= 2
  BY <1>1, HeadTailProperties DEF IsType, Is
<1>3. /\ Tail(type) \in Seq(K) /\ Len(Tail(type)) = Len(type) - 1
      /\ DOMAIN Tail(type) = 1 .. Len(type) - 1
      /\ \A i \in 1 .. Len(type) - 1 : Tail(type)[i] = type[i + 1]
  BY <1>1, HeadTailProperties, LenProperties
<1> HIDE DEF K
<1>4. Tail(type) # <<>>
  <2>1. 1 \in DOMAIN Tail(type)
    BY <1>1, <1>2, <1>3
  <2>2. DOMAIN <<>> = {}
    OBVIOUS
  <2> QED
    BY <2>1, <2>2
<1>5. \A i \in DOMAIN Tail(type) :
        /\ Tail(type)[i].kind \in {"string", "int", "bool"} => i = Len(Tail(type))
        /\ Tail(type)[i].kind = "slice" => i < Len(Tail(type))
  <2> TAKE i \in DOMAIN Tail(type)
  <2>1. i + 1 \in DOMAIN type /\ Tail(type)[i] = type[i + 1]
    BY <1>1, <1>3
  <2>2. /\ type[i + 1].kind \in {"string", "int", "bool"} => i + 1 = Len(type)
        /\ type[i + 1].kind = "slice" => i + 1 < Len(type)
    BY <2>1 DEF IsType
  <2> QED
    BY <1>1, <1>3, <2>1, <2>2
<1>6. Plain(type) => Plain(Tail(type))
  BY <1>1, <1>3 DEF Plain
<1> QED
  BY <1>3, <1>4, <1>5, <1>6 DEF IsType, Elem, K

\* Of a plain type, what a conversion makes has that type.
LEMMA PlainConverted ==
  ASSUME NEW type, IsType(type), Plain(type), NEW v
  PROVE  Converted(v, type) = type
<1> DEFINE K == [kind : STRING, named : BOOLEAN]
<1>1. /\ type \in Seq(K) /\ type # <<>> /\ Len(type) \in Nat \ {0}
      /\ DOMAIN type = 1 .. Len(type) /\ Head(type) = type[1]
  BY LenProperties, EmptySeq, HeadTailProperties DEF IsType
<1>2. CASE Head(type).kind \in {"string", "int", "bool"}
  <2>1. Len(type) = 1
    BY <1>1, <1>2 DEF IsType
  <2>2. type[1] \in K /\ ~type[1].named
    <3>1. 1 \in DOMAIN type
      BY <1>1
    <3>2. ~type[1].named
      BY <3>1 DEF Plain
    <3>3. type[1] \in K
      BY <1>1, <3>1, ElementOfSeq
    <3> QED
      BY <3>2, <3>3
  <2>3. type[1] = Kind(type[1].kind)
    BY <2>2 DEF Kind
  <2>4. type = <<type[1]>>
    BY <1>1, <2>1
  <2> QED
    BY <1>1, <2>3, <2>4 DEF Converted
<1>3. CASE Head(type).kind \notin {"string", "int", "bool"}
  BY <1>3 DEF Converted
<1> QED
  BY <1>2, <1>3

\* A value is made into a type, or cannot be, or is put in the wrong kind of slice.
LEMMA ConvertIs ==
  ASSUME NEW v, v.kind = "slice" => IsSequence(v.elems), NEW type, IsType(type)
  PROVE  /\ ConvertToType(v, type) \in {"ok", "error", "panic"}
         /\ ConvertToType(v, type) = "ok" => Represents(v, type)
         /\ ConvertToType(v, type) = "error" => ~Represents(v, type)
         /\ ConvertToType(v, type) = "panic" => ~Plain(type)
<1>1. CASE v.kind = "slice" /\ Is("slice", type) /\ TypeOf(v) # type
  <2> DEFINE out == [i \in DOMAIN v.elems |-> ConvertElement(v.elems[i], Elem(type))]
  <2>1. ConvertToType(v, type) = FirstFailure(out)
    BY <1>1 DEF ConvertToType
  <2>2. DOMAIN out = DOMAIN v.elems /\ DOMAIN out \subseteq Nat
    BY <1>1, SequenceDomain
  <2>3. ~Convertible(v, type)
    BY <1>1 DEF Convertible, Is
  <2>4. \A i \in DOMAIN out :
          /\ out[i] \in {"ok", "error", "panic"}
          /\ out[i] = "error" <=> ~Convertible(v.elems[i], Elem(type))
          /\ out[i] = "panic" => Converted(v.elems[i], Elem(type)) # Elem(type)
    BY DEF ConvertElement
  <2>5. Plain(type) => \A i \in DOMAIN out : out[i] # "panic"
    BY <1>1, <2>4, ElemIsType, PlainConverted
  <2> HIDE DEF out
  <2>6. CASE FirstFailure(out) = "ok" /\ \A i \in DOMAIN out : out[i] = "ok"
    BY <1>1, <2>1, <2>2, <2>4, <2>6 DEF Represents
  <2>7. CASE \E i \in DOMAIN out : out[i] # "ok" /\ FirstFailure(out) = out[i]
    <3> PICK i \in DOMAIN out : out[i] # "ok" /\ FirstFailure(out) = out[i]
      BY <2>7
    <3>1. out[i] = "error" => ~Represents(v, type)
      BY <2>2, <2>3, <2>4 DEF Represents
    <3> QED
      BY <2>1, <2>4, <2>5, <3>1
  <2> QED
    BY <2>2, <2>6, <2>7, FirstFailureIs
<1>2. CASE ~(v.kind = "slice" /\ Is("slice", type) /\ TypeOf(v) # type)
  <2>1. ConvertToType(v, type) = IF Convertible(v, type) THEN "ok" ELSE "error"
    BY <1>2 DEF ConvertToType
  <2>2. Represents(v, type) <=> Convertible(v, type)
    BY <1>2 DEF Represents, Convertible
  <2> QED
    BY <2>1, <2>2
<1> QED
  BY <1>1, <1>2

\* A call runs the function only with arguments that fit; it fails for no other
\* reason than that they do not or that it comes too late; and over an ordinary
\* signature nothing panics.
LEMMA ExecuteIs ==
  ASSUME NEW call, AreArguments(call.args), NEW expired \in BOOLEAN
  PROVE  LET outcome == ExecuteFunction(Registry, call, expired) IN
         /\ outcome \in {"run", "error", "panic"}
         /\ outcome = "run" => Fits(Registry, call)
         /\ outcome = "error" => expired \/ ~Fits(Registry, call)
         /\ outcome = "panic" => call.name \in DOMAIN Registry
                                /\ ~Ordinary(Registry[call.name])
<1>1. CASE expired \/ call.name \notin DOMAIN Registry
  BY <1>1 DEF ExecuteFunction, Fits
<1>2. CASE ~expired /\ call.name \in DOMAIN Registry
  <2> DEFINE f == Registry[call.name]
             args == call.args
             prepared == PrepareFunctionParams(args, f)
             out == [i \in DOMAIN args |-> ConvertToType(args[i], f.params[i])]
  <2>1. IsSequence(f.params) /\ \A i \in DOMAIN f.params : IsType(f.params[i])
    BY <1>2, HMAssumption
  <2>2. /\ IsSequence(args)
        /\ \A i \in DOMAIN args : args[i].kind = "slice" => IsSequence(args[i].elems)
    BY DEF AreArguments
  <2>3. ExecuteFunction(Registry, call, expired) =
          IF prepared # "ok" THEN prepared
          ELSE IF Callable(args, f) THEN "run" ELSE "panic"
    BY <1>2 DEF ExecuteFunction
  <2>4. Fits(Registry, call) <=>
          /\ Len(args) = Len(f.params)
          /\ \A i \in DOMAIN f.params : Represents(args[i], f.params[i])
    BY <1>2 DEF Fits
  <2>5. /\ DOMAIN args = 1 .. Len(args) /\ DOMAIN args \subseteq Nat
        /\ DOMAIN f.params = 1 .. Len(f.params)
    BY <2>1, <2>2, SequenceDomain
  <2>6. CASE Len(args) # Len(f.params)
    BY <2>3, <2>4, <2>6 DEF PrepareFunctionParams
  <2>7. CASE Len(args) = Len(f.params)
    <3>1. prepared = FirstFailure(out) /\ DOMAIN out = DOMAIN args
      BY <2>7 DEF PrepareFunctionParams
    <3>2. DOMAIN args = DOMAIN f.params
      BY <2>5, <2>7
    <3>3. \A i \in DOMAIN args :
            /\ out[i] \in {"ok", "error", "panic"}
            /\ out[i] = "ok" => Represents(args[i], f.params[i])
            /\ out[i] = "error" => ~Represents(args[i], f.params[i])
            /\ out[i] = "panic" => ~Plain(f.params[i])
      BY <2>1, <2>2, <3>2, ConvertIs
    <3>4. ~Callable(args, f) => ~Ordinary(f)
      BY <2>1, <3>2, PlainConverted DEF Callable, Ordinary
    <3> HIDE DEF out, prepared, f, args
    <3>5. CASE FirstFailure(out) = "ok" /\ \A i \in DOMAIN out : out[i] = "ok"
      <4>1. Fits(Registry, call)
        BY <2>4, <2>7, <3>1, <3>2, <3>3, <3>5
      <4> QED
        BY <1>2, <2>3, <3>1, <3>4, <3>5, <4>1 DEF f
    <3>6. CASE \E i \in DOMAIN out : out[i] # "ok" /\ FirstFailure(out) = out[i]
      <4> PICK i \in DOMAIN out : out[i] # "ok" /\ FirstFailure(out) = out[i]
        BY <3>6
      <4>1. out[i] = "error" => ~Fits(Registry, call)
        BY <2>4, <3>1, <3>2, <3>3
      <4>2. out[i] = "panic" => ~Ordinary(f)
        BY <3>1, <3>2, <3>3 DEF Ordinary
      <4>3. ExecuteFunction(Registry, call, expired) = out[i]
        BY <2>3, <3>1
      <4> QED
        BY <1>2, <3>1, <3>3, <4>1, <4>2, <4>3 DEF f
    <3>7. DOMAIN out \subseteq Nat
      BY <2>5, <3>1
    <3> QED
      BY <3>5, <3>6, <3>7, FirstFailureIs
  <2> QED
    BY <2>6, <2>7
<1> QED
  BY <1>1, <1>2
-----------------------------------------------------------------------------
(* HandleMessage.                                                          *)

\* The last answer is one a body can have.
LastOK == last \in [body : Bodies, ran : BOOLEAN, late : BOOLEAN, reply : Replies]

IInv == LimiterInv /\ LastOK /\ CallsFit /\ OnlyPingsUnanswered

\* A step with a body deals with that body, and uses the limiter as it may be used.
LEMMA BodyStep ==
  ASSUME LimiterInv, NEW w \in Workers, NEW m \in Bodies,
         Skip(w, m) \/ Ping(w, m) \/ Malformed(w, m) \/ Refuse(w, m) \/ Handle(w, m)
  PROVE  /\ [Next]_vars
         /\ LastOK' /\ CallsFit' /\ OnlyPingsUnanswered'
<1>1. [Next]_vars
  BY DEF Skip, Ping, Malformed, Refuse, Handle, Next
<1>2. ASSUME NEW ran \in BOOLEAN, NEW late \in BOOLEAN, NEW reply \in Replies,
             Answer(m, ran, late, reply)
      PROVE  /\ LastOK'
             /\ last'.body = m /\ last'.ran = ran /\ last'.reply = reply
             /\ last'.late = late
  BY <1>2 DEF Answer, LastOK
<1>3. ASSUME NEW ran \in BOOLEAN, NEW reply \in Replies, Done(m, ran, reply)
      PROVE  /\ LastOK'
             /\ last'.body = m /\ last'.ran = ran /\ last'.reply = reply
  BY <1>3, <1>2 DEF Done
<1>4. ASSUME NEW reply \in Replies, Done(m, FALSE, reply), reply \notin {"error", "panic"}
      PROVE  LastOK' /\ CallsFit'
  BY <1>3, <1>4 DEF CallsFit
<1>5. CASE Skip(w, m) \/ Ping(w, m) \/ Refuse(w, m)
  <2>1. PICK reply \in {"silence", "pong", "refused"} :
          /\ Done(m, FALSE, reply)
          /\ reply = "silence" => m.form = "empty" \/ (m.form = "ping" /\ ~m.sound)
    BY <1>5 DEF Skip, Ping, Refuse
  <2>2. reply \in Replies /\ reply \notin {"error", "panic"}
    BY DEF Replies
  <2> QED
    BY <1>1, <1>3, <1>4, <2>1, <2>2 DEF OnlyPingsUnanswered
<1>6. CASE Malformed(w, m)
  <2>1. Done(m, FALSE, "error") /\ m.form = "broken" /\ "error" \in Replies
    BY <1>6 DEF Malformed, Replies
  <2> QED
    BY <1>1, <1>3, <2>1 DEF OnlyPingsUnanswered, CallsFit
<1>7. CASE Handle(w, m)
  <2> USE DEF Replies
  <2>1. CASE m.type = "function" /\ HandleFunction(m)
    <3> PICK expired \in BOOLEAN :
          LET outcome == IF m.sound THEN ExecuteFunction(Registry, m.call, expired)
                         ELSE "error"
          IN IF outcome = "run" THEN RunFunction(m)
             ELSE Answer(m, FALSE, expired, outcome)
      BY <2>1 DEF HandleFunction
    <3> DEFINE outcome == IF m.sound THEN ExecuteFunction(Registry, m.call, expired)
                          ELSE "error"
    <3>1. m.form = "request" /\ AreArguments(m.call.args)
      BY <1>7, <2>1, HMAssumption DEF Handle
    <3>2. m.sound => /\ outcome \in {"run", "error", "panic"}
                     /\ outcome = "run" => Fits(Registry, m.call)
                     /\ outcome = "error" => expired \/ ~Fits(Registry, m.call)
                     /\ outcome = "panic" => ~Ordinary(Registry[m.call.name])
      BY <3>1, ExecuteIs
    <3>3. \/ outcome \in {"error", "panic"} /\ Answer(m, FALSE, expired, outcome)
          \/ outcome = "run" /\ m.sound /\ RunFunction(m)
      BY <3>2
    <3> HIDE DEF outcome
    <3>4. CASE outcome \in {"error", "panic"} /\ Answer(m, FALSE, expired, outcome)
      BY <1>1, <1>2, <3>1, <3>2, <3>4 DEF CallsFit, OnlyPingsUnanswered
    <3>5. CASE outcome = "run" /\ m.sound /\ RunFunction(m)
      <4>1. PICK reply \in {"rows", "bare", "panic"} : Done(m, TRUE, reply)
        BY <3>5 DEF RunFunction, ConvertFunctionResult
      <4> QED
        BY <1>1, <1>3, <3>1, <3>2, <3>5, <4>1 DEF CallsFit, OnlyPingsUnanswered
    <3> QED
      BY <3>3, <3>4, <3>5
  <2>2. CASE m.type = "command" /\ HandleCommand(m)
    <3>1. PICK ran \in BOOLEAN, reply \in {"rows", "error"} : Done(m, ran, reply)
      BY <2>2 DEF HandleCommand
    <3> QED
      BY <1>1, <1>3, <2>2, <3>1 DEF CallsFit, OnlyPingsUnanswered
  <2>3. CASE m.type \in {"sql", "transaction"} /\ \E r \in {"rows", "error"} : Done(m, FALSE, r)
    BY <1>1, <1>3, <2>3 DEF CallsFit, OnlyPingsUnanswered
  <2>4. CASE m.type = "heartbeat_ping" /\ Done(m, FALSE, "silence")
    <3>1. m.form = "request"
      BY <1>7 DEF Handle
    <3> QED
      BY <1>1, <1>3, <2>4, <3>1 DEF CallsFit, OnlyPingsUnanswered
  <2>5. CASE m.type = "other" /\ Done(m, FALSE, "error")
    BY <1>1, <1>3, <2>5 DEF CallsFit, OnlyPingsUnanswered
  <2> QED
    BY <1>7, <2>1, <2>2, <2>3, <2>4, <2>5 DEF Handle
<1> QED
  BY <1>5, <1>6, <1>7

\* Every step preserves the invariant of the limiter and what is said of answers.
LEMMA MessageStep ==
  ASSUME IInv, [MessageNext]_<<vars, last>> PROVE IInv'
<1> USE DEF IInv
<1>1. ASSUME [Next]_vars, UNCHANGED last PROVE IInv'
  BY <1>1, LimiterStep DEF LastOK, CallsFit, OnlyPingsUnanswered
<1>2. ASSUME NEW w \in Workers, NEW m \in Bodies,
             Skip(w, m) \/ Ping(w, m) \/ Malformed(w, m) \/ Refuse(w, m) \/ Handle(w, m)
      PROVE  IInv'
  BY <1>2, BodyStep, LimiterStep
<1>3. ASSUME NEW w \in Workers, NEW c \in Clients, Ask(w, c) PROVE IInv'
  <2>1. Next /\ UNCHANGED last
    BY <1>3 DEF Ask, Next
  <2> QED
    BY <1>1, <2>1
<1>4. CASE (PerformCleanup \/ Tick) /\ UNCHANGED last
  <2>1. Next /\ UNCHANGED last
    BY <1>4 DEF Next
  <2> QED
    BY <1>1, <2>1
<1>5. CASE UNCHANGED <<vars, last>>
  BY <1>1, <1>5
<1> QED
  BY <1>2, <1>3, <1>4, <1>5 DEF MessageNext

\* The inductive invariant: tokens, orphaned buckets and the ideal credit balance,
\* and the last answer is one its message may get.
THEOREM Invariance == MessageSpec => []IInv
<1>1. MessageInit => IInv
  <2> SUFFICES ASSUME MessageInit PROVE IInv
    OBVIOUS
  <2>1. LimiterInv
    BY LimiterInit DEF MessageInit
  <2>2. PICK m \in Bodies : /\ m.form = "empty"
                            /\ last = [body |-> m, ran |-> FALSE, late |-> FALSE,
                                       reply |-> "silence"]
    BY DEF MessageInit
  <2> QED
    BY <2>1, <2>2 DEF IInv, LastOK, CallsFit, OnlyPingsUnanswered, Replies
<1>2. IInv /\ [MessageNext]_<<vars, last>> => IInv'
  BY MessageStep
<1> QED
  BY <1>1, <1>2, PTL DEF MessageSpec

\* Type correctness: buckets stay between empty and full, and answers are answers.
THEOREM TypesCorrect == MessageSpec => []MessagesOK
<1>1. IInv => MessagesOK
  BY DEF IInv, LimiterInv, LastOK, MessagesOK
<1> QED
  BY <1>1, Invariance, PTL

\* A client gets at most one request per worker beyond burst and rate.
THEOREM OverrunIsBounded == MessageSpec => []OverrunBounded
<1>1. IInv => OverrunBounded
  BY CreditBounded DEF IInv
<1> QED
  BY <1>1, Invariance, PTL

\* A client whose bucket was never dropped under a worker gets none beyond them.
THEOREM OneBucketUnlessRaced == MessageSpec => []OnlyCleanupOverruns
<1>1. IInv => OnlyCleanupOverruns
  BY CreditFair DEF IInv
<1> QED
  BY <1>1, Invariance, PTL

\* Types and both bounds hold of the limiter on its own, whoever calls it.
THEOREM LimiterOverrun == Spec => [](TypeOK /\ OverrunBounded /\ OnlyCleanupOverruns)
<1>1. LimiterInv /\ [Next]_vars => LimiterInv'
  BY LimiterStep
<1>2. LimiterInv => TypeOK /\ OverrunBounded /\ OnlyCleanupOverruns
  BY CreditBounded, CreditFair DEF LimiterInv
<1> QED
  BY <1>1, <1>2, LimiterInit, PTL DEF Spec

\* A function is only run with arguments of its signature, errors are for others
\* and for calls whose functionTimeout was over before they began, and the
\* conversion for an ordinary signature does not panic.
THEOREM CallsAlwaysFit == MessageSpec => []CallsFit
<1>1. IInv => CallsFit
  BY DEF IInv
<1> QED
  BY <1>1, Invariance, PTL

\* No request goes unanswered.
THEOREM RequestsAnswered == MessageSpec => []OnlyPingsUnanswered
<1>1. IInv => OnlyPingsUnanswered
  BY DEF IInv
<1> QED
  BY <1>1, Invariance, PTL
=============================================================================
