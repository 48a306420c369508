----------------------------- MODULE RateLimiter -----------------------------
(***************************************************************************)
(* The per-client rate limiter (server/rate_limiter.go), called by the     *)
(* workers from handleMessage, and its cleanup goroutine.                  *)
(*                                                                         *)
(* One request costs one token; a tick is long enough for Rate whole       *)
(* tokens.  A worker's first look, its second under the write lock and its *)
(* use of the bucket are steps of their own, because Allow releases        *)
(* rl.mutex in between; a tick is long compared with the time they take.   *)
(***************************************************************************)
EXTENDS Integers, FiniteSets

CONSTANTS
  Clients,   \* client IPs ("" counts as the client "unknown")
  Workers,
  Buckets,   \* addresses a TokenBucket can have
  Nil,
  Rate,      \* RequestsPerSecond, per tick
  Burst,     \* BurstSize
  Cutoff     \* the 10 minutes of performCleanup, in ticks

ASSUME RLAssumption ==
  /\ Nil \notin Buckets
  /\ Rate \in Nat \ {0} /\ Burst \in Nat /\ Cutoff \in Nat
  /\ IsFiniteSet(Workers)

VARIABLES
  buckets,  \* rl.buckets: [Clients -> Buckets \cup {Nil}]
  tokens,   \* [Buckets -> tokens at lastRefill]
  idle,     \* [Buckets -> time since lastRefill]
  missing,  \* workers whose first look found no bucket
  ptr,      \* [Workers -> the bucket Allow looked up, or Nil]
  client,   \* [Workers -> whose request it is]
  credit,   \* [Clients -> what one token bucket per client would hold]
  raced     \* clients whose bucket was ever dropped under a worker that held it

vars == <<buckets, tokens, idle, missing, ptr, client, credit, raced>>

\* Where idle stops mattering: past the cutoff, and the bucket is full.
Long == Cutoff + Burst + 1

TypeOK ==
  /\ buckets \in [Clients -> Buckets \cup {Nil}]
  /\ tokens \in [Buckets -> 0 .. Burst] /\ idle \in [Buckets -> 0 .. Long]
  /\ ptr \in [Workers -> Buckets \cup {Nil}] /\ client \in [Workers -> Clients]
  /\ missing \subseteq Workers /\ \A w \in missing : ptr[w] = Nil
  /\ credit \in [Clients -> Int] /\ raced \subseteq Clients

Capped(n) == IF n > Burst THEN Burst ELSE n
InUse(b) == (\E c \in Clients : buckets[c] = b) \/ \E w \in Workers : ptr[w] = b
Free(w)  == ptr[w] = Nil /\ w \notin missing

Init ==
  /\ buckets = [c \in Clients |-> Nil]
  /\ tokens = [b \in Buckets |-> 0] /\ idle = [b \in Buckets |-> 0]
  /\ ptr = [w \in Workers |-> Nil] /\ client \in [Workers -> Clients]
  /\ missing = {}
  /\ credit = [c \in Clients |-> Burst] /\ raced = {}
-----------------------------------------------------------------------------
\* Allow finds the client's bucket.
Lookup(w, c) ==
  /\ Free(w) /\ buckets[c] # Nil
  /\ ptr' = [ptr EXCEPT ![w] = buckets[c]]
  /\ client' = [client EXCEPT ![w] = c]
  /\ UNCHANGED <<buckets, tokens, idle, missing, credit, raced>>

\* There is none, and Allow waits for the write lock.
Miss(w, c) ==
  /\ Free(w) /\ buckets[c] = Nil
  /\ missing' = missing \cup {w}
  /\ client' = [client EXCEPT ![w] = c]
  /\ UNCHANGED <<buckets, tokens, idle, ptr, credit, raced>>

\* A full bucket for the client.
NewTokenBucket(w, c) ==
  \E b \in Buckets :
    /\ ~InUse(b)
    /\ buckets' = [buckets EXCEPT ![c] = b]
    /\ tokens' = [tokens EXCEPT ![b] = Burst]
    /\ idle' = [idle EXCEPT ![b] = 0]
    /\ ptr' = [ptr EXCEPT ![w] = b]

\* Mutant: no second look under the write lock.
SecondLookForgotten(w) ==
  /\ w \in missing /\ missing' = missing \ {w}
  /\ NewTokenBucket(w, client[w])
  /\ UNCHANGED <<client, credit, raced>>

\* Under the write lock the worker looks again: another may have been faster.
SecondLook(w) ==
  /\ w \in missing /\ missing' = missing \ {w}
  /\ \/ buckets[client[w]] = Nil /\ NewTokenBucket(w, client[w])
     \/ /\ buckets[client[w]] # Nil
        /\ ptr' = [ptr EXCEPT ![w] = buckets[client[w]]]
        /\ UNCHANGED <<buckets, tokens, idle>>
  /\ UNCHANGED <<client, credit, raced>>

\* Mutant: the refill is not capped.
RefilledUncapped(b) == tokens[b] + idle[b] * Rate

\* TokenBucket.Allow: refill for the time gone by, then take a token if any.
Refilled(b) == Capped(tokens[b] + idle[b] * Rate)

Granted(w) == Refilled(ptr[w]) >= 1

Take(w) ==
  LET b == ptr[w]
      n == Refilled(b)
  IN
  /\ b # Nil
  /\ idle' = [idle EXCEPT ![b] = 0]
  /\ tokens' = [tokens EXCEPT ![b] = IF Granted(w) THEN n - 1 ELSE n]
  /\ credit' = IF Granted(w) THEN [credit EXCEPT ![client[w]] = @ - 1] ELSE credit
  /\ ptr' = [ptr EXCEPT ![w] = Nil]
  /\ UNCHANGED <<buckets, missing, client, raced>>

Drop(S) ==
  /\ buckets' = [c \in Clients |-> IF c \in S THEN Nil ELSE buckets[c]]
  /\ raced' = raced \cup {c \in S : \E w \in Workers : ptr[w] = buckets[c]}
  /\ UNCHANGED <<tokens, idle, missing, ptr, client, credit>>

\* Mutant: the cutoff is compared with the wrong way round.
PerformCleanupInverted ==
  Drop({c \in Clients : buckets[c] # Nil /\ idle[buckets[c]] <= Cutoff})

\* performCleanup: buckets not used for longer than the cutoff are dropped.
PerformCleanup ==
  Drop({c \in Clients : buckets[c] # Nil /\ idle[buckets[c]] > Cutoff})

Tick ==
  /\ \A w \in Workers : Free(w)
  /\ idle' = [b \in Buckets |-> IF ~InUse(b) THEN 0
                               ELSE IF idle[b] < Long THEN idle[b] + 1 ELSE Long]
  /\ credit' = [c \in Clients |-> Capped(credit[c] + Rate)]
  /\ UNCHANGED <<buckets, tokens, missing, ptr, client, raced>>

Next ==
  \/ \E w \in Workers, c \in Clients : Lookup(w, c) \/ Miss(w, c)
  \/ \E w \in Workers : SecondLook(w) \/ Take(w)
  \/ PerformCleanup \/ Tick

Spec == Init /\ [][Next]_vars
-----------------------------------------------------------------------------
(* Properties.  credit follows one ideal bucket per client: it is refilled  *)
(* like a real one and charged for every request the limiter lets through, *)
(* so a negative credit is a request beyond burst and rate.                 *)

\* When a bucket refills within the cutoff and makes up for one request per
\* worker besides, a client never gets more than one request per worker beyond
\* burst and rate, however lookups, cleanup and creation interleave.
OverrunBounded ==
  Rate * Cutoff >= Burst + Cardinality(Workers)
    => \A c \in Clients : credit[c] >= 0 - Cardinality(Workers)

\* Only a bucket dropped by the cleanup under a worker that had looked it up lets
\* a client run over: whoever misses, looks again and makes a bucket at the same
\* time as others, the client is charged to one bucket.
OnlyCleanupOverruns ==
  Rate * Cutoff >= Burst => \A c \in Clients \ raced : credit[c] >= 0
=============================================================================
