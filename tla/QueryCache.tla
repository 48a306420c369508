----------------------------- MODULE QueryCache -----------------------------
(***************************************************************************)
(* The server's query cache (server/query_cache.go) at the level of its    *)
(* pointers: a map from keys to entries, and the same entries in a doubly  *)
(* linked list.  Each operation runs under qc.mutex, so it is one action;  *)
(* cleanup runs in goroutines that Set starts.  The counters are left out. *)
(*                                                                         *)
(* Time is counted in ticks: an entry's age saturates once it is over TTL. *)
(* An entry nothing refers to is garbage, and garbage is as good as zeroed *)
(* memory: it is `Zero' here, as a newly allocated entry is.               *)
(***************************************************************************)
EXTENDS Naturals, Sequences, FiniteSets

CONSTANTS
  Keys,        \* cache keys (hashes of normalized query and parameters)
  Vals,        \* query results
  None,        \* Get found nothing; the empty key
  Addrs,       \* addresses a CacheEntry can have
  Nil,
  MaxSize, TTL, CleanupInterval,   \* QueryCacheConfig
  MaxCleaners  \* bound: cleanup goroutines pending at a time

ASSUME QCAssumption ==
  /\ MaxSize \in Nat \ {0} /\ TTL \in Nat /\ CleanupInterval \in Nat
  /\ Nil \notin Addrs /\ None \notin Keys \cup Vals /\ MaxCleaners \in Nat

VARIABLES
  cache,     \* qc.cache: [Keys -> Addrs \cup {Nil}]
  entry,     \* [Addrs -> key, val, and age (time since CreatedAt)]
  list,      \* qc.lruList with the entries' prev and next links
  idle,      \* time since qc.lastCleanup
  cleaners,  \* cleanup goroutines started and not yet run
  answer     \* what the last Get returned

vars == <<cache, entry, list, idle, cleaners, answer>>

Cached == {k \in Keys : cache[k] # Nil}
Entries == {cache[k] : k \in Cached}
Expired(e) == entry[e].age > TTL
Zero == [key |-> None, val |-> None, age |-> 0]
Free(E) == entry' = [e \in Addrs |-> IF e \in E THEN Zero ELSE entry[e]]

\* Types; and the memory in use is what the map refers to.
TypeOK ==
  /\ cache \in [Keys -> Addrs \cup {Nil}]
  /\ entry \in [Addrs -> [key : Keys \cup {None}, val : Vals \cup {None},
                          age : 0 .. TTL + 1]]
  /\ {e \in Addrs : entry[e] # Zero} = Entries
  /\ list \in [head : Addrs \cup {Nil}, tail : Addrs \cup {Nil}, size : Nat,
               prev : [Addrs -> Addrs \cup {Nil}],
               next : [Addrs -> Addrs \cup {Nil}]]
  /\ idle \in 0 .. CleanupInterval + 1 /\ cleaners \in 0 .. MaxCleaners
  /\ answer \in Vals \cup {None}

EmptyList == [head |-> Nil, tail |-> Nil, size |-> 0,
              prev |-> [e \in Addrs |-> Nil], next |-> [e \in Addrs |-> Nil]]

Init ==
  /\ cache = [k \in Keys |-> Nil]
  /\ entry = [e \in Addrs |-> Zero]
  /\ list = EmptyList
  /\ idle = 0 /\ cleaners = 0 /\ answer = None
-----------------------------------------------------------------------------
(* The list operations, on the record list.                                *)

\* Mutant: the links of the removed entry's neighbours skip the tail.
RemoveFromListNoTail(l, e) ==
  LET p == l.prev[e]
      n == l.next[e]
      l1 == IF p # Nil THEN [l EXCEPT !.next[p] = n] ELSE [l EXCEPT !.head = n]
      l2 == IF n # Nil THEN [l1 EXCEPT !.prev[n] = p] ELSE l1
  IN  [l2 EXCEPT !.prev[e] = Nil, !.next[e] = Nil, !.size = @ - 1]

AddToFront(l, e) ==
  IF l.head = Nil
  THEN [l EXCEPT !.head = e, !.tail = e, !.size = @ + 1]
  ELSE [l EXCEPT !.next[e] = l.head, !.prev[l.head] = e, !.head = e,
                 !.size = @ + 1]

RemoveFromList(l, e) ==
  LET p == l.prev[e]
      n == l.next[e]
      l1 == IF p # Nil THEN [l EXCEPT !.next[p] = n] ELSE [l EXCEPT !.head = n]
      l2 == IF n # Nil THEN [l1 EXCEPT !.prev[n] = p] ELSE [l1 EXCEPT !.tail = p]
  IN  [l2 EXCEPT !.prev[e] = Nil, !.next[e] = Nil, !.size = @ - 1]

MoveToFront(l, e) == AddToFront(RemoveFromList(l, e), e)

\* removeEntry of every entry of E, as cleanupExpired's loop over the map does
\* in some order (the order makes no difference to the result).
RemoveAll(l, E) ==
  LET R[S \in SUBSET E] ==
        IF S = {} THEN l
        ELSE LET e == CHOOSE e \in S : TRUE IN RemoveFromList(R[S \ {e}], e)
  IN  R[E]
-----------------------------------------------------------------------------
GetMiss(k) ==
  /\ k \notin Cached /\ answer' = None
  /\ UNCHANGED <<cache, entry, list, idle, cleaners>>

\* Mutants: the expired entry is unlinked twice; it is served.
GetExpiredTwice(k) ==
  /\ k \in Cached /\ Expired(cache[k])
  /\ cache' = [cache EXCEPT ![k] = Nil] /\ Free({cache[k]})
  /\ list' = RemoveFromList(RemoveFromList(list, cache[k]), cache[k])
  /\ answer' = None
  /\ UNCHANGED <<idle, cleaners>>
GetExpiredServed(k) ==
  /\ k \in Cached /\ Expired(cache[k])
  /\ answer' = entry[cache[k]].val
  /\ list' = MoveToFront(list, cache[k])
  /\ UNCHANGED <<cache, entry, idle, cleaners>>

\* An expired entry is removed on sight.
GetExpired(k) ==
  /\ k \in Cached /\ Expired(cache[k])
  /\ cache' = [cache EXCEPT ![k] = Nil] /\ Free({cache[k]})
  /\ list' = RemoveFromList(list, cache[k])
  /\ answer' = None
  /\ UNCHANGED <<idle, cleaners>>

GetHit(k) ==
  /\ k \in Cached /\ ~Expired(cache[k])
  /\ list' = MoveToFront(list, cache[k])
  /\ answer' = entry[cache[k]].val
  /\ UNCHANGED <<cache, entry, idle, cleaners>>

\* Set on a key that has an entry: new value and CreatedAt, moved to the front.
SetExisting(k, v) ==
  /\ k \in Cached
  /\ entry' = [entry EXCEPT ![cache[k]].val = v, ![cache[k]].age = 0]
  /\ list' = MoveToFront(list, cache[k])
  /\ UNCHANGED <<cache, idle, cleaners, answer>>

\* Set on a new key: allocate, link, evict the tail when over MaxSize, and
\* start a cleanup goroutine when the last cleanup is long ago.
SetNew(k, v) ==
  \E e \in Addrs \ Entries :
    LET l == AddToFront(list, e)
        e1 == [entry EXCEPT ![e] = [key |-> k, val |-> v, age |-> 0]]
        full == l.size > MaxSize
    IN
    /\ k \notin Cached
    /\ IF full
       THEN /\ list' = RemoveFromList(l, l.tail)
            /\ cache' = [cache EXCEPT ![k] = e, ![e1[l.tail].key] = Nil]
            /\ entry' = [e1 EXCEPT ![l.tail] = Zero]
       ELSE list' = l /\ cache' = [cache EXCEPT ![k] = e] /\ entry' = e1
    /\ IF idle > CleanupInterval
       THEN cleaners < MaxCleaners /\ cleaners' = cleaners + 1
       ELSE UNCHANGED cleaners
    /\ UNCHANGED <<idle, answer>>

\* cleanupExpired, in a goroutine of its own.
CleanupExpired ==
  LET E == {e \in Entries : Expired(e)} IN
  /\ cleaners > 0
  /\ cache' = [k \in Keys |-> IF cache[k] \in E THEN Nil ELSE cache[k]]
  /\ list' = RemoveAll(list, E) /\ Free(E)
  /\ idle' = 0 /\ cleaners' = cleaners - 1
  /\ UNCHANGED answer

\* Clear makes a new map and a new list.
Clear ==
  /\ cache' = [k \in Keys |-> Nil] /\ Free(Addrs)
  /\ list' = EmptyList
  /\ UNCHANGED <<idle, cleaners, answer>>

Tick ==
  /\ entry' = [e \in Addrs |-> IF e \in Entries /\ ~Expired(e)
                               THEN [entry[e] EXCEPT !.age = @ + 1] ELSE entry[e]]
  /\ idle' = IF idle <= CleanupInterval THEN idle + 1 ELSE idle
  /\ UNCHANGED <<cache, list, cleaners, answer>>

Next ==
  \/ \E k \in Keys : GetMiss(k) \/ GetExpired(k) \/ GetHit(k)
  \/ \E k \in Keys, v \in Vals : SetExisting(k, v) \/ SetNew(k, v)
  \/ CleanupExpired \/ Clear \/ Tick

Spec == Init /\ [][Next]_vars
-----------------------------------------------------------------------------
(* Properties.                                                             *)

\* The entry i steps from the head, following next.
Nth == LET N[i \in Nat] == IF i = 0 THEN list.head
                           ELSE IF N[i - 1] = Nil THEN Nil
                           ELSE list.next[N[i - 1]]
       IN  N

\* The linked list and the map hold the same entries: walking next from the
\* head meets every cached entry once and ends at the tail, prev is the inverse
\* of next, and each entry is stored under its own key.
ListMatchesMap ==
  /\ list.size = Cardinality(Cached)
  /\ {Nth[i] : i \in 0 .. list.size - 1} = Entries
  /\ Nth[list.size] = Nil
  /\ list.tail = IF list.size = 0 THEN Nil ELSE Nth[list.size - 1]
  /\ \A e, f \in Entries : list.next[e] = f <=> list.prev[f] = e
  /\ \A k \in Cached : entry[cache[k]].key = k

\* The pointer structure implements the bounded LRU map with time to live.
LRUOrder == [i \in 1 .. list.size |-> entry[Nth[i - 1]].key]
ValOf    == [k \in Keys |-> IF k \in Cached THEN entry[cache[k]].val ELSE None]
AgeOf    == [k \in Keys |-> IF k \in Cached THEN entry[cache[k]].age ELSE 0]
Abstract == INSTANCE LRUCache WITH
  NoVal <- None, order <- LRUOrder, val <- ValOf, age <- AgeOf
ImplementsLRUCache == Abstract!Spec
=============================================================================
