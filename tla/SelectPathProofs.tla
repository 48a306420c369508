--------------------------- MODULE SelectPathProofs ---------------------------
(***************************************************************************)
(* Proofs about SelectPath and the modules it is made of, for any workers, *)
(* memory, times, queries and policies: what the cache may answer, how     *)
(* stale it may be (CachedQuery), and that the policy in force decides     *)
(* what is refused (SQLValidator) and is not evaded by way of the cache.   *)
(***************************************************************************)
EXTENDS SelectPath, TLAPS

Stored == [res : Results, age : 0 .. TTL + 1]

\* TypeOK but for the memory in use.
Types ==
  /\ slot \in Addrs \cup {Nil}
  /\ entry \in [Addrs -> Stored]
  /\ pc \in [Workers -> {"idle", "hit", "query", "set", "direct"}]
  /\ since \in [Workers -> 0 .. SqlTimeout]
  /\ ptr \in [Workers -> Addrs \cup {Nil}]
  /\ got \in [Workers -> Results]
  /\ sent \in Results
  /\ cleared \in 0 .. LongCleared /\ before \subseteq Workers

\* Memory in use is what the cache or a worker refers to.
Referred(e) == e = slot \/ \E w \in Workers : ptr[w] = e
MemoryInv   == \A e \in Addrs : entry[e] # Zero <=> Referred(e)

\* A worker refers to an entry exactly after a hit; and what it read itself is no
\* older than its request.
WorkerInv == \A w \in Workers :
  /\ pc[w] = "hit" <=> ptr[w] # Nil
  /\ pc[w] \in {"query", "set", "direct"} => got[w] # NoResult /\ got[w].age <= since[w]

\* What an entry stores was read within SqlTimeout of being stored.
EntryInv == \A e \in Addrs : entry[e] # Zero =>
  /\ entry[e].res # NoResult
  /\ entry[e].age <= TTL => entry[e].res.age <= entry[e].age + SqlTimeout

\* A result that was hit was fresh when the request hit it.
HitInv == \A w \in Workers :
  pc[w] = "hit" => entry[ptr[w]].res.age <= TTL + SqlTimeout + since[w]

\* What was stored since the last ClearCache was read at most SqlTimeout before it,
\* and so was what a request hit that came since.
ClearedInv == cleared < LongCleared =>
  /\ slot # Nil => entry[slot].res.age <= cleared + SqlTimeout
  /\ \A w \in Workers \ before :
       pc[w] = "hit" => entry[ptr[w]].res.age <= cleared + SqlTimeout

CacheInv == /\ Types /\ MemoryInv /\ WorkerInv /\ EntryInv /\ HitInv
            /\ ClearedInv /\ BoundedStaleness

\* The constants, for arithmetic.
LEMMA Constants ==
  /\ TTL \in Nat /\ SqlTimeout \in Nat \ {0} /\ MaxStale \in Nat
  /\ LongCleared \in Nat /\ LongCleared + SqlTimeout = MaxStale
  /\ MaxStale = TTL + 2 * SqlTimeout /\ Nil \notin Addrs /\ NoResult \notin [age : Nat]
BY CQAssumption DEF MaxStale, LongCleared
-----------------------------------------------------------------------------
(* Results and entries as time goes by.                                    *)

\* A result has an age or is none.
LEMMA ResultIs ==
  ASSUME NEW r \in Results, r # NoResult
  PROVE  r.age \in Nat /\ r.age <= MaxStale + 1 /\ r = [age |-> r.age]
BY Constants DEF Results

\* A result just read.
LEMMA NewResult == [age |-> 0] \in Results /\ [age |-> 0] # NoResult
<1>1. 0 \in 0 .. MaxStale + 1
  BY Constants
<1>2. [age |-> 0] \in [age : Nat]
  OBVIOUS
<1> QED
  BY <1>1, <1>2, Constants DEF Results

\* A tick later a result is the same result, at most a tick older.
LEMMA LaterResultIs ==
  ASSUME NEW r \in Results
  PROVE  /\ LaterResult(r) \in Results
         /\ LaterResult(r) = NoResult <=> r = NoResult
         /\ r # NoResult => LaterResult(r).age \in Nat /\ LaterResult(r).age <= r.age + 1
<1>1. CASE r = NoResult
  BY <1>1 DEF LaterResult
<1>2. CASE r # NoResult
  <2> DEFINE n == Later(r.age, MaxStale + 1)
  <2>1. r.age \in Nat /\ r.age <= MaxStale + 1 /\ r = [age |-> r.age]
    BY <1>2, ResultIs
  <2>2. n \in Nat /\ n <= MaxStale + 1 /\ n <= r.age + 1
    BY <2>1, Constants DEF Later
  <2>3. LaterResult(r) = [age |-> n]
    BY <1>2, <2>1 DEF LaterResult
  <2> HIDE DEF n
  <2>4. [age |-> n] \in [age : 0 .. MaxStale + 1] /\ [age |-> n] \in [age : Nat]
    BY <2>2
  <2> QED
    BY <1>2, <2>2, <2>3, <2>4, Constants DEF Results
<1> QED
  BY <1>1, <1>2

\* What Tick makes of an entry.
LaterEntry(en) == IF en = Zero THEN Zero ELSE
                  [en EXCEPT !.age = Later(@, TTL + 1), !.res = LaterResult(@)]

\* Zero is an entry of memory, of the type of all.
LEMMA ZeroIs == Zero \in Stored /\ Zero.res = NoResult /\ Zero.age = 0
<1>1. NoResult \in Results /\ 0 \in 0 .. TTL + 1
  BY Constants DEF Results
<1> QED
  BY <1>1 DEF Zero, Stored

\* A tick later an entry in use is in use and at most a tick older, and so is
\* what it stores.
LEMMA LaterEntryIs ==
  ASSUME NEW en \in Stored
  PROVE  /\ LaterEntry(en) \in Stored
         /\ LaterEntry(en) = Zero <=> en = Zero
         /\ en # Zero => /\ LaterEntry(en).res = LaterResult(en.res)
                         /\ LaterEntry(en).age <= TTL => LaterEntry(en).age = en.age + 1
<1>1. CASE en = Zero
  BY <1>1, ZeroIs DEF LaterEntry
<1>2. CASE en # Zero
  <2> DEFINE n == Later(en.age, TTL + 1)
             l == [res |-> LaterResult(en.res), age |-> n]
  <2>1. /\ en.res \in Results /\ en.age \in Nat /\ en.age <= TTL + 1
        /\ en = [res |-> en.res, age |-> en.age]
    BY Constants DEF Stored
  <2>2. LaterEntry(en) = l
    BY <1>2, <2>1 DEF LaterEntry
  <2>3. n \in Nat /\ n <= TTL + 1 /\ n # 0 /\ (n <= TTL => n = en.age + 1)
    BY <2>1, Constants DEF Later
  <2> HIDE DEF n
  <2>4. l.age # Zero.age
    BY <2>3, ZeroIs
  <2>5. l \in Stored
    <3>1. LaterResult(en.res) \in Results /\ n \in 0 .. TTL + 1
      BY <2>1, <2>3, LaterResultIs
    <3> QED
      BY <2>1, <3>1 DEF Stored
  <2> QED
    BY <1>2, <2>2, <2>3, <2>4, <2>5
<1> QED
  BY <1>1, <1>2

-----------------------------------------------------------------------------
(* One lemma per step of the cache.                                        *)

\* A request that the validator refused, as the cache sees it.
Refused(w) == pc[w] = "idle" /\ Answer(w, NoResult) /\ UNCHANGED <<slot, entry>>

\* The result hit was stored within TTL, and read within SqlTimeout before that.
LEMMA HitStep == ASSUME CacheInv, NEW w \in Workers, Hit(w) PROVE CacheInv'
<1> USE Constants DEF CacheInv, Hit, Goto, Fresh, clearVars
<1>1. Types'
  BY DEF Types, Stored
<1>2. MemoryInv'
  BY DEF MemoryInv, Referred, WorkerInv
<1>3. WorkerInv'
  BY DEF Types, WorkerInv
<1>4. EntryInv'
  BY DEF EntryInv
<1>5. HitInv'
  BY ResultIs DEF Types, HitInv, EntryInv, MemoryInv, Referred, Stored
<1>6. ClearedInv'
  BY DEF Types, ClearedInv, WorkerInv
<1>7. BoundedStaleness'
  BY DEF BoundedStaleness
<1> QED
  BY <1>1, <1>2, <1>3, <1>4, <1>5, <1>6, <1>7

\* What a hit returned is answered before its request is over.
LEMMA SendHitStep == ASSUME CacheInv, NEW w \in Workers, SendHit(w) PROVE CacheInv'
<1> USE Constants DEF CacheInv, SendHit, Answer, Goto, Collect
<1>1. Types'
  <2>1. ptr[w] \in Addrs
    BY DEF Types, WorkerInv
  <2>2. entry[ptr[w]].res \in Results /\ NoResult \in Results
    BY <2>1 DEF Types, Stored, Results
  <2>3. entry' \in [Addrs -> Stored]
    BY ZeroIs DEF Types
  <2>4. since' \in [Workers -> 0 .. SqlTimeout]
    BY DEF Types
  <2> QED
    BY <2>1, <2>2, <2>3, <2>4 DEF Types
<1>2. MemoryInv'
  BY DEF MemoryInv, Referred
<1>3. WorkerInv'
  BY DEF Types, WorkerInv
<1>4. EntryInv'
  BY DEF EntryInv
<1>5. HitInv'
  BY DEF Types, HitInv, WorkerInv
<1>6. ClearedInv'
  BY DEF Types, ClearedInv, WorkerInv
<1>7. BoundedStaleness'
  <2>1. entry[ptr[w]].res.age <= TTL + SqlTimeout + since[w]
    BY DEF HitInv
  <2>2. ptr[w] \in Addrs /\ since[w] \in Nat /\ since[w] <= SqlTimeout
    BY DEF Types, WorkerInv
  <2>3. entry[ptr[w]].res \in Results
    BY <2>2 DEF Types, Stored
  <2> DEFINE r == entry[ptr[w]].res
  <2>4. ASSUME r # NoResult PROVE r.age <= MaxStale
    <3>1. r.age \in Nat
      BY <2>3, <2>4, ResultIs
    <3> QED
      BY <2>1, <2>2, <3>1
  <2> QED
    BY <2>4 DEF BoundedStaleness
<1> QED
  BY <1>1, <1>2, <1>3, <1>4, <1>5, <1>6, <1>7

\* A miss frees the entry unless a worker still refers to it.
LEMMA MissStep == ASSUME CacheInv, NEW w \in Workers, Miss(w) PROVE CacheInv'
<1> USE Constants DEF CacheInv, Miss, Goto, Fresh, Collect, clearVars
<1>1. Types'
  BY NewResult, ZeroIs DEF Types
<1>2. MemoryInv'
  BY DEF MemoryInv, Referred
<1>3. WorkerInv'
  BY DEF Types, WorkerInv
<1>4. EntryInv'
  BY DEF EntryInv
<1>5. HitInv'
  BY DEF Types, HitInv, WorkerInv
<1>6. ClearedInv'
  BY DEF Types, ClearedInv, WorkerInv
<1>7. BoundedStaleness'
  BY DEF BoundedStaleness
<1> QED
  BY <1>1, <1>2, <1>3, <1>4, <1>5, <1>6, <1>7

\* A statement asks the database: what it reads is of now.
LEMMA StartDirectStep == ASSUME CacheInv, NEW w \in Workers, StartDirect(w) PROVE CacheInv'
<1> USE Constants DEF CacheInv, StartDirect, Goto, clearVars
<1>1. Types'
  BY NewResult DEF Types
<1>2. MemoryInv'
  BY DEF MemoryInv, Referred
<1>3. WorkerInv'
  BY DEF Types, WorkerInv
<1>4. EntryInv'
  BY DEF EntryInv
<1>5. HitInv'
  BY DEF HitInv
<1>6. ClearedInv'
  BY DEF Types, ClearedInv, WorkerInv
<1>7. BoundedStaleness'
  BY DEF BoundedStaleness
<1> QED
  BY <1>1, <1>2, <1>3, <1>4, <1>5, <1>6, <1>7

\* Its rows are answered.
LEMMA DirectEndStep == ASSUME CacheInv, NEW w \in Workers, DirectEnd(w) PROVE CacheInv'
<1> USE Constants DEF CacheInv, DirectEnd, Answer, Goto
<1>1. Types'
  BY ZeroIs DEF Types, Stored
<1>2. MemoryInv'
  BY DEF MemoryInv, Referred, WorkerInv
<1>3. WorkerInv'
  BY DEF Types, WorkerInv
<1>4. EntryInv'
  BY DEF EntryInv
<1>5. HitInv'
  BY DEF HitInv
<1>6. ClearedInv'
  BY DEF Types, ClearedInv, WorkerInv
<1>7. BoundedStaleness'
  BY ResultIs DEF Types, BoundedStaleness, WorkerInv
<1> QED
  BY <1>1, <1>2, <1>3, <1>4, <1>5, <1>6, <1>7

\* An error is answered.
LEMMA QueryErrorStep == ASSUME CacheInv, NEW w \in Workers, QueryError(w) PROVE CacheInv'
<1> USE Constants DEF CacheInv, QueryError, Answer, Goto
<1>1. Types'
  BY ZeroIs DEF Types, Stored
<1>2. MemoryInv'
  BY DEF MemoryInv, Referred, WorkerInv
<1>3. WorkerInv'
  BY DEF Types, WorkerInv
<1>4. EntryInv'
  BY DEF EntryInv
<1>5. HitInv'
  BY DEF HitInv
<1>6. ClearedInv'
  BY DEF Types, ClearedInv, WorkerInv
<1>7. BoundedStaleness'
  BY DEF BoundedStaleness
<1> QED
  BY <1>1, <1>2, <1>3, <1>4, <1>5, <1>6, <1>7

\* The rows were read.
LEMMA RowsEndStep == ASSUME CacheInv, NEW w \in Workers, RowsEnd(w) PROVE CacheInv'
<1> USE Constants DEF CacheInv, RowsEnd, Goto, clearVars
<1>1. Types'
  BY DEF Types
<1>2. MemoryInv'
  BY DEF MemoryInv, Referred
<1>3. WorkerInv'
  BY DEF WorkerInv
<1>4. EntryInv'
  BY DEF EntryInv
<1>5. HitInv'
  BY DEF HitInv
<1>6. ClearedInv'
  BY DEF Types, ClearedInv, WorkerInv
<1>7. BoundedStaleness'
  BY DEF BoundedStaleness
<1> QED
  BY <1>1, <1>2, <1>3, <1>4, <1>5, <1>6, <1>7

\* The entry made or updated stores what the request has read, and nothing older.
LEMMA SetStep == ASSUME CacheInv, NEW w \in Workers, Set(w) PROVE CacheInv'
<1> USE Constants DEF CacheInv, Set, Answer, Goto
<1>1. Types'
  BY ZeroIs DEF Types, Stored
<1>2. MemoryInv'
  BY ZeroIs DEF Types, MemoryInv, Referred, WorkerInv
<1>3. WorkerInv'
  BY DEF Types, WorkerInv
<1>4. EntryInv'
  BY ResultIs DEF Types, EntryInv, WorkerInv
<1>5. HitInv'
  BY ResultIs DEF Types, HitInv, WorkerInv
<1>6. ClearedInv'
  BY ResultIs DEF Types, ClearedInv, WorkerInv
<1>7. BoundedStaleness'
  BY ResultIs DEF Types, BoundedStaleness, WorkerInv
<1> QED
  BY <1>1, <1>2, <1>3, <1>4, <1>5, <1>6, <1>7

\* The validator's errors are answered; see SelectPath.
LEMMA RefusedStep == ASSUME CacheInv, NEW w \in Workers, Refused(w) PROVE CacheInv'
<1> USE Constants DEF CacheInv, Refused, Answer, Goto
<1>1. Types'
  BY ZeroIs DEF Types, Stored
<1>2. MemoryInv'
  BY DEF MemoryInv, Referred, WorkerInv
<1>3. WorkerInv'
  BY DEF WorkerInv
<1>4. EntryInv'
  BY DEF EntryInv
<1>5. HitInv'
  BY DEF HitInv
<1>6. ClearedInv'
  BY DEF Types, ClearedInv, WorkerInv
<1>7. BoundedStaleness'
  BY DEF BoundedStaleness
<1> QED
  BY <1>1, <1>2, <1>3, <1>4, <1>5, <1>6, <1>7

\* The entry goes, but not from under a worker.
LEMMA EvictStep == ASSUME CacheInv, Evict PROVE CacheInv'
<1> USE Constants DEF CacheInv, Evict, Collect, clearVars
<1>1. Types'
  BY ZeroIs DEF Types
<1>2. MemoryInv'
  BY DEF MemoryInv, Referred
<1>3. WorkerInv'
  BY DEF WorkerInv
<1>4. EntryInv'
  BY DEF EntryInv
<1>5. HitInv'
  BY DEF Types, HitInv, WorkerInv
<1>6. ClearedInv'
  BY DEF Types, ClearedInv, WorkerInv
<1>7. BoundedStaleness'
  BY DEF BoundedStaleness
<1> QED
  BY <1>1, <1>2, <1>3, <1>4, <1>5, <1>6, <1>7

\* All entries go, but not from under a worker.
LEMMA ClearCacheStep == ASSUME CacheInv, ClearCache PROVE CacheInv'
<1> USE Constants DEF CacheInv, ClearCache, Collect, NowCleared
<1>1. Types'
  BY ZeroIs DEF Types, Stored
<1>2. MemoryInv'
  BY DEF MemoryInv, Referred
<1>3. WorkerInv'
  BY DEF WorkerInv
<1>4. EntryInv'
  BY DEF EntryInv
<1>5. HitInv'
  BY DEF Types, HitInv, WorkerInv
<1>6. ClearedInv'
  BY DEF Types, ClearedInv, WorkerInv
<1>7. BoundedStaleness'
  BY DEF BoundedStaleness
<1> QED
  BY <1>1, <1>2, <1>3, <1>4, <1>5, <1>6, <1>7

\* Everything gets older by a tick, and no request outlives SqlTimeout.
LEMMA TickStep == ASSUME CacheInv, Tick PROVE CacheInv'
<1> USE Constants DEF CacheInv
<1>1. \A e \in Addrs : entry'[e] = LaterEntry(entry[e]) /\ entry[e] \in Stored
  BY DEF Types, Tick, LaterEntry
<1>2. /\ UNCHANGED <<slot, pc, ptr>> /\ sent' = NoResult
      /\ \A w \in Workers :
           /\ pc[w] # "idle" => since[w] < SqlTimeout /\ since'[w] = since[w] + 1
           /\ got'[w] = LaterResult(got[w])
  BY DEF Types, Tick
<1>3. Types'
  <2>1. entry' \in [Addrs -> Stored]
    BY <1>1, LaterEntryIs DEF Tick
  <2>2. since' \in [Workers -> 0 .. SqlTimeout]
    <3>1. ASSUME NEW w \in Workers
          PROVE  (IF pc[w] = "idle" THEN 0 ELSE since[w] + 1) \in 0 .. SqlTimeout
      BY <1>2 DEF Types
    <3> QED
      BY <3>1 DEF Tick
  <2>3. got' \in [Workers -> Results]
    BY LaterResultIs DEF Types, Tick
  <2>4. sent' \in Results
    BY <1>2 DEF Results
  <2>5. cleared' \in 0 .. LongCleared /\ before' = before
    <3>1. cleared' = Later(cleared, LongCleared) /\ before' = before
      BY DEF Tick
    <3>2. cleared \in 0 .. LongCleared
      BY DEF Types
    <3> QED
      BY <3>1, <3>2, Constants DEF Later
  <2> QED
    BY <1>2, <2>1, <2>2, <2>3, <2>4, <2>5 DEF Types
<1>4. MemoryInv'
  BY <1>1, <1>2, LaterEntryIs DEF MemoryInv, Referred
<1>5. WorkerInv'
  <2> SUFFICES ASSUME NEW w \in Workers, pc[w] \in {"query", "set", "direct"}
               PROVE  got'[w] # NoResult /\ got'[w].age <= since'[w]
    BY <1>2 DEF WorkerInv
  <2>1. /\ got[w] \in Results /\ got[w] # NoResult /\ got[w].age <= since[w]
        /\ since[w] \in Nat
    BY DEF Types, WorkerInv
  <2> QED
    BY <1>2, <2>1, ResultIs, LaterResultIs
<1>6. EntryInv'
  <2> SUFFICES ASSUME NEW e \in Addrs, entry'[e] # Zero
               PROVE  /\ entry'[e].res # NoResult
                      /\ entry'[e].age <= TTL => entry'[e].res.age <= entry'[e].age + SqlTimeout
    BY DEF EntryInv
  <2> DEFINE en == entry[e]
  <2>1. /\ en \in Stored /\ en # Zero /\ entry'[e] = LaterEntry(en)
        /\ en.res # NoResult
        /\ en.age <= TTL => en.res.age <= en.age + SqlTimeout
    BY <1>1, LaterEntryIs DEF EntryInv
  <2>2. en.res \in Results /\ en.age \in Nat
    BY <2>1 DEF Stored
  <2> HIDE DEF en
  <2>3. en.res.age \in Nat
    BY <2>1, <2>2, ResultIs
  <2>4. /\ LaterResult(en.res) # NoResult
        /\ LaterResult(en.res).age \in Nat /\ LaterResult(en.res).age <= en.res.age + 1
    BY <2>1, <2>2, LaterResultIs
  <2>5. /\ LaterEntry(en).res = LaterResult(en.res)
        /\ LaterEntry(en).age <= TTL => LaterEntry(en).age = en.age + 1
    BY <2>1, LaterEntryIs
  <2> QED
    BY <2>1, <2>2, <2>3, <2>4, <2>5
<1>7. HitInv'
  <2> SUFFICES ASSUME NEW w \in Workers, pc[w] = "hit"
               PROVE  entry'[ptr[w]].res.age <= TTL + SqlTimeout + since'[w]
    BY <1>2 DEF HitInv
  <2>1. ptr[w] \in Addrs /\ since[w] \in Nat /\ since'[w] = since[w] + 1
    BY <1>2 DEF Types, WorkerInv
  <2> PICK en : en = entry[ptr[w]]
    OBVIOUS
  <2>2. /\ en \in Stored /\ en # Zero /\ entry'[ptr[w]] = LaterEntry(en)
        /\ en.res # NoResult /\ en.res.age <= TTL + SqlTimeout + since[w]
    BY <1>1, <2>1 DEF MemoryInv, Referred, EntryInv, HitInv
  <2>3. en.res \in Results
    BY <2>2 DEF Stored
  <2>4. /\ en.res.age \in Nat /\ LaterResult(en.res).age \in Nat
        /\ LaterResult(en.res).age <= en.res.age + 1
    BY <2>2, <2>3, ResultIs, LaterResultIs
  <2>5. entry'[ptr[w]].res = LaterResult(en.res)
    BY <2>2, LaterEntryIs
  <2> QED
    BY <2>1, <2>2, <2>4, <2>5
<1>8. ClearedInv'
  <2>1. cleared' < LongCleared => cleared' = cleared + 1 /\ cleared < LongCleared
    <3>1. cleared' = Later(cleared, LongCleared) /\ cleared \in 0 .. LongCleared
      BY DEF Tick, Types
    <3> QED
      BY <3>1 DEF Later
  <2>2. ASSUME NEW e \in Addrs, entry[e] # Zero, entry[e].res.age <= cleared + SqlTimeout
        PROVE  entry'[e].res.age <= cleared + 1 + SqlTimeout
    <3> PICK en : en = entry[e]
      OBVIOUS
    <3>1. en \in Stored /\ en.res # NoResult /\ entry'[e].res = LaterResult(en.res)
      BY <1>1, <2>2, LaterEntryIs DEF EntryInv
    <3>2. en.res.age \in Nat /\ LaterResult(en.res).age <= en.res.age + 1
          /\ LaterResult(en.res).age \in Nat
      BY <3>1, ResultIs, LaterResultIs DEF Stored
    <3> QED
      BY <2>2, <3>1, <3>2 DEF Types
  <2>3. slot # Nil => slot \in Addrs /\ entry[slot] # Zero
    BY DEF Types, MemoryInv, Referred
  <2>4. \A w \in Workers : pc[w] = "hit" => ptr[w] \in Addrs /\ entry[ptr[w]] # Zero
    BY DEF Types, WorkerInv, MemoryInv, Referred
  <2>5. before' = before
    BY DEF Tick
  <2> QED
    BY <1>2, <2>1, <2>2, <2>3, <2>4, <2>5 DEF ClearedInv
<1>9. BoundedStaleness'
  BY <1>2 DEF BoundedStaleness
<1> QED
  BY <1>3, <1>4, <1>5, <1>6, <1>7, <1>8, <1>9

\* All of them.
LEMMA CacheStep ==
  ASSUME CacheInv, [Next]_vars \/ \E w \in Workers : Refused(w)
  PROVE  CacheInv'
<1>1. CASE UNCHANGED vars
  BY <1>1 DEF CacheInv, Types, MemoryInv, Referred, WorkerInv, EntryInv, HitInv,
              ClearedInv, BoundedStaleness, vars, clearVars
<1> QED
  BY <1>1, HitStep, SendHitStep, MissStep, StartDirectStep, DirectEndStep,
     QueryErrorStep, RowsEndStep, SetStep, RefusedStep, EvictStep, ClearCacheStep,
     TickStep DEF Next

\* A request that asked after the last ClearCache is answered from what was stored
\* since or from what it read itself.
LEMMA RecentAnswer ==
  ASSUME CacheInv, CacheInv', [Next]_vars \/ \E w \in Workers : Refused(w),
         NEW w \in Workers \ before,
         pc[w] # "idle", pc'[w] = "idle", sent' # NoResult
  PROVE  sent'.age <= cleared + SqlTimeout
<1>1. \/ SendHit(w) /\ pc[w] = "hit" /\ sent' = entry[ptr[w]].res
      \/ pc[w] \in {"set", "direct"} /\ sent' = got[w]
  <2> USE DEF CacheInv, Types, Goto
  <2>1. ASSUME NEW v \in Workers,
               Hit(v) \/ Miss(v) \/ StartDirect(v) \/ RowsEnd(v) PROVE FALSE
    BY <2>1 DEF Hit, Miss, StartDirect, RowsEnd
  <2>2. ASSUME NEW v \in Workers, Refused(v) \/ QueryError(v) PROVE FALSE
    BY <2>2 DEF Refused, QueryError, Answer
  <2>3. ASSUME Evict \/ ClearCache \/ Tick \/ UNCHANGED vars PROVE FALSE
    BY <2>3 DEF Evict, ClearCache, Tick, vars
  <2>4. ASSUME NEW v \in Workers, SendHit(v)
        PROVE  SendHit(w) /\ pc[w] = "hit" /\ sent' = entry[ptr[w]].res
    BY <2>4 DEF SendHit, Answer
  <2>5. ASSUME NEW v \in Workers, Set(v) \/ DirectEnd(v)
        PROVE  pc[w] \in {"set", "direct"} /\ sent' = got[w]
    BY <2>5 DEF Set, DirectEnd, Answer
  <2> QED
    BY <2>1, <2>2, <2>3, <2>4, <2>5 DEF Next
<1>2. cleared \in Nat /\ cleared <= LongCleared /\ sent' \in Results
  BY Constants DEF CacheInv, Types
<1>3. CASE pc[w] = "hit" /\ sent' = entry[ptr[w]].res
  <2>1. CASE cleared < LongCleared
    BY <1>3, <2>1 DEF CacheInv, ClearedInv
  <2>2. CASE cleared = LongCleared
    BY <2>2, Constants DEF CacheInv, BoundedStaleness
  <2> QED
    BY <1>2, <2>1, <2>2, Constants
<1>4. CASE pc[w] \in {"set", "direct"} /\ sent' = got[w]
  <2>1. got[w].age <= since[w] /\ since[w] \in Nat /\ since[w] <= SqlTimeout
    BY <1>4, Constants DEF CacheInv, Types, WorkerInv
  <2>2. got[w].age \in Nat
    BY <1>2, <1>4, ResultIs
  <2> QED
    BY <1>2, <1>4, <2>1, <2>2, Constants
<1> QED
  BY <1>1, <1>3, <1>4

\* At first there is nothing.
LEMMA CacheInit == Init => CacheInv
<1> SUFFICES ASSUME Init PROVE CacheInv
  OBVIOUS
<1>1. NoResult \in Results
  BY DEF Results
<1>2. Types
  BY <1>1, ZeroIs, Constants DEF Init, Types
<1> QED
  BY <1>2, Constants, ZeroIs DEF Init, CacheInv, MemoryInv, Referred, WorkerInv,
     EntryInv, HitInv, ClearedInv, BoundedStaleness

\* The invariant in the words of CachedQuery.
LEMMA CacheTypes == CacheInv => TypeOK
<1> SUFFICES ASSUME CacheInv
             PROVE  {e \in Addrs : entry[e] # Zero}
                      = ({slot} \cup {ptr[w] : w \in Workers}) \ {Nil}
  BY DEF CacheInv, Types, Stored, TypeOK
<1> QED
  BY Constants DEF CacheInv, Types, MemoryInv, Referred
-----------------------------------------------------------------------------
(* The validator and the policy.                                           *)

\* What has been checked so far of a query judged under one policy, and what its
\* request is due.
Verdict(w) ==
  LET q       == query[w]
      short   == ~V!TooLong(config, q)
      command == V!CommandValid(config, q)
  IN
  /\ ~V!Updating /\ config.Enabled /\ ~q.blank
  /\ duty[w] = "permit" <=> V!Permits(config, q)
  /\ stage[w] = "command" => (valid[w] <=> short)
  /\ stage[w] = "injection" => (valid[w] <=> short /\ command)
  /\ stage[w] = "structure" => (valid[w] <=> short /\ command /\ q.pattern = 0)

\* A policy that changes while it is used makes the duty "either"; any other
\* verdict is that of one policy.
JudgeInv == \A w \in Workers :
  /\ stage[w] \in V!Judging /\ duty[w] \in {"permit", "refuse"} => Verdict(w)
  /\ stage[w] = "accepted" => duty[w] # "refuse"
  /\ stage[w] = "refused" => duty[w] # "permit"
  /\ pc[w] # "idle" => duty[w] # "refuse"

PolicyInv ==
  /\ V!ValidatorOK
  /\ \A w \in Workers : pc[w] = "idle" \/ stage[w] = "idle"
  /\ duty \in [Workers -> {"none", "permit", "refuse", "either"}]
  /\ JudgeInv

\* Undisturbed, a worker reads the policy in force.
LEMMA SeenIsConfig ==
  ASSUME ~V!Updating, NEW fields, NEW p \in V!Seen(fields)
  PROVE  \A f \in fields : p[f] = config[f]
BY DEF V!Updating, V!Seen

\* A command is judged by its fields of the policy alone.
LEMMA CommandByFields ==
  ASSUME NEW p, \A f \in V!CommandFields : p[f] = config[f], NEW q
  PROVE  V!CommandValid(p, q) <=> V!CommandValid(config, q)
<1>1. /\ p.BlockedCommands = config.BlockedCommands
      /\ p.AllowedCommands = config.AllowedCommands
      /\ p.AllowDDL = config.AllowDDL /\ p.AllowDML = config.AllowDML
      /\ p.AllowDQL = config.AllowDQL
      /\ p.AllowStoredProcedures = config.AllowStoredProcedures
      /\ p.AllowedStoredProcs = config.AllowedStoredProcs
      /\ p.StrictMode = config.StrictMode
  BY DEF V!CommandFields
<1>2. V!StoredProcedureValid(p, q) <=> V!StoredProcedureValid(config, q)
  BY <1>1 DEF V!StoredProcedureValid
<1>3. V!ListedCommandValid(p, q) <=> V!ListedCommandValid(config, q)
  BY <1>1, <1>2 DEF V!ListedCommandValid
<1>4. V!CategoryValid(p, q) <=> V!CategoryValid(config, q)
  BY <1>1, <1>2 DEF V!CategoryValid
<1> QED
  BY <1>1, <1>3, <1>4 DEF V!CommandValid

\* Validation begins: what is due is decided by the policy in force.
LEMMA ReceiveStep ==
  ASSUME PolicyInv, NEW w \in Workers, NEW q \in Queries, Receive(w, q)
  PROVE  PolicyInv'
<1> USE DEF PolicyInv
<1>1. PICK p \in V!Seen({"Enabled", "MaxQueryLength"}) :
        /\ valid' = [valid EXCEPT ![w] = p.Enabled => ~V!TooLong(p, q) /\ ~q.blank]
        /\ stage' = [stage EXCEPT ![w] = IF ~p.Enabled THEN "accepted"
                                         ELSE IF q.blank THEN "refused" ELSE "command"]
  BY DEF Receive, V!Begin
<1>2. /\ stage[w] = "idle" /\ pc[w] = "idle" /\ asked < MaxQueries /\ asked' = asked + 1
      /\ query' = [query EXCEPT ![w] = q]
      /\ UNCHANGED <<config, incoming, compiled, pc>>
      /\ duty' = [duty EXCEPT ![w] =
           IF V!Updating THEN "either"
           ELSE IF V!Permits(config, q) THEN "permit" ELSE "refuse"]
  BY DEF Receive, V!Begin, Owe, vars
<1>3. V!ValidatorOK'
  <2>1. asked' \in 0 .. MaxQueries
    BY <1>2, SPAssumption DEF V!ValidatorOK
  <2>2. valid' \in [Workers -> BOOLEAN]
    BY <1>1 DEF V!ValidatorOK
  <2>3. stage' \in [Workers -> V!Stages]
    BY <1>1 DEF V!ValidatorOK, V!Stages
  <2> QED
    BY <1>1, <1>2, <2>1, <2>2, <2>3 DEF V!ValidatorOK
<1>4. JudgeInv'
  <2> SUFFICES ASSUME NEW v \in Workers
               PROVE  /\ (stage[v] \in V!Judging /\ duty[v] \in {"permit", "refuse"}
                             => Verdict(v))'
                      /\ (stage[v] = "accepted" => duty[v] # "refuse")'
                      /\ (stage[v] = "refused" => duty[v] # "permit")'
                      /\ (pc[v] # "idle" => duty[v] # "refuse")'
    BY DEF JudgeInv, V!Judging
  <2>1. CASE v # w
    BY <1>1, <1>2, <2>1 DEF JudgeInv, V!ValidatorOK, Verdict, V!Updating, V!Judging
  <2>2. CASE v = w /\ V!Updating
    BY <1>1, <1>2, <2>2
  <2>3. CASE v = w /\ ~V!Updating
    <3>1. p.Enabled = config.Enabled /\ p.MaxQueryLength = config.MaxQueryLength
      BY <2>3, SeenIsConfig
    <3>2. V!TooLong(p, q) <=> V!TooLong(config, q)
      BY <3>1 DEF V!TooLong
    <3>3. /\ query'[w] = q /\ config' = config
          /\ stage'[w] = IF ~config.Enabled THEN "accepted"
                         ELSE IF q.blank THEN "refused" ELSE "command"
          /\ valid'[w] <=> (config.Enabled => ~V!TooLong(config, q) /\ ~q.blank)
          /\ duty'[w] = IF V!Permits(config, q) THEN "permit" ELSE "refuse"
      BY <1>1, <1>2, <2>3, <3>1, <3>2 DEF V!ValidatorOK
    <3>4. ~config.Enabled => V!Permits(config, q)
      BY DEF V!Permits
    <3>5. config.Enabled /\ q.blank => ~V!Permits(config, q)
      BY DEF V!Permits
    <3>6. (stage[w] = "command" => Verdict(w))'
      <4>1. ~V!Updating'
        BY <1>2, <2>3 DEF V!Updating
      <4> QED
        BY <3>3, <4>1 DEF Verdict, V!Permits, V!TooLong, V!CommandValid,
           V!ListedCommandValid, V!CategoryValid, V!StoredProcedureValid, V!StructureErrors
    <3> QED
      BY <1>2, <2>3, <3>3, <3>4, <3>5, <3>6 DEF V!Judging
  <2> QED
    BY <2>1, <2>2, <2>3
<1> QED
  BY <1>1, <1>2, <1>3, <1>4

\* The steps of validation: each adds its part to the verdict of one policy.
LEMMA CommandStep ==
  ASSUME PolicyInv, NEW w \in Workers, V!ValidateCommand(w), UNCHANGED <<vars, duty>>
  PROVE  PolicyInv'
<1> USE DEF PolicyInv
<1>1. PICK p \in V!Seen(V!CommandFields) :
        valid' = [valid EXCEPT ![w] = @ /\ V!CommandValid(p, query[w])]
  BY DEF V!ValidateCommand
<1>2. /\ stage[w] = "command" /\ stage' = [stage EXCEPT ![w] = "injection"]
      /\ UNCHANGED <<config, incoming, compiled, asked, query, duty, pc>>
  BY DEF V!ValidateCommand, vars
<1>3. V!ValidatorOK'
  BY <1>1, <1>2 DEF V!ValidatorOK, V!Stages
<1>4. JudgeInv'
  <2> SUFFICES ASSUME NEW v \in Workers
               PROVE  /\ (stage[v] \in V!Judging /\ duty[v] \in {"permit", "refuse"}
                             => Verdict(v))'
                      /\ (stage[v] = "accepted" => duty[v] # "refuse")'
                      /\ (stage[v] = "refused" => duty[v] # "permit")'
                      /\ (pc[v] # "idle" => duty[v] # "refuse")'
    BY DEF JudgeInv, V!Judging
  <2>1. CASE v # w
    BY <1>1, <1>2, <2>1 DEF JudgeInv, V!ValidatorOK, Verdict, V!Updating, V!Judging
  <2>2. CASE v = w
    <3>1. stage'[w] = "injection" /\ (pc[w] # "idle" => duty[w] # "refuse")
      BY <1>2 DEF V!ValidatorOK, JudgeInv
    <3>2. ASSUME duty[w] \in {"permit", "refuse"} PROVE Verdict(w)'
      <4>1. Verdict(w)
        BY <1>2, <3>2 DEF JudgeInv, V!Judging
      <4>2. V!CommandValid(p, query[w]) <=> V!CommandValid(config, query[w])
        BY <4>1, SeenIsConfig, CommandByFields DEF Verdict
      <4>3. valid'[w] <=> valid[w] /\ V!CommandValid(config, query[w])
        BY <1>1, <4>2 DEF V!ValidatorOK
      <4> QED
        BY <1>2, <3>1, <4>1, <4>3 DEF Verdict, V!Updating
    <3> QED
      BY <1>2, <2>2, <3>1, <3>2
  <2> QED
    BY <2>1, <2>2
<1> QED
  BY <1>2, <1>3, <1>4

\* With all patterns compiled, one of them is found if there is one.
LEMMA InjectionStep ==
  ASSUME PolicyInv, NEW w \in Workers, V!DetectSQLInjection(w), UNCHANGED <<vars, duty>>
  PROVE  PolicyInv'
<1> USE DEF PolicyInv
<1>1. /\ stage[w] = "injection" /\ stage' = [stage EXCEPT ![w] = "structure"]
      /\ valid' = [valid EXCEPT ![w] = @ /\ ~V!InjectionDetected(compiled, query[w])]
      /\ UNCHANGED <<config, incoming, compiled, asked, query, duty, pc>>
  BY DEF V!DetectSQLInjection, vars
<1>2. V!ValidatorOK'
  BY <1>1 DEF V!ValidatorOK, V!Stages
<1>3. JudgeInv'
  <2> SUFFICES ASSUME NEW v \in Workers
               PROVE  /\ (stage[v] \in V!Judging /\ duty[v] \in {"permit", "refuse"}
                             => Verdict(v))'
                      /\ (stage[v] = "accepted" => duty[v] # "refuse")'
                      /\ (stage[v] = "refused" => duty[v] # "permit")'
                      /\ (pc[v] # "idle" => duty[v] # "refuse")'
    BY DEF JudgeInv, V!Judging
  <2>1. CASE v # w
    BY <1>1, <2>1 DEF JudgeInv, V!ValidatorOK, Verdict, V!Updating, V!Judging
  <2>2. CASE v = w
    <3>1. stage'[w] = "structure" /\ (pc[w] # "idle" => duty[w] # "refuse")
      BY <1>1 DEF V!ValidatorOK, JudgeInv
    <3>2. ASSUME duty[w] \in {"permit", "refuse"} PROVE Verdict(w)'
      <4>1. Verdict(w)
        BY <1>1, <3>2 DEF JudgeInv, V!Judging
      <4>2. compiled = NumPatterns
        BY <4>1, SPAssumption DEF V!ValidatorOK, Verdict, V!Updating
      <4>3. query[w].pattern \in 0 .. NumPatterns
        BY SPAssumption DEF V!ValidatorOK
      <4>4. V!InjectionDetected(compiled, query[w]) <=> query[w].pattern # 0
        BY <4>2, <4>3, SPAssumption DEF V!InjectionDetected
      <4>5. valid'[w] <=> valid[w] /\ query[w].pattern = 0
        BY <1>1, <4>4 DEF V!ValidatorOK
      <4> QED
        BY <1>1, <3>1, <4>1, <4>5 DEF Verdict, V!Updating
    <3> QED
      BY <1>1, <2>2, <3>1, <3>2
  <2> QED
    BY <2>1, <2>2
<1> QED
  BY <1>1, <1>2, <1>3

\* The last one gives the verdict, that of the policy.
LEMMA StructureStep ==
  ASSUME PolicyInv, NEW w \in Workers, V!ValidateStructure(w), UNCHANGED <<vars, duty>>
  PROVE  PolicyInv'
<1> USE DEF PolicyInv
<1>1. PICK p \in V!Seen({"StrictMode"}), r \in V!Seen({"StrictMode"}) :
        LET errors == V!StructureErrors(p.StrictMode, query[w])
            ok     == valid[w] /\ ~(errors /\ r.StrictMode)
        IN
        /\ valid' = [valid EXCEPT ![w] = ok]
        /\ stage' = [stage EXCEPT ![w] = IF ok THEN "accepted" ELSE "refused"]
  BY DEF V!ValidateStructure
<1> DEFINE ok == valid[w] /\ ~(V!StructureErrors(p.StrictMode, query[w]) /\ r.StrictMode)
<1>2. /\ stage[w] = "structure" /\ ok \in BOOLEAN
      /\ valid' = [valid EXCEPT ![w] = ok]
      /\ stage' = [stage EXCEPT ![w] = IF ok THEN "accepted" ELSE "refused"]
      /\ UNCHANGED <<config, incoming, compiled, asked, query, duty, pc>>
  BY <1>1 DEF V!ValidateStructure, vars
<1>3. ASSUME duty[w] \in {"permit", "refuse"}
      PROVE  ok <=> duty[w] = "permit"
  <2>1. Verdict(w)
    BY <1>2, <1>3 DEF JudgeInv, V!Judging
  <2>2. p.StrictMode = config.StrictMode /\ r.StrictMode = config.StrictMode
    BY <2>1, SeenIsConfig DEF Verdict
  <2>3. (V!StructureErrors(p.StrictMode, query[w]) /\ r.StrictMode)
          <=> (config.StrictMode /\ V!StructureErrors(TRUE, query[w]))
    BY <2>2 DEF V!StructureErrors
  <2>4. valid[w] <=> /\ ~V!TooLong(config, query[w])
                     /\ V!CommandValid(config, query[w]) /\ query[w].pattern = 0
    BY <1>2, <2>1 DEF Verdict
  <2>5. V!Permits(config, query[w]) <=>
          /\ ~V!TooLong(config, query[w])
          /\ V!CommandValid(config, query[w]) /\ query[w].pattern = 0
          /\ ~(config.StrictMode /\ V!StructureErrors(TRUE, query[w]))
    BY <2>1 DEF Verdict, V!Permits
  <2> QED
    BY <2>1, <2>3, <2>4, <2>5 DEF Verdict
<1> HIDE DEF ok
<1>4. V!ValidatorOK'
  BY <1>2 DEF V!ValidatorOK, V!Stages
<1>5. JudgeInv'
  <2> SUFFICES ASSUME NEW v \in Workers
               PROVE  /\ (stage[v] \in V!Judging /\ duty[v] \in {"permit", "refuse"}
                             => Verdict(v))'
                      /\ (stage[v] = "accepted" => duty[v] # "refuse")'
                      /\ (stage[v] = "refused" => duty[v] # "permit")'
                      /\ (pc[v] # "idle" => duty[v] # "refuse")'
    BY DEF JudgeInv, V!Judging
  <2>1. CASE v # w
    BY <1>2, <2>1 DEF JudgeInv, V!ValidatorOK, Verdict, V!Updating, V!Judging
  <2>2. CASE v = w
    <3>1. /\ stage'[w] = IF ok THEN "accepted" ELSE "refused"
          /\ pc[w] # "idle" => duty[w] # "refuse"
      BY <1>2 DEF V!ValidatorOK, JudgeInv
    <3> QED
      BY <1>2, <1>3, <2>2, <3>1 DEF V!Judging
  <2> QED
    BY <2>1, <2>2
<1> QED
  BY <1>2, <1>4, <1>5

\* A request leaves the validator, is refused, asks the cache, or gets its rows.
LEMMA RequestStep ==
  ASSUME PolicyInv, NEW w \in Workers,
         UNCHANGED <<config, incoming, compiled, asked>>,
         \E p \in {"idle", "hit", "query", "set", "direct"} : pc' = [pc EXCEPT ![w] = p],
         \/ /\ stage[w] \in {"accepted", "refused"}
            /\ stage' = [stage EXCEPT ![w] = "idle"]
            /\ query' = [query EXCEPT ![w] = V!AnyQuery]
            /\ valid' = [valid EXCEPT ![w] = TRUE]
         \/ stage[w] = "idle" /\ UNCHANGED <<stage, query, valid>>,
         \/ duty' = [duty EXCEPT ![w] = "none"]
         \/ duty' = duty /\ (duty[w] # "refuse" \/ pc'[w] = "idle"),
         pc \in [Workers -> {"idle", "hit", "query", "set", "direct"}]
  PROVE  PolicyInv'
<1> USE DEF PolicyInv
<1>1. V!AnyQuery \in Queries
  BY SPAssumption DEF V!AnyQuery
<1>2. V!ValidatorOK'
  <2>1. stage' \in [Workers -> V!Stages]
    BY DEF V!ValidatorOK, V!Stages
  <2>2. query' \in [Workers -> Queries]
    <3>1. query \in [Workers -> Queries]
      BY DEF V!ValidatorOK
    <3> QED
      BY <1>1, <3>1
  <2>3. valid' \in [Workers -> BOOLEAN]
    <3>1. valid \in [Workers -> BOOLEAN]
      BY DEF V!ValidatorOK
    <3> QED
      BY <3>1
  <2>4. \A v \in Workers : /\ stage'[v] = "accepted" => valid'[v]
                          /\ stage'[v] = "refused" => ~valid'[v]
    BY DEF V!ValidatorOK
  <2> QED
    BY <2>1, <2>2, <2>3, <2>4 DEF V!ValidatorOK
<1>3. duty' \in [Workers -> {"none", "permit", "refuse", "either"}]
  OBVIOUS
<1>4. stage'[w] = "idle" /\ \A v \in Workers \ {w} : stage'[v] = stage[v] /\ pc'[v] = pc[v]
  BY DEF V!ValidatorOK
<1>5. JudgeInv'
  <2> SUFFICES ASSUME NEW v \in Workers
               PROVE  /\ (stage[v] \in V!Judging /\ duty[v] \in {"permit", "refuse"}
                             => Verdict(v))'
                      /\ (stage[v] = "accepted" => duty[v] # "refuse")'
                      /\ (stage[v] = "refused" => duty[v] # "permit")'
                      /\ (pc[v] # "idle" => duty[v] # "refuse")'
    BY DEF JudgeInv, V!Judging
  <2>1. CASE v # w
    <3>1. /\ stage'[v] = stage[v] /\ pc'[v] = pc[v] /\ duty'[v] = duty[v]
          /\ query'[v] = query[v] /\ valid'[v] = valid[v]
      BY <2>1 DEF V!ValidatorOK
    <3> QED
      BY <3>1 DEF JudgeInv, Verdict, V!Updating, V!Judging
  <2>2. CASE v = w
    BY <1>4, <2>2 DEF JudgeInv, V!Judging
  <2> QED
    BY <2>1, <2>2
<1> QED
  BY <1>2, <1>3, <1>4, <1>5

\* The steps of PathNext: what follows in the validator, the cache stays as it
\* is or takes a step of its own.
IInv == CacheInv /\ PolicyInv

\* A request enters the validator.
LEMMA ReceivePreserves ==
  ASSUME IInv, NEW w \in Workers, NEW q \in Queries, Receive(w, q)  PROVE IInv'
BY ReceiveStep, CacheStep DEF IInv, Receive

\* The validator goes on.
LEMMA JudgePreserves == ASSUME IInv, NEW w \in Workers, Judge(w)  PROVE IInv'
BY CommandStep, InjectionStep, StructureStep, CacheStep DEF IInv, Judge, V!Validate

\* The errors are answered.
LEMMA RefusePreserves == ASSUME IInv, NEW w \in Workers, Refuse(w)  PROVE IInv'
<1>1. /\ stage[w] = "refused" /\ stage' = [stage EXCEPT ![w] = "idle"]
      /\ query' = [query EXCEPT ![w] = V!AnyQuery] /\ valid' = [valid EXCEPT ![w] = TRUE]
      /\ UNCHANGED <<config, incoming, compiled, asked, slot, entry>>
      /\ Answer(w, NoResult) /\ duty' = [duty EXCEPT ![w] = "none"]
  BY DEF Refuse, V!Leave, Owe
<1>2. pc[w] = "idle" /\ pc' = [pc EXCEPT ![w] = "idle"]
  BY <1>1 DEF IInv, PolicyInv, Answer, Goto
<1>3. CacheInv'
  BY <1>1, <1>2, CacheStep DEF IInv, Refused
<1>4. PolicyInv'
  BY <1>1, <1>2, RequestStep DEF IInv, CacheInv, Types
<1> QED
  BY <1>3, <1>4 DEF IInv

\* The validator consents: the request is not due to be refused.
LEMMA ProceedPreserves == ASSUME IInv, NEW w \in Workers, Proceed(w)  PROVE IInv'
<1>1. /\ stage[w] = "accepted" /\ stage' = [stage EXCEPT ![w] = "idle"]
      /\ query' = [query EXCEPT ![w] = V!AnyQuery] /\ valid' = [valid EXCEPT ![w] = TRUE]
      /\ UNCHANGED <<config, incoming, compiled, asked>> /\ duty' = duty
      /\ Hit(w) \/ Miss(w) \/ StartDirect(w)
  BY DEF Proceed, V!Leave
<1>2. \E p \in {"hit", "query", "direct"} : pc' = [pc EXCEPT ![w] = p]
  BY <1>1 DEF Hit, Miss, StartDirect, Goto
<1>3. duty[w] # "refuse"
  BY <1>1 DEF IInv, PolicyInv, JudgeInv
<1>4. CacheInv'
  BY <1>1, CacheStep DEF IInv, Next
<1>5. PolicyInv'
  BY <1>1, <1>2, <1>3, RequestStep DEF IInv, CacheInv, Types
<1> QED
  BY <1>4, <1>5 DEF IInv

\* The rows were read.
LEMMA ReadRowsPreserves == ASSUME IInv, NEW w \in Workers, ReadRows(w)  PROVE IInv'
<1>1. /\ pc[w] = "query" /\ pc' = [pc EXCEPT ![w] = "set"] /\ duty' = duty
      /\ UNCHANGED <<config, incoming, compiled, asked, stage, query, valid>>
  BY DEF ReadRows, RowsEnd, Goto, validatorVars
<1>2. stage[w] = "idle" /\ duty[w] # "refuse"
  BY <1>1 DEF IInv, PolicyInv, JudgeInv
<1>3. CacheInv'
  BY CacheStep DEF IInv, ReadRows, Next
<1>4. PolicyInv'
  BY <1>1, <1>2, RequestStep DEF IInv, CacheInv, Types
<1> QED
  BY <1>3, <1>4 DEF IInv

\* The answer is sent.
LEMMA ReplyPreserves == ASSUME IInv, NEW w \in Workers, Reply(w)  PROVE IInv'
<1>1. /\ pc[w] # "idle" /\ pc' = [pc EXCEPT ![w] = "idle"]
      /\ duty' = [duty EXCEPT ![w] = "none"]
      /\ UNCHANGED <<config, incoming, compiled, asked, stage, query, valid>>
  BY DEF Reply, SendHit, QueryError, Set, DirectEnd, Answer, Goto, Owe, validatorVars
<1>2. stage[w] = "idle"
  BY <1>1 DEF IInv, PolicyInv
<1>3. CacheInv'
  BY CacheStep DEF IInv, Reply, Next
<1>4. PolicyInv'
  BY <1>1, <1>2, RequestStep DEF IInv, CacheInv, Types
<1> QED
  BY <1>3, <1>4 DEF IInv

\* A policy that is being replaced, and patterns that are being compiled, judge
\* only requests that are due either verdict.
LEMMA SetPolicyPreserves ==
  ASSUME IInv, (\E p \in Policies : SetPolicy(p)) \/ Compile  PROVE IInv'
<1> USE DEF IInv, PolicyInv
<1>1. /\ UNCHANGED <<asked, stage, query, valid>> /\ UNCHANGED vars
      /\ V!Updating \/ \A v \in Workers :
           duty'[v] = IF stage[v] \in V!Judging THEN "either" ELSE duty[v]
      /\ V!Updating => duty' = duty
  BY DEF SetPolicy, Compile, V!UpdateConfig, V!StartCompiling, V!CompilePattern, V!Updating
<1>2. V!ValidatorOK'
  BY <1>1, SPAssumption DEF SetPolicy, Compile, V!UpdateConfig, V!StartCompiling,
     V!CompilePattern, V!ValidatorOK
<1>3. duty' \in [Workers -> {"none", "permit", "refuse", "either"}]
  BY DEF SetPolicy, Compile
<1>4. JudgeInv'
  <2>1. ASSUME NEW v \in Workers, duty'[v] \in {"permit", "refuse"}
        PROVE  stage[v] \notin V!Judging /\ duty'[v] = duty[v]
    BY <1>1, <2>1 DEF JudgeInv, Verdict
  <2> QED
    BY <1>1, <1>3, <2>1 DEF JudgeInv, V!Judging, vars
<1>5. CacheInv'
  BY <1>1, CacheStep
<1> QED
  BY <1>1, <1>2, <1>3, <1>4, <1>5 DEF vars

\* The cache and time leave the validator alone.
LEMMA EnvironmentPreserves == ASSUME IInv, Environment  PROVE IInv'
<1>1. UNCHANGED <<config, incoming, compiled, asked, stage, query, valid, duty, pc>>
  BY DEF Environment, validatorVars, Evict, ClearCache, Tick
<1>2. CacheInv'
  BY CacheStep DEF IInv, Environment, Next
<1>3. PolicyInv'
  BY <1>1 DEF IInv, PolicyInv, V!ValidatorOK, JudgeInv, Verdict, V!Updating, V!Judging
<1> QED
  BY <1>2, <1>3 DEF IInv

\* What the cache sees of a step of the path.
LEMMA CacheSees ==
  ASSUME IInv, [PathNext]_pathVars
  PROVE  [Next]_vars \/ \E w \in Workers : Refused(w)
<1>1. ASSUME NEW w \in Workers, Refuse(w) PROVE Refused(w)
  <2>1. stage[w] = "refused" /\ Answer(w, NoResult) /\ UNCHANGED <<slot, entry>>
    BY <1>1 DEF Refuse
  <2>2. pc[w] = "idle"
    BY <2>1 DEF IInv, PolicyInv
  <2> QED
    BY <2>1, <2>2 DEF Refused
<1>2. ASSUME NEW w \in Workers, Proceed(w) \/ ReadRows(w) \/ Reply(w) PROVE Next
  BY <1>2 DEF Proceed, ReadRows, Reply, Next
<1>3. ASSUME NEW w \in Workers, Judge(w) \/ \E q \in Queries : Receive(w, q)
      PROVE  UNCHANGED vars
  BY <1>3 DEF Judge, Receive
<1>4. ASSUME (\E p \in Policies : SetPolicy(p)) \/ Compile PROVE UNCHANGED vars
  BY <1>4 DEF SetPolicy, Compile
<1>5. ASSUME Environment PROVE Next
  BY <1>5 DEF Environment, Next
<1>6. ASSUME UNCHANGED pathVars PROVE UNCHANGED vars
  BY <1>6 DEF pathVars
<1> QED
  BY <1>1, <1>2, <1>3, <1>4, <1>5, <1>6 DEF PathNext

\* The path begins with an empty cache, an idle validator and a policy in force.
LEMMA PathInitInv == PathInit => IInv
<1> SUFFICES ASSUME PathInit PROVE IInv
  OBVIOUS
<1>1. V!AnyQuery \in Queries
  BY SPAssumption DEF V!AnyQuery
<1>2. V!ValidatorOK
  BY <1>1, SPAssumption DEF PathInit, V!Init, V!ValidatorOK, V!Stages
<1>3. PolicyInv
  BY <1>2 DEF PathInit, V!Init, Init, PolicyInv, JudgeInv, V!Judging
<1> QED
  BY <1>3, CacheInit DEF PathInit, IInv
-----------------------------------------------------------------------------
(* The theorems.                                                           *)

\* The cache's memory, the verdicts so far and the requests' dues agree in every
\* state of the path: the invariant the others follow from.
THEOREM Invariance == PathSpec => []IInv
<1>1. IInv /\ [PathNext]_pathVars => IInv'
  <2> SUFFICES ASSUME IInv, [PathNext]_pathVars PROVE IInv'
    OBVIOUS
  <2>1. CASE UNCHANGED pathVars
    <3>1. UNCHANGED <<config, incoming, compiled, asked, stage, query, valid, duty, pc>>
      BY <2>1 DEF pathVars, vars, validatorVars
    <3>2. CacheInv'
      BY <2>1, CacheStep DEF IInv, pathVars
    <3> QED
      BY <3>1, <3>2 DEF IInv, PolicyInv, V!ValidatorOK, JudgeInv, Verdict, V!Updating,
         V!Judging
  <2> QED
    BY <2>1, JudgePreserves, RefusePreserves, ProceedPreserves, ReadRowsPreserves,
       ReplyPreserves, ReceivePreserves, SetPolicyPreserves, EnvironmentPreserves
       DEF PathNext
<1> QED
  BY <1>1, PathInitInv, PTL DEF PathSpec

\* The types, and a worker is in one place of the path.
THEOREM PathTypesCorrect == PathSpec => []PathTypeOK
<1>1. IInv => PathTypeOK
  BY CacheTypes DEF IInv, PolicyInv, PathTypeOK
<1> QED
  BY <1>1, Invariance, PTL

\* A request that asks after a Clear is answered as the database was at most one
\* statement timeout before it: what it hit was stored since, and what was stored
\* since was read by a request that had not timed out.
THEOREM ClearingTakesEffect == PathSpec => ClearTakesEffect
<1>1. ASSUME IInv, IInv', [PathNext]_pathVars
      PROVE  [\A w \in Workers \ before :
                pc[w] # "idle" /\ pc'[w] = "idle" /\ sent' # NoResult
                  => sent'.age <= cleared + SqlTimeout]_vars
  <2>1. [Next]_vars \/ \E w \in Workers : Refused(w)
    BY <1>1, CacheSees
  <2> QED
    BY <1>1, <2>1, RecentAnswer DEF IInv
<1> QED
  BY <1>1, Invariance, PTL DEF PathSpec, ClearTakesEffect

\* No answer shows the database as it was longer than MaxStale ago.
THEOREM StalenessBounded == PathSpec => []BoundedStaleness
<1>1. IInv => BoundedStaleness
  BY DEF IInv, CacheInv
<1> QED
  BY <1>1, Invariance, PTL

\* What the policy in force forbids gets no rows, not from the cache either, and
\* what it allows is not refused.
THEOREM PolicyDecides == PathSpec => []Policed
<1>1. IInv => Policed
  BY DEF IInv, PolicyInv, JudgeInv, Policed
<1> QED
  BY <1>1, Invariance, PTL
=============================================================================
