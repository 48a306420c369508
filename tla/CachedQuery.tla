---------------------------- MODULE CachedQuery ----------------------------
(***************************************************************************)
(* handleSQL (server/server.go) once the validator has accepted: SELECTs   *)
(* outside a transaction that have one cache key, whose workers share one  *)
(* entry of the query cache, and statements that skip the cache.  The      *)
(* cache's own structure is in QueryCache; here an entry is an object in   *)
(* memory, because Get hands out a pointer into it that the worker reads   *)
(* later, without the lock.                                                *)
(*                                                                         *)
(* Times are ages in ticks, saturating where they stop mattering.  A       *)
(* request runs for at most SqlTimeout: its context ends the statement,    *)
(* and what is left of the handler takes no time.                          *)
(***************************************************************************)
EXTENDS Naturals

CONSTANTS
  Workers,
  Addrs,       \* addresses a CacheEntry can have
  Nil,
  NoResult,    \* no rows: nothing read yet, or an error is answered
  TTL,         \* QueryCacheConfig.TTL
  SqlTimeout   \* Handler.sqlTimeout

ASSUME CQAssumption ==
  /\ Nil \notin Addrs /\ TTL \in Nat /\ SqlTimeout \in Nat \ {0}
  /\ NoResult \notin [age : Nat]

VARIABLES
  slot,   \* the entry qc.cache holds for the query, or Nil
  entry,  \* [Addrs -> result, age since it was stored]
  pc,     \* [Workers -> point in handleSQL]
  since,  \* [Workers -> age of the request]
  ptr,    \* [Workers -> the entry the pointer Get returned points into]
  got,    \* [Workers -> the result: of the Get that hit, or of the rows read]
  sent,   \* the last response published
  cleared, before   \* history: time since the last ClearCache, and the workers
                    \* whose requests had asked the cache or database by then

clearVars == <<cleared, before>>
vars == <<slot, entry, pc, since, ptr, got, sent, clearVars>>

MaxStale    == TTL + 2 * SqlTimeout
LongCleared == TTL + SqlTimeout

\* A result is told from others by how long ago the database was read.
Results == [age : 0 .. MaxStale + 1] \cup {NoResult}
Zero    == [res |-> NoResult, age |-> 0]

\* Types; and memory in use is what the cache or a worker refers to.
TypeOK ==
  /\ slot \in Addrs \cup {Nil}
  /\ entry \in [Addrs -> [res : Results, age : 0 .. TTL + 1]]
  /\ {e \in Addrs : entry[e] # Zero} = ({slot} \cup {ptr[w] : w \in Workers}) \ {Nil}
  /\ pc \in [Workers -> {"idle", "hit", "query", "set", "direct"}]
  /\ since \in [Workers -> 0 .. SqlTimeout]
  /\ ptr \in [Workers -> Addrs \cup {Nil}]
  /\ got \in [Workers -> Results]
  /\ sent \in Results
  /\ cleared \in 0 .. LongCleared /\ before \subseteq Workers

Init ==
  /\ slot = Nil /\ entry = [e \in Addrs |-> Zero]
  /\ pc = [w \in Workers |-> "idle"]
  /\ since = [w \in Workers |-> 0]
  /\ ptr = [w \in Workers |-> Nil]
  /\ got = [w \in Workers |-> NoResult]
  /\ sent = NoResult
  /\ cleared = LongCleared /\ before = {}

Goto(w, p) == pc' = [pc EXCEPT ![w] = p]
Answer(w, r) ==
  /\ Goto(w, "idle") /\ sent' = r
  /\ ptr' = [ptr EXCEPT ![w] = Nil] /\ got' = [got EXCEPT ![w] = NoResult]
  /\ since' = [since EXCEPT ![w] = 0]
  /\ before' = before \ {w} /\ UNCHANGED cleared
\* The garbage collector: what neither s nor a pointer in p refers to is free.
Collect(en, s, p) ==
  entry' = [e \in Addrs |-> IF e = s \/ \E w \in Workers : p[w] = e
                            THEN en[e] ELSE Zero]
Fresh == slot # Nil /\ entry[slot].age <= TTL
-----------------------------------------------------------------------------
\* Mutant: the age of the entry is not looked at.
HitAnyAge(w) ==
  /\ pc[w] = "idle" /\ slot # Nil
  /\ Goto(w, "hit")
  /\ ptr' = [ptr EXCEPT ![w] = slot]
  /\ got' = [got EXCEPT ![w] = entry[slot].res]
  /\ UNCHANGED <<slot, entry, since, sent, clearVars>>

\* Get: a hit returns &entry.Response.
Hit(w) ==
  /\ pc[w] = "idle" /\ Fresh
  /\ Goto(w, "hit")
  /\ ptr' = [ptr EXCEPT ![w] = slot]
  /\ got' = [got EXCEPT ![w] = entry[slot].res]
  /\ UNCHANGED <<slot, entry, since, sent, clearVars>>

\* The response is read through the pointer after the lock was released.
SendHit(w) ==
  /\ pc[w] = "hit" /\ Answer(w, entry[ptr[w]].res)
  /\ Collect(entry, slot, ptr')
  /\ UNCHANGED slot

\* A miss, which drops an expired entry: the query starts.
Miss(w) ==
  /\ pc[w] = "idle" /\ ~Fresh
  /\ slot' = Nil /\ Collect(entry, Nil, ptr)
  /\ Goto(w, "query")
  /\ got' = [got EXCEPT ![w] = [age |-> 0]]
  /\ UNCHANGED <<since, ptr, sent, clearVars>>

\* A statement that is no SELECT, or is in a transaction, asks the database at once.
StartDirect(w) ==
  /\ pc[w] = "idle" /\ Goto(w, "direct")
  /\ got' = [got EXCEPT ![w] = [age |-> 0]]
  /\ UNCHANGED <<slot, entry, since, ptr, sent, clearVars>>

\* Its rows, if any, go to the client and nowhere else.
DirectEnd(w) ==
  /\ pc[w] = "direct" /\ Answer(w, got[w])
  /\ UNCHANGED <<slot, entry>>

\* The database or a Scan reports an error.
QueryError(w) ==
  /\ pc[w] \in {"query", "direct"} /\ Answer(w, NoResult)
  /\ UNCHANGED <<slot, entry>>

\* rows.Next returns false: after the last row or, as rows.Err() is not looked
\* at, because the statement was cut off.  Either way the rows read are kept.
RowsEnd(w) ==
  /\ pc[w] = "query" /\ Goto(w, "set")
  /\ UNCHANGED <<slot, entry, since, ptr, got, sent, clearVars>>

\* Mutant: Set makes a new entry each time and forgets to put it in the map.
SetUnmapped(w) ==
  /\ pc[w] = "set"
  /\ \E e \in {a \in Addrs : entry[a] = Zero} :
       entry' = [entry EXCEPT ![e] = [res |-> got[w], age |-> 0]]
  /\ Answer(w, got[w])
  /\ UNCHANGED slot

\* Set updates the entry in place when there is one by now.
Set(w) ==
  /\ pc[w] = "set"
  /\ \E e \in IF slot # Nil THEN {slot} ELSE {a \in Addrs : entry[a] = Zero} :
       /\ slot' = e
       /\ entry' = [entry EXCEPT ![e] = [res |-> got[w], age |-> 0]]
  /\ Answer(w, got[w])

\* Eviction for another key's sake, or cleanup of the expired entry.
Evict ==
  /\ slot # Nil
  /\ slot' = Nil /\ Collect(entry, Nil, ptr)
  /\ UNCHANGED <<pc, since, ptr, got, sent, clearVars>>

NowCleared == cleared' = 0 /\ before' = {w \in Workers : pc[w] # "idle"}

\* Mutant: clearing keeps an entry that is still fresh.
ClearStaleOnly ==
  /\ slot' = (IF Fresh THEN slot ELSE Nil) /\ Collect(entry, slot', ptr)
  /\ NowCleared
  /\ UNCHANGED <<pc, since, ptr, got, sent>>

\* ClearCache, and SetCacheConfig, which starts with an empty cache.
ClearCache ==
  /\ slot' = Nil /\ Collect(entry, Nil, ptr)
  /\ NowCleared
  /\ UNCHANGED <<pc, since, ptr, got, sent>>

Later(n, bound) == IF n < bound THEN n + 1 ELSE n
LaterResult(r) ==
  IF r = NoResult THEN r ELSE [r EXCEPT !.age = Later(@, MaxStale + 1)]

Tick ==
  /\ \A w \in Workers : pc[w] # "idle" => since[w] < SqlTimeout
  /\ entry' = [e \in Addrs |-> IF entry[e] = Zero THEN Zero ELSE
                 [entry[e] EXCEPT !.age = Later(@, TTL + 1), !.res = LaterResult(@)]]
  /\ since' = [w \in Workers |-> IF pc[w] = "idle" THEN 0 ELSE since[w] + 1]
  /\ got' = [w \in Workers |-> LaterResult(got[w])]
  /\ sent' = NoResult /\ cleared' = Later(cleared, LongCleared)
  /\ UNCHANGED <<slot, pc, ptr, before>>

Next ==
  \/ \E w \in Workers :
       \/ Hit(w) \/ SendHit(w) \/ Miss(w) \/ QueryError(w) \/ RowsEnd(w) \/ Set(w)
       \/ StartDirect(w) \/ DirectEnd(w)
  \/ Evict \/ ClearCache \/ Tick

Spec == Init /\ [][Next]_vars
-----------------------------------------------------------------------------
(* Properties.                                                             *)

\* However requests, eviction and expiry interleave, an answer shows the
\* database as it was at most TTL and two statement timeouts ago: one for the
\* query that filled the cache, one for the request that is answered.
BoundedStaleness == sent # NoResult => sent.age <= MaxStale

\* A request that asks the cache after ClearCache (or SetCacheConfig) is answered
\* as the database was at most one statement timeout before the cache was cleared,
\* although queries that were under way then store what they read afterwards.
ClearTakesEffect ==
  [][\A w \in Workers \ before :
       pc[w] # "idle" /\ pc'[w] = "idle" /\ sent' # NoResult
         => sent'.age <= cleared + SqlTimeout]_vars
=============================================================================
