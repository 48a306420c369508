---------------------------- MODULE ServerLocks ----------------------------
(***************************************************************************)
(* The nested locks of the server, in the order its operations take them:  *)
(* qc.mutex and the counters' stats.mutex of the query cache               *)
(* (server/query_cache.go), rl.mutex and a client's bucket.mutex of the    *)
(* rate limiter (server/rate_limiter.go).  (tm.mutex, held across database *)
(* calls, is in TransactionManager.)                                       *)
(***************************************************************************)
EXTENDS Naturals, Sequences

CONSTANTS Procs, Nobody

VARIABLES todo, writer, readers

Mutexes == {"qc.mutex", "stats.mutex", "rl.mutex", "bucket.mutex"}

\* An operation holding lock l for the steps of body.
Locked(l, body)   == <<[op |-> "Lock", on |-> l]>> \o body
                     \o <<[op |-> "Unlock", on |-> l]>>
RLocked(l, body)  == <<[op |-> "RLock", on |-> l]>> \o body
                     \o <<[op |-> "RUnlock", on |-> l]>>
-----------------------------------------------------------------------------
\* recordHit, recordMiss, recordEviction, recordExpiration.
Record == Locked("stats.mutex", <<>>)

\* Get counts the request and then a hit, a miss or an expiration.
GetLocks == Locked("qc.mutex", Record \o Record)

\* Set that updates an entry or has room, and Clear.
SetLocks == Locked("qc.mutex", <<>>)

\* Set that evicts; cleanupExpired with one entry to remove.
EvictLocks == Locked("qc.mutex", Record)

\* GetStats read-locks the cache while it holds the counters.
GetStatsLocks == RLocked("stats.mutex", RLocked("qc.mutex", <<>>))
-----------------------------------------------------------------------------
Bucket == Locked("bucket.mutex", <<>>)

\* Allow with a bucket at hand.
AllowLocks == RLocked("rl.mutex", <<>>) \o Bucket

\* Allow with a bucket to make.
AllowNewLocks == RLocked("rl.mutex", <<>>) \o Locked("rl.mutex", <<>>) \o Bucket

\* performCleanup looks into the buckets with the map locked.
PerformCleanupLocks == Locked("rl.mutex", Bucket)

LimiterOperations == {AllowLocks, AllowNewLocks, PerformCleanupLocks}
CacheOperations   == {GetLocks, SetLocks, EvictLocks, GetStatsLocks}
ServerOperations  == LimiterOperations \cup CacheOperations

INSTANCE RWLocks WITH Locks <- Mutexes, Operations <- ServerOperations

\* Goroutines run, and neither kind of lock starves those who wait for it.
FairSpec == Spec /\ \A p \in Procs : SF_vars(Run(p))

\* "Thread-safe concurrent access": every call of the cache and the limiter
\* returns, however the calls of several goroutines interleave.
CallsReturn == OperationsReturn
=============================================================================
