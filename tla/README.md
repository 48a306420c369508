# burrowctl: a TLA+ model of the server and the Go client

burrowctl lets a client run SQL, shell commands and functions on a remote
device through RabbitMQ. A Go driver for `database/sql` (`client/`) publishes
JSON requests to queues named after the device; a server on the device
(`server/`) consumes them, runs them on a pool of workers and publishes one
reply per request to the client's exclusive reply queue.

These modules model the parts of that program in which order, concurrency and
failure matter. TLC checks them on small instances, and TLAPS proves the safety
properties that the runs check, and two refinements, for every value of the
constants. Where
the code and one of its comments disagree, a run shows it (see *Findings*).

    tlc -config MCTransactionManager.cfg MCTransactionManager    # one run
    tlapm TransactionManagerProofs.tla                           # the proofs

## Inventory

| Component | State | Operations | What is hard | What makes it correct |
|---|---|---|---|---|
| Main loop and worker pool (`server/server.go`, `worker_pool.go`) | broker queue, delivery buffer, `wp.queue`, workers, `wp.ctx` | `Start`, `SubmitTask`, `processTask`, `Stop`, `respond` | auto-acknowledged deliveries, full queue, panics, shutdown racing the queue, crash, broken AMQP connection | one reply per request, nothing lost while the process runs and is connected, shutdown ends |
| Transaction registry (`transactions.go`) | `tm.transactions`, each entry's `sql.Tx` and `LastUsed`, `tm.mutex` | begin, commit, rollback, lookup, cleanup every 5 minutes | a `*sql.Tx` used after the lock is released; database calls made with the lock held; a shared pool | no orphaned connection, no registered transaction replaced, none cleaned up in use, abandoned ones reclaimed |
| Query cache (`query_cache.go`) | map, linked list, `lastCleanup`, counters | `Get`, `Set`, `Clear`, `cleanupExpired`, `GetStats` | pointer surgery, cleanup goroutines, two locks | map and list agree; behaves as an LRU map with time to live |
| SELECT path (`handleSQL`) | the entry of a key, the pointer a worker holds | verdict, hit, miss, rows, `Set`, `ClearCache` | a pointer into an entry that leaves the lock; a slow query that stores after a clear; rows cached under an older policy | bounded staleness; a clear takes effect; the policy decides over cached rows too |
| Rate limiter (`rate_limiter.go`) | token bucket per client | `Allow`, `cleanup` | first look, second look and use in three steps, with other workers and cleanup between | burst and rate respected up to one request per worker, and exactly unless the cleanup drops a bucket in use |
| Server heartbeat (`heartbeat.go`) | table of clients | ping, stale marking | the table never shrinks | an active client is not marked stale |
| SQL validator (`sql_validator.go`) | `v.config`, `v.injectionRegexes`, counters | `ValidateQuery`, `UpdateConfig` | the policy is read without the lock, field by field, while it is replaced | what the policy forbids is refused, what it allows is not |
| Dispatch (`handleMessage`) | none of its own | by form and type of the body | pings in the RPC queue, bodies that do not parse | a request is answered |
| Commands and functions (`server.go`) | function registry (filled before `Start`) | `handleCommand`, `handleFunction`, `convertToType` | JSON values meet any Go signature; reflection panics | a function gets what its signature asks for or is not called |
| Configuration and monitoring (`config.go`, `server_factory.go`, `monitoring.go`) | settings | option parsing, periodic logging | none but the locks of `GetStats` | |
| Client connection manager (`client/reconnect.go`) | `cm.conn`, `isConnected`, `attempts`, goroutines | `doConnect`, `monitorConnection`, `reconnectLoop`, `Reconnect`, `Close` | unlocked reads, monitors that wake late, loops that sleep across a `Close` | a loss is noticed and recovered from, no connection leaks |
| Client heartbeat (`client/heartbeat.go`) | `isActive`, `missedBeats`, signal channels | activate, deactivate, beat, `Stop` | signals that queue up, a callback under the lock | a dead connection is found while a request is under way |
| Client transactions (`client/tx.go`, `conn.go`) | `currentTx`, `tx.state`, locks | `Begin`, `Commit`, `Rollback`, queries | late and lost replies, one connection for many transactions | a reported outcome is true; queries run where they belong |
| Driver, statements, rows, high-level client | | adaptors to `database/sql` | | |
| Node.js client (`client-nodejs/`) | pending requests, connection | query, transactions | late and lost replies | |
| Examples | | demonstrations | | |

Interactions. The client publishes to `device_<id>_rpc` (queries),
`<id>` (transaction commands) and `device_<id>_heartbeat` (pings). The
server's loop hands RPC deliveries to `SubmitTask`; a worker calls
`handleMessage`, which asks the rate limiter and then calls `handleSQL` (cache,
registry, database), `handleTransaction` (registry), `handleCommand` or
`handleFunction`. Cache, limiter and registry are shared by all workers, each
under locks of its own; the cleanup goroutines share them too. In the client the
heartbeat manager calls the connection manager's `Reconnect` from a callback.

## Plan

Modules, the most important behaviour first. The first ten exist, each with its
proofs in a module of that name and `Proofs`, except 5.

1. `TransactionManager`: registry, handlers, pool.
2. `RpcServer`, refining `RequestReply`: from the broker to the reply.
3. `QueryCache`, refining `LRUCache`; `CachedQuery` on top of one entry.
4. `RateLimiter`.
5. `ServerLocks`, an instance of `RWLocks`: nested locks.
6. `ConnectionManager`.
7. `ClientTx`.
8. `ClientHeartbeat` and `ServerHeartbeat`, composed in `HeartbeatSystem`.
9. `SQLValidator` on `SQLPolicy`, composed with `CachedQuery` in `SelectPath`.
10. `HandleMessage` on `RateLimiter` and `FunctionCalls`.
11. `ClientHeartbeat` on `ConnectionManager`, whose `Reconnect` is its callback,
    in place of the external connection of `HeartbeatSystem`.
12. `TransactionSystem`: `ClientTx` with `TransactionManager` as its server
    instead of the external one, in which a COMMIT's late success and its
    client's view meet.
13. The Node.js client as an instance of the request/reply protocol.

Theorems. Done: the safety of the registry, of `RpcServer` with the refinement of
`RequestReply`, of `QueryCache` with the refinement of `LRUCache`, of
`SelectPath`, `HandleMessage`, `ConnectionManager`, `ClientTx` and
`HeartbeatSystem`. Left: what `FunctionCalls` and `SQLPolicy` compute, as lemmas
about their operators for any signature and any policy; that `ServerLocks` without
`GetStats` always has an owner of a lock who can go on; and the modules above that
do not exist yet.

## Modules and the code

`PROJECT.json` maps each definition to its lines. In outline:

**TransactionManager.** A worker has a program point `pc`, the request's
TransactionID `id` and the pointer `ptr` it holds after unlocking. `mutex` is
`tm.mutex`. `BeginTransaction`, `CommitTransaction`, `RollbackTransaction` and
the cleanup hold it across `database/sql` calls, so each is two steps: the lock
with the checks under it (`BeginLock`, `FinishLock`, `CleanupLock`) and the end
of the database call (`BeginOk`/`BeginError`, `FinishOk`/`FinishError`,
`CleanupOne`), between which others run or wait. `GetTransaction` cannot block
and is one step; the statement that follows (`TxQueryStart`, `TxQueryEnd`) runs
with no lock. Of `sql.Tx` the model knows what the code relies on: a finished Tx
refuses statements, and finishing waits for the statement in flight. `conns` is
the pool: transactions and plain queries hold its connections. `LastUsed` is
abstracted to `stale`: over 30 minutes ago. A statement ends within 10 seconds,
so a transaction in use does not become stale. In mode `close` every BEGIN opens
a handle of its own (`handles`); plain queries close theirs.

**RpcServer.** `broker` is the queue, `inbox` the deliveries the library has
buffered, `queue` the pool's channel, `task` what a worker runs, `replies` the
count of replies published per message. `Submit` is `SubmitTask`'s select with
its default branch and the loop's "Server overloaded" answer. `ProcessTask` is
`handleMessage` with the deferred recovery: on every path it publishes one reply,
and the error of a dead channel is ignored, as `respond` does. `LoopDone` is
`ctx.Done`, after which the deferred `Stop` waits for the workers or its timeout.
`ProcessEnds` is an exit or a crash: all the process held is gone. A process may
be started again with a fresh handler. Messages with an empty body are skipped by
the loop, messages without `ReplyTo` by the worker. `RequestReply` is what this
promises per request: answered at most once, and never once lost.

**QueryCache.** Every operation runs under `qc.mutex`, so each is one action; the
linked list is modelled with its `prev`/`next`/`head`/`tail` pointers and the
same surgery as `addToFront`, `removeFromList` and `evictLRU`. The goroutines
`Set` starts are counted in `cleaners`. `LRUCache` is the abstract sequence of
keys in order of use; `ImplementsLRUCache` maps the list to it.

**CachedQuery.** The read-only queries that share one key, and so one entry. An
entry is an object in memory because `Get` returns a pointer into it, which the
worker reads later (`SendHit`) and a `Set` may have overwritten meanwhile. Results
carry only their age. Memory is collected when neither the cache nor a pointer
refers to it. Statements that skip the cache only ask the database (`StartDirect`,
`DirectEnd`). `ClearCache` stands for `SetCacheConfig` too, which installs an empty
cache. `cleared` and `before` are history: how long ago that was, and which workers
had a request under way then.

**SQLPolicy, SQLValidator.** `SQLPolicy` has the rules: a policy, how the server's
settings become one, and what each check of `ValidateQuery` says of a query. A
query is what the text scans find in it: first word, length, the first injection
pattern that matches, structure, name of the procedure. `SQLValidator` has the
steps: `Begin`, `ValidateCommand`, `DetectSQLInjection` and `ValidateStructure`
read `v.config` and the patterns without the lock, so while `UpdateConfig` copies
a policy in (`incoming`) each read finds old or new fields (`Seen`), and while the
patterns are compiled again (`compiled`) only some of them are there.

**SelectPath.** `handleSQL` from the request to the reply: `SQLValidator` and then
`CachedQuery`. `duty` is a history variable: what the policy in force says of the
request a worker has, or "either" when the policy was replaced during its
validation.

**RateLimiter.** `Lookup` finds a bucket under the read lock; `Miss` finds none, and
`SecondLook` looks again under the write lock and makes one if there is still none;
`Take` uses it under `bucket.mutex`. Other workers and `PerformCleanup` may run
between. `credit` and `raced` are history: an ideal bucket per client, charged for
each request let through, and the clients whose bucket was ever dropped while a
worker held it.

**FunctionCalls, HandleMessage.** `FunctionCalls` has `convertToType`,
`prepareFunctionParams` and `executeFunction` as operators on JSON values and
types, with what `reflect` panics over. `HandleMessage` is `handleMessage`: `Skip`,
`Ping` and `Malformed` end before the limiter; `Ask` is `RateLimiter`'s looking up of
the bucket, and its `Take` decides between `Refuse` and the handler (`Handle`). The content of a
request matters only then and is chosen then. `last` keeps the last body with its
answer, whether a function or command was run for it, and whether `functionTimeout`
was over before the function began (`late`), which is an error; once it runs
(`RunFunction`) nobody looks at the context again.

**ServerLocks, RWLocks.** `RWLocks` is Go's `sync.RWMutex`: `Lock` announces
itself, which keeps new readers out, then waits for the readers inside.
`ServerLocks` lists each operation of cache and limiter as its sequence of lock
steps.

**ConnectionManager.** One monitor goroutine per connection made (`monitor`),
`reconnectLoop`s counted by where they are (`loops`), and `dialing`, which says
who is inside `doConnect` with `cm.mutex` held. `MonitorStart` and `MonitorRead`
are the two unlocked reads of `cm.conn`; the process dies (`panicked`) when the
second finds nil. `config` is what the driver was configured with: the limit of
attempts, and whether there is a heartbeat, which calls `Reconnect` at any time.

**ClientTx.** One driver connection as `database/sql` uses it: one call at a
time, one transaction at a time. A request in `wire` may be served late, after
its call has given up (`live` is then false). The server is external: it begins,
finishes, expires and runs as `TransactionManager` does. From "clearing" no step
leads on, because the code waits there for a lock the same call holds.

**ClientHeartbeat, ServerHeartbeat, HeartbeatSystem.** `ClientHeartbeat` is the
manager of one driver connection: `Activate` and `Deactivate` around an RPC set
`isActive` and also send a signal (`signals` is `activateChan`), which
`heartbeatLoop` applies later (`LoopSignal`). `beat` says where that loop is: in
its select, in `sendHeartbeat` waiting for a pong, or in the disconnect callback
with `hm.mutex` held. `ServerHeartbeat` is the table of clients with the age of
their last ping. `HeartbeatSystem` joins them: `link` is the connection (open, open
but deaf, or none), which `ConnectionManager` and the broker change, and `wire` the
ping or pong of the beat under way, or a ping nobody waits for any longer. A tick is
one heartbeat interval; steps that are quick compared with it come before it.
Pings that wait together count as one. `row`, `busy` and `dropped` are history.

## Runs

Passing:

| Run | Instance | Shows |
|---|---|---|
| `MCTransactionManager` | 2 workers, a named id and the empty one, 2 transactions, pool of 2, mode `open` | All safety properties, that each request is answered and that abandoned transactions are reclaimed. |
| `MCRpcServer` | 2 requests, one of which may hang, one empty and one unaddressed message, 2 workers, queue of 1 | At most one reply, one place per request, loss only with the process or its connection, refinement of `RequestReply`; a running server answers; shutdown ends. |
| `QCList` | 4 keys, 2 values, size 3, TTL 1, 2 cleaners | Map and list agree; LRU refinement. |
| `SPSafety` | 2 workers, 5 kinds of query (two share a key), 3 requests, 4 policies, 2 patterns, TTL 1, statement timeout 1 | Answers at most TTL and two statement timeouts old; a request after a clear gets nothing read earlier than one statement timeout before it; no rows, cached or not, for a request that the policy forbids, and no refusal of one that it allows. |
| `HMSafety` | 2 workers, 1 client, rate 3, burst 1, cutoff 1; 8 signatures with about 30 calls, every form and type of body | At most one request per worker beyond burst and rate, and none for a client whose bucket was never dropped under a worker; functions are called with what they ask for; an error means that the call does not fit or came too late; every request is answered. |
| `MCConnectionManager` | 3 addresses, 2 loops; no limit, limit of 2, heartbeat | Always watched; without the heartbeat no leak, bounded attempts, recovery. |
| `CXSafety` | 2 transactions | Reported outcomes are true; queries of a transaction run in it or not at all. |
| `MCHeartbeatSystem` | 2 missed beats, channels of 3, age of 2 intervals | A busy client is listed as active; a connection is dropped only after missed beats in a row; a dead one is found while an RPC is under way; a client that closed is marked inactive. |

*Bounds.* Two workers are enough for every pair of operations to race; with the
cleaner the registry has three parties. Two transactions and two ids give the
reuse of an id, and two live transactions that fill the pool together. A queue of
one with four messages meets both the full and the empty queue, and one hanging
request leaves one worker. In the cache, size 3 with 4 keys makes head, middle
and tail of the list different entries and evicts on every new key; two pending
cleaners give the second one nothing to do. In the limiter the cutoff is long
enough to refill a bucket and one request per worker (`Rate * Cutoff >= Burst +
workers`), the hypothesis of `OverrunBounded`, which covers that of
`OnlyCleanupOverruns`: with the default settings (10 per second, burst 20, cutoff 10
minutes) it holds by far. A bucket is in use when a client has it or a worker holds
it, so one address per client and worker is enough. Clients share nothing but locks,
which is why there is one. Of four policies one is the default, two are made from settings (one of them
switches validation off) and one lists no commands; three requests let one fill the
cache, one hold a pointer into the entry and one overwrite it. The signatures have
one of each kind that the conversion treats differently. Ages saturate one tick
after they stop mattering, which loses nothing. `MaxLoops`, `MaxCount`,
`MaxCleaners` and `MaxHandles` are the bounds on counters. Three addresses let a
monitor outlive two replacements of its connection. In the heartbeat two missed
beats tell the first from the last, channels of three (ten in the code) fill, and
two intervals (six by default) are an age at which a single late tick does no harm. Symmetry is used in runs without liveness only.

*Deadlock* is checked except where the system may really stop: in the
connection manager (closed, or the process panicked), in `ClientTx` (a COMMIT
that never returns) and in runs that show a deadlock.

*Fairness.* Goroutines run, statements and dials end (they have timeouts), the
broker delivers: weak fairness. `sync.RWMutex` hands the lock to those who wait,
and the pool queues the requests for connections: strong fairness for taking
them. A BEGIN has no timeout, which is why `MCRpcServer` has requests that hang,
and they are given no fairness. Nothing makes a process crash, stop or start, or
a connection break. `Recovers` supposes besides that the broker is not out of
reach forever: of attempts made again and again one succeeds, unless the
limit of attempts is used up first. In `MCHeartbeatSystem` timeouts and
reconnections end and time passes; Go's select picks at random among what is
ready, so a loop that comes back to it again and again with `stopChan` closed takes
that branch at last: strong fairness. No message need arrive and no connection come
back.

## Findings

Four runs end in a counterexample: the code does not do what it says.

- `TMExhausted` (`AbandonedReclaimed`, pool of 1): `BeginTransaction` waits for a
  connection in `db.Begin()` with `tm.mutex` held and no timeout. When clients
  have abandoned transactions on all connections, the cleanup that would reclaim
  them cannot get the mutex, and neither can anything else in the registry. With
  a pool larger than the number of transactions the same property passes.
- `SLStats` (`CallsReturn`): `GetStats` takes `stats.mutex` and then `qc.mutex`,
  every other operation the reverse.
- `CMClose` (`CloseDisables`): a reconnection loop asleep while `Close` runs
  connects again.
- `CXCommit` (`CallsReturn`): `Commit` and `Rollback` call
  `clearFinishedTransaction` with `tx.mutex` held, which read-locks it. The run
  takes a server that consumes the queue the commands are sent to.

The following was met while modelling. It is in the models but no run is spent
on it:

- Transaction commands are published to the queue named `deviceID`, with no
  prefix or suffix (`client/tx.go:191`); this repository's server consumes only the
  `_rpc` and `_heartbeat` queues (`server/server.go:298`, `:304`).
- A Commit the driver fails leaves the dead transaction in the registry until the
  cleanup finds it (`transactions.go:121`); in mode `close` each BEGIN leaves a
  `sql.DB` open (`transactions.go:271`).
- `SubmitTask` refuses at once when its comment says it blocks
  (`worker_pool.go:171`), and `Stop` drops what is still queued
  (`worker_pool.go:127`). `LostOnlyWithProcess` therefore excuses shutdown.
- A server whose AMQP connection broke spins on closed channels and never comes
  back (`server.go:336`).
- A hit may be answered with a result stored after the `Get`
  (`query_cache.go:164`); `BoundedStaleness` holds regardless. `rows.Err()` is
  never looked at, so a truncated result may be cached (`server.go:618`).
- Keys are lower-cased whole, literals included (`query_cache.go:280`), so different
  queries can share one: `WHERE name = 'A'` is answered with the rows of
  `WHERE name = 'a'`. The policy judges each before the cache is asked (`Policed`).
- `v.mutex` guards only `UpdateConfig`; `ValidateQuery` does not take it
  (`sql_validator.go:182`), although the field's comment says "Thread-safe access to
  validator state" (`:25`). A query judged while a policy is replaced may be
  accepted although neither policy allows it: the list of patterns starts empty
  (`:161`). `Policed` excepts these.
- A blank query is refused but not counted as blocked (`:213`), and a query that a
  disabled validator lets through counts as neither valid nor blocked (`:186`).
  Blocked entries of two words ("LOAD DATA") never equal the first word of a query
  (`config.go:369`). Where commands are listed, only CALL is held against the list of
  procedures, EXEC and EXECUTE are not (`sql_validator.go:301`).
- `FunctionParam.Type` is never read, although `types.go` says the value "will be
  converted to the specified type"; numbers are cut off at the point on their way to
  an int. Parameters of the program's own string, int or bool types and variadic ones
  make the call panic, which the worker answers as an internal error
  (`server.go:1001`, `:899`).
- `functionTimeout` is looked at before the function starts and never again
  (`server.go:880`): a function that exceeds it is not cancelled, as
  `README_TIMEOUT.md:52` says it is, but keeps its worker, and its results are the
  answer.
- The row "no output" of a command cannot occur, since `strings.Split` returns at least one line (`server.go:786`).
- A result that JSON cannot express gives a reply without a body, whose error
  `respond` drops (`server.go:1175`): `getPerformanceMetrics` divides zero by zero
  before the first query (`monitoring.go:305`).
- A ping in the RPC queue costs no token, and one that is not sound gets no answer
  (`server.go:428`).
- A bucket removed between lookup and use gives its client a second burst token;
  `OverrunBounded` is the bound that holds then, and `OnlyCleanupOverruns` says that
  nothing else has this effect.
- A `Reconnect` that fails leaves no loop to try again (`reconnect.go:334`), and a
  monitor that wakes late drops the connection that replaced its own
  (`reconnect.go:161`) or finds `cm.conn` nil (`reconnect.go:156`). With the
  heartbeat's `Reconnect` only `Watched` holds of the four; the driver always starts a
  heartbeat, so the other three speak of the time before its callback first fires.
  What tries again after a failed `Reconnect` is the next missed beats, while an RPC
  is under way (`DeadIsFound`, for a link that is down too).
- After a COMMIT that failed, `c.currentTx` stays, and a plain query on the pooled
  connection runs in the old transaction (`tx.go:95`).
- A signal that finds `activateChan` full is dropped, and the heartbeat may then be
  off during an RPC or stay on after it (`client/heartbeat.go:100`): only an RPC
  sequence faster than the loop gets there. `ListedWhileBusy` and `DeadIsFound`
  except it.
- The heartbeat's loop may reconnect after `Close`, when `Stop` comes while it waits
  for a pong (`client/heartbeat.go:254`); an RPC's end, and `Close`, wait for a
  callback that reconnects.
- The server marks stale clients and keeps their entries for good
  (`server/heartbeat.go:271`). Its key is the client's IP, so two connections from
  one host share an entry.

## Proofs

Each proof module starts from the named assumption on its constants, which the runs
evaluate, and proves for every value of them that an inductive invariant `IInv`
holds (`Invariance`), with one lemma per action, and from it the properties. The
invariants were checked by TLC on the runs' instances first. The assumptions say no
more than: model values are distinct, workers are finitely many, sizes and limits
are numbers, a call's arguments are finite sequences and a Go signature has its
variadic parameter last, a query's pattern is one of the patterns. `OverrunBounded` and
`OnlyCleanupOverruns` carry their hypotheses, named under *Bounds*, in their statements.

| Module | Theorem | Says |
|---|---|---|
| `TransactionManagerProofs` | `TypeCorrect` | types, and no request goes on with a nil `*sql.Tx` |
| | `NoConnectionOrphaned` | a transaction that holds a connection is registered |
| | `NoBeginReplaces` | a BEGIN never replaces a registered transaction |
| | `CleanupIsSafe` | the cleanup changes no transaction a request holds |
| `RpcServerProofs` | `TypeCorrect`, `OneReply`, `OnePlace` | a request has at most one reply and is in one place |
| | `LossNeedsFailure` | it is lost only with the process or its connection |
| | `TakenAnswered` | what a worker has taken it answers, unless the process dies |
| | `Refinement` | the server implements `RequestReply` |
| `QueryCacheProofs` | `TypeCorrect` | types; memory in use is what the map refers to |
| | `ListAgrees` | the linked list and the map hold the same entries |
| | `Refinement` | the pointer structure implements `LRUCache` |
| `SelectPathProofs` | `PathTypesCorrect`, `ClearingTakesEffect`, `StalenessBounded` | the bounds on the age of an answer, in general and after a clear |
| | `PolicyDecides` | no rows for what the policy forbids, no refusal of what it allows |
| `HandleMessageProofs` | `TypesCorrect`, `OverrunIsBounded`, `LimiterOverrun` | the limit holds up to one request per worker |
| | `OneBucketUnlessRaced` | it holds exactly for a client whose bucket was never dropped under a worker |
| | `CallsAlwaysFit`, `RequestsAnswered` | functions get what they ask for; who is not answered sent a ping |
| `ConnectionManagerProofs` | `TypeCorrect`, `AlwaysWatched` | a loss has someone to notice it |
| | `Leakless`, `AttemptsWithinMaximum` | without the heartbeat no connection leaks and the limit of attempts holds |
| `ClientTxProofs` | `TypeCorrect`, `NeverLies` | what COMMIT and ROLLBACK report is so |
| | `QueriesJoin` | queries of a transaction run in it or not at all |
| `HeartbeatSystemProofs` | `TypeCorrect`, `OnlyDeadDropped` | a connection is dropped only after beats missed in a row |
| | `BusyIsListed` | a busy client is listed as active |

None of the properties is inductive. What each needs:

- *Registry.* That the cleaner never meets a transaction in use needs that a request
  has just refreshed its transaction (`FreshInv`) and that the ids under sweep were
  stale when the mutex was taken (`SweepInv`). That a BEGIN replaces nothing needs that what a holder of the
  mutex found is still so when its database call returns (`HolderInv`), which needs
  that the worker at such a point is the holder (`MutexInv`).
- *RPC server.* One reply and one place come from a single count (`CopiesInv`): the
  replies to a message and the places it is in (broker, buffer, queue, workers) are
  together at most one. The theorem over all workers is a statement about a finite
  sum, which a step moves by one. `StopInv` says who is left when `Stop` returned.
  Every step is then one of four things to `RequestReply`: nothing, a loss of what a
  failed process held, a request published, a request answered.
- *Cache.* `Kept` says that the list is an order of the entries of the map: a
  sequence without repetition whose neighbours are linked both ways, with nothing
  else linked. `AddToFront`, `RemoveFromList` and `MoveToFront` turn an order into
  the order with the entry in front or without it, wherever it was
  (`AddToFrontIs`, `RemoveFromListIs`). `StoreOK` says that each entry is stored
  under its own key, so that no two keys share one and the evicted entry's key
  finds it in the map. `RemoveAll` and `Nth` are recursive functions. The library's
  induction rules cannot be used (they take an operator), so the proofs take a least
  counterexample instead, of the number of steps for `Nth` and of the entries to
  remove for `RemoveAll`, whose existence as a function is a lemma of its own
  (`RecursionExists`). The refinement gives, for each operation, the abstract order
  before and after as the keys of these orders.
- *SELECT path.* A result's age is bounded where it is made and each time it changes
  hands: read within the statement's timeout (`WorkerInv`), stored in an entry not yet
  expired (`EntryInv`), hit while fresh (`HitInv`); after a clear the
  entry was stored since, by a request that had not timed out (`ClearedInv`); and memory is reused only when
  neither cache nor pointer refers to it (`MemoryInv`). `PolicyInv` says what is left
  of the verdict at each stage of the validator while no update interferes.
- *Limiter and dispatch.* `Covered` compares the client's bucket with the ideal one
  that `OverrunBounded` speaks of: it is ahead by no more than one token per worker,
  less the workers that hold a bucket dropped under them. `Recovered` says that an idle
  bucket's ideal has refilled as well, which makes its removal harmless, and `Instant`
  that dropped buckets are in use only in the instant of the removal. `OneBucket` is the
  exact account of a client never `raced`: no worker holds a bucket of its own but the
  one in the map, and that has no more than the ideal one. Workers hold
  buckets of their own client (`BucketsInv`).
- *Connection manager.* Without the heartbeat one goroutine at most works on the
  connection, and a monitor runs only while none does (`OneAtATime`). The number of
  loops is bounded (`LoopsInv`).
- *Client transactions.* The live request on the wire is that of the call that waits,
  and there is one (`LiveInv`); an answer that came in time tells what the server did
  (`CallInv`); a query was published for the transaction it is meant for (`QueryInv`).
- *Heartbeat.* The count of missed beats is at most the number of beats missed in a
  row (`CountInv`); the last signal in the channel tells whether an RPC is under way
  (`SignalInv`); after an undisturbed interval the next beat is due, on its way or
  answered (`BusyInv`).

Only model-checked: liveness (`RequestsAnswered` of the registry,
`AbandonedReclaimed`, `RunningServerAnswers`, `ShutdownEnds`, `Recovers`,
`DeadIsFound`, `GoneIsNoticed`), which is out of the prover's reach, as fairness and
ENABLED are, and the runs that end in a counterexample.

## Not modelled

The Node.js client: in the plan above. Driver and statement adaptors, DSN and option
parsing, logging, conversion of column values and JSON, the text scans of the
validator (regular expressions, counting of quotes and parentheses), the making of
cache keys: sequential code without shared state, whose results the models take as
given. The counters of validator, cache and limiter, which only the monitor reads.
`HeartbeatConfig.DisconnectDelay` is read nowhere. Functions registered while the
server runs, a registered value that is not a function, and slices of slices as
arguments are left out of `FunctionCalls`. `SetCacheConfig` replaces
`h.queryCache` in one step, which a worker may meet between its `Get` and its `Set`;
reading a slice header of the policy is one step too.
