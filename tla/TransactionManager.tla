------------------------- MODULE TransactionManager -------------------------
(***************************************************************************)
(* The server's transaction registry (server/transactions.go) together     *)
(* with the handlers that use it from the worker goroutines                *)
(* (handleTransaction, handleSQL) and the database/sql connection pool the *)
(* transactions and the plain queries draw from.                           *)
(*                                                                         *)
(* A worker runs one request at a time.  pc says where it is: "idle" is    *)
(* between requests, so the step back to "idle" is the reply.  tm.mutex is *)
(* the variable mutex: BeginTransaction, CommitTransaction,                *)
(* RollbackTransaction and CleanupExpiredTransactions hold it while they   *)
(* call into database/sql, GetTransaction takes and releases it in one     *)
(* step because nothing inside it can block.                               *)
(***************************************************************************)
EXTENDS Naturals, FiniteSets

CONSTANTS
  Workers,     \* worker goroutines
  Cleaner,     \* the goroutine of transactionCleanupLoop
  Nobody,      \* "tm.mutex is free"
  Ids,         \* TransactionID values of requests
  NoId,        \* the empty TransactionID
  Txs,         \* addresses a *sql.Tx can live at
  NoTx,        \* the nil pointer
  OpenMode,    \* TRUE: mode "open", one shared pool; FALSE: "close"
  MaxOpen,     \* PoolConfig.MaxOpenConns of the shared pool
  MaxHandles   \* bound: sql.DB handles opened by BEGIN in "close" mode

ASSUME TMAssumption ==
  /\ Cleaner \notin Workers /\ Nobody \notin Workers \cup {Cleaner}
  /\ NoId \in Ids
  /\ NoTx \notin Txs /\ Txs \cap Workers = {}
  /\ OpenMode \in BOOLEAN
  /\ MaxOpen \in Nat \ {0} /\ MaxHandles \in Nat
  /\ IsFiniteSet(Workers)

VARIABLES
  pc,        \* [Workers -> program point of the request being handled]
  id,        \* [Workers -> TransactionID of that request]
  ptr,       \* [Workers -> the *sql.Tx the worker holds after unlocking]
  sweep,     \* expiredIDs the cleaner has left to remove
  mutex,     \* who holds tm.mutex
  registry,  \* tm.transactions: [Ids -> Txs \cup {NoTx}]
  txState,   \* [Txs -> state of the sql.Tx]
  stale,     \* registered ones whose LastUsed is over maxAge ago
  conns,     \* holders of a connection: transactions and plain queries
  handles    \* sql.DB handles handleBeginTransaction opened and left open

vars == <<pc, id, ptr, sweep, mutex, registry, txState, stale, conns, handles>>

Points == {"idle", "begin", "dbBegin", "commit", "rollback", "committing",
           "rollingBack", "get", "txExec", "txQuery", "poolWait", "plainQuery"}
\* points at which the worker goes on to use the pointer it holds
Deref == {"committing", "rollingBack", "txExec", "txQuery"}
TxStates == {"unused", "active", "finishing", "committed", "rolledBack", "failed"}

\* Types, and no request goes on with a nil *sql.Tx (or keeps one it is done
\* with): the lookups in CommitTransaction, RollbackTransaction and
\* GetTransaction test `exists` before the pointer is used.
TypeOK ==
  /\ pc \in [Workers -> Points]
  /\ id \in [Workers -> Ids]
  /\ ptr \in [Workers -> Txs \cup {NoTx}]
  /\ sweep \in SUBSET Ids
  /\ mutex \in Workers \cup {Cleaner, Nobody}
  /\ registry \in [Ids -> Txs \cup {NoTx}]
  /\ txState \in [Txs -> TxStates]
  /\ stale \in SUBSET Txs
  /\ conns \in SUBSET (Txs \cup Workers)
  /\ handles \in Nat
  /\ \A w \in Workers : ptr[w] = NoTx <=> pc[w] \notin Deref

Registered == {registry[i] : i \in Ids} \ {NoTx}
Exists(i)  == registry[i] # NoTx
Held(t)    == \E w \in Workers : ptr[w] = t
InFlight(t) == \E w \in Workers : pc[w] = "txQuery" /\ ptr[w] = t

\* database/sql: db.conn hands out a connection below MaxOpenConns; every
\* handle of "close" mode has a pool of its own that is never full.
ConnAvailable == OpenMode => Cardinality(conns) < MaxOpen

Goto(w, p) == pc' = [pc EXCEPT ![w] = p]
Reply(w) == /\ pc' = [pc EXCEPT ![w] = "idle"]
            /\ ptr' = [ptr EXCEPT ![w] = NoTx]

Init ==
  /\ pc = [w \in Workers |-> "idle"]
  /\ id = [w \in Workers |-> NoId]
  /\ ptr = [w \in Workers |-> NoTx]
  /\ sweep = {}
  /\ mutex = Nobody
  /\ registry = [i \in Ids |-> NoTx]
  /\ txState = [t \in Txs |-> "unused"]
  /\ stale = {} /\ conns = {} /\ handles = 0
-----------------------------------------------------------------------------
(* handleMessage dispatches on the request type, handleTransaction on the  *)
(* command, handleSQL on the TransactionID.                                *)

\* handleBeginTransaction: "close" mode opens a handle before anything else.
ReceiveBegin(w, i) ==
  /\ pc[w] = "idle"
  /\ OpenMode \/ handles < MaxHandles
  /\ Goto(w, "begin") /\ id' = [id EXCEPT ![w] = i]
  /\ handles' = IF OpenMode THEN handles ELSE handles + 1
  /\ UNCHANGED <<ptr, sweep, mutex, registry, txState, stale, conns>>

ReceiveOther(w, i) ==
  /\ pc[w] = "idle"
  /\ \/ \E p \in {"commit", "rollback"} : Goto(w, p)
     \/ Goto(w, IF i = NoId THEN "poolWait" ELSE "get")
  /\ id' = [id EXCEPT ![w] = i]
  /\ UNCHANGED <<ptr, sweep, mutex, registry, txState, stale, conns, handles>>

\* Mutant: the mutex is dropped between the check and db.Begin().
BeginLockReleased(w) ==
  /\ pc[w] = "begin" /\ mutex = Nobody
  /\ IF Exists(id[w]) THEN Reply(w) ELSE Goto(w, "dbBegin") /\ UNCHANGED ptr
  /\ UNCHANGED <<id, sweep, mutex, registry, txState, stale, conns, handles>>

\* BeginTransaction: lock, refuse an id already in use, then db.Begin() with
\* the mutex held (it is released by the deferred Unlock only).
BeginLock(w) ==
  /\ pc[w] = "begin" /\ mutex = Nobody
  /\ IF Exists(id[w])
     THEN Reply(w) /\ UNCHANGED mutex
     ELSE Goto(w, "dbBegin") /\ mutex' = w /\ UNCHANGED ptr
  /\ UNCHANGED <<id, sweep, registry, txState, stale, conns, handles>>

\* db.Begin() has no context: it waits for a connection as long as it takes.
BeginOk(w, t) ==
  /\ pc[w] = "dbBegin" /\ ConnAvailable
  /\ t \notin Registered /\ ~Held(t) /\ t \notin conns
  /\ txState' = [txState EXCEPT ![t] = "active"]
  /\ registry' = [registry EXCEPT ![id[w]] = t]
  /\ conns' = conns \cup {t}
  /\ mutex' = Nobody /\ Reply(w)
  /\ UNCHANGED <<id, sweep, stale, handles>>

BeginError(w) ==
  /\ pc[w] = "dbBegin" /\ ConnAvailable
  /\ mutex' = Nobody /\ Reply(w)
  /\ UNCHANGED <<id, sweep, registry, txState, stale, conns, handles>>
-----------------------------------------------------------------------------
(* CommitTransaction and RollbackTransaction differ in the sql.Tx method   *)
(* they call.  Tx.Commit and Tx.Rollback first mark the Tx done (a done Tx *)
(* answers ErrTxDone) and cancel its queries, then wait for them.          *)

FinishLock(w) ==
  /\ pc[w] \in {"commit", "rollback"} /\ mutex = Nobody
  /\ LET t == registry[id[w]] IN
       IF t # NoTx /\ txState[t] = "active"
       THEN /\ mutex' = w
            /\ ptr' = [ptr EXCEPT ![w] = t]
            /\ txState' = [txState EXCEPT ![t] = "finishing"]
            /\ Goto(w, IF pc[w] = "commit" THEN "committing" ELSE "rollingBack")
       ELSE Reply(w) /\ UNCHANGED <<mutex, txState>>
  /\ UNCHANGED <<id, sweep, registry, stale, conns, handles>>

FinishOk(w) ==
  /\ pc[w] \in {"committing", "rollingBack"} /\ ~InFlight(ptr[w])
  /\ txState' = [txState EXCEPT ![ptr[w]] =
       IF pc[w] = "committing" THEN "committed" ELSE "rolledBack"]
  /\ conns' = conns \ {ptr[w]}
  /\ registry' = [registry EXCEPT ![id[w]] = NoTx]
  /\ stale' = stale \ {ptr[w]}
  /\ mutex' = Nobody /\ Reply(w)
  /\ UNCHANGED <<id, sweep, handles>>

\* Mutant: the early return forgets the deferred Unlock.
FinishErrorLocked(w) ==
  /\ pc[w] \in {"committing", "rollingBack"} /\ ~InFlight(ptr[w])
  /\ txState' = [txState EXCEPT ![ptr[w]] = "failed"]
  /\ conns' = conns \ {ptr[w]} /\ Reply(w)
  /\ UNCHANGED <<id, sweep, mutex, registry, stale, handles>>

\* The driver fails: the Tx is done and its connection returned, and the
\* early return keeps the entry in the registry.
FinishError(w) ==
  /\ pc[w] \in {"committing", "rollingBack"} /\ ~InFlight(ptr[w])
  /\ txState' = [txState EXCEPT ![ptr[w]] = "failed"]
  /\ conns' = conns \ {ptr[w]}
  /\ mutex' = Nobody /\ Reply(w)
  /\ UNCHANGED <<id, sweep, registry, stale, handles>>
-----------------------------------------------------------------------------
(* handleSQL inside a transaction.                                         *)

\* Mutants: LastUsed is not refreshed; `exists` is not tested.
GetTransactionNoRefresh(w) ==
  /\ pc[w] = "get" /\ mutex = Nobody
  /\ IF Exists(id[w])
     THEN ptr' = [ptr EXCEPT ![w] = registry[id[w]]] /\ Goto(w, "txExec")
     ELSE Reply(w)
  /\ UNCHANGED <<id, sweep, mutex, registry, txState, stale, conns, handles>>
GetTransactionUnchecked(w) ==
  /\ pc[w] = "get" /\ mutex = Nobody
  /\ ptr' = [ptr EXCEPT ![w] = registry[id[w]]]
  /\ stale' = stale \ {registry[id[w]]}
  /\ Goto(w, "txExec")
  /\ UNCHANGED <<id, sweep, mutex, registry, txState, conns, handles>>

\* GetTransaction: look the pointer up under RLock and refresh LastUsed.
GetTransaction(w) ==
  /\ pc[w] = "get" /\ mutex = Nobody
  /\ IF Exists(id[w])
     THEN /\ ptr' = [ptr EXCEPT ![w] = registry[id[w]]]
          /\ stale' = stale \ {registry[id[w]]}
          /\ Goto(w, "txExec")
     ELSE Reply(w) /\ UNCHANGED stale
  /\ UNCHANGED <<id, sweep, mutex, registry, txState, conns, handles>>

\* Tx.QueryContext on the pointer, with no lock of the manager's held.
TxQueryStart(w) ==
  /\ pc[w] = "txExec"
  /\ IF txState[ptr[w]] = "active"
     THEN Goto(w, "txQuery") /\ UNCHANGED ptr
     ELSE Reply(w)
  /\ UNCHANGED <<id, sweep, mutex, registry, txState, stale, conns, handles>>

TxQueryEnd(w) ==
  /\ pc[w] = "txQuery" /\ Reply(w)
  /\ UNCHANGED <<id, sweep, mutex, registry, txState, stale, conns, handles>>

\* handleSQL outside a transaction: db.QueryContext waits for a connection
\* at most sqlTimeout, and deferred rows.Close gives it back.
PlainStart(w) ==
  /\ pc[w] = "poolWait" /\ ConnAvailable
  /\ Goto(w, "plainQuery") /\ conns' = conns \cup {w}
  /\ UNCHANGED <<id, ptr, sweep, mutex, registry, txState, stale, handles>>

PlainTimeout(w) ==
  /\ pc[w] = "poolWait" /\ ~ConnAvailable /\ Reply(w)
  /\ UNCHANGED <<id, sweep, mutex, registry, txState, stale, conns, handles>>

PlainEnd(w) ==
  /\ pc[w] = "plainQuery" /\ Reply(w) /\ conns' = conns \ {w}
  /\ UNCHANGED <<id, sweep, mutex, registry, txState, stale, handles>>
-----------------------------------------------------------------------------
(* transactionCleanupLoop and the passage of time.                         *)

\* maxAge (30 minutes) goes by since LastUsed.  A request holds the pointer
\* for at most sqlTimeout (10 seconds), so it does not go by meanwhile.
Age(t) ==
  /\ t \in Registered \ stale /\ ~Held(t)
  /\ stale' = stale \cup {t}
  /\ UNCHANGED <<pc, id, ptr, sweep, mutex, registry, txState, conns, handles>>

\* Mutant: the expiry test is inverted, so nothing ever expires here.
CleanupLockInverted ==
  /\ mutex = Nobody
  /\ stale # {}
  /\ sweep' = {i \in Ids : registry[i] \in Txs \ stale}
  /\ mutex' = Cleaner
  /\ UNCHANGED <<pc, id, ptr, registry, txState, stale, conns, handles>>

CleanupLock ==
  /\ mutex = Nobody
  /\ stale # {}
  /\ sweep' = {i \in Ids : registry[i] \in stale}
  /\ mutex' = Cleaner
  /\ UNCHANGED <<pc, id, ptr, registry, txState, stale, conns, handles>>

\* Mutant: the entry is deleted without the rollback.
CleanupOneNoRollback(i) ==
  /\ mutex = Cleaner /\ i \in sweep
  /\ registry' = [registry EXCEPT ![i] = NoTx]
  /\ stale' = stale \ {registry[i]}
  /\ sweep' = sweep \ {i}
  /\ UNCHANGED <<pc, id, ptr, mutex, txState, conns, handles>>

\* Rollback (its error is only logged) and delete.
CleanupOne(i) ==
  /\ mutex = Cleaner /\ i \in sweep
  /\ LET t == registry[i] IN
       /\ ~InFlight(t)
       /\ txState' = IF txState[t] = "active"
                     THEN [txState EXCEPT ![t] = "rolledBack"] ELSE txState
       /\ conns' = conns \ {t}
  /\ registry' = [registry EXCEPT ![i] = NoTx]
  /\ stale' = stale \ {registry[i]}
  /\ sweep' = sweep \ {i}
  /\ UNCHANGED <<pc, id, ptr, mutex, handles>>

CleanupUnlock ==
  /\ mutex = Cleaner /\ sweep = {}
  /\ mutex' = Nobody
  /\ UNCHANGED <<pc, id, ptr, sweep, registry, txState, stale, conns, handles>>
-----------------------------------------------------------------------------
Receive(w) == \E i \in Ids : ReceiveBegin(w, i) \/ ReceiveOther(w, i)

Locks(w)  == BeginLock(w) \/ FinishLock(w) \/ GetTransaction(w)
DbBegin(w) == BeginError(w) \/ \E t \in Txs : BeginOk(w, t)
Finish(w) == FinishOk(w) \/ FinishError(w)
Query(w)  == TxQueryStart(w) \/ TxQueryEnd(w) \/ PlainStart(w)
             \/ PlainTimeout(w) \/ PlainEnd(w)
CleanupStep == CleanupUnlock \/ \E i \in Ids : CleanupOne(i)

Next ==
  \/ \E w \in Workers :
       Receive(w) \/ Locks(w) \/ DbBegin(w) \/ Finish(w) \/ Query(w)
  \/ \E t \in Txs : Age(t)
  \/ CleanupLock \/ CleanupStep

Spec == Init /\ [][Next]_vars

\* Goroutines run, statements end, time passes.  sync.RWMutex and the pool's
\* queue of connection requests starve nobody, hence strong fairness there.
Fairness ==
  /\ \A w \in Workers :
       /\ SF_vars(Locks(w)) /\ SF_vars(DbBegin(w))
       /\ WF_vars(Finish(w)) /\ WF_vars(Query(w))
  /\ \A t \in Txs : WF_vars(Age(t))
  /\ SF_vars(CleanupLock) /\ WF_vars(CleanupStep)

FairSpec == Spec /\ Fairness
-----------------------------------------------------------------------------
(* Properties.                                                             *)

\* No connection leak: a connection held by a transaction can always be given
\* back, because the transaction is in the registry for a COMMIT, a ROLLBACK
\* or the cleaner to find.
NoOrphanedConn == conns \cap Txs \subseteq Registered

\* Two BEGINs with one id: the later one never replaces a live entry (the
\* replaced transaction could never be finished by its client).
BeginNeverReplaces ==
  [][\A i \in Ids : Exists(i) => registry'[i] \in {registry[i], NoTx}]_vars

\* Cleanup leaves alone every transaction a request is using or about to use.
CleanupSparesUsers ==
  [][mutex = Cleaner =>
       \A t \in Txs : Held(t) => txState'[t] = txState[t]]_vars

\* Every request is answered.
RequestsAnswered ==
  \A w \in Workers : pc[w] # "idle" ~> pc[w] = "idle"

\* "This prevents memory leaks and database connection exhaustion": an entry no
\* request touches any more is removed, and with it its connection.
AbandonedReclaimed ==
  \A i \in Ids : Exists(i) ~>
    (~Exists(i) \/ \E w \in Workers : pc[w] # "idle" /\ id[w] = i)
=============================================================================
