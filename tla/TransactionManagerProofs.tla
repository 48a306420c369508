---------------------- MODULE TransactionManagerProofs ----------------------
(***************************************************************************)
(* Proofs about TransactionManager, for any number of workers, ids,        *)
(* transactions and connections, in either mode.                           *)
(***************************************************************************)
EXTENDS TransactionManager, TLAPS

Finishing == {"committing", "rollingBack"}

\* tm.mutex is held by the worker that waits for the database under it.
MutexInv == \A w \in Workers : mutex = w <=> pc[w] \in Finishing \cup {"dbBegin"}

\* What the holder of the mutex found under it is still so.
HolderInv ==
  \A w \in Workers :
    /\ pc[w] = "dbBegin" => registry[id[w]] = NoTx
    /\ pc[w] \in Finishing => registry[id[w]] = ptr[w]

\* A request in a transaction has just refreshed it.
FreshInv ==
  \A w \in Workers : pc[w] \in {"txExec", "txQuery"} => ptr[w] \notin stale

\* The ids the cleaner has found are registered, and no request uses them.
SweepInv ==
  mutex = Cleaner =>
    \A i \in sweep :
      registry[i] \in Txs /\ \A w \in Workers : ptr[w] # registry[i]

IInv == TypeOK /\ MutexInv /\ HolderInv /\ FreshInv /\ SweepInv /\ NoOrphanedConn
-----------------------------------------------------------------------------
(* One lemma per action: it preserves the inductive invariant.  The parts of *)
(* IInv whose variables the action leaves alone are dealt with together.     *)

\* A BEGIN arrives: no pointer is held yet, and the new handle is counted.
LEMMA ReceiveBeginStep ==
  ASSUME IInv, NEW w \in Workers, NEW i \in Ids, ReceiveBegin(w, i)
  PROVE  IInv'
<1>1. TypeOK'
  BY DEF IInv, TypeOK, Points, Deref, Goto, ReceiveBegin
<1>2. SweepInv' /\ NoOrphanedConn'
  BY DEF IInv, SweepInv, NoOrphanedConn, Registered, ReceiveBegin
<1>3. MutexInv'
  BY DEF IInv, MutexInv, Finishing, Goto, ReceiveBegin
<1>4. HolderInv'
  BY DEF IInv, HolderInv, Finishing, Goto, ReceiveBegin
<1>5. FreshInv'
  BY DEF IInv, FreshInv, Goto, ReceiveBegin
<1> QED
  BY <1>1, <1>2, <1>3, <1>4, <1>5 DEF IInv

\* A COMMIT, ROLLBACK or query arrives: the worker holds nothing yet.
LEMMA ReceiveOtherStep ==
  ASSUME IInv, NEW w \in Workers, NEW i \in Ids, ReceiveOther(w, i)
  PROVE  IInv'
<1>1. TypeOK'
  BY DEF IInv, TypeOK, Points, Deref, Goto, ReceiveOther
<1>2. SweepInv' /\ NoOrphanedConn'
  BY DEF IInv, SweepInv, NoOrphanedConn, Registered, ReceiveOther
<1>3. MutexInv'
  BY DEF IInv, TypeOK, MutexInv, Finishing, Goto, ReceiveOther
<1>4. HolderInv'
  BY DEF IInv, TypeOK, HolderInv, Finishing, Goto, ReceiveOther
<1>5. FreshInv'
  BY DEF IInv, TypeOK, FreshInv, Goto, ReceiveOther
<1> QED
  BY <1>1, <1>2, <1>3, <1>4, <1>5 DEF IInv

\* BeginTransaction locks: it goes on to the database only for a free id.
LEMMA BeginLockStep ==
  ASSUME IInv, NEW w \in Workers, BeginLock(w)
  PROVE  IInv'
<1>1. TypeOK'
  BY DEF IInv, TypeOK, Points, Deref, Goto, Reply, BeginLock
<1>2. NoOrphanedConn'
  BY DEF IInv, NoOrphanedConn, Registered, BeginLock
<1>3. MutexInv'
  BY TMAssumption DEF IInv, TypeOK, MutexInv, Finishing, Goto, Reply,
     BeginLock
<1>4. HolderInv'
  BY DEF IInv, TypeOK, HolderInv, Finishing, Exists, Goto, Reply, BeginLock
<1>5. FreshInv'
  BY DEF IInv, TypeOK, FreshInv, Goto, Reply, BeginLock
<1>6. SweepInv'
  BY TMAssumption DEF SweepInv, BeginLock
<1> QED
  BY <1>1, <1>2, <1>3, <1>4, <1>5, <1>6 DEF IInv

\* db.Begin succeeds: the transaction is new to everyone, and is registered
\* in the step that gives it its connection.
LEMMA BeginOkStep ==
  ASSUME IInv, NEW w \in Workers, NEW t \in Txs, BeginOk(w, t)
  PROVE  IInv'
<1>1. TypeOK'
  BY DEF IInv, TypeOK, Points, Deref, TxStates, Reply, BeginOk
<1>2. MutexInv'
  BY TMAssumption DEF IInv, TypeOK, MutexInv, Finishing, Reply, BeginOk
<1>3. HolderInv'
  BY DEF IInv, TypeOK, MutexInv, HolderInv, Finishing, Reply, BeginOk
<1>4. FreshInv'
  BY DEF IInv, FreshInv, Reply, BeginOk
<1>5. SweepInv'
  BY TMAssumption DEF SweepInv, BeginOk
<1>6. NoOrphanedConn'
  BY DEF IInv, TypeOK, HolderInv, NoOrphanedConn, Deref, Registered, Held,
     BeginOk
<1> QED
  BY <1>1, <1>2, <1>3, <1>4, <1>5, <1>6 DEF IInv

\* db.Begin fails: the mutex is released and nothing was registered.
LEMMA BeginErrorStep ==
  ASSUME IInv, NEW w \in Workers, BeginError(w)
  PROVE  IInv'
<1>1. TypeOK'
  BY DEF IInv, TypeOK, Points, Deref, Reply, BeginError
<1>2. NoOrphanedConn'
  BY DEF IInv, NoOrphanedConn, Registered, BeginError
<1>3. MutexInv'
  BY TMAssumption DEF IInv, TypeOK, MutexInv, Finishing, Reply, BeginError
<1>4. HolderInv'
  BY DEF IInv, HolderInv, Finishing, Reply, BeginError
<1>5. FreshInv'
  BY DEF IInv, FreshInv, Reply, BeginError
<1>6. SweepInv'
  BY TMAssumption DEF SweepInv, BeginError
<1> QED
  BY <1>1, <1>2, <1>3, <1>4, <1>5, <1>6 DEF IInv

\* COMMIT or ROLLBACK locks: it marks the Tx done while the cleaner, which
\* needs the same mutex, has nothing in hand.
LEMMA FinishLockStep ==
  ASSUME IInv, NEW w \in Workers, FinishLock(w)
  PROVE  IInv'
<1>1. TypeOK'
  BY DEF IInv, TypeOK, Points, Deref, TxStates, Goto, Reply, FinishLock
<1>2. NoOrphanedConn'
  BY DEF IInv, NoOrphanedConn, Registered, FinishLock
<1>3. MutexInv'
  BY TMAssumption DEF IInv, TypeOK, MutexInv, Finishing, Goto, Reply,
     FinishLock
<1>4. HolderInv'
  BY DEF IInv, TypeOK, HolderInv, Deref, Finishing, Goto, Reply, FinishLock
<1>5. FreshInv'
  BY DEF IInv, TypeOK, FreshInv, Goto, Reply, FinishLock
<1>6. SweepInv'
  BY TMAssumption DEF SweepInv, FinishLock
<1> QED
  BY <1>1, <1>2, <1>3, <1>4, <1>5, <1>6 DEF IInv

\* The driver finishes a transaction: connection and registry entry go
\* together, and no statement was running on it.
LEMMA FinishOkStep ==
  ASSUME IInv, NEW w \in Workers, FinishOk(w)
  PROVE  IInv'
<1>1. TypeOK'
  BY DEF IInv, TypeOK, Points, Deref, TxStates, Reply, FinishOk
<1>2. MutexInv'
  BY TMAssumption DEF IInv, TypeOK, MutexInv, Finishing, Reply, FinishOk
<1>3. HolderInv'
  BY DEF IInv, TypeOK, MutexInv, HolderInv, Finishing, Reply, FinishOk
<1>4. FreshInv'
  BY DEF IInv, FreshInv, Reply, FinishOk
<1>5. SweepInv'
  BY TMAssumption DEF SweepInv, FinishOk
<1>6. NoOrphanedConn'
  BY DEF IInv, HolderInv, NoOrphanedConn, Finishing, Registered, FinishOk
<1> QED
  BY <1>1, <1>2, <1>3, <1>4, <1>5, <1>6 DEF IInv

\* The driver fails: the connection goes, the registry entry stays.
LEMMA FinishErrorStep ==
  ASSUME IInv, NEW w \in Workers, FinishError(w)
  PROVE  IInv'
<1>1. TypeOK'
  BY DEF IInv, TypeOK, Points, Deref, TxStates, Reply, FinishError
<1>2. MutexInv'
  BY TMAssumption DEF IInv, TypeOK, MutexInv, Finishing, Reply, FinishError
<1>3. HolderInv'
  BY DEF IInv, TypeOK, MutexInv, HolderInv, Finishing, Reply, FinishError
<1>4. FreshInv'
  BY DEF IInv, FreshInv, Reply, FinishError
<1>5. SweepInv'
  BY TMAssumption DEF SweepInv, FinishError
<1>6. NoOrphanedConn'
  BY DEF IInv, NoOrphanedConn, Registered, FinishError
<1> QED
  BY <1>1, <1>2, <1>3, <1>4, <1>5, <1>6 DEF IInv

\* GetTransaction hands out a pointer; the refresh of LastUsed is what keeps
\* the cleaner away from it.
LEMMA GetTransactionStep ==
  ASSUME IInv, NEW w \in Workers, GetTransaction(w)
  PROVE  IInv'
<1>1. TypeOK'
  BY DEF IInv, TypeOK, Points, Deref, Exists, Goto, Reply, GetTransaction
<1>2. NoOrphanedConn'
  BY DEF IInv, NoOrphanedConn, Registered, GetTransaction
<1>3. MutexInv'
  BY DEF IInv, TypeOK, MutexInv, Finishing, Goto, Reply, GetTransaction
<1>4. HolderInv'
  BY DEF IInv, TypeOK, HolderInv, Finishing, Goto, Reply, GetTransaction
<1>5. FreshInv'
  BY DEF IInv, TypeOK, FreshInv, Goto, Reply, GetTransaction
<1>6. SweepInv'
  BY TMAssumption DEF SweepInv, GetTransaction
<1> QED
  BY <1>1, <1>2, <1>3, <1>4, <1>5, <1>6 DEF IInv

\* A statement starts on an active Tx, which has its connection.
LEMMA TxQueryStartStep ==
  ASSUME IInv, NEW w \in Workers, TxQueryStart(w)
  PROVE  IInv'
<1>1. TypeOK'
  BY DEF IInv, TypeOK, Points, Deref, Goto, Reply, TxQueryStart
<1>2. NoOrphanedConn'
  BY DEF IInv, NoOrphanedConn, Registered, TxQueryStart
<1>3. MutexInv'
  BY DEF IInv, TypeOK, MutexInv, Finishing, Goto, Reply, TxQueryStart
<1>4. HolderInv'
  BY DEF IInv, TypeOK, HolderInv, Finishing, Goto, Reply, TxQueryStart
<1>5. FreshInv'
  BY DEF IInv, TypeOK, FreshInv, Goto, Reply, TxQueryStart
<1>6. SweepInv'
  BY TMAssumption DEF IInv, TypeOK, SweepInv, Reply, TxQueryStart
<1> QED
  BY <1>1, <1>2, <1>3, <1>4, <1>5, <1>6 DEF IInv

\* A statement in a transaction ends and its worker replies.
LEMMA TxQueryEndStep ==
  ASSUME IInv, NEW w \in Workers, TxQueryEnd(w)
  PROVE  IInv'
<1>1. TypeOK'
  BY DEF IInv, TypeOK, Points, Deref, Reply, TxQueryEnd
<1>2. NoOrphanedConn'
  BY DEF IInv, NoOrphanedConn, Registered, TxQueryEnd
<1>3. MutexInv'
  BY DEF IInv, MutexInv, Finishing, Reply, TxQueryEnd
<1>4. HolderInv'
  BY DEF IInv, HolderInv, Finishing, Reply, TxQueryEnd
<1>5. FreshInv'
  BY DEF IInv, TypeOK, FreshInv, Reply, TxQueryEnd
<1>6. SweepInv'
  BY TMAssumption DEF IInv, SweepInv, Reply, TxQueryEnd
<1> QED
  BY <1>1, <1>2, <1>3, <1>4, <1>5, <1>6 DEF IInv

\* A plain query gets a connection of its own.
LEMMA PlainStartStep ==
  ASSUME IInv, NEW w \in Workers, PlainStart(w)
  PROVE  IInv'
<1>1. TypeOK'
  BY DEF IInv, TypeOK, Points, Deref, Goto, PlainStart
<1>2. SweepInv'
  BY DEF IInv, SweepInv, PlainStart
<1>3. MutexInv'
  BY DEF IInv, MutexInv, Finishing, Goto, PlainStart
<1>4. HolderInv'
  BY DEF IInv, HolderInv, Finishing, Goto, PlainStart
<1>5. FreshInv'
  BY DEF IInv, FreshInv, Goto, PlainStart
<1>6. NoOrphanedConn'
  BY TMAssumption DEF IInv, NoOrphanedConn, Registered, PlainStart
<1> QED
  BY <1>1, <1>2, <1>3, <1>4, <1>5, <1>6 DEF IInv

\* A plain query gives up waiting for the pool.
LEMMA PlainTimeoutStep ==
  ASSUME IInv, NEW w \in Workers, PlainTimeout(w)
  PROVE  IInv'
<1>1. TypeOK'
  BY DEF IInv, TypeOK, Points, Deref, Reply, PlainTimeout
<1>2. NoOrphanedConn'
  BY DEF IInv, NoOrphanedConn, Registered, PlainTimeout
<1>3. MutexInv'
  BY DEF IInv, MutexInv, Finishing, Reply, PlainTimeout
<1>4. HolderInv'
  BY DEF IInv, HolderInv, Finishing, Reply, PlainTimeout
<1>5. FreshInv'
  BY DEF IInv, FreshInv, Reply, PlainTimeout
<1>6. SweepInv'
  BY DEF IInv, TypeOK, SweepInv, Deref, Reply, PlainTimeout
<1> QED
  BY <1>1, <1>2, <1>3, <1>4, <1>5, <1>6 DEF IInv

\* A plain query gives back its connection, which is no transaction's.
LEMMA PlainEndStep ==
  ASSUME IInv, NEW w \in Workers, PlainEnd(w)
  PROVE  IInv'
<1>1. TypeOK'
  BY DEF IInv, TypeOK, Points, Deref, Reply, PlainEnd
<1>2. MutexInv'
  BY DEF IInv, MutexInv, Finishing, Reply, PlainEnd
<1>3. HolderInv'
  BY DEF IInv, HolderInv, Finishing, Reply, PlainEnd
<1>4. FreshInv'
  BY DEF IInv, FreshInv, Reply, PlainEnd
<1>5. SweepInv'
  BY DEF IInv, TypeOK, SweepInv, Deref, Reply, PlainEnd
<1>6. NoOrphanedConn'
  BY DEF IInv, NoOrphanedConn, Registered, PlainEnd
<1> QED
  BY <1>1, <1>2, <1>3, <1>4, <1>5, <1>6 DEF IInv

\* A transaction gets stale only while no request holds it.
LEMMA AgeStep ==
  ASSUME IInv, NEW t \in Txs, Age(t)
  PROVE  IInv'
<1>1. TypeOK'
  BY DEF IInv, TypeOK, Age
<1>2. MutexInv' /\ HolderInv' /\ SweepInv' /\ NoOrphanedConn'
  BY DEF IInv, MutexInv, HolderInv, SweepInv, NoOrphanedConn, Registered,
     Age
<1>3. FreshInv'
  BY DEF IInv, FreshInv, Held, Age
<1> QED
  BY <1>1, <1>2, <1>3 DEF IInv

\* The cleaner picks stale transactions: no request uses them, since nobody
\* who finishes one can hold the mutex and nobody who queries one let it get stale.
LEMMA CleanupLockStep ==
  ASSUME IInv, CleanupLock
  PROVE  IInv'
<1>1. TypeOK'
  BY DEF IInv, TypeOK, CleanupLock
<1>2. HolderInv' /\ FreshInv' /\ NoOrphanedConn'
  BY DEF IInv, HolderInv, FreshInv, NoOrphanedConn, Registered, CleanupLock
<1>3. MutexInv'
  BY TMAssumption DEF IInv, MutexInv, CleanupLock
<1>4. SweepInv'
  BY TMAssumption DEF IInv, TypeOK, MutexInv, FreshInv, SweepInv, Deref,
     Finishing, CleanupLock
<1> QED
  BY <1>1, <1>2, <1>3, <1>4 DEF IInv

\* The cleaner rolls back and deletes one entry.
LEMMA CleanupOneStep ==
  ASSUME IInv, NEW i \in Ids, CleanupOne(i)
  PROVE  IInv'
<1>1. TypeOK'
  BY DEF IInv, TypeOK, SweepInv, TxStates, CleanupOne
<1>2. MutexInv'
  BY DEF IInv, MutexInv, CleanupOne
<1>3. HolderInv'
  BY DEF IInv, HolderInv, SweepInv, CleanupOne
<1>4. FreshInv'
  BY DEF IInv, FreshInv, CleanupOne
<1>5. SweepInv'
  BY DEF IInv, SweepInv, CleanupOne
<1>6. NoOrphanedConn'
  BY DEF IInv, NoOrphanedConn, Registered, CleanupOne
<1> QED
  BY <1>1, <1>2, <1>3, <1>4, <1>5, <1>6 DEF IInv

\* The cleaner is done.
LEMMA CleanupUnlockStep ==
  ASSUME IInv, CleanupUnlock
  PROVE  IInv'
<1>1. TypeOK'
  BY DEF IInv, TypeOK, CleanupUnlock
<1>2. HolderInv' /\ FreshInv' /\ NoOrphanedConn'
  BY DEF IInv, HolderInv, FreshInv, NoOrphanedConn, Registered, CleanupUnlock
<1>3. MutexInv'
  BY TMAssumption DEF IInv, MutexInv, CleanupUnlock
<1>4. SweepInv'
  BY DEF SweepInv, CleanupUnlock
<1> QED
  BY <1>1, <1>2, <1>3, <1>4 DEF IInv

-----------------------------------------------------------------------------
\* In the initial state no request is being handled and nothing is registered.
LEMMA InitIInv == Init => IInv
<1> SUFFICES ASSUME Init PROVE IInv
  OBVIOUS
<1> USE DEF Init
<1>1. TypeOK
  BY TMAssumption DEF TypeOK, Points, Deref, TxStates
<1>2. MutexInv /\ HolderInv
  BY TMAssumption DEF MutexInv, HolderInv, Finishing
<1>3. FreshInv /\ SweepInv
  BY TMAssumption DEF FreshInv, SweepInv
<1>4. NoOrphanedConn
  BY DEF NoOrphanedConn
<1> QED
  BY <1>1, <1>2, <1>3, <1>4 DEF IInv

\* Every step of every worker, of the cleaner and of time preserves IInv.
LEMMA NextIInv == IInv /\ [Next]_vars => IInv'
<1> SUFFICES ASSUME IInv, [Next]_vars PROVE IInv'
  OBVIOUS
<1>1. ASSUME NEW w \in Workers, Receive(w) PROVE IInv'
  BY <1>1, ReceiveBeginStep, ReceiveOtherStep DEF Receive
<1>2. ASSUME NEW w \in Workers, Locks(w) PROVE IInv'
  BY <1>2, BeginLockStep, FinishLockStep, GetTransactionStep DEF Locks
<1>3. ASSUME NEW w \in Workers, DbBegin(w) PROVE IInv'
  BY <1>3, BeginOkStep, BeginErrorStep DEF DbBegin
<1>4. ASSUME NEW w \in Workers, Finish(w) PROVE IInv'
  BY <1>4, FinishOkStep, FinishErrorStep DEF Finish
<1>5. ASSUME NEW w \in Workers, Query(w) PROVE IInv'
  BY <1>5, TxQueryStartStep, TxQueryEndStep, PlainStartStep,
     PlainTimeoutStep, PlainEndStep DEF Query
<1>6. CASE CleanupStep
  BY <1>6, CleanupOneStep, CleanupUnlockStep DEF CleanupStep
<1>7. CASE UNCHANGED vars
  <2> USE <1>7 DEF vars
  <2>1. TypeOK'
    BY DEF IInv, TypeOK
  <2>2. MutexInv' /\ HolderInv' /\ FreshInv' /\ SweepInv'
    BY DEF IInv, MutexInv, HolderInv, FreshInv, SweepInv
  <2>3. NoOrphanedConn'
    BY DEF IInv, NoOrphanedConn, Registered
  <2> QED
    BY <2>1, <2>2, <2>3 DEF IInv
<1> QED
  BY <1>1, <1>2, <1>3, <1>4, <1>5, <1>6, <1>7, AgeStep, CleanupLockStep DEF Next

\* IInv holds in every reachable state.
THEOREM Invariance == Spec => []IInv
BY InitIInv, NextIInv, PTL DEF Spec

\* Types, and no request goes on with a nil *sql.Tx: for any number of workers
\* and transactions, and in both modes.
THEOREM TypeCorrect == Spec => []TypeOK
<1>1. IInv => TypeOK
  BY DEF IInv
<1> QED
  BY <1>1, Invariance, PTL

\* A transaction that holds a connection can be found in the registry, so that
\* COMMIT, ROLLBACK or the cleanup can give the connection back.
THEOREM NoConnectionOrphaned == Spec => []NoOrphanedConn
<1>1. IInv => NoOrphanedConn
  BY DEF IInv
<1> QED
  BY <1>1, Invariance, PTL
-----------------------------------------------------------------------------
\* BEGIN with an id in use never replaces its transaction: the check and the
\* insert are made under one lock.
THEOREM NoBeginReplaces == Spec => BeginNeverReplaces
<1>1. IInv /\ [Next]_vars
        => [\A i \in Ids : Exists(i) => registry'[i] \in {registry[i], NoTx}]_vars
  <2> SUFFICES ASSUME IInv, Next, NEW i \in Ids, Exists(i)
               PROVE  registry'[i] \in {registry[i], NoTx}
    OBVIOUS
  <2>1. ASSUME NEW w \in Workers, NEW t \in Txs, BeginOk(w, t)
        PROVE  registry'[i] = registry[i]
    BY <2>1 DEF IInv, TypeOK, HolderInv, BeginOk, Exists
  <2>2. ASSUME NEW w \in Workers, FinishOk(w)
        PROVE  registry'[i] \in {registry[i], NoTx}
    BY <2>2 DEF IInv, TypeOK, FinishOk
  <2>3. ASSUME NEW j \in Ids, CleanupOne(j)
        PROVE  registry'[i] \in {registry[i], NoTx}
    BY <2>3 DEF IInv, TypeOK, CleanupOne
  <2>4. CASE registry' = registry
    BY <2>4
  <2>5. \/ registry' = registry
        \/ \E w \in Workers : FinishOk(w) \/ \E t \in Txs : BeginOk(w, t)
        \/ \E j \in Ids : CleanupOne(j)
    BY DEF Next, Receive, ReceiveBegin, ReceiveOther, Locks, BeginLock,
       FinishLock, GetTransaction, DbBegin, BeginError, Finish, FinishError,
       Query, TxQueryStart, TxQueryEnd, PlainStart, PlainTimeout, PlainEnd,
       Age, CleanupLock, CleanupStep, CleanupUnlock
  <2> QED
    BY <2>1, <2>2, <2>3, <2>4, <2>5
<1> QED
  BY <1>1, Invariance, PTL DEF Spec, BeginNeverReplaces

\* The cleaner, while it holds the mutex, changes no transaction that a request
\* is using or about to use.
THEOREM CleanupIsSafe == Spec => CleanupSparesUsers
<1>1. IInv /\ [Next]_vars
        => [mutex = Cleaner =>
              \A t \in Txs : Held(t) => txState'[t] = txState[t]]_vars
  <2> SUFFICES ASSUME IInv, Next, mutex = Cleaner, NEW t \in Txs, Held(t)
               PROVE  txState'[t] = txState[t]
    OBVIOUS
  <2>1. ASSUME NEW j \in Ids, CleanupOne(j)
        PROVE  txState'[t] = txState[t]
    BY <2>1 DEF IInv, TypeOK, SweepInv, CleanupOne, Held
  <2>2. \A w \in Workers : pc[w] \notin Finishing \cup {"dbBegin"}
    BY TMAssumption DEF IInv, MutexInv
  <2>3. txState' = txState \/ \E j \in Ids : CleanupOne(j)
    BY <2>2, TMAssumption
    DEF Next, Receive, ReceiveBegin, ReceiveOther, Locks, BeginLock,
       FinishLock, GetTransaction, DbBegin, BeginOk, BeginError, Finish,
       FinishOk, FinishError, Finishing, Query, TxQueryStart, TxQueryEnd,
       PlainStart, PlainTimeout, PlainEnd, Age, CleanupLock, CleanupStep,
       CleanupUnlock
  <2> QED
    BY <2>1, <2>3
<1> QED
  BY <1>1, Invariance, PTL DEF Spec, CleanupSparesUsers
=============================================================================
