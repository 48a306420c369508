SPECIFICATION Spec
CONSTANTS
  t1 = t1
  t2 = t2
  NoTx = NoTx
  Txs <- MCTxs
  Served <- Both
INVARIANTS
  TypeOK
  ReportedIsDone
  QueriesJoinTransaction
CHECK_DEADLOCK FALSE
