SPECIFICATION FairSpec
CONSTANTS
  t1 = t1
  t2 = t2
  NoTx = NoTx
  Txs <- MCTxs
  Served <- Both
PROPERTIES
  CallsReturn
CHECK_DEADLOCK FALSE
