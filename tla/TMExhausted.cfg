SPECIFICATION FairSpec
CONSTANTS
  w1 = w1
  w2 = w2
  a = a
  t1 = t1
  t2 = t2
  NoId = NoId
  NoTx = NoTx
  Cleaner = Cleaner
  Nobody = Nobody
  Workers <- MCWorkers
  Ids <- MCIds
  Txs <- MCTxs
  OpenMode = TRUE
  MaxOpen = 1
  MaxHandles = 1
PROPERTIES
  AbandonedReclaimed
CHECK_DEADLOCK FALSE
