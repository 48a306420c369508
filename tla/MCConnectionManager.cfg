SPECIFICATION FairSpec
CONSTANTS
  c1 = c1
  c2 = c2
  c3 = c3
  Nil = Nil
  Conns <- MCConns
  Configs <- MCConfigs
  MaxLoops = 2
  MaxCount = 3
INVARIANTS
  TypeOK
  Watched
  NoLeak
  AttemptsBounded
PROPERTIES
  Recovers
CHECK_DEADLOCK FALSE
