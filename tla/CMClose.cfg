SPECIFICATION Spec
CONSTANTS
  c1 = c1
  c2 = c2
  c3 = c3
  Nil = Nil
  Conns <- MCConns
  Configs <- MCAutomatic
  MaxLoops = 1
  MaxCount = 1
INVARIANTS
  CloseDisables
CHECK_DEADLOCK FALSE
