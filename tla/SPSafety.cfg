SPECIFICATION PathSpec
CONSTANTS
  w1 = w1
  w2 = w2
  a1 = a1
  a2 = a2
  a3 = a3
  Nil = Nil
  NoResult = NoResult
  NoPolicy = NoPolicy
  Workers <- MCWorkers
  Addrs <- MCAddrs
  Queries <- MCQueries
  Policies <- MCPolicies
  NumPatterns = 2
  MaxQueries = 3
  TTL = 1
  SqlTimeout = 1
SYMMETRY MCSymmetry
INVARIANTS
  PathTypeOK
  BoundedStaleness
  Policed
PROPERTIES
  ClearTakesEffect
