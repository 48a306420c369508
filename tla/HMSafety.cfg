SPECIFICATION MessageSpec
CONSTANTS
  w1 = w1
  w2 = w2
  c1 = c1
  b1 = b1
  b2 = b2
  b3 = b3
  Nil = Nil
  Bodies <- MCBodies
  Registry <- MCRegistry
  Workers <- MCWorkers
  Clients <- MCClients
  Buckets <- MCBuckets
  Rate = 3
  Burst = 1
  Cutoff = 1
SYMMETRY MCSymmetry
INVARIANTS
  MessagesOK
  OverrunBounded
  OnlyCleanupOverruns
  CallsFit
  OnlyPingsUnanswered
