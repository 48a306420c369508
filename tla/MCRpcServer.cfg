SPECIFICATION FairSpec
CONSTANTS
  r1 = r1
  r2 = r2
  e1 = e1
  u1 = u1
  w1 = w1
  w2 = w2
  NoMsg = NoMsg
  Requests <- MCRequests
  Hanging = {r2}
  Empties = {e1}
  Unaddressed = {u1}
  Workers <- MCWorkers
  QueueSize = 1
INVARIANTS
  TypeOK
  AtMostOneReply
  InOnePlace
PROPERTIES
  LostOnlyWithProcess
  TakenIsAnswered
  ImplementsRequestReply
  RunningServerAnswers
  ShutdownEnds
