SPECIFICATION FairSpec
CONSTANTS
  Client = client
  MaxMissedBeats = 2
  ChanSize = 3
  MaxClientAge = 2
INVARIANTS
  TypeOK
  ListedWhileBusy
  DropsOnlyDead
PROPERTIES
  DeadIsFound
  GoneIsNoticed
