SPECIFICATION FairSpec
CONSTANTS
  p1 = p1
  p2 = p2
  Nobody = Nobody
  Procs <- Two
PROPERTIES
  CallsReturn
CHECK_DEADLOCK FALSE
