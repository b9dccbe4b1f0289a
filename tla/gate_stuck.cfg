\* ProbeResolved, which the code does not keep.
SPECIFICATION FairSpec
CONSTANTS
  r1 = r1
  r2 = r2
  r3 = r3
  Requests = {r1, r2}
  Modes <- RacesOnly
  Threshold = 1
  Cooldown = 1
  MaxTime = 3
PROPERTY ProbeResolved
CHECK_DEADLOCK FALSE
