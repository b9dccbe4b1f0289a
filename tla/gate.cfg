\* A race or a chain, another race and a plain call; breakers that open at once.
SPECIFICATION FairSpec
CONSTANTS
  r1 = r1
  r2 = r2
  r3 = r3
  Requests = {r1, r2, r3}
  Modes <- MCModes
  Threshold = 1
  Cooldown = 1
  MaxTime = 3
INVARIANTS
  BreakerConsistent
  RoutedFully
PROPERTIES
  ProbesApart
  RequestsEnd
CHECK_DEADLOCK FALSE
