SPECIFICATION FairSpec
CONSTANTS
  c1 = c1
  c2 = c2
  w1 = w1
  w2 = w2
  Call = {c1}
  Worker = {w1, w2}
  MaxRetries = 2
  MaxCrashes = 2
  Invokers <- AllInvokers
INVARIANTS
  NothingLostSilently
  CrashCostsOne
  NoReplyLeftBehind
PROPERTIES
  TakenOnce
  CallReturns
  EveryRequestServed
CHECK_DEADLOCK FALSE
