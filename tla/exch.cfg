\* A task of each client; the sender's buffer is smaller than some results.
SPECIFICATION FairSpec
CONSTANTS
  t1 = t1
  t2 = t2
  Tasks = {t1, t2}
  Client <- BothClients
  WorkerStatus = {"OK", "REJECTED"}
  MaxBody = 1
  ResultCap = 0
  MaxCuts = 1
  AcceptWakes = TRUE
INVARIANTS
  TaskWhole
  StopLeavesNothing
  StatusMisread
PROPERTIES
  ExactAnswer
  CallReturns
  StopReturns
CHECK_DEADLOCK FALSE
