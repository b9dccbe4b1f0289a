SPECIFICATION Spec
CONSTANTS
  c1 = c1
  c2 = c2
  s1 = s1
  s2 = s2
  s3 = s3
  instruct = instruct
  Corr = {c1}
  Slot = {s1, s2}
  WorkerOf <- MCWorkerOf
  TaskType = {instruct}
  InstructType = instruct
  HeartbeatTimeout = 1
  Cooldown <- MCCooldown
  MaxAttempts = 2
  WorkerStatus = {"RESULT_OK", "RESULT_MODEL_ERROR"}
  Heartbeats <- Healthy
  MaxClock = 2
INVARIANTS
  TypeOK
  AtMostOneCallback
  OneAttemptAtATime
  SelectionIsExact
PROPERTIES
  CooldownHonoured
  DeliverySpec
