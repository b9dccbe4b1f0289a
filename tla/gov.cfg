\* Two proposals, plain or of one checkpoint key, under enforcement: three requests
\* of any kind that race, die and are overtaken by recovery.
CONSTANTS
  Proposals = {p1, p2}
  Calls = {c1, c2, c3}
  Keys = {k1, k2}
  HandoffKeys = {h1}
  NoKey = NoKey
  Mode = "risk_based"
  MaxInvocations = 1
SPECIFICATION Spec
INVARIANT OperationCoupled
INVARIANT VersionIdentifiesRow
INVARIANT OneInvocationAtATime
INVARIANT OnePendingPerKey
INVARIANT StateTellsRuns
PROPERTY ApprovalHonoured
PROPERTY OutcomeFinal
PROPERTY ClaimSettled
PROPERTY ResumeEnds
CHECK_DEADLOCK FALSE
