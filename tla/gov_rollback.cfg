\* RollbackRuns, which the code does not keep.
CONSTANTS
  Proposals = {p1}
  Calls = {c1, c2, c3, c4}
  Keys = {k1}
  HandoffKeys = {h1}
  NoKey = NoKey
  Mode = "off"
  MaxInvocations = 2
SPECIFICATION Spec
INVARIANT RollbackRuns
CHECK_DEADLOCK FALSE
