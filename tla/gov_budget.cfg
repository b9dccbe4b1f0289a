\* OneAttemptPerApproval, which the code does not keep.
CONSTANTS
  Proposals = {p1}
  Calls = {c1, c2, c3}
  Keys = {k1}
  HandoffKeys = {h1}
  NoKey = NoKey
  Mode = "off"
  MaxInvocations = 1
SPECIFICATION Spec
INVARIANT OneAttemptPerApproval
CHECK_DEADLOCK FALSE
