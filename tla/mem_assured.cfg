\* One request at a time and three in all, one staged item, one proposal, one job.
SPECIFICATION Spec
CONSTANTS
  Staging = {s1}
  Proposals = {p1}
  Jobs = {j1}
  Calls = {c1}
  None = None
  MaxRequests = 3
  MaxClaims = 1
INVARIANT ApprovedWasAssured
CHECK_DEADLOCK FALSE
