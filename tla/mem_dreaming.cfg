\* Two requests at a time and four in all, two staged items, two proposals, one job.
SPECIFICATION Spec
CONSTANTS
  Staging = {s1, s2}
  Proposals = {p1, p2}
  Jobs = {j1}
  Calls = {c1, c2}
  None = None
  MaxRequests = 4
  MaxClaims = 1
INVARIANTS
  AssuredOrClaimed
  ProtectedKept
  
PROPERTIES
  DecisionFinal
  OnlyRejectedRemoved
SYMMETRY MCSymmetry
CHECK_DEADLOCK FALSE
