SPECIFICATION Spec
CONSTANTS
  w1 = w1  w2 = w2  w3 = w3  t1 = t1  t2 = t2  t3 = t3
  r1 = r1  r2 = r2
  Workflows = {w1, w2, w3}
  Contents = {c1, c2}
  Types = {t1, t2, t3}
  TypesOf <- MCTypesOf
  Edited = {w1}
  Requests = {r1, r2}
  Parent <- MCParent
  Asks <- MCAsks
  Before <- MCBefore
  None = None
  Calls = {k1, k2}
  MaxVersions = 2
  MaxDepth = 1
  TenantRuns = 1
  SystemRuns = 2
  MaxFaults = 1
INVARIANT RunsWhatWasRequested
INVARIANT NothingRunsWithinItself
INVARIANT QuotasFollowRuns
SYMMETRY MCSymmetry
CHECK_DEADLOCK FALSE
