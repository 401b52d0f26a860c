SPECIFICATION Spec
CONSTANTS
  ana = ana
  bob = bob
  cid = cid
  k1 = k1
  k2 = k2
  k3 = k3
  NoUser = NoUser
  Users <- MCUsers
  DecisionKeys <- MCKeys
  Plans <- MCPlans
  MaxTime = 1
SYMMETRY KeySymmetry
INVARIANTS
  VotesAreLawful
  ApprovalsAreEarned
  NobodyWaitsInVain
PROPERTIES
  ClosedIsSealed
  TasksOnlyClose
