SPECIFICATION FairSpec
CONSTANTS
  ana = ana
  bob = bob
  k1 = k1
  k2 = k2
  NoUser = NoUser
  Users <- MCUsers
  DecisionKeys <- OneKey
  Plans <- MCPlans
  StepRetries = 1
  CancelAttempts = 2
  MaxAttempts = 2
  MaxSends = 2
  MaxTime = 1
CHECK_DEADLOCK FALSE
INVARIANTS
  EverySourceAgrees
PROPERTIES
  ProjectionNeverRegresses
  FollowsLifecycle
  EveryoneIsAnswered
