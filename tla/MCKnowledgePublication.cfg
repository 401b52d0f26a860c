SPECIFICATION MCSpec
CONSTANTS
    author = author
    boss = boss
    c1 = c1
    c2 = c2
    visitor = visitor
    founder = founder
    rival = rival
    nearby = nearby
    faraway = faraway
    leaf1 = leaf1
    leaf2 = leaf2
    new = new
    Visitors = {visitor}
    Founders = {founder, rival}
    Spaces = {nearby, faraway}
    NewSpace = new
    Leaves = {leaf1, leaf2}
    LeafTexts = {1, 2}
    SpaceOf <- MCSpaceOf
    OwnerOf <- MCOwnerOf
    RowLimit = 1
    MaxChanges = 2
    People <- MCPeople
    PageOwner = author
    Watchers <- MCPeople
    Texts <- MCTexts
    SpaceOwners = {boss}
    AuthorCalls = {c1}
    ApproverCalls = {c2}
    MaxSnapshots = 2
    MaxRuns = 2
    MaxDrafts = 2
    MaxTroubles = 1
CHECK_DEADLOCK FALSE
INVARIANTS
  ReadersAreServed
  ViewsAreTrue
PROPERTIES
  EffectsAreAttempted
