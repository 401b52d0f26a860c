SPECIFICATION FairSpec
CONSTANTS
  Keys = {m1, m2}
  Workers = {w1, w2}
  NoKey = NoKey
  MaxFaults = 1
INVARIANTS
  SyncTracksLatest
  QuietMeansConverged
PROPERTIES
  EndedStaysEnded
  EveryMutationEnds
