SPECIFICATION FairSpec
CONSTANTS
  MaxEffects = 1
  Workers = {w1, w2}
  Cases <- MCCases
  YieldKinds = {"timer", "human_input"}
  MaxFaults = 1
CHECK_DEADLOCK FALSE
INVARIANTS
  RunIsSound
PROPERTIES
  DecidedIsFinal
  RunEndsAndIsTold
