SPECIFICATION MCSpec
CONSTANTS
  c1 = c1
  c2 = c2
  c3 = c3
  Calls = {c1, c2, c3}
  DecisionKeys = {d}
  CreateKeys = {n}
  Payloads = {good, bad}
  Invalid = {bad}
  Lease = 1
  Limit = 1
  Window = 2
  TaskCount = 4
  PageSize = 2
  MaxTime = 2
  MaxTroubles = 1
  TupleCount = 2
  ConsolePage = 1
  MutationPage = 2
  MaxEvents = 5
  MaxClock = 2
  Askers = {a1, a2}
  Secrets = {s1, s2}
  Unset = Unset
  Margin = 1
  Guess = 2
  Lifetimes = {2}
  MaxInstant = 3
SYMMETRY Alike
CHECK_DEADLOCK FALSE
INVARIANTS
  AnswersAgree
  EffectsAreBounded
  ListingsAreComplete
  AccessIsGoverned
