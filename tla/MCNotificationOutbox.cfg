SPECIFICATION MCSpec
CONSTANTS
  Users = {u1, u2}
  Channel = channel
  Other = other
  Dispatchers = {d1, d2}
  Consumers = {c1, c2}
  MaxAttempts = 2
  MaxRetries = 1
  MaxTroubles = 2
  Keys = {"outbox_backlog", "outbox_failures_increasing", "stuck_action_requests"}
  Crons = {k1, k2}
  Minutes = 1
  MaxLag = 1
  MaxValue = 1
  MaxFailures = 1
INVARIANT RecordsAreTrue
PROPERTY EveryoneIsToldOrCounted
CHECK_DEADLOCK FALSE
