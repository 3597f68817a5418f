SPECIFICATION Spec
CONSTANTS
  e1 = e1
  e2 = e2
  e3 = e3
  t1 = t1
  w1 = w1
  Events = {e1, e2, e3}
  Topics = {t1}
  TopicOf <- OneTopic
  Workers = {w1}
  BatchSize = 2
  Parallelism = 2
  MaxRetries = 2
  MaxCrashes = 0
  MaxOverruns = 0
  MaxLost = 0
SYMMETRY EventSymmetry
INVARIANTS AcceptedAnswerUpdatesProgress
CHECK_DEADLOCK FALSE
