SPECIFICATION Spec
CONSTANTS
  e1 = e1
  e2 = e2
  t1 = t1
  w1 = w1
  w2 = w2
  Events = {e1, e2}
  Topics = {t1}
  TopicOf <- OneTopic
  Workers = {w1, w2}
  BatchSize = 2
  Parallelism = 2
  MaxRetries = 2
  MaxCrashes = 1
  MaxOverruns = 2
  MaxLost = 1
SYMMETRY Symmetry
INVARIANTS TypeOK AppliedExactlyWhenDone DeadOnlyAfterMaxFailures ProgressNeverOvercounts
CHECK_DEADLOCK FALSE
