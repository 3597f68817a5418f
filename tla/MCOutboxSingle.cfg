SPECIFICATION FairSpec
CONSTANTS
  e1 = e1
  e2 = e2
  e3 = e3
  t1 = t1
  w1 = w1
  Events = {e1, e2, e3}
  Topics = {t1}
  TopicOf <- OneTopic
  Workers = {w1}
  BatchSize = 2
  Parallelism = 1
  MaxRetries = 2
  MaxCrashes = 1
  MaxOverruns = 0
  MaxLost = 0
PROPERTIES ImplementsAnswerEffects EventuallySettled
CHECK_DEADLOCK FALSE
