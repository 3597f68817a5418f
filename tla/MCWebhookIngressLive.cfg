SPECIFICATION FairSpec
CONSTANTS
  u1 = u1
  w1 = w1
  w2 = w2
  Updates = {u1}
  FastAnswers = {}
  Workers = {w1, w2}
  BatchSize = 2
  Parallelism = 2
  MaxAttempts = 2
  MaxCrashes = 1
  MaxSteals = 1
  MaxExpiries = 0
PROPERTIES AckedEventuallySettled
CHECK_DEADLOCK FALSE
