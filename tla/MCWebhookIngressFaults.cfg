SPECIFICATION Spec
CONSTANTS
  u1 = u1
  u2 = u2
  w1 = w1
  w2 = w2
  Updates = {u1, u2}
  FastAnswers = {u2}
  Workers = {w1, w2}
  BatchSize = 2
  Parallelism = 2
  MaxAttempts = 2
  MaxCrashes = 1
  MaxSteals = 1
  MaxExpiries = 1
CONSTRAINT OneFault
SYMMETRY WorkerSymmetry
INVARIANTS TypeOK NoAckedUpdateLost BuriedOnlyAfterMaxFailures
PROPERTIES AckOnlyAfterOutcome ImplementsUpdateDelivery
CHECK_DEADLOCK FALSE
