SPECIFICATION Spec
CONSTANTS
  q1 = q1
  q2 = q2
  w1 = w1
  w2 = w2
  NoItem = NoItem
  Items = {q1, q2}
  Total = 2
  Workers = {w1, w2}
  BatchSize = 2
  MaxAttempts = 2
  MaxFaults = 1
SYMMETRY Symmetry
INVARIANTS AcceptedNeverLost StoredWithEffects CountNeverAhead CompletedOnlyWhenAllStored
CHECK_DEADLOCK FALSE
