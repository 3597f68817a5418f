SPECIFICATION Spec
CONSTANTS
  q1 = q1
  q2 = q2
  w1 = w1
  NoItem = NoItem
  Items = {q1, q2}
  Total = 2
  Workers = {w1}
  BatchSize = 2
  MaxAttempts = 2
  MaxFaults = 0
SYMMETRY Symmetry
INVARIANTS AnsweredCountIsAccepted
CHECK_DEADLOCK FALSE
