SPECIFICATION LearningSpec
CONSTANTS
  q1 = q1
  q2 = q2
  QuizIds = {q1, q2}
  RequiredRepeats = 2
  RequiredDays = 2
  Available = 2
  MaxAnswers = 3
  MaxBacklog = 3
  MaxJobs = 1
  MaxDays = 2
SYMMETRY QuizSymmetry
INVARIANTS AccuracyIsCorrectOverTotal
CHECK_DEADLOCK FALSE
