SPECIFICATION FairSpec
CONSTANTS
  NumOptions = 2
  Readings = {100, 103}
  Presses = {1}
  NULL = NULL
  MaxRestarts = 1
INVARIANTS
  LearnedApart
  OneCommandPerReading
  OneRunPerPress
PROPERTIES
  LearnsTheHeldKey
  MatchedReadingIsConsumed
