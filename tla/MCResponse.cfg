CONSTANTS
  Names <- ThreeNames
  Dots <- OneDot
  STEP = 2
  SubDir = TRUE
  AllocOutcomes = {TRUE, FALSE}
  OpenOutcomes = {TRUE, FALSE}
  MaxChanges = 1
  MaxSize = 4
  IntLimit = 4
  MaxEdits = 2
SPECIFICATION Spec
INVARIANTS TypeOK WithinCapacity PageTrue AnswerFits LengthTrue
CHECK_DEADLOCK FALSE
