SPECIFICATION PaletteSpec
CONSTANTS
  Queries = {java, jvm}
  Types = {every, lesson}
  Total = 3
  MaxActs = 8
  Short = Short
  None = None
CHECK_DEADLOCK FALSE
INVARIANTS ResultsAreOfOneSearch RestAnswersTheQuestion
PROPERTIES WaitingEnds
