SPECIFICATION Spec
CONSTANTS
  ResultLimit = 3
  SignatureLimit = 2
  RecipeLimit = 3
  QueueMax = 3
  ResultPage = 2
  OtherPage = 3
  Names = {"A", "B", "C", "N"}
  DefaultName = "N"
  Starts <- AllStarts
  Works <- AllWorks
INVARIANTS
  RecordsTypeOK
  SignatureOfWeld
  AlarmOfWeld
  ResultNamesRecipe
  ResultsBounded
  SelectionKept
  CountPersisted
  ActiveRowKept
  PagesComplete
CHECK_DEADLOCK FALSE
