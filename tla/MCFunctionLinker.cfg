SPECIFICATION Spec
CONSTANTS
  Objects <- MCObjects
  Sections = {1, 2, 3}
  TextSections = {1, 2}
  NumFunctions = 3
  MaxCalls = 3
  AllObjects = FALSE
INVARIANTS
  TypeOK
  CallsLand
  LinkedExactly
  InfoMatches
  OnlyRealErrors
PROPERTY Terminates
CHECK_DEADLOCK FALSE
