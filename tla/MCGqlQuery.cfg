SPECIFICATION Spec
CONSTANTS
  Strings <- MCStrings
  Numbers = {}
  NameOrder = {}
  App <- MCApp
  MaxParts = 4
INVARIANTS
  DocRoundTrip
  
  JsonReadsBack
CHECK_DEADLOCK FALSE
