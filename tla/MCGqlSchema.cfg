SPECIFICATION Spec
CONSTANTS
  Strings = {"'d'"}
  Numbers = {"1"}
  NameOrder <- Sorted
  App <- QueryIsA
  TypeNames = {"A", "B"}
  ScalarName = "Int"
  MaxCalls = 4
INVARIANTS
  RoundTrip
  AnyOrder
  IntroTells
CHECK_DEADLOCK FALSE
