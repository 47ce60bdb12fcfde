SPECIFICATION WalkSpec
CONSTANTS
  Starts <- AllStarts
  MaxFlips = 1
  Temps <- SomeTemps
  Comps <- SomeComps
INVARIANTS OneCommandFlag TempSettersExact StateSetterExact
PROPERTY OneBitOneParameter
CHECK_DEADLOCK FALSE
