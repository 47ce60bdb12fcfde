SPECIFICATION WalkSpec
CONSTANTS
  Starts <- AllStarts
  MaxFlips = 1
  Temps <- SomeTemps
  Comps <- SomeComps
INVARIANT StateSetterTotal
CHECK_DEADLOCK FALSE
