\* Two initial locations and three levels.
CONSTANTS
  a = a
  b = b
  Point <- MCPoint
  Location <- MCLocation
  Over <- Exact
  Automata <- TwoRootsFamily
  Strategies <- ThreeLevels
  horizon = 2
  jumpDepth = 2
SPECIFICATION Spec
PROPERTY PathsAreIntact
CHECK_DEADLOCK FALSE
