\* Two levels, a coarse and an exact one, and three: pairs, boxes and exact sets.
CONSTANTS
  a = a
  b = b
  Point <- MCPoint
  Location <- MCLocation
  Over <- Exact
  Automata <- SoundFamily
  Strategies <- AllLevels
  horizon = 2
  jumpDepth = 2
SPECIFICATION Spec
INVARIANT TypeOK
INVARIANT Soundness
INVARIANT UnknownIsReal
PROPERTY RefinementStartsEmpty
PROPERTY Termination
CHECK_DEADLOCK FALSE
