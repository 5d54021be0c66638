\* Three levels: the first two use boxes, the second one segment at a time.
CONSTANTS
  a = a
  b = b
  Point <- WidePoint
  Location <- MCLocation
  Over <- WideExact
  Automata <- ApartFamily
  Strategies <- ApartStrategies
  horizon = 3
  jumpDepth = 2
SPECIFICATION Spec
INVARIANT Soundness
CHECK_DEADLOCK FALSE
