\* The rectangular and the singular analyzer on the same automata.
SPECIFICATION VerificationSpec
CONSTANTS
  a = a
  b = b
  Point <- MCPoint
  Location <- MCLocation
  Over <- MCOver
  Automata <- Family
  Parameters <- MCParameters
INVARIANTS
  TypesOK
  RunsAreCovered
  Soundness
  FailureIsReal
  AnalyzersAgree
PROPERTIES
  Termination
CHECK_DEADLOCK FALSE
