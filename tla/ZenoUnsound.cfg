\* The Zeno test drops jumps that do provide new information.
CONSTANTS
  a = a
  b = b
  Point <- MCPoint
  Location <- MCLocation
  Over <- Hull
  Automata <- PingPongFamily
  Parameters <- ZenoSettings
  Analyses <- ZenoAnalyses
SPECIFICATION VerificationSpec
INVARIANT Soundness
CHECK_DEADLOCK FALSE
