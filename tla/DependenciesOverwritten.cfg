\* Two successors and one clock: the dependencies of the first are used for the second.
SPECIFICATION VerificationSpec
CONSTANTS
  a = a
  b = b
  Subspace <- MCSubspace
  Value <- MCValue
  Location <- MCLocation
  Analyses <- WrapAnalyses
INVARIANTS
  Soundness
CHECK_DEADLOCK FALSE
