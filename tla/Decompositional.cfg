\* The decompositional analyzer without clocks, with a clock for every jump, and with
\* synchronisations when no node has more than one successor.
SPECIFICATION VerificationSpec
CONSTANTS
  a = a
  b = b
  Subspace <- MCSubspace
  Value <- MCValue
  Location <- MCLocation
  Analyses <- SoundAnalyses
INVARIANTS
  TypeOK
  Soundness
  FirstSegmentsExist
  TakenForGranted
  ConflictIsReal
PROPERTIES
  Termination
