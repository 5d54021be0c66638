\* Soundness of the success verdict over a family of automata and settings.
CONSTANTS
  a = a
  b = b
  Point <- MCPoint
  Location <- MCLocation
  Over <- Hull
  Automata <- SoundAutomata
  Parameters <- AllSettings
  Analyses <- SoundAnalyses
SPECIFICATION VerificationSpec
INVARIANT TypeOK
INVARIANT Soundness
INVARIANT FirstSegmentMeetsInvariant
INVARIANT TimingsFollowRuns
INVARIANT ConflictIsReal
INVARIANT DroppedNodesAreProcessed
PROPERTY Termination
CHECK_DEADLOCK FALSE
