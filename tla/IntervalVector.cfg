\* All operations on vectors of three types up to a horizon, merged and united with some others.
SPECIFICATION Spec
CONSTANTS
  no = no
  partial = partial
  full = full
  Order <- MCOrder
  Horizon <- MCHorizon
  Others <- MCOthers
INVARIANTS
  Canonical
  CoverIsExact
  IntersectionIsFound
  OperationsAreExact
