\* What checkPoint and getInternalPoint leave behind is taken for an answer.
CONSTANTS
  Thread = {t1}
  Number = {0, 1}
  MaxRows = 2
  Infinity = 2
SPECIFICATION Spec
INVARIANT ConsistencyIsRight
CHECK_DEADLOCK FALSE
