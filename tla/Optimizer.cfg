\* Queries of two threads between changes of systems of up to two constraints.
CONSTANTS
  Thread = {t1, t2}
  Number = {0, 1}
  MaxRows = 2
  Infinity = 2
SPECIFICATION Spec
SYMMETRY Threads
INVARIANT TypeOK
INVARIANT EvaluationIsRight
INVARIANT PointIsRight
INVARIANT RedundantRowsCanGo
INVARIANT StoredAnswerIsReal
CHECK_DEADLOCK FALSE
