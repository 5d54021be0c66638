\* Up to three workers on two queues.
SPECIFICATION Spec
CONSTANTS
  Worker = {w1, w2, w3}
  Task <- MCTask
  NumQueues = 2
  Children <- MCChildren
  Initial <- MCInitial
  NoTask = NoTask
  dequeueFront = TRUE
INVARIANTS
  TypeOK
  NoTaskIsLeftBehind
PROPERTIES
  PoolSpec
  EveryTaskIsTaken
  Termination
CHECK_DEADLOCK FALSE
