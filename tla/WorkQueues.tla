---------------------------- MODULE WorkQueues ----------------------------
(***************************************************************************)
(* The work queues (datastructures/reachability/workQueue): queues with a  *)
(* lock each (WorkQueueT), behind a manager that looks at them one after   *)
(* the other (WorkQueueManager), and the loop of a worker that takes tasks *)
(* from them and enqueues the tasks these give rise to (the loop of        *)
(* examples/example_singularReachability.cpp:111, with locking access as   *)
(* for global queues in handlers/jumpHandlers/util.h).  What happens under *)
(* one lock is one step; workers interleave between any two of them.       *)
(***************************************************************************)
EXTENDS Integers, Sequences, Functions

CONSTANTS
  Worker,         \* the threads that may work on the queues
  Task,           \* the tasks, as pointers
  NumQueues,      \* the number of queues of the manager
  Children,       \* Children[t]: what processing t enqueues, in this order
  Initial,        \* the queues, as they are filled before the workers start
  dequeueFront,   \* the argument of getNextWorkable
  NoTask          \* nullptr

Queue == 1..NumQueues

(* A call of enqueue or of pushFront.                                     *)
Child == [queue : Queue, task : Task, end : {"back", "front"}]

ASSUME QueuesAssumption ==
  /\ NumQueues \in Nat
  /\ Children \in [Task -> Seq(Child)]
  /\ Initial \in [Queue -> Seq(Task)]
  /\ \A q \in Queue : IsInjective(Initial[q])
  /\ dequeueFront \in BOOLEAN
  /\ NoTask \notin Task

VARIABLES
  mQueue,         \* WorkQueueT::mQueue of every queue
  workers,        \* the workers that take part
  pc,             \* what a worker is doing
  at,             \* the queue the loop of hasWorkable or getNextWorkable looks at
  task,           \* the task of a worker
  toEnqueue       \* the calls of enqueue the task still makes

vars == <<mQueue, workers, pc, at, task, toEnqueue>>

Exists(queue, t) == \E i \in DOMAIN queue : queue[i] = t

(* A mutant: without the test for duplicates.                             *)
InsertUnchecked(queue, child) ==
  IF child.end = "back" THEN Append(queue, child.task) ELSE <<child.task>> \o queue

(* Push front or enqueue with Setting::findDuplicates, under the lock.    *)
Insert(queue, child) ==
  CASE Exists(queue, child.task) -> queue
    [] ~Exists(queue, child.task) /\ child.end = "back"  -> Append(queue, child.task)
    [] ~Exists(queue, child.task) /\ child.end = "front" -> <<child.task>> \o queue

Enqueued(queues, child) == [queues EXCEPT ![child.queue] = Insert(@, child)]

(* The end of a queue that is not empty at which items are taken.         *)
Item(queue) == IF dequeueFront THEN Head(queue) ELSE queue[Len(queue)]

(* Mutants of Rest: the item is removed at the other end, or not at all.  *)
RestAtOtherEnd(queue) == IF dequeueFront THEN SubSeq(queue, 1, Len(queue) - 1) ELSE Tail(queue)
RestWithoutPop(queue) == queue

Rest(queue) == IF dequeueFront THEN Tail(queue) ELSE SubSeq(queue, 1, Len(queue) - 1)

Init ==
  /\ mQueue = Initial
  /\ workers \in (SUBSET Worker) \ {{}}
  /\ pc = [w \in Worker |-> IF w \in workers THEN "hasWorkable" ELSE "left"]
  /\ at = [w \in Worker |-> 1]
  /\ task = [w \in Worker |-> NoTask]
  /\ toEnqueue = [w \in Worker |-> <<>>]

Goto(w, label) == pc' = [pc EXCEPT ![w] = label] /\ at' = [at EXCEPT ![w] = 1]
LookAtNextQueue(w) == at' = [at EXCEPT ![w] = @ + 1] /\ UNCHANGED pc

(* One round of the loop of hasWorkable: isEmpty on one queue.            *)
FindWorkable(w) ==
  /\ pc[w] = "hasWorkable" /\ at[w] \in Queue
  /\ mQueue[at[w]] # <<>>
  /\ Goto(w, "getNextWorkable")
  /\ UNCHANGED <<mQueue, workers, task, toEnqueue>>

(* A mutant: the answer for the first queue is the answer for all.        *)
FindQueueEmptyAndLeave(w) ==
  /\ pc[w] = "hasWorkable" /\ at[w] \in Queue
  /\ mQueue[at[w]] = <<>>
  /\ Goto(w, "left")
  /\ UNCHANGED <<mQueue, workers, task, toEnqueue>>

FindQueueEmpty(w) ==
  /\ pc[w] = "hasWorkable" /\ at[w] \in Queue
  /\ mQueue[at[w]] = <<>>
  /\ LookAtNextQueue(w)
  /\ UNCHANGED <<mQueue, workers, task, toEnqueue>>

(* HasWorkable is false, and the loop of the worker ends.                 *)
Leave(w) ==
  /\ pc[w] = "hasWorkable" /\ at[w] \notin Queue
  /\ Goto(w, "left")
  /\ UNCHANGED <<mQueue, workers, task, toEnqueue>>

(* One round of the loop of getNextWorkable: dequeue on one queue.        *)
Dequeue(w) ==
  /\ pc[w] = "getNextWorkable" /\ at[w] \in Queue
  /\ mQueue[at[w]] # <<>>
  /\ task' = [task EXCEPT ![w] = Item(mQueue[at[w]])]
  /\ toEnqueue' = [toEnqueue EXCEPT ![w] = Children[Item(mQueue[at[w]])]]
  /\ mQueue' = [mQueue EXCEPT ![at[w]] = Rest(@)]
  /\ Goto(w, "processTask")
  /\ UNCHANGED workers

DequeueNothing(w) ==
  /\ pc[w] = "getNextWorkable" /\ at[w] \in Queue
  /\ mQueue[at[w]] = <<>>
  /\ LookAtNextQueue(w)
  /\ UNCHANGED <<mQueue, workers, task, toEnqueue>>

(* GetNextWorkable has passed all queues and returns nullptr; a worker     *)
(* that is not alone has to go back to the condition of its loop.         *)
ReturnsNull(w) == pc[w] = "getNextWorkable" /\ at[w] \notin Queue

(* A mutant: what getNextWorkable returns is processed without a look.    *)
GetNullAndProcess(w) ==
  /\ ReturnsNull(w)
  /\ Goto(w, "processTask")
  /\ UNCHANGED <<mQueue, workers, task, toEnqueue>>

GetNull(w) ==
  /\ ReturnsNull(w)
  /\ Goto(w, "hasWorkable")
  /\ UNCHANGED <<mQueue, workers, task, toEnqueue>>

(* ProcessTask enqueues what the task gives rise to, one after the other. *)
Enqueue(w) ==
  /\ pc[w] = "processTask" /\ toEnqueue[w] # <<>>
  /\ mQueue' = Enqueued(mQueue, Head(toEnqueue[w]))
  /\ toEnqueue' = [toEnqueue EXCEPT ![w] = Tail(@)]
  /\ UNCHANGED <<workers, pc, at, task>>

FinishTask(w) ==
  /\ pc[w] = "processTask" /\ toEnqueue[w] = <<>>
  /\ task' = [task EXCEPT ![w] = NoTask]
  /\ Goto(w, "hasWorkable")
  /\ UNCHANGED <<mQueue, workers, toEnqueue>>

Step(w) ==
  \/ FindWorkable(w) \/ FindQueueEmpty(w) \/ Leave(w)
  \/ Dequeue(w) \/ DequeueNothing(w) \/ GetNull(w)
  \/ Enqueue(w) \/ FinishTask(w)

Next == \E w \in Worker : Step(w)

(* The scheduler of the operating system runs every thread, and a lock is *)
(* held for the duration of one step only.                                *)
Spec == Init /\ [][Next]_vars /\ \A w \in Worker : WF_vars(Step(w))

---------------------------------------------------------------------------
Labels == {"hasWorkable", "getNextWorkable", "processTask", "left"}

(* Every variable has its type, and a worker has a task, and never a       *)
(* nullptr, just while it processes one (WorkQueue.tpp).                  *)
TypeOK ==
  /\ mQueue \in [Queue -> Seq(Task)]
  /\ workers \in SUBSET Worker
  /\ pc \in [Worker -> Labels]
  /\ at \in [Worker -> 1..(NumQueues + 1)]
  /\ task \in [Worker -> Task \cup {NoTask}]
  /\ toEnqueue \in [Worker -> Seq(Child)]
  /\ \A w \in Worker :
       IF pc[w] = "processTask" THEN task[w] # NoTask
                                ELSE task[w] = NoTask /\ toEnqueue[w] = <<>>

(* No worker stands idle by a task: hasWorkable looks at one queue after  *)
(* the other and may miss what is added behind its back, but then the     *)
(* worker that added it is still there to find it.  For every queue that  *)
(* is not empty there is a worker whose search has not passed it yet.     *)
NoTaskIsLeftBehind ==
  \A q \in Queue : mQueue[q] # <<>> =>
    \E w \in workers : pc[w] # "left" /\ (pc[w] = "hasWorkable" => at[w] <= q)

(* The queues are a pool: an entry goes to one worker, and is not lost.   *)
Entries(queues) == UNION {{<<q, queues[q][i]>> : i \in DOMAIN queues[q]} : q \in Queue}

Pool == INSTANCE TaskPool WITH
  pending <- Entries(mQueue),
  Initial <- Entries(Initial),
  owed <- [w \in Worker |->
    {<<toEnqueue[w][i].queue, toEnqueue[w][i].task>> : i \in DOMAIN toEnqueue[w]}]

PoolSpec == Pool!Spec

(* Every entry is taken in the end, also when workers leave early.        *)
EveryTaskIsTaken ==
  \A q \in Queue, t \in Task : Exists(mQueue[q], t) ~> (\E w \in workers : task[w] = t)

(* All workers leave in the end, and leave the queues empty.              *)
Termination == <>[](\A w \in workers : pc[w] = "left" /\ \A q \in Queue : mQueue[q] = <<>>)
=============================================================================
