----------------------------- MODULE TaskPool -----------------------------
(***************************************************************************)
(* What workers may rely on when they share the queues of a                *)
(* WorkQueueManager ("thread safe queue in order to be accessed by         *)
(* multiple workers", WorkQueue.h:17): the queues are sets of tasks, an    *)
(* entry is handed to one worker, and a task a worker creates is in the    *)
(* pool from then on until a worker takes it.                              *)
(***************************************************************************)
CONSTANTS
  Worker,
  Children,   \* Children[t]: the calls that add the tasks t creates
  Initial     \* the entries of the pool at the start

VARIABLES pending,   \* the entries <<queue, task>> that nobody has taken
          owed       \* the entries that a worker has yet to create

poolVars == <<pending, owed>>

EntryOf(child) == <<child.queue, child.task>>
ChildrenOf(t) == {EntryOf(Children[t][i]) : i \in DOMAIN Children[t]}

Init ==
  /\ pending = Initial
  /\ owed = [w \in Worker |-> {}]

(* A worker takes one entry out of the pool, and owes its children.       *)
Take(w) == \E entry \in pending :
  /\ owed[w] = {}
  /\ pending' = pending \ {entry}
  /\ owed' = [owed EXCEPT ![w] = ChildrenOf(entry[2])]

(* A worker adds a task to a queue, which has no effect if it is there;    *)
(* it may do so more than once.                                           *)
Add(w) == \E entry \in owed[w] : \E rest \in {owed[w], owed[w] \ {entry}} :
  /\ pending' = pending \cup {entry}
  /\ owed' = [owed EXCEPT ![w] = rest]

Next == \E w \in Worker : Take(w) \/ Add(w)

Spec == Init /\ [][Next]_poolVars
=============================================================================
