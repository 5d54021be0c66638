------------------------- MODULE WorkQueuesProofs -------------------------
(* Proofs about WorkQueues, for any number of workers, queues and tasks.  *)
EXTENDS WorkQueues, SequenceTheorems, TLAPS

(* The worker that answers for queue q: it is there, and its search has   *)
(* not passed q.                                                          *)
Watches(w, q) == pc[w] # "left" /\ (pc[w] = "hasWorkable" => at[w] <= q)

IInv ==
  /\ TypeOK
  /\ \A w \in Worker : pc[w] # "left" => w \in workers
  /\ NoTaskIsLeftBehind

---------------------------------------------------------------------------
LEMMA ItemIsTask ==
  ASSUME NEW queue \in Seq(Task), queue # <<>>
  PROVE  Item(queue) \in Task /\ Rest(queue) \in Seq(Task)
BY QueuesAssumption DEF Item, Rest

LEMMA InsertKeepsType ==
  ASSUME NEW queue \in Seq(Task), NEW child \in Child
  PROVE  Insert(queue, child) \in Seq(Task)
<1>1. child.task \in Task /\ child.end \in {"back", "front"}
  BY DEF Child
<1>2. <<child.task>> \in Seq(Task)
  BY <1>1
<1> QED BY <1>1, <1>2 DEF Insert

(* What is enqueued makes no queue but its own non-empty.                 *)
LEMMA InsertElsewhere ==
  ASSUME NEW queues \in [Queue -> Seq(Task)], NEW child \in Child, NEW q \in Queue
  PROVE  /\ Enqueued(queues, child) \in [Queue -> Seq(Task)]
         /\ q # child.queue => Enqueued(queues, child)[q] = queues[q]
BY InsertKeepsType DEF Enqueued, Child

LEMMA InitIsTypeOK == Init => TypeOK
BY QueuesAssumption DEF Init, TypeOK, Labels, Queue

LEMMA TypeStep == TypeOK /\ [Next]_vars => TypeOK'
<1> SUFFICES ASSUME TypeOK, [Next]_vars PROVE TypeOK'
  OBVIOUS
<1> USE QueuesAssumption DEF TypeOK, Labels
<1>1. CASE UNCHANGED vars
  BY <1>1 DEF vars
<1>2. ASSUME NEW w \in Worker, Step(w) PROVE TypeOK'
  <2>1. CASE FindWorkable(w)
    BY <2>1 DEF FindWorkable, Goto
  <2>2. CASE FindQueueEmpty(w)
    <3>1. at[w] + 1 \in 1..(NumQueues + 1)
      <4>1. at[w] \in 1..NumQueues
        BY <2>2 DEF FindQueueEmpty, Queue
      <4> QED BY <4>1
    <3> QED BY <2>2, <3>1 DEF FindQueueEmpty, LookAtNextQueue
  <2>3. CASE Leave(w)
    BY <2>3 DEF Leave, Goto
  <2>4. CASE Dequeue(w)
    <3>1. /\ mQueue[at[w]] \in Seq(Task) /\ mQueue[at[w]] # <<>> /\ at[w] \in Queue
          /\ Item(mQueue[at[w]]) \in Task /\ Rest(mQueue[at[w]]) \in Seq(Task)
      BY <2>4, ItemIsTask DEF Dequeue
    <3>2. Children[Item(mQueue[at[w]])] \in Seq(Child)
      BY <3>1
    <3> QED BY <2>4, <3>1, <3>2 DEF Dequeue, Goto
  <2>5. CASE DequeueNothing(w)
    <3>1. at[w] + 1 \in 1..(NumQueues + 1)
      <4>1. at[w] \in 1..NumQueues
        BY <2>5 DEF DequeueNothing, Queue
      <4> QED BY <4>1
    <3> QED BY <2>5, <3>1 DEF DequeueNothing, LookAtNextQueue
  <2>6. CASE GetNull(w)
    BY <2>6 DEF GetNull, Goto, ReturnsNull
  <2>7. CASE Enqueue(w)
    <3>1. Head(toEnqueue[w]) \in Child /\ Tail(toEnqueue[w]) \in Seq(Child)
      BY <2>7 DEF Enqueue
    <3>2. Enqueued(mQueue, Head(toEnqueue[w])) \in [Queue -> Seq(Task)]
      BY <3>1, InsertKeepsType DEF Enqueued
    <3> QED BY <2>7, <3>1, <3>2 DEF Enqueue
  <2>8. CASE FinishTask(w)
    BY <2>8 DEF FinishTask, Goto
  <2> QED BY <1>2, <2>1, <2>2, <2>3, <2>4, <2>5, <2>6, <2>7, <2>8 DEF Step
<1> QED BY <1>1, <1>2 DEF Next

(* A watcher of a queue that is not empty is found again after any step:   *)
(* it moves on only from a queue it has seen empty, and a worker that adds *)
(* to a queue starts its search anew.                                     *)
LEMMA WatchStep == IInv /\ [Next]_vars => IInv'
<1> SUFFICES ASSUME IInv, [Next]_vars PROVE IInv'
  OBVIOUS
<1>t. TypeOK'
  BY TypeStep DEF IInv
<1>w. CASE UNCHANGED vars
  BY <1>t, <1>w DEF IInv, NoTaskIsLeftBehind, vars
<1>s. ASSUME NEW w \in Worker, Step(w) PROVE IInv'
  <2> USE QueuesAssumption
  <2>1. workers' = workers /\ (pc[w] # "left") /\ w \in workers
    BY <1>s DEF IInv, Step, FindWorkable, FindQueueEmpty, Leave, Dequeue, DequeueNothing,
         GetNull, ReturnsNull, Enqueue, FinishTask
  <2>2. \A v \in Worker \ {w} : pc'[v] = pc[v] /\ at'[v] = at[v]
    BY <1>s DEF IInv, TypeOK, Step, FindWorkable, FindQueueEmpty, Leave, Dequeue,
         DequeueNothing, GetNull, Enqueue, FinishTask, Goto, LookAtNextQueue
  <2>3. \A v \in Worker : pc'[v] # "left" => v \in workers'
    BY <2>1, <2>2 DEF IInv
  <2>4. ASSUME NEW q \in Queue, mQueue'[q] # <<>>
        PROVE  \E v \in workers' : Watches(v, q)'
    <3>1. CASE pc'[w] # "left" /\ (pc'[w] = "hasWorkable" => at'[w] = 1)
      BY <3>1, <2>1 DEF Watches, Queue
    <3>2. CASE Leave(w) \/ FindQueueEmpty(w)
      <4>1. mQueue' = mQueue
        BY <3>2 DEF Leave, FindQueueEmpty
      <4>2. PICK v \in workers : Watches(v, q)
        BY <4>1, <2>4 DEF IInv, NoTaskIsLeftBehind, Watches
      <4>3. v \in Worker
        BY DEF IInv, TypeOK
      <4>4. CASE v # w
        BY <4>2, <4>3, <4>4, <2>1, <2>2 DEF Watches
      <4>5. CASE v = w /\ Leave(w)
        BY <4>2, <4>5 DEF Watches, Leave, Queue, IInv, TypeOK
      <4>6. CASE v = w /\ FindQueueEmpty(w)
        <5>1. at[w] \in Queue /\ q # at[w] /\ at[w] <= q /\ at'[w] = at[w] + 1
          BY <4>1, <4>2, <4>6, <2>4 DEF Watches, FindQueueEmpty, LookAtNextQueue, IInv, TypeOK
        <5>2. pc'[w] = "hasWorkable" /\ at'[w] <= q
          BY <5>1, <4>6 DEF FindQueueEmpty, LookAtNextQueue, Queue
        <5> QED BY <5>2, <2>1 DEF Watches
      <4> QED BY <3>2, <4>4, <4>5, <4>6
    <3>3. pc'[w] \in {"getNextWorkable", "processTask"} \/ (pc'[w] = "hasWorkable" /\ at'[w] = 1)
            \/ Leave(w) \/ FindQueueEmpty(w)
      BY <1>s DEF IInv, TypeOK, Step, FindWorkable, Dequeue, DequeueNothing, GetNull, Enqueue,
           FinishTask, Goto, LookAtNextQueue
    <3> QED BY <3>1, <3>2, <3>3
  <2> QED BY <1>t, <2>3, <2>4 DEF IInv, NoTaskIsLeftBehind, Watches
<1> QED BY <1>w, <1>s DEF Next

LEMMA InitIsIInv == Init => IInv
<1> SUFFICES ASSUME Init PROVE IInv
  OBVIOUS
<1>1. TypeOK
  BY InitIsTypeOK
<1>2. PICK w \in Worker : w \in workers
  BY DEF Init
<1>3. pc[w] = "hasWorkable" /\ at[w] = 1
  BY <1>2 DEF Init
<1> QED BY <1>1, <1>2, <1>3, QueuesAssumption DEF Init, IInv, NoTaskIsLeftBehind, Queue

(* Whatever the workers do, no task is in a queue that nobody will look    *)
(* at again, although hasWorkable looks at the queues one by one           *)
(* (WorkQueueManager.tpp:34) and workers leave when it returns false.     *)
THEOREM NobodyLeavesATask == Spec => []NoTaskIsLeftBehind
<1>1. IInv => NoTaskIsLeftBehind
  BY DEF IInv
<1> QED BY InitIsIInv, WatchStep, <1>1, PTL DEF Spec

(* The types of all variables; a worker never processes nullptr.          *)
THEOREM QueueTypes == Spec => []TypeOK
<1>1. IInv => TypeOK
  BY DEF IInv
<1> QED BY InitIsIInv, WatchStep, <1>1, PTL DEF Spec

---------------------------------------------------------------------------
(* The queues implement the pool.                                         *)
Elements(queue) == {queue[i] : i \in DOMAIN queue}

QueuesAreInjective == \A q \in Queue : IsInjective(mQueue[q])

LEMMA EntriesOfQueues ==
  ASSUME NEW queues
  PROVE  Entries(queues) = UNION {{<<q, t>> : t \in Elements(queues[q])} : q \in Queue}
BY DEF Entries, Elements

LEMMA ElementsByPosition ==
  ASSUME NEW queue \in Seq(Task)
  PROVE  /\ DOMAIN queue = 1..Len(queue)
         /\ \A t : t \in Elements(queue) <=> \E i \in 1..Len(queue) : queue[i] = t
BY DEF Elements

(* A task that is inserted is in the queue, and once.                     *)
LEMMA InsertAdds ==
  ASSUME NEW queue \in Seq(Task), NEW child \in Child, IsInjective(queue)
  PROVE  /\ Elements(Insert(queue, child)) = Elements(queue) \cup {child.task}
         /\ IsInjective(Insert(queue, child))
<1>1. child.task \in Task /\ child.end \in {"back", "front"}
  BY DEF Child
<1>2. CASE Exists(queue, child.task)
  BY <1>2 DEF Insert, Exists, Elements
<1>3. CASE ~Exists(queue, child.task) /\ child.end = "back"
  <2> DEFINE longer == Append(queue, child.task)
  <2>1. Insert(queue, child) = longer
    BY <1>3 DEF Insert
  <2>2. /\ longer \in Seq(Task) /\ Len(longer) = Len(queue) + 1
        /\ \A i \in 1..Len(queue) : longer[i] = queue[i]
        /\ longer[Len(queue) + 1] = child.task
    BY <1>1
  <2>3. Elements(longer) = Elements(queue) \cup {child.task}
    BY <2>2 DEF Elements
  <2>4. IsInjective(longer)
    BY <2>2, <1>3 DEF IsInjective, Exists
  <2> QED BY <2>1, <2>3, <2>4
<1>4. CASE ~Exists(queue, child.task) /\ child.end = "front"
  <2> DEFINE longer == <<child.task>> \o queue
  <2>1. Insert(queue, child) = longer
    BY <1>4 DEF Insert
  <2>2. /\ longer \in Seq(Task) /\ Len(longer) = Len(queue) + 1
        /\ \A i \in 1..Len(queue) : longer[i + 1] = queue[i]
        /\ longer[1] = child.task
    BY <1>1
  <2>3. Elements(longer) = Elements(queue) \cup {child.task}
    <3>1. ASSUME NEW t \in Elements(longer) PROVE t \in Elements(queue) \cup {child.task}
      <4>1. PICK i \in 1..(Len(queue) + 1) : longer[i] = t
        BY <2>2 DEF Elements
      <4>2. CASE i = 1
        BY <2>2, <4>1, <4>2
      <4>3. CASE i # 1
        <5>1. i - 1 \in 1..Len(queue) /\ queue[i - 1] = t
          BY <2>2, <4>1, <4>3
        <5> QED BY <5>1 DEF Elements
      <4> QED BY <4>2, <4>3
    <3>2. ASSUME NEW i \in 1..Len(queue) PROVE queue[i] \in Elements(longer)
      <4>1. i + 1 \in 1..Len(longer) /\ longer[i + 1] = queue[i]
        BY <2>2
      <4> QED BY <2>2, <4>1, ElementsByPosition
    <3>3. child.task \in Elements(longer)
      <4>1. 1 \in 1..(Len(queue) + 1)
        OBVIOUS
      <4> QED BY <2>2, <4>1 DEF Elements
    <3>4. \A t \in Elements(queue) : t \in Elements(longer)
      BY <3>2, ElementsByPosition
    <3> HIDE DEF longer
    <3> QED BY <3>1, <3>3, <3>4
  <2>4. IsInjective(longer)
    BY <2>2, <1>4 DEF IsInjective, Exists
  <2> QED BY <2>1, <2>3, <2>4
<1> QED BY <1>1, <1>2, <1>3, <1>4

(* The task that is taken is not in the queue any more, all others are.   *)
LEMMA RestRemoves ==
  ASSUME NEW queue \in Seq(Task), queue # <<>>, IsInjective(queue)
  PROVE  /\ Item(queue) \in Elements(queue)
         /\ Elements(Rest(queue)) = Elements(queue) \ {Item(queue)}
         /\ IsInjective(Rest(queue))
<1> DEFINE n == Len(queue)
<1>1. n \in Nat \ {0}
  OBVIOUS
<1>2. CASE dequeueFront
  <2>1. /\ Rest(queue) \in Seq(Task) /\ Len(Rest(queue)) = n - 1
        /\ \A i \in 1..(n - 1) : Rest(queue)[i] = queue[i + 1]
        /\ Item(queue) = queue[1]
    BY <1>1, <1>2 DEF Rest, Item
  <2>2. 1 \in 1..n
    BY <1>1
  <2>3. ASSUME NEW t \in Elements(Rest(queue)) PROVE t \in Elements(queue) /\ t # Item(queue)
    <3>1. PICK i \in 1..(n - 1) : Rest(queue)[i] = t
      BY <1>1, <2>1 DEF Elements
    <3>2. i + 1 \in 1..n /\ i + 1 # 1 /\ queue[i + 1] = t
      BY <1>1, <2>1, <3>1
    <3> QED BY <2>1, <2>2, <3>2 DEF Elements, IsInjective
  <2>4. ASSUME NEW i \in 1..n, queue[i] # Item(queue) PROVE queue[i] \in Elements(Rest(queue))
    <3>1. i - 1 \in 1..(n - 1)
      BY <1>1, <2>1, <2>4
    <3>2. Rest(queue)[i - 1] = queue[i]
      BY <2>1, <3>1
    <3> QED BY <1>1, <2>1, <3>1, <3>2 DEF Elements
  <2>5. ASSUME NEW i \in 1..(n - 1), NEW j \in 1..(n - 1), Rest(queue)[i] = Rest(queue)[j] PROVE i = j
    <3>1. i + 1 \in 1..n /\ j + 1 \in 1..n /\ queue[i + 1] = queue[j + 1]
      BY <1>1, <2>1, <2>5
    <3>2. i + 1 = j + 1
      BY <3>1 DEF IsInjective
    <3> QED BY <3>2
  <2>6. IsInjective(Rest(queue))
    BY <1>1, <2>1, <2>5 DEF IsInjective
  <2>7. Item(queue) \in Elements(queue)
    BY <2>1, <2>2 DEF Elements
  <2>8. \A t \in Elements(queue) : t # Item(queue) => t \in Elements(Rest(queue))
    BY <2>4, ElementsByPosition
  <2> QED BY <2>3, <2>6, <2>7, <2>8
<1>3. CASE ~dequeueFront
  <2>1. /\ Rest(queue) \in Seq(Task) /\ Len(Rest(queue)) = n - 1
        /\ \A i \in 1..(n - 1) : Rest(queue)[i] = queue[i]
    <3>1. Rest(queue) = SubSeq(queue, 1, n - 1)
      BY <1>3 DEF Rest
    <3>2. \A i \in 1..(n - 1) : queue[i] \in Task
      BY <1>1
    <3>3. n - 1 \in Int /\ (IF 1 <= n - 1 THEN (n - 1) - 1 + 1 ELSE 0) = n - 1
      <4> HIDE DEF n
      <4> QED BY <1>1
    <3>4. Len(Rest(queue)) = n - 1 /\ Rest(queue) \in Seq(Task)
      <4> HIDE DEF n
      <4> QED BY <3>1, <3>2, <3>3, SubSeqProperties
    <3>5. \A i \in 1..(n - 1) : Rest(queue)[i] = queue[i]
      BY <1>1, <3>1
    <3> QED BY <3>4, <3>5
  <2>2. Item(queue) = queue[n] /\ n \in 1..n
    BY <1>1, <1>3 DEF Item
  <2>3. Item(queue) \in Elements(queue)
    BY <2>2 DEF Elements
  <2>4. DOMAIN Rest(queue) = 1..(n - 1)
    BY <1>1, <2>1
  <2>5. Elements(Rest(queue)) = Elements(queue) \ {Item(queue)}
    BY <1>1, <2>1, <2>2, <2>4 DEF Elements, IsInjective
  <2>6. IsInjective(Rest(queue))
    BY <1>1, <2>1, <2>4 DEF IsInjective
  <2> QED BY <2>3, <2>5, <2>6
<1> QED BY <1>2, <1>3


---------------------------------------------------------------------------
Owed(enqueue) == {<<enqueue[i].queue, enqueue[i].task>> : i \in DOMAIN enqueue}

LEMMA ChildrenAreOwed ==
  ASSUME NEW t \in Task
  PROVE  Pool!ChildrenOf(t) = Owed(Children[t])
BY DEF Pool!ChildrenOf, Pool!EntryOf, Owed

(* After one call of enqueue the others are owed, and perhaps the same     *)
(* entry once more.                                                       *)
LEMMA OwedAfterOne ==
  ASSUME NEW enqueue \in Seq(Child), enqueue # <<>>
  PROVE  LET entry == <<Head(enqueue).queue, Head(enqueue).task>>
         IN  entry \in Owed(enqueue) /\ Owed(Tail(enqueue)) \in {Owed(enqueue), Owed(enqueue) \ {entry}}
<1> DEFINE entry == <<Head(enqueue).queue, Head(enqueue).task>>
           of(i) == <<enqueue[i].queue, enqueue[i].task>>
<1>1. Len(enqueue) \in Nat \ {0} /\ Head(enqueue) = enqueue[1]
  OBVIOUS
<1>2. Len(Tail(enqueue)) = Len(enqueue) - 1 /\ \A i \in 1..(Len(enqueue) - 1) : Tail(enqueue)[i] = enqueue[i + 1]
  BY HeadTailProperties
<1>3. Owed(enqueue) = {of(i) : i \in 1..Len(enqueue)}
  BY DEF Owed
<1>4. Owed(Tail(enqueue)) = {of(i + 1) : i \in 1..(Len(enqueue) - 1)}
  <2>1. DOMAIN Tail(enqueue) = 1..(Len(enqueue) - 1)
    BY <1>1, <1>2
  <2> QED BY <1>2, <2>1 DEF Owed
<1>5. entry \in Owed(enqueue)
  BY <1>1, <1>3
<1>6. ASSUME NEW e \in Owed(Tail(enqueue)) PROVE e \in Owed(enqueue)
  <2>1. PICK i \in 1..(Len(enqueue) - 1) : e = of(i + 1)
    BY <1>4
  <2>2. i + 1 \in 1..Len(enqueue)
    BY <1>1
  <2> QED BY <1>3, <2>1, <2>2
<1>7. ASSUME NEW e \in Owed(enqueue), e # entry PROVE e \in Owed(Tail(enqueue))
  <2>1. PICK i \in 1..Len(enqueue) : e = of(i)
    BY <1>3
  <2>2. i # 1
    BY <1>1, <1>7, <2>1
  <2>3. i - 1 \in 1..(Len(enqueue) - 1) /\ (i - 1) + 1 = i
    BY <1>1, <2>2
  <2> QED BY <1>4, <2>1, <2>3
<1> HIDE DEF entry, of
<1>8. Owed(Tail(enqueue)) \in {Owed(enqueue), Owed(enqueue) \ {entry}}
  BY <1>5, <1>6, <1>7
<1> QED BY <1>5, <1>8 DEF entry

PoolInv == TypeOK /\ QueuesAreInjective

LEMMA InitIsPoolInv == Init => PoolInv
BY InitIsTypeOK, QueuesAssumption DEF Init, PoolInv, QueuesAreInjective

LEMMA EntriesAfterEnqueue ==
  ASSUME NEW child \in Child, PoolInv
  PROVE  /\ Entries(Enqueued(mQueue, child)) = Entries(mQueue) \cup {<<child.queue, child.task>>}
         /\ \A q \in Queue : IsInjective(Enqueued(mQueue, child)[q])
<1> DEFINE q == child.queue
           queues == Enqueued(mQueue, child)
<1>1. q \in Queue /\ mQueue[q] \in Seq(Task) /\ mQueue \in [Queue -> Seq(Task)]
  BY DEF PoolInv, TypeOK, Child
<1>2. queues[q] = Insert(mQueue[q], child) /\ \A r \in Queue \ {q} : queues[r] = mQueue[r]
  BY <1>1 DEF Enqueued
<1>3. Elements(queues[q]) = Elements(mQueue[q]) \cup {child.task} /\ IsInjective(queues[q])
  BY <1>1, <1>2, InsertAdds DEF PoolInv, QueuesAreInjective
<1>4. \A r \in Queue : IsInjective(queues[r])
  BY <1>2, <1>3 DEF PoolInv, QueuesAreInjective
<1> HIDE DEF queues
<1>5. Entries(queues) = Entries(mQueue) \cup {<<q, child.task>>}
  BY <1>1, <1>2, <1>3, EntriesOfQueues
<1> QED BY <1>4, <1>5 DEF queues

LEMMA EntriesAfterDequeue ==
  ASSUME NEW q \in Queue, PoolInv, mQueue[q] # <<>>
  PROVE  LET queues == [mQueue EXCEPT ![q] = Rest(@)]
             entry  == <<q, Item(mQueue[q])>>
         IN  /\ entry \in Entries(mQueue)
             /\ Entries(queues) = Entries(mQueue) \ {entry}
             /\ \A r \in Queue : IsInjective(queues[r])
<1> DEFINE queues == [mQueue EXCEPT ![q] = Rest(@)]
           item == Item(mQueue[q])
<1>1. mQueue[q] \in Seq(Task) /\ mQueue \in [Queue -> Seq(Task)]
  BY DEF PoolInv, TypeOK
<1>2. queues[q] = Rest(mQueue[q]) /\ \A r \in Queue \ {q} : queues[r] = mQueue[r]
  BY <1>1
<1>3. /\ item \in Elements(mQueue[q]) /\ Elements(queues[q]) = Elements(mQueue[q]) \ {item}
      /\ IsInjective(queues[q])
  BY <1>1, <1>2, RestRemoves DEF PoolInv, QueuesAreInjective
<1>4. \A r \in Queue : IsInjective(queues[r])
  BY <1>2, <1>3 DEF PoolInv, QueuesAreInjective
<1> HIDE DEF queues, item
<1>5. <<q, item>> \in Entries(mQueue) /\ Entries(queues) = Entries(mQueue) \ {<<q, item>>}
  BY <1>2, <1>3, EntriesOfQueues
<1> QED BY <1>4, <1>5 DEF queues, item

(* Every step of a worker takes an entry, adds one, or leaves the pool as  *)
(* it is.                                                                 *)
LEMMA PoolStep ==
  PoolInv /\ [Next]_vars =>
    /\ PoolInv'
    /\ [Pool!Next]_(Pool!poolVars)
<1> SUFFICES ASSUME PoolInv, [Next]_vars
             PROVE  PoolInv' /\ [Pool!Next]_(Pool!poolVars)
  OBVIOUS
<1> DEFINE owed == [w \in Worker |-> Owed(toEnqueue[w])]
<1>t. TypeOK /\ TypeOK'
  BY TypeStep DEF PoolInv
<1>s. (UNCHANGED <<Entries(mQueue), owed>>) => UNCHANGED Pool!poolVars
  BY DEF Pool!poolVars, Owed
<1>1. ASSUME UNCHANGED <<mQueue, toEnqueue>> PROVE PoolInv' /\ [Pool!Next]_(Pool!poolVars)
  <2>1. Entries(mQueue)' = Entries(mQueue) /\ owed' = owed
    BY <1>1 DEF Entries
  <2>2. QueuesAreInjective'
    BY <1>1 DEF PoolInv, QueuesAreInjective
  <2> QED BY <1>t, <1>s, <2>1, <2>2 DEF PoolInv
<1>2. ASSUME NEW w \in Worker, Dequeue(w) PROVE PoolInv' /\ [Pool!Next]_(Pool!poolVars)
  <2> DEFINE q == at[w]
             item == Item(mQueue[q])
  <2>1. q \in Queue /\ mQueue[q] # <<>> /\ mQueue' = [mQueue EXCEPT ![q] = Rest(@)]
    BY <1>2 DEF Dequeue
  <2>2. /\ <<q, item>> \in Entries(mQueue) /\ Entries(mQueue') = Entries(mQueue) \ {<<q, item>>}
        /\ QueuesAreInjective'
    BY <2>1, EntriesAfterDequeue DEF QueuesAreInjective
  <2>3. item \in Task
    BY <2>1, <1>t, ItemIsTask DEF TypeOK
  <2>4. toEnqueue[w] = <<>> /\ toEnqueue' = [toEnqueue EXCEPT ![w] = Children[item]]
    BY <1>2, <1>t DEF Dequeue, TypeOK
  <2>5. owed[w] = {}
    BY <2>4 DEF Owed
  <2>6. owed' = [owed EXCEPT ![w] = Pool!ChildrenOf(item)]
    BY <2>3, <2>4, <1>t, ChildrenAreOwed DEF TypeOK
  <2>7. Pool!Take(w)
    BY <2>2, <2>5, <2>6 DEF Pool!Take, Owed, Entries
  <2> QED BY <1>t, <2>2, <2>7 DEF Pool!Next, PoolInv
<1>3. ASSUME NEW w \in Worker, Enqueue(w) PROVE PoolInv' /\ [Pool!Next]_(Pool!poolVars)
  <2> DEFINE child == Head(toEnqueue[w])
             entry == <<child.queue, child.task>>
  <2>1. /\ toEnqueue[w] \in Seq(Child) /\ toEnqueue[w] # <<>> /\ child \in Child
        /\ mQueue' = Enqueued(mQueue, child)
        /\ toEnqueue' = [toEnqueue EXCEPT ![w] = Tail(@)]
    BY <1>3, <1>t DEF Enqueue, TypeOK
  <2>2. Entries(mQueue') = Entries(mQueue) \cup {entry} /\ QueuesAreInjective'
    BY <2>1, EntriesAfterEnqueue DEF QueuesAreInjective
  <2>3. entry \in owed[w] /\ Owed(Tail(toEnqueue[w])) \in {owed[w], owed[w] \ {entry}}
    BY <2>1, OwedAfterOne
  <2>4. owed' = [owed EXCEPT ![w] = Owed(Tail(toEnqueue[w]))]
    BY <2>1, <1>t DEF TypeOK
  <2>5. Pool!Add(w)
    BY <2>2, <2>3, <2>4 DEF Pool!Add, Owed, Entries
  <2> QED BY <1>t, <2>2, <2>5 DEF Pool!Next, PoolInv
<1>4. UNCHANGED <<mQueue, toEnqueue>> \/ \E w \in Worker : Dequeue(w) \/ Enqueue(w)
  BY DEF vars, Next, Step, FindWorkable, FindQueueEmpty, Leave, DequeueNothing, GetNull, FinishTask
<1> QED BY <1>1, <1>2, <1>3, <1>4

(* The queues of the manager are a pool of tasks for the workers: no task  *)
(* is lost, none is handed out twice ("thread safe queue in order to be    *)
(* accessed by multiple workers", WorkQueue.h:17).                        *)
THEOREM QueuesAreAPool == Spec => PoolSpec
<1>1. Init => Pool!Init
  BY DEF Init, Pool!Init, Entries
<1> QED BY InitIsPoolInv, PoolStep, <1>1, PTL DEF Spec, PoolSpec, Pool!Spec
=============================================================================
