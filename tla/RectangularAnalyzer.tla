------------------------ MODULE RectangularAnalyzer ------------------------
(***************************************************************************)
(* RectangularAnalyzer::run with the method FORWARD                        *)
(* (analyzer/RectangularAnalyzer.tpp) and its RectangularWorker, which is  *)
(* cleared at the start of every iteration.                                *)
(***************************************************************************)
EXTENDS RectangularAutomaton

VARIABLES
  ha,             \* mHybridAutomaton
  par,            \* mAnalysisSettings
  nodes,          \* mReachTree
  workQueue,      \* mWorkQueue
  task,           \* currentNode
  flowpipe,       \* mFlowpipe of the worker
  jumpSuccessors, \* mJumpSuccessorSets of the worker
  flowpipes,      \* mFlowpipes
  pending,        \* the jumps still to be processed
  safe,           \* safetyResult
  pc,             \* where the loop stands
  result

inputs == <<ha, par>>
worker == <<flowpipe, jumpSuccessors>>
vars == <<ha, par, nodes, workQueue, task, flowpipe, jumpSuccessors, flowpipes, pending, safe, pc, result>>

NoSuccessors == << >>   \* an empty map

TypeOK ==
  /\ ha \in Automata /\ par \in Parameters
  /\ nodes \in Seq(NodeType)
  /\ workQueue \in Seq(DOMAIN nodes)
  /\ task \in {0} \cup DOMAIN nodes
  /\ flowpipe \in Seq(SUBSET Point)
  /\ flowpipes \in Seq(Seq(SUBSET Point))
  /\ DOMAIN jumpSuccessors \subseteq (DOMAIN ha.transition) \X (DOMAIN flowpipe)
  /\ \A jump \in DOMAIN jumpSuccessors : jumpSuccessors[jump] \in (SUBSET Point) \ {{}}
  /\ pending \subseteq DOMAIN jumpSuccessors
  /\ safe \in BOOLEAN
  /\ pc \in {"start", "dequeue", "time", "jumps", "store", "children", "done"}
  /\ result \in {"none", "success", "failure"}

(* The caller passes the roots, or an empty tree.                         *)
Init ==
  /\ ha \in Automata /\ par \in Parameters
  /\ nodes \in {Roots(ha), << >>}
  /\ workQueue = << >>
  /\ task = 0
  /\ flowpipe = << >>
  /\ jumpSuccessors = NoSuccessors
  /\ flowpipes = << >>
  /\ pending = {}
  /\ safe = TRUE
  /\ pc = "start"
  /\ result = "none"

current == nodes[task]

--------------------------------------------------------------------------
(* computeTimeSuccessors: the states added to the flowpipe, the bad part  *)
(* of the initial segment included, and the verdict.                      *)
TimeSuccessors(A, l, S, horizon) ==
  LET segment == Intersect(S, A.invariant[l])
      bad == RectangularIntersectBadStates(A, l, segment)
      successors == Intersect(TimeElapse(A, l, segment, horizon), A.invariant[l])
  IN  IF segment = {} THEN [states |-> << >>, safe |-> TRUE]
      ELSE IF bad # {} THEN [states |-> <<bad>>, safe |-> FALSE]
      ELSE [states |-> <<successors>>,
            safe |-> RectangularIntersectBadStates(A, l, successors) = {}]

JumpImage(A, fp, jump) ==
  ApplyJump(A, jump[1], Intersect(fp[jump[2]], A.transition[jump[1]].guard))

(* A mutant: empty successors are kept.                                   *)
JumpSuccessorSetsWithEmpty(A, l, fp) ==
  [jump \in TransitionsFrom(A, l) \X (DOMAIN fp) |-> JumpImage(A, fp, jump)]

(* computeJumpSuccessors: every state that enables a transition counts,   *)
(* so a jump is a transition and a state of the flowpipe.                 *)
JumpSuccessorSets(A, l, fp) ==
  LET jumps == {jump \in TransitionsFrom(A, l) \X (DOMAIN fp) : JumpImage(A, fp, jump) # {}}
  IN  [jump \in jumps |-> JumpImage(A, fp, jump)]

(* A mutant: only the first root is enqueued.                             *)
InitializeQueueWithFirst ==
  /\ pc = "start"
  /\ nodes' = IF nodes = << >> THEN Roots(ha) ELSE nodes
  /\ workQueue' = <<1>>
  /\ pc' = "dequeue"
  /\ UNCHANGED <<inputs, task, worker, flowpipes, pending, safe, result>>

InitializeQueue ==
  /\ pc = "start"
  /\ nodes' = IF nodes = << >> THEN Roots(ha) ELSE nodes
  /\ workQueue' = Indices(nodes')
  /\ pc' = "dequeue"
  /\ UNCHANGED <<inputs, task, worker, flowpipes, pending, safe, result>>

Dequeue ==
  /\ pc = "dequeue"
  /\ workQueue # << >>
  /\ task' = Head(workQueue)
  /\ workQueue' = Tail(workQueue)
  /\ flowpipe' = << >>
  /\ jumpSuccessors' = NoSuccessors
  /\ pc' = "time"
  /\ UNCHANGED <<inputs, nodes, flowpipes, pending, safe, result>>

(* The states go to the flowpipes of the worker and of the node.          *)
ComputeTimeSuccessors ==
  /\ pc = "time"
  /\ LET computed == TimeSuccessors(ha, current.location, current.initialSet, par.horizon)
     IN  /\ flowpipe' = flowpipe \o computed.states
         /\ nodes' = [nodes EXCEPT ![task].flowpipe = @ \o computed.states]
         /\ safe' = computed.safe
  /\ pc' = IF safe' /\ current.depth < par.jumpDepth THEN "jumps" ELSE "store"
  /\ UNCHANGED <<inputs, workQueue, task, jumpSuccessors, flowpipes, pending, result>>

ComputeJumpSuccessors ==
  /\ pc = "jumps"
  /\ jumpSuccessors' = JumpSuccessorSets(ha, current.location, flowpipe)
  /\ pc' = "store"
  /\ UNCHANGED <<inputs, nodes, workQueue, task, flowpipe, flowpipes, pending, safe, result>>

StoreFlowpipe ==
  /\ pc = "store"
  /\ flowpipes' = Append(flowpipes, flowpipe)
  /\ pending' = DOMAIN jumpSuccessors
  /\ pc' = IF safe THEN "children" ELSE "done"
  /\ result' = IF safe THEN result ELSE "failure"
  /\ UNCHANGED <<inputs, nodes, workQueue, task, worker, safe>>

(* The map is ordered by addresses of transitions, the sets of one are in *)
(* the order of the states.                                               *)
AddChild ==
  /\ pc = "children"
  /\ \E jump \in pending :
       /\ \A other \in pending : other[1] = jump[1] => jump[2] <= other[2]
       /\ nodes' = Append(nodes, Child(ha, nodes, task, jump[1], jumpSuccessors[jump]))
       /\ workQueue' = Append(workQueue, Len(nodes'))
       /\ pending' = pending \ {jump}
  /\ UNCHANGED <<inputs, task, worker, flowpipes, safe, pc, result>>

FinishTask ==
  /\ pc = "children"
  /\ pending = {}
  /\ pc' = "dequeue"
  /\ UNCHANGED <<inputs, nodes, workQueue, task, worker, flowpipes, pending, safe, result>>

Succeed ==
  /\ pc = "dequeue"
  /\ workQueue = << >>
  /\ pc' = "done"
  /\ result' = "success"
  /\ UNCHANGED <<inputs, nodes, workQueue, task, worker, flowpipes, pending, safe>>

Next ==
  \/ InitializeQueue
  \/ Dequeue
  \/ ComputeTimeSuccessors
  \/ ComputeJumpSuccessors
  \/ StoreFlowpipe
  \/ AddChild
  \/ FinishTask
  \/ Succeed

Spec == Init /\ [][Next]_vars /\ WF_vars(Next)
=============================================================================
