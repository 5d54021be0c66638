------------------------- MODULE SingularAnalyzer -------------------------
(***************************************************************************)
(* SingularAnalyzer::forwardRun (analyzer/SingularAnalyzer.tpp) with its   *)
(* SingularWorker, which keeps its results from one call to the next until *)
(* it is reset.                                                            *)
(***************************************************************************)
EXTENDS RectangularAutomaton

VARIABLES
  ha,             \* mHybridAutomaton
  par,            \* mAnalysisSettings
  nodes,          \* mReachTree
  workQueue,      \* mWorkQueue
  task,           \* currentNode
  flowpipe,       \* mFlowpipe of the worker
  jumpSuccessors, \* mJumpSuccessorSets of the worker
  pending,        \* the transitions of that map still to be processed
  safe,           \* safetyResult
  pc,             \* where the loop stands
  result

inputs == <<ha, par>>
worker == <<flowpipe, jumpSuccessors>>
vars == <<ha, par, nodes, workQueue, task, flowpipe, jumpSuccessors, pending, safe, pc, result>>

NoSuccessors == << >>   \* an empty map

TypeOK ==
  /\ ha \in Automata /\ par \in Parameters
  /\ nodes \in Seq(NodeType)
  /\ workQueue \in Seq(DOMAIN nodes)
  /\ task \in {0} \cup DOMAIN nodes
  /\ flowpipe \in Seq(SUBSET Point)
  /\ DOMAIN jumpSuccessors \subseteq DOMAIN ha.transition
  /\ \A t \in DOMAIN jumpSuccessors : jumpSuccessors[t] \in (SUBSET Point) \ {{}}
  /\ pending \subseteq DOMAIN jumpSuccessors
  /\ safe \in BOOLEAN
  /\ pc \in {"dequeue", "time", "jumps", "store", "children", "done"}
  /\ result \in {"none", "success", "failure"}

Init ==
  /\ ha \in Automata /\ par \in Parameters
  /\ nodes = Roots(ha)
  /\ workQueue = Indices(nodes)
  /\ task = 0
  /\ flowpipe = << >>
  /\ jumpSuccessors = NoSuccessors
  /\ pending = {}
  /\ safe = TRUE
  /\ pc = "dequeue"
  /\ result = "none"

current == nodes[task]

--------------------------------------------------------------------------
(* computeTimeSuccessors: the states added to the flowpipe, and the       *)
(* verdict.  A bad initial segment is not added.                          *)
TimeSuccessors(A, l, S, horizon) ==
  LET segment == Intersect(S, A.invariant[l])
      successors == Intersect(TimeElapse(A, l, segment, horizon), A.invariant[l])
  IN  IF segment = {} THEN [states |-> << >>, safe |-> TRUE]
      ELSE IF LtiIntersectsBadStates(A, l, segment) THEN [states |-> << >>, safe |-> FALSE]
      ELSE IF successors = {} THEN [states |-> << >>, safe |-> TRUE]
      ELSE [states |-> <<successors>>, safe |-> ~LtiIntersectsBadStates(A, l, successors)]

(* computeJumpSuccessors: of the states that enable a transition the last *)
(* one counts.                                                            *)
JumpSuccessorSets(A, l, fp) ==
  LET enabling(t) == {k \in DOMAIN fp : Intersect(fp[k], A.transition[t].guard) # {}}
      last(t) == CHOOSE k \in enabling(t) : \A j \in enabling(t) : j <= k
      image == [t \in {t \in TransitionsFrom(A, l) : enabling(t) # {}} |->
                  ApplyJump(A, t, Intersect(fp[last(t)], A.transition[t].guard))]
  IN  [t \in {t \in DOMAIN image : image[t] # {}} |-> image[t]]

Dequeue ==
  /\ pc = "dequeue"
  /\ workQueue # << >>
  /\ task' = Head(workQueue)
  /\ workQueue' = Tail(workQueue)
  /\ pc' = "time"
  /\ UNCHANGED <<inputs, nodes, worker, pending, safe, result>>

(* A mutant: one jump more.                                               *)
ComputeTimeSuccessorsOneDeeper ==
  /\ pc = "time"
  /\ LET computed == TimeSuccessors(ha, current.location, current.initialSet, par.horizon)
     IN  /\ flowpipe' = flowpipe \o computed.states
         /\ safe' = computed.safe
  /\ pc' = IF safe' /\ current.depth <= par.jumpDepth THEN "jumps" ELSE "store"
  /\ UNCHANGED <<inputs, nodes, workQueue, task, jumpSuccessors, pending, result>>

(* Jumps follow only if the time successors are safe and the jump depth   *)
(* is not reached.                                                        *)
ComputeTimeSuccessors ==
  /\ pc = "time"
  /\ LET computed == TimeSuccessors(ha, current.location, current.initialSet, par.horizon)
     IN  /\ flowpipe' = flowpipe \o computed.states
         /\ safe' = computed.safe
  /\ pc' = IF safe' /\ current.depth < par.jumpDepth THEN "jumps" ELSE "store"
  /\ UNCHANGED <<inputs, nodes, workQueue, task, jumpSuccessors, pending, result>>

ComputeJumpSuccessors ==
  /\ pc = "jumps"
  /\ jumpSuccessors' = JumpSuccessorSets(ha, current.location, flowpipe)
  /\ pc' = "store"
  /\ UNCHANGED <<inputs, nodes, workQueue, task, flowpipe, pending, safe, result>>

StoreFlowpipe ==
  /\ pc = "store"
  /\ nodes' = [nodes EXCEPT ![task].flowpipe = flowpipe \o @]
  /\ pending' = DOMAIN jumpSuccessors
  /\ pc' = IF safe THEN "children" ELSE "done"
  /\ result' = IF safe THEN result ELSE "failure"
  /\ UNCHANGED <<inputs, workQueue, task, worker, safe>>

(* The map is ordered by addresses of transitions.                        *)
AddChild ==
  /\ pc = "children"
  /\ \E t \in pending :
       /\ nodes' = Append(nodes, Child(ha, nodes, task, t, jumpSuccessors[t]))
       /\ workQueue' = Append(workQueue, Len(nodes'))
       /\ pending' = pending \ {t}
  /\ UNCHANGED <<inputs, task, worker, safe, pc, result>>

(* A mutant: the flowpipe is stored again.                                *)
ResetWorkerAndStore ==
  /\ pc = "children"
  /\ pending = {}
  /\ flowpipe' = << >>
  /\ jumpSuccessors' = NoSuccessors
  /\ pc' = "store"
  /\ UNCHANGED <<inputs, nodes, workQueue, task, pending, safe, result>>

ResetWorker ==
  /\ pc = "children"
  /\ pending = {}
  /\ flowpipe' = << >>
  /\ jumpSuccessors' = NoSuccessors
  /\ pc' = "dequeue"
  /\ UNCHANGED <<inputs, nodes, workQueue, task, pending, safe, result>>

Succeed ==
  /\ pc = "dequeue"
  /\ workQueue = << >>
  /\ pc' = "done"
  /\ result' = "success"
  /\ UNCHANGED <<inputs, nodes, workQueue, task, worker, pending, safe>>

Next ==
  \/ Dequeue
  \/ ComputeTimeSuccessors
  \/ ComputeJumpSuccessors
  \/ StoreFlowpipe
  \/ AddChild
  \/ ResetWorker
  \/ Succeed

Spec == Init /\ [][Next]_vars /\ WF_vars(Next)
=============================================================================
