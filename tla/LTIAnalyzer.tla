--------------------------- MODULE LTIAnalyzer ---------------------------
(***************************************************************************)
(* The forward reachability loop LTIAnalyzer::run                          *)
(* (algorithms/reachability/analyzer/LTIAnalyzer.tpp) with the time        *)
(* successor computation of its worker.                                    *)
(*                                                                         *)
(* The loop takes nodes of the reach tree from a work queue in the order   *)
(* they were put in, computes the flowpipe of a node segment by segment,   *)
(* stops with a failure at the first segment that meets bad states, and    *)
(* otherwise adds a child node for every jump successor.  Children whose   *)
(* initial set is already covered by the tree are not queued.              *)
(*                                                                         *)
(* The automaton and the settings are chosen in the initial state and      *)
(* never change, so that one run of the model checker covers many.         *)
(***************************************************************************)
EXTENDS FixedPointDetection

CONSTANTS
  Parameters,    \* the settings to analyze with
  Analyses       \* the pairs of an automaton and the settings to analyze it with

ParameterType ==
  [horizon : Nat, timeStep : Nat \ {0}, jumpDepth : Nat,
   aggregation : AggregationSettings, clustering : Int, box : BOOLEAN,
   timeStepFactor : Nat \ {0},
   detectJumpFixedPoints : BOOLEAN, detectFixedPointsByCoverage : BOOLEAN,
   numberSetsForContinuousCoverage : Nat,
   detectContinuousFixedPointsLocally : BOOLEAN, detectZenoBehavior : BOOLEAN]

ASSUME ParametersAssumption == Parameters \subseteq ParameterType
ASSUME AnalysesAssumption == Analyses \subseteq Automata \X Parameters

VARIABLES
  ha,             \* mHybridAutomaton
  par,            \* mParameters and mFixedParameters
  nodes,          \* the reach tree
  flowpipe,       \* mFlowpipe of each node
  boxed,          \* nodes with mInitialBoundingBox
  hasFixedPoint,  \* mHasFixedPoint of each node
  workQueue,      \* mWorkQueue: nodes enter at its end and leave at its head
  currentNode,    \* the node being processed
  safetyResult,   \* result of computeTimeSuccessors
  pending,        \* jump successors of the current node still to be added
  pc,             \* where the loop stands
  result          \* what run returns

settings == <<ha, par>>
vars == <<ha, par, nodes, flowpipe, boxed, hasFixedPoint, workQueue,
          currentNode, safetyResult, pending, pc, result>>

NoNode == 0

Steps == {"dequeue", "firstSegment", "nextSegment", "check", "expand", "jumps", "done"}

TypeOK ==
  /\ ha \in Automata
  /\ par \in Parameters
  /\ nodes \in Seq(NodeType)
  /\ flowpipe \in Seq(Seq(SUBSET Point))
  /\ hasFixedPoint \in Seq(TriBool)
  /\ Len(flowpipe) = Len(nodes) /\ Len(hasFixedPoint) = Len(nodes)
  /\ boxed \subseteq DOMAIN nodes
  /\ workQueue \in Seq(DOMAIN nodes)
  /\ currentNode \in DOMAIN nodes \cup {NoNode}
  /\ safetyResult \in {"SAFE", "UNKNOWN"}
  /\ \A j \in pending : j.transition \in DOMAIN ha.transition
  /\ pc \in Steps
  /\ result \in {"none", "success", "failure"}

(* The constructor: the roots are pushed one after the other.             *)
Init ==
  /\ \E analysis \in Analyses : ha = analysis[1] /\ par = analysis[2]
  /\ nodes = MakeRoots(ha)
  /\ flowpipe = [n \in DOMAIN nodes |-> << >>]
  /\ hasFixedPoint = [n \in DOMAIN nodes |-> "NSET"]
  /\ boxed = {}
  /\ workQueue = [n \in DOMAIN nodes |-> n]
  /\ currentNode = NoNode
  /\ safetyResult = "SAFE"
  /\ pending = {}
  /\ pc = "dequeue"
  /\ result = "none"

--------------------------------------------------------------------------
current == nodes[currentNode]

(* push_front; the other end is the one nodes are taken from.             *)
EnqueueLastInFirstOut(queue, n) == <<n>> \o queue
Enqueue(queue, n) == Append(queue, n)

AppendSegmentByOverwriting(fp, segment) ==
  IF fp = << >> THEN <<segment>> ELSE [fp EXCEPT ![Len(fp)] = segment]
AppendSegment(fp, segment) == Append(fp, segment)

(* A new node starts with an empty flowpipe and without a flag.           *)
NewFlowpipeForgotten(fps) == fps
NewFlowpipe(fps) == Append(fps, << >>)

(* Take the next node; roots get their bounding box here.                 *)
Dequeue ==
  /\ pc = "dequeue"
  /\ workQueue # << >>
  /\ currentNode' = Head(workQueue)
  /\ workQueue' = Tail(workQueue)
  /\ boxed' = IF par.detectJumpFixedPoints THEN boxed \cup {Head(workQueue)} ELSE boxed
  /\ pc' = "firstSegment"
  /\ UNCHANGED <<settings, nodes, flowpipe, hasFixedPoint, safetyResult, pending, result>>

(* Store a segment of the current node, then intersect with bad states.   *)
StoreSegment(segment) ==
  /\ flowpipe' = [flowpipe EXCEPT ![currentNode] = AppendSegment(@, segment)]
  /\ IF IntersectsBadStates(ha, current.location, segment)
     THEN safetyResult' = "UNKNOWN" /\ pc' = "check"
     ELSE safetyResult' = "SAFE" /\ pc' = "nextSegment"

ComputeFirstSegment ==
  /\ pc = "firstSegment"
  /\ StoreSegment(FirstSegment(ha, current.location, current.initialSet))
  /\ UNCHANGED <<settings, nodes, boxed, hasFixedPoint, workQueue, currentNode, pending, result>>

(* One iteration of the flowpipe loop, or its end: all segments computed, *)
(* or the invariant left.                                                 *)
ComputeNextSegment ==
  /\ pc = "nextSegment"
  /\ LET fp == flowpipe[currentNode]
         segment == NextSegment(ha, current.location, fp[Len(fp)])
     IN  IF Len(fp) < NumSegments(par.horizon, par.timeStep) /\ segment # {}
         THEN StoreSegment(segment)
         ELSE pc' = "check" /\ UNCHANGED <<flowpipe, safetyResult>>
  /\ UNCHANGED <<settings, nodes, boxed, hasFixedPoint, workQueue, currentNode, pending, result>>

(* The fixed-point test on the first segments, which comes before the     *)
(* safety result is looked at.                                            *)
CoveredContinuously ==
  /\ par.numberSetsForContinuousCoverage > 0
  /\ \/ DetectContinuousFixedPoint(ha, nodes, flowpipe, par, currentNode)
     \/ hasFixedPoint[currentNode] = "TRUE"

SkipCoveredNode ==
  /\ pc = "check"
  /\ CoveredContinuously
  /\ hasFixedPoint' = IF DetectContinuousFixedPoint(ha, nodes, flowpipe, par, currentNode)
                      THEN SetFixedPoint(nodes, hasFixedPoint, currentNode, "TRUE")
                      ELSE hasFixedPoint
  /\ pc' = "dequeue"
  /\ UNCHANGED <<settings, nodes, flowpipe, boxed, workQueue, currentNode, safetyResult,
                 pending, result>>

ReportConflict ==
  /\ pc = "check"
  /\ ~CoveredContinuously
  /\ safetyResult = "UNKNOWN"
  /\ result' = "failure"
  /\ pc' = "done"
  /\ UNCHANGED <<settings, nodes, flowpipe, boxed, hasFixedPoint, workQueue, currentNode,
                 safetyResult, pending>>

PassCheck ==
  /\ pc = "check"
  /\ ~CoveredContinuously
  /\ safetyResult = "SAFE"
  /\ pc' = IF current.depth = par.jumpDepth THEN "dequeue" ELSE "expand"
  /\ UNCHANGED <<settings, nodes, flowpipe, boxed, hasFixedPoint, workQueue, currentNode,
                 safetyResult, pending, result>>

(* computeJumpSuccessors, without the Zeno transitions.                   *)
ComputeJumpSuccessors ==
  /\ pc = "expand"
  /\ pending' = {j \in NonEmptyJumpSuccessors(ha, current.location, par, flowpipe[currentNode]) :
                   j.transition \notin ZenoTransitions(ha, nodes, par, currentNode)}
  /\ pc' = "jumps"
  /\ UNCHANGED <<settings, nodes, flowpipe, boxed, hasFixedPoint, workQueue, currentNode,
                 safetyResult, result>>

(* Local segment indices become global time points in units of the fixed  *)
(* time step; a segment lasts until the next time point.                  *)
EndOfSegmentAtItsStart(index) == index * par.timeStepFactor
EndOfSegment(index) == (index + 1) * par.timeStepFactor

(* The child for a jump successor.                                        *)
Child(j) ==
  LET fp == flowpipe[currentNode]
  IN  ChildNode(ha, nodes, currentNode,
                SuccessorSet(ha, j.transition, par, fp, j.block),
                current.lower + BlockFirst(ha, j.transition, par, fp, j.block) * par.timeStepFactor,
                current.upper + EndOfSegment(BlockLast(ha, j.transition, par, fp, j.block)),
                j.transition)

AddChild ==
  /\ pc = "jumps"
  /\ \E j \in pending :
       /\ \A i \in pending \ {j} : Before(j, i)
       /\ pending' = pending \ {j}
       /\ nodes' = Append(nodes, Child(j))
       /\ LET n == Len(nodes) + 1
              flag == Append(hasFixedPoint, "NSET")
              reached == par.detectJumpFixedPoints /\ DetectJumpFixedPoint(nodes', boxed, par, n)
          IN  /\ hasFixedPoint' = IF ~par.detectJumpFixedPoints THEN flag
                                  ELSE SetFixedPoint(nodes', flag, n,
                                                     IF reached THEN "TRUE" ELSE "FALSE")
              /\ boxed' = IF par.detectJumpFixedPoints THEN boxed \cup {n} ELSE boxed
              /\ workQueue' = IF reached THEN workQueue ELSE Enqueue(workQueue, n)
  /\ flowpipe' = NewFlowpipe(flowpipe)
  /\ UNCHANGED <<settings, currentNode, safetyResult, pc, result>>

(* All successors are in the tree; a node without children is tested for  *)
(* a fixed point within its own flowpipe.                                 *)
FinishNode ==
  /\ pc = "jumps"
  /\ pending = {}
  /\ hasFixedPoint' = IF /\ par.detectContinuousFixedPointsLocally
                         /\ Children(nodes, currentNode) = {}
                         /\ DetectLocalFixedPoint(flowpipe[currentNode])
                      THEN SetFixedPoint(nodes, hasFixedPoint, currentNode, "TRUE")
                      ELSE hasFixedPoint
  /\ pc' = "dequeue"
  /\ UNCHANGED <<settings, nodes, flowpipe, boxed, workQueue, currentNode, safetyResult,
                 pending, result>>

Succeed ==
  /\ pc = "dequeue"
  /\ workQueue = << >>
  /\ result' = "success"
  /\ pc' = "done"
  /\ UNCHANGED <<settings, nodes, flowpipe, boxed, hasFixedPoint, workQueue, currentNode,
                 safetyResult, pending>>

Next ==
  \/ Dequeue
  \/ ComputeFirstSegment
  \/ ComputeNextSegment
  \/ SkipCoveredNode
  \/ ReportConflict
  \/ PassCheck
  \/ ComputeJumpSuccessors
  \/ AddChild
  \/ FinishNode
  \/ Succeed

(* run is a sequential loop that nothing interrupts.                      *)
Spec == Init /\ [][Next]_vars /\ WF_vars(Next)

--------------------------------------------------------------------------
(* The analysis returns: the work queue runs empty or a conflict is found.*)
Termination == <>(result # "none")
=============================================================================
