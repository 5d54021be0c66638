--------------------------- MODULE LTIInvariant ---------------------------
(***************************************************************************)
(* The inductive invariant behind the soundness of the LTI analyzer.       *)
(*                                                                         *)
(* A node is done once its flowpipe is complete and safe and all its jump  *)
(* successors have nodes.  Nothing of a node's initial set is ever lost:   *)
(* every valuation of it belongs to a node of the same location, no deeper *)
(* in the tree, that is either done or still to be processed.  "No deeper" *)
(* is what the jump depth needs, and it rests on the breadth-first order   *)
(* of the work queue.                                                      *)
(***************************************************************************)
EXTENDS LTIVerification

(* The settings and models for which the verdict is sound.                *)
SoundConfiguration ==
  /\ par.numberSetsForContinuousCoverage = 0
  /\ ~par.detectZenoBehavior
  /\ ha.localFalse = {}

(* An initial state with an empty set would have an empty first segment.  *)
InitialStatesExist == \A i \in DOMAIN ha.initial : ha.initial[i].set # {}

Busy == pc \in {"firstSegment", "nextSegment", "check", "expand", "jumps"}

Open(n) ==
  \/ \E i \in DOMAIN workQueue : workQueue[i] = n
  \/ Busy /\ n = currentNode

--------------------------------------------------------------------------
(* The segments of a flowpipe follow each other as the worker computes    *)
(* them.                                                                  *)
IsFlowpipe(n) ==
  LET fp == flowpipe[n] IN
  /\ fp # << >>
  /\ fp[1] = FirstSegment(ha, nodes[n].location, nodes[n].initialSet)
  /\ \A k \in 1..Len(fp) - 1 : fp[k + 1] = NextSegment(ha, nodes[n].location, fp[k])

IsComplete(n) ==
  LET fp == flowpipe[n] IN
  \/ Len(fp) >= NumSegments(par.horizon, par.timeStep)
  \/ NextSegment(ha, nodes[n].location, fp[Len(fp)]) = {}

IsSafe(n) ==
  \A k \in DOMAIN flowpipe[n] : ~IntersectsBadStates(ha, nodes[n].location, flowpipe[n][k])

(* The child of node n for the jump successor j.                          *)
ChildOf(n, j) ==
  LET fp == flowpipe[n]
      t == j.transition
  IN  ChildNode(ha, nodes, n, SuccessorSet(ha, t, par, fp, j.block),
                nodes[n].lower + BlockFirst(ha, t, par, fp, j.block) * par.timeStepFactor,
                nodes[n].upper + EndOfSegment(BlockLast(ha, t, par, fp, j.block)), t)

HasChildFor(n, j) == \E c \in DOMAIN nodes : nodes[c] = ChildOf(n, j)

Successors(n) == NonEmptyJumpSuccessors(ha, nodes[n].location, par, flowpipe[n])

IsExpanded(n) ==
  nodes[n].depth # par.jumpDepth => \A j \in Successors(n) : HasChildFor(n, j)

Done(n) == IsFlowpipe(n) /\ IsComplete(n) /\ IsSafe(n) /\ IsExpanded(n)

--------------------------------------------------------------------------
(* Which step the loop is in and what it knows of the current node then.  *)
ControlInv ==
  /\ Busy => currentNode \in DOMAIN nodes
  /\ pc = "done" <=> result # "none"
  /\ result = "success" => workQueue = << >>
  /\ pc = "firstSegment" => flowpipe[currentNode] = << >>
  /\ pc = "jumps" => pending \subseteq Successors(currentNode)
  /\ pc # "jumps" => pending = {}

(* Queued nodes are queued once and have not been touched.                *)
QueueInv ==
  /\ \A i \in DOMAIN workQueue : flowpipe[workQueue[i]] = << >>
  /\ \A i, j \in DOMAIN workQueue : workQueue[i] = workQueue[j] => i = j
  /\ Busy => \A i \in DOMAIN workQueue : workQueue[i] # currentNode

(* Breadth first: no node is more than one level below a queued one.      *)
BreadthFirst ==
  /\ \A i, j \in DOMAIN workQueue : i <= j =>
       nodes[workQueue[i]].depth <= nodes[workQueue[j]].depth
  /\ \A i \in DOMAIN workQueue, n \in DOMAIN nodes :
       nodes[n].depth <= nodes[workQueue[i]].depth + 1
  /\ Busy =>
       /\ \A i \in DOMAIN workQueue : nodes[currentNode].depth <= nodes[workQueue[i]].depth
       /\ \A n \in DOMAIN nodes : nodes[n].depth <= nodes[currentNode].depth + 1

(* What has been computed of the current node.  Without the Zeno test no  *)
(* successor is left out.                                                 *)
CurrentInv ==
  /\ pc = "nextSegment" => IsFlowpipe(currentNode) /\ IsSafe(currentNode)
  /\ pc = "check" =>
       /\ IsFlowpipe(currentNode)
       /\ safetyResult = "SAFE" => IsSafe(currentNode) /\ IsComplete(currentNode)
  /\ pc \in {"expand", "jumps"} =>
       IsFlowpipe(currentNode) /\ IsSafe(currentNode) /\ IsComplete(currentNode)
  /\ pc = "jumps" /\ ~par.detectZenoBehavior =>
       \A j \in Successors(currentNode) \ pending : HasChildFor(currentNode, j)

(* No valuation of an initial set is lost, unless the loop gives up.      *)
CoveredBy(n, p, m) ==
  /\ nodes[m].location = nodes[n].location
  /\ nodes[m].depth <= nodes[n].depth
  /\ p \in nodes[m].initialSet
  /\ Open(m) \/ Done(m)

CoverInv ==
  result # "failure" =>
    \A n \in DOMAIN nodes : \A p \in nodes[n].initialSet :
      \E m \in DOMAIN nodes : CoveredBy(n, p, m)

(* The roots are in the tree from the start.                              *)
RootInv ==
  \A i \in DOMAIN ha.initial : \E n \in DOMAIN nodes :
    /\ nodes[n].location = ha.initial[i].loc
    /\ nodes[n].depth = 0
    /\ ha.initial[i].set \subseteq nodes[n].initialSet

(* A run of the automaton stays within the flowpipes of done nodes.       *)
TrackedBy(n) ==
  /\ Done(n)
  /\ nodes[n].location = run.location
  /\ nodes[n].depth <= run.jumps
  /\ run.steps + 1 \in DOMAIN flowpipe[n]
  /\ run.valuation \in flowpipe[n][run.steps + 1]

RunInv ==
  run # NoRun =>
    /\ result = "success"
    /\ run \in RunType
    /\ run.jumps <= par.jumpDepth
    /\ SoundConfiguration => \E n \in DOMAIN nodes : TrackedBy(n)

AnalysisInv ==
  /\ TypeOK
  /\ ControlInv
  /\ QueueInv
  /\ BreadthFirst
  /\ RootInv
  /\ CurrentInv
  /\ SoundConfiguration => CoverInv

IInv == AnalysisInv /\ RunInv

(* What the fixed-point test drops may rely on a node that is not         *)
(* processed yet, or that is dropped itself: a success means that such    *)
(* chains ended.  Every valuation that a node was added with is in a node *)
(* of its location with no fewer jumps left, whose flowpipe is complete   *)
(* and clean and whose successors all have nodes (LTIAnalyzer.tpp:98,     *)
(* fixedPointDetection.h:43).                                             *)
Processed(n, p, m) ==
  /\ nodes[m].location = nodes[n].location
  /\ nodes[m].depth <= nodes[n].depth
  /\ p \in nodes[m].initialSet
  /\ Done(m)

DroppedNodesAreProcessed ==
  result = "success" /\ SoundConfiguration =>
    \A n \in DOMAIN nodes : \A p \in nodes[n].initialSet :
      \E m \in DOMAIN nodes : Processed(n, p, m)

--------------------------------------------------------------------------
(* What the tree says about how its nodes came about: it starts with the  *)
(* roots, and every further node is the child of an earlier one, whose    *)
(* flowpipe was complete by then.                                         *)
IsFinished(n) == IsFlowpipe(n) /\ IsComplete(n)

IsChildOf(n, m) ==
  /\ IsFinished(m)
  /\ \E j \in Successors(m) : nodes[n] = ChildOf(m, j)

TreeInv ==
  /\ \A i \in DOMAIN ha.initial : i \in DOMAIN nodes /\ nodes[i] = MakeRoots(ha)[i]
  /\ \A n \in DOMAIN nodes \ DOMAIN ha.initial : \E m \in 1..n - 1 : IsChildOf(n, m)

(* A conflict is found in the last segment of the current node, which is  *)
(* not empty unless it is the first.                                      *)
EndsInConflict(n) ==
  LET fp == flowpipe[n] IN
  /\ IsFlowpipe(n)
  /\ Len(fp) = 1 \/ fp[Len(fp)] # {}
  /\ IntersectsBadStates(ha, nodes[n].location, fp[Len(fp)])

(* Nothing is over-approximated: segments are not united, and K is a      *)
(* class of sets that the representation keeps as they are, and that no   *)
(* operation of the analysis leaves (as boxes keep intervals).            *)
Keeps(K) ==
  /\ \A S \in K : Over[S] = S
  /\ \A i \in DOMAIN ha.initial : ha.initial[i].set \in K
  /\ \A S \in K, l \in Location :
       /\ S \cap ha.invariant[l] \in K
       /\ UNION {ha.during[l][p] : p \in S} \in K
       /\ {ha.flow[l][p] : p \in S} \in K
  /\ \A S \in K, t \in DOMAIN ha.transition :
       /\ S \cap ha.transition[t].guard \in K
       /\ {ha.transition[t].reset[p] : p \in S} \in K

NothingApproximated ==
  /\ par.aggregation = "NO_AGG"
  /\ \E K \in SUBSET SUBSET Point : Keeps(K)

ConflictInv ==
  /\ \A n \in DOMAIN nodes : Len(flowpipe[n]) <= NumSegments(par.horizon, par.timeStep)
  /\ pc = "nextSegment" => safetyResult = "SAFE"
  /\ result = "failure" => safetyResult = "UNKNOWN"
  /\ pc \in {"check", "done"} /\ result # "success" /\ safetyResult = "UNKNOWN" =>
       currentNode \in DOMAIN nodes /\ EndsInConflict(currentNode)

(* Without the tests that leave out nodes or jumps, every node is open or *)
(* done, and a run is followed by nodes with its path and its timings.    *)
FollowsEveryJump ==
  /\ ~par.detectJumpFixedPoints
  /\ par.numberSetsForContinuousCoverage = 0
  /\ ~par.detectZenoBehavior

NothingSkipped ==
  FollowsEveryJump /\ result # "failure" => \A n \in DOMAIN nodes : Open(n) \/ Done(n)

TimedBy(n) ==
  /\ TrackedBy(n)
  /\ TransitionPath(n) = run.path
  /\ nodes[n].lower <= run.earliest
  /\ run.latest <= nodes[n].upper

FollowedInv == FollowsEveryJump /\ run # NoRun => \E n \in DOMAIN nodes : TimedBy(n)

HistoryInv == IInv /\ TreeInv /\ ConflictInv /\ NothingSkipped /\ FollowedInv
=============================================================================
