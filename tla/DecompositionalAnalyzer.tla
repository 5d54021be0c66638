--------------------- MODULE DecompositionalAnalyzer ---------------------
(***************************************************************************)
(* DecompositionalAnalyzer::run                                            *)
(* (algorithms/reachability/analyzer/DecompositionalAnalyzer.tpp): each    *)
(* subspace of a decomposed automaton is analyzed by a worker of its own,  *)
(* and common clocks tell which states of the subspaces belong together.   *)
(*                                                                         *)
(* The trees of the subspaces and the tree of dependencies grow by one     *)
(* node each at the same time, so node n of the model stands for all of    *)
(* them.  Timings of nodes and the loading of the matrices are left out.   *)
(* The automaton has one initial state: with several, mDependencyRoots is  *)
(* reallocated while the queue points into it.                             *)
(***************************************************************************)
EXTENDS Subspaces, Ordering

CONSTANT Analyses   \* pairs of an automaton and settings

ParameterType ==
  [clockCount : Nat, jumpDepth : Nat, horizon : Nat, aggregate : BOOLEAN]

ASSUME AnalysesAssumption ==
  \A a \in Analyses : a = <<a[1], a[2]>> /\ IsDecomposed(a[1]) /\ a[2] \in ParameterType

VARIABLES
  ha,             \* mHybridAutomaton, with mDecomposition
  par,            \* mClockCount, mFixedParameters and mParameters
  nodes,          \* the reach trees of the subspaces and of the dependencies
  workQueue,      \* mWorkQueue
  task,           \* the queue entry being processed
  dependencies,   \* the local variable of run()
  workerFlowpipe, \* mFlowpipe of the workers of singular subspaces
  flowpipe,       \* the flowpipes of the current nodes
  pending,        \* jump successors still to be added, in order
  pc,             \* where the loop stands
  result          \* what run returns

settings == <<ha, par>>
vars == <<ha, par, nodes, workQueue, task, dependencies, workerFlowpipe,
          flowpipe, pending, pc, result>>

NoTask == [node |-> 0, clockIndex |-> 0]
NoFlowpipes == [s \in Subspace |-> << >>]

Valuations(s, latest) == Valuation(ha, s, par.clockCount, latest)
AnyValuation(latest) == UNION {Valuations(s, latest) : s \in Subspace}

(* State sets of the subspaces, each of the type of its subspace.         *)
StateSets(latest) ==
  {sets \in [Subspace -> SUBSET AnyValuation(latest)] :
     \A s \in Subspace : sets[s] \subseteq Valuations(s, latest)}

Flowpipes(latest) ==
  {fp \in [Subspace -> Seq(SUBSET AnyValuation(latest))] :
     \A s \in Subspace : \A k \in DOMAIN fp[s] : fp[s][k] \subseteq Valuations(s, latest)}

NodeType == [location : Location, depth : Nat, sets : StateSets(LatestTime(par)),
             dependencies : SUBSET NoDependencies(ha)]
EntryType == [node : DOMAIN nodes, clockIndex : Nat]
SuccessorType == [transition : DOMAIN ha.transition, sets : StateSets(LatestTime(par))]

(* No initial set of a node has a clock beyond mGlobalTimeInterval.       *)
TypeOK ==
  /\ <<ha, par>> \in Analyses
  /\ nodes \in Seq(NodeType)
  /\ workQueue \in Seq(EntryType)
  /\ task = NoTask \/ task \in EntryType
  /\ dependencies \subseteq NoDependencies(ha)
  /\ workerFlowpipe \in Flowpipes(LatestTime(par) + NumSegments(par))
  /\ flowpipe \in Flowpipes(LatestTime(par) + NumSegments(par))
  /\ pending \in Seq(SuccessorType)
  /\ pc \in {"dequeue", "time", "clock", "safety", "jumps", "children", "done"}
  /\ result \in {"none", "success", "failure"}

(* The constructor and makeDecompositionalRoots.                          *)
Init ==
  /\ \E a \in Analyses : ha = a[1] /\ par = a[2]
  /\ nodes = <<[location |-> ha.initial.loc, depth |-> 0,
                sets |-> [s \in Subspace |->
                            {AddClocksAndInitial(x, Clocks(ha, s, par.clockCount)) :
                               x \in ha.initial.set[s]}],
                dependencies |-> NoDependencies(ha)]>>
  /\ workQueue = <<[node |-> 1, clockIndex |-> 0]>>
  /\ task = NoTask
  /\ dependencies = NoDependencies(ha)
  /\ workerFlowpipe = NoFlowpipes
  /\ flowpipe = NoFlowpipes
  /\ pending = << >>
  /\ pc = "dequeue"
  /\ result = "none"

--------------------------------------------------------------------------
current == nodes[task.node]
Discrete == OfType(ha, "discrete")
Singular == OfType(ha, "singular")
Segmented == OfType(ha, "segmented")

(* The number of segments to compute for subspace s + 1: the flowpipe of  *)
(* a segmented subspace is no longer than the one before.  The horizon    *)
(* computed from the clocks is discarded.                                 *)
SegmentHorizon ==
  LET count[s \in 0..Cardinality(Subspace)] ==
        IF s = 0 THEN NumSegments(par)
        ELSE IF s \notin Segmented THEN count[s - 1]
        ELSE Len(SegmentedFlowpipe(ha, s, current.location, current.sets[s], count[s - 1]))
  IN  count

(* removeRedundantSegments: all of them get as long as the shortest.      *)
MinSegments == IF Segmented = {} THEN 1 ELSE Min({Len(flowpipe[s]) : s \in Segmented})
RemoveRedundantSegments(s) ==
  IF s \in Segmented THEN SubSeq(flowpipe[s], 1, MinSegments) ELSE flowpipe[s]

(* Mutants: the last segment is forgotten, or all but the last.           *)
SatisfyingTimeOfLastSegment(s) ==
  IF flowpipe[s] = << >> THEN NoTime ELSE GetClockValues(flowpipe[s][Len(flowpipe[s])], par)

SatisfyingTimeOfFirstSegment(s) ==
  IF flowpipe[s] = << >> THEN NoTime ELSE GetClockValues(flowpipe[s][1], par)

(* The times at which a subspace satisfies its invariant.                 *)
SatisfyingTime(s) ==
  IF flowpipe[s] = << >> THEN NoTime
  ELSE UniteTime(GetClockValues(flowpipe[s][1], par),
                 GetClockValues(flowpipe[s][Len(flowpipe[s])], par), par)

InvariantSatisfyingTime ==
  LET times == {SatisfyingTime(s) : s \in Clocked(ha)}
  IN  {p \in GlobalTime(par) : \A time \in times : p \in time}

Cut(S, time) == IntersectWithClock(S, time)

(* intersectSubspacesWithClock: a segment without such a time ends the    *)
(* flowpipe.                                                              *)
IntersectFlowpipeWithClock(fp, time) ==
  LET empty == {k \in DOMAIN fp : Cut(fp[k], time) = {}}
  IN  SubSeq([k \in DOMAIN fp |-> Cut(fp[k], time)], 1,
             IF empty = {} THEN Len(fp) ELSE Min(empty) - 1)

--------------------------------------------------------------------------
(* LtiSegmentGen: the segments with a common index that satisfy the       *)
(* condition at the given times in every segmented subspace.  If there is *)
(* none, the sets of the other subspaces count as one segment.            *)
CommonSegments(condition, time) ==
  {k \in 1..MinSegments :
     \A s \in Segmented : Cut(Satisfying(flowpipe[s][k], condition[s]), time) # {}}

(* isSafe.  The first segment of every unsegmented flowpipe is read       *)
(* without a test that there is one.                                      *)
BadSet(bad, s) == Satisfying(flowpipe[s][1], bad[s])

(* The time at which all singular subspaces up to s can be bad.           *)
BadTime(bad) ==
  LET time[s \in 0..Cardinality(Subspace)] ==
        IF s = 0 THEN GlobalTime(par)
        ELSE IF s \notin Singular THEN time[s - 1]
        ELSE time[s - 1] \cap GetClockValues(Cut(BadSet(bad, s), time[s - 1]), par)
  IN  time

(* What is composed: the sets of the singular subspaces as they were cut  *)
(* to the time of the ones before, and segment k of the others.           *)
BadSegment(bad, s, k) ==
  IF s \in Singular THEN Cut(BadSet(bad, s), BadTime(bad)[s - 1])
  ELSE Cut(Satisfying(flowpipe[s][k], bad[s]), BadTime(bad)[Cardinality(Subspace)])

IsSafe(bad) ==
  LET time == BadTime(bad)[Cardinality(Subspace)]
      candidates == CommonSegments(bad, time)
      composed(k) ==
        ComposeSubspaces(ha, [s \in Clocked(ha) |-> BadSegment(bad, s, k)], dependencies)
  IN  \/ \E s \in Discrete \cup Singular : BadSet(bad, s) = {}
      \/ IsEmptyTime(time, par)
      \/ par.clockCount > 0 /\ \A k \in candidates : composed(k) = {}
      \/ candidates = {}

CollectBadStates(l) == ha.globalBad \cup ha.localBad[l]

--------------------------------------------------------------------------
(* Clocks of jumps to come should be reset here, but projectOn returns    *)
(* the projected state and leaves the state it is called on alone.        *)
ResetUnusedClocks(S, clockIndex) == S

JumpImage(t, s, S) ==
  LET tr == ha.transition[t]
  IN  Satisfying(ApplyReset(ha, s, t, Satisfying(S, tr.guard[s])), ha.invariant[tr.target][s])

(* getSingularJumpSuccessors: what the worker computed, which was not cut *)
(* to the common times, and the times at which all of them can jump.      *)
SingularSuccessor(t, s) ==
  IF workerFlowpipe[s] = << >> THEN {}
  ELSE ResetUnusedClocks(JumpImage(t, s, workerFlowpipe[s][1]), task.clockIndex)

SingularEnabledTime(t) ==
  LET times == {GetClockValues(SingularSuccessor(t, s), par) : s \in Singular}
  IN  {p \in GlobalTime(par) : \A time \in times : p \in time}

DiscreteSuccessor(t, s) == JumpImage(t, s, flowpipe[s][1])

(* getSegmentedJumpSuccessors: enabled segments, alone or all united; the *)
(* ones without a successor in some subspace find no partner there.       *)
EnabledSegments(t) == CommonSegments(ha.transition[t].guard, SingularEnabledTime(t))

Block(t, k) == IF par.aggregate THEN EnabledSegments(t) ELSE {k}

SegmentedSuccessor(t, s, block) ==
  LET guarded(k) == Cut(Satisfying(flowpipe[s][k], ha.transition[t].guard[s]), SingularEnabledTime(t))
  IN  JumpImage(t, s, UNION {ResetUnusedClocks(guarded(k), task.clockIndex) : k \in block})

(* getJumpSuccessors: the common times of all subspaces once more.        *)
SubspaceSuccessor(t, s, block) ==
  IF s \in Discrete THEN DiscreteSuccessor(t, s)
  ELSE IF s \in Singular THEN Cut(SingularSuccessor(t, s), SingularEnabledTime(t))
  ELSE SegmentedSuccessor(t, s, block)

EnabledTime(t, block) ==
  LET times == {GetClockValues(SubspaceSuccessor(t, s, block), par) : s \in Segmented}
  IN  {p \in SingularEnabledTime(t) : \A time \in times : p \in time}

JumpSuccessor(t, block) ==
  LET time == EnabledTime(t, block)
  IN  [transition |-> t,
       sets |-> [s \in Subspace |->
                   IF IsEmptyTime(time, par) THEN {}
                   ELSE IF s \in Discrete THEN SubspaceSuccessor(t, s, block)
                   ELSE Cut(SubspaceSuccessor(t, s, block), time)]]

CanJump(t) ==
  /\ ~IsEmptyTime(SingularEnabledTime(t), par)
  /\ \A s \in Singular : SingularSuccessor(t, s) # {}

(* A transition with the first segment of each of its blocks.             *)
Jumps ==
  {j \in TransitionsFrom(ha, current.location) \X (1..MinSegments) :
     /\ CanJump(j[1])
     /\ j[2] \in EnabledSegments(j[1])
     /\ par.aggregate => \A k \in EnabledSegments(j[1]) : j[2] <= k}

AllJumpSuccessors ==
  LET jumps == AscendingPairs(Jumps)
  IN  [i \in DOMAIN jumps |-> JumpSuccessor(jumps[i][1], Block(jumps[i][1], jumps[i][2]))]

HasEmptySet(sets) == \E s \in Subspace : sets[s] = {}

--------------------------------------------------------------------------
(* Take the next entry and the dependencies of its node; an entry with an *)
(* empty initial set is dropped (checkConsistency).                       *)
Dequeue ==
  /\ pc = "dequeue"
  /\ workQueue # << >>
  /\ task' = Head(workQueue)
  /\ workQueue' = Tail(workQueue)
  /\ dependencies' = nodes[Head(workQueue).node].dependencies
  /\ pc' = IF HasEmptySet(nodes[Head(workQueue).node].sets) THEN "dequeue" ELSE "time"
  /\ UNCHANGED <<settings, nodes, workerFlowpipe, flowpipe, pending, result>>

(* The workers: reset, then time successors, discrete and singular        *)
(* subspaces first.                                                       *)
ComputeTimeSuccessors ==
  /\ pc = "time"
  /\ workerFlowpipe' = [s \in Subspace |->
       IF s \in Singular
       THEN SingularFlowpipe(ha, s, current.location, current.sets[s], par.horizon)
       ELSE << >>]
  /\ flowpipe' = [s \in Subspace |->
       IF s \in Discrete THEN DiscreteFlowpipe(ha, s, current.location, current.sets[s])
       ELSE IF s \in Singular THEN workerFlowpipe'[s]
       ELSE SegmentedFlowpipe(ha, s, current.location, current.sets[s], SegmentHorizon[s - 1])]
  /\ pc' = "clock"
  /\ UNCHANGED <<settings, nodes, workQueue, task, dependencies, pending, result>>

IntersectSubspacesWithClock ==
  /\ pc = "clock"
  /\ LET time == InvariantSatisfyingTime
     IN  flowpipe' = [s \in Subspace |->
           IF s \in Discrete THEN flowpipe[s]
           ELSE IntersectFlowpipeWithClock(RemoveRedundantSegments(s), time)]
  /\ pc' = "safety"
  /\ UNCHANGED <<settings, nodes, workQueue, task, dependencies, workerFlowpipe, pending, result>>

ReportConflict ==
  /\ pc = "safety"
  /\ \E bad \in CollectBadStates(current.location) : ~IsSafe(bad)
  /\ pc' = "done"
  /\ result' = "failure"
  /\ UNCHANGED <<settings, nodes, workQueue, task, dependencies, workerFlowpipe, flowpipe, pending>>

(* A mutant: a node at the jump depth is not left.                        *)
PassCheckAndRepeat ==
  /\ pc = "safety"
  /\ \A bad \in CollectBadStates(current.location) : IsSafe(bad)
  /\ pc' = IF current.depth = par.jumpDepth THEN "time" ELSE "jumps"
  /\ UNCHANGED <<settings, nodes, workQueue, task, dependencies, workerFlowpipe, flowpipe, pending, result>>

PassCheck ==
  /\ pc = "safety"
  /\ \A bad \in CollectBadStates(current.location) : IsSafe(bad)
  /\ pc' = IF current.depth = par.jumpDepth THEN "dequeue" ELSE "jumps"
  /\ UNCHANGED <<settings, nodes, workQueue, task, dependencies, workerFlowpipe, flowpipe, pending, result>>

ComputeJumpSuccessors ==
  /\ pc = "jumps"
  /\ pending' = AllJumpSuccessors
  /\ pc' = "children"
  /\ UNCHANGED <<settings, nodes, workQueue, task, dependencies, workerFlowpipe, flowpipe, result>>

SkipSuccessor ==
  /\ pc = "children"
  /\ pending # << >>
  /\ HasEmptySet(Head(pending).sets)
  /\ pending' = Tail(pending)
  /\ UNCHANGED <<settings, nodes, workQueue, task, dependencies, workerFlowpipe, flowpipe, pc, result>>

(* A child in every tree.                                                 *)
AddChild(sets, deps, clockIndex) ==
  /\ nodes' = Append(nodes, [location |-> ha.transition[Head(pending).transition].target,
                             depth |-> current.depth + 1,
                             sets |-> sets, dependencies |-> deps])
  /\ workQueue' = Append(workQueue, [node |-> Len(nodes) + 1, clockIndex |-> clockIndex])
  /\ pending' = Tail(pending)
  /\ UNCHANGED <<settings, task, workerFlowpipe, flowpipe, pc, result>>

ClocksAreUsedUp == par.clockCount > 0 /\ task.clockIndex + 1 >= par.clockCount

AddSuccessor ==
  /\ pc = "children"
  /\ pending # << >>
  /\ ~HasEmptySet(Head(pending).sets)
  /\ ~ClocksAreUsedUp
  /\ AddChild(Head(pending).sets, dependencies, task.clockIndex + 1)
  /\ UNCHANGED dependencies

(* All clocks are in use: the subspaces are synchronised, and the local   *)
(* variable gets the dependencies of this successor.                      *)
AddSynchronizedSuccessor ==
  /\ pc = "children"
  /\ pending # << >>
  /\ ~HasEmptySet(Head(pending).sets)
  /\ ClocksAreUsedUp
  /\ LET synchronized ==
           SynchronizeAndResetClocks(ha, Head(pending).sets, dependencies, par.clockCount)
     IN  /\ dependencies' = synchronized.dependencies
         /\ AddChild(synchronized.sets, synchronized.dependencies, 0)

FinishNode ==
  /\ pc = "children"
  /\ pending = << >>
  /\ pc' = "dequeue"
  /\ UNCHANGED <<settings, nodes, workQueue, task, dependencies, workerFlowpipe, flowpipe, pending, result>>

Succeed ==
  /\ pc = "dequeue"
  /\ workQueue = << >>
  /\ pc' = "done"
  /\ result' = "success"
  /\ UNCHANGED <<settings, nodes, workQueue, task, dependencies, workerFlowpipe, flowpipe, pending>>

Next ==
  \/ Dequeue
  \/ ComputeTimeSuccessors
  \/ IntersectSubspacesWithClock
  \/ ReportConflict
  \/ PassCheck
  \/ ComputeJumpSuccessors
  \/ SkipSuccessor
  \/ AddSuccessor
  \/ AddSynchronizedSuccessor
  \/ FinishNode
  \/ Succeed

Spec == Init /\ [][Next]_vars /\ WF_vars(Next)
=============================================================================
