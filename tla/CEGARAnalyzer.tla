-------------------------- MODULE CEGARAnalyzer --------------------------
(***************************************************************************)
(* Refinement along a strategy (analyzer/CEGARAnalyzer.tpp) with the LTI   *)
(* analyzer at the base level and a RefinementAnalyzer                     *)
(* (analyzer/impl/RefinementAnalyzer.tpp) at every other one.              *)
(*                                                                         *)
(* Each level has a representation, a time step, an aggregation setting, a *)
(* reach tree and a queue of its own.  A conflict at one level gives the   *)
(* next level its path to follow; what that level finds behind the end of  *)
(* the path replaces the successors of the conflict node.                  *)
(*                                                                         *)
(* Level i + 1 of the model is level i of the code.  An action is one      *)
(* iteration of a loop, as the analyzers are sequential.  Fixed-point      *)
(* detection is off (mRoots of the base level is a dangling reference,     *)
(* CEGARAnalyzer.tpp:14-17), and so is the Zeno test.                      *)
(***************************************************************************)
EXTENDS HybridRun, SequencesExt, Ordering

CONSTANTS
  Strategies,      \* strategies to analyze with
  horizon,         \* localTimeHorizon in fixed time steps
  jumpDepth

LevelType ==
  [over : [SUBSET Point -> SUBSET Point], timeStepFactor : Nat \ {0},
   aggregation : {"MODEL", "AGG", "NO_AGG"}, clustering : Int]

(* With one level the tool uses the LTI analyzer itself.  The state sets  *)
(* of every representation include what they stand for.                   *)
ASSUME StrategiesAssumption ==
  \A s \in Strategies :
    /\ s \in Seq(LevelType) /\ Len(s) > 1
    /\ \A i \in DOMAIN s :
         s[i].over[{}] = {} /\ \A S \in SUBSET Point : S \subseteq s[i].over[S]

ASSUME BoundsAssumption == horizon \in Nat /\ jumpDepth \in Nat

(* Initial states are a map from locations (HybridAutomaton.h:44).        *)
ASSUME InitialLocationsAssumption ==
  \A A \in Automata : \A i, k \in DOMAIN A.initial :
    A.initial[i].loc = A.initial[k].loc => i = k

VARIABLES
  ha, strategy,
  level,        \* levelInd + 1
  nodes,        \* the reach tree of each level, with flowpipes
  queue,        \* mWorkQueue of each level
  path,         \* mPath of each refinement level
  conflict,     \* results: the conflict node of each level
  collected,    \* pathSuccessors of the refinement that is running
  verdict

cegarVars == <<ha, strategy, level, nodes, queue, path, conflict, collected, verdict>>

(* The operators of the worker and the tree, for any representation.      *)
R(over) == INSTANCE ReachTree WITH Over <- over

Top == Len(strategy)
Levels == 1..Top
Refinements == 2..Top
NoNode == 0

(* The automaton with the time step of a level.                           *)
Iterate(f, k) ==
  LET it[j \in 0..k] == [p \in Point |-> IF j = 0 THEN p ELSE f[it[j - 1][p]]] IN it[k]

AtLevel(i) ==
  LET factor == strategy[i].timeStepFactor
  IN  [ha EXCEPT
         !.flow = [l \in Location |-> Iterate(ha.flow[l], factor)],
         !.during = [l \in Location |-> [p \in Point |->
           {Iterate(ha.flow[l], k)[q] : k \in 0..factor - 1, q \in ha.during[l][p]}]]]

--------------------------------------------------------------------------
(* computeTimeSuccessors: the flowpipe up to the first segment that meets *)
(* bad states, the last before the invariant is left, or the horizon.     *)
IsBad(i, l, segment) == R(strategy[i].over)!IntersectsBadStates(ha, l, segment)

TimeSuccessors(i, l, init) ==
  LET A == AtLevel(i)
      segments == R(strategy[i].over)!NumSegments(horizon, strategy[i].timeStepFactor)
      at[k \in 1..segments] ==
        IF k = 1 THEN R(strategy[i].over)!FirstSegment(A, l, init)
        ELSE R(strategy[i].over)!NextSegment(A, l, at[k - 1])
      ends(k) == k = segments \/ IsBad(i, l, at[k]) \/ at[k + 1] = {}
      length == CHOOSE k \in 1..segments : ends(k) /\ \A j \in 1..k - 1 : ~ends(j)
  IN  [k \in 1..length |-> at[k]]

MeetsBadStates(i, l, flowpipe) == IsBad(i, l, flowpipe[Len(flowpipe)])

(* The time between two segment indices of a node's flowpipe.             *)
Timings(i, n, first, last) ==
  [lower |-> nodes[i][n].lower + first * strategy[i].timeStepFactor,
   upper |-> nodes[i][n].upper + last * strategy[i].timeStepFactor]

(* A node of level i, without a flowpipe at first.                        *)
Fresh(node) ==
  [location |-> node.location, parent |-> node.parent, transition |-> node.transition,
   depth |-> node.depth, initialSet |-> node.initialSet, lower |-> node.lower,
   upper |-> node.upper, flowpipe |-> << >>]

NewNode(i, parent, t, set, timings) ==
  Fresh(R(strategy[i].over)!ChildNode(ha, nodes[i], parent, set, timings.lower, timings.upper, t))

RootNode(i, l) ==
  LET k == CHOOSE k \in DOMAIN ha.initial : ha.initial[k].loc = l
  IN  Fresh(R(strategy[i].over)!MakeRoots(ha)[k])

RootOf(i, n) ==
  CHOOSE r \in R(strategy[i].over)!AncestorsOrSelf(nodes[i], n) : nodes[i][r].parent = 0

(* Successors of the base level, as LTIAnalyzer::run adds them.           *)
Successor == [transition : Nat, block : Nat]
BaseChildren(n, fp) ==
  LET W == strategy[1] IN
  LET found == R(W.over)!NonEmptyJumpSuccessors(ha, nodes[1][n].location, W, fp)
      child(j) == NewNode(1, n, j.transition,
        R(W.over)!SuccessorSet(ha, j.transition, W, fp, j.block),
        Timings(1, n, R(W.over)!BlockFirst(ha, j.transition, W, fp, j.block),
                      R(W.over)!BlockLast(ha, j.transition, W, fp, j.block) + 1))
      sorted == InOrder(found, {p \in Successor \X Successor : R(W.over)!Before(p[1], p[2])})
      children[s \in {sorted}] == [k \in DOMAIN s |-> child(s[k])]
  IN  children[sorted]

(* Successors of a refinement level (JumpSuccessorGen, ChildNodeGen):     *)
(* blocks do not reach across gaps between enabled segments, the block    *)
(* size refers to the whole flowpipe, and the end of a block is counted   *)
(* one too far.                                                           *)
BlockSetOfWholeSegments(i, t, fp, block) ==
  R(strategy[i].over)!Intersect(
    R(strategy[i].over)!Transform(R(strategy[i].over)!Unite({fp[k] : k \in block}),
                                  ha.transition[t].reset),
    ha.invariant[ha.transition[t].target])
BlockSet(i, t, fp, block) ==
  LET guarded == {R(strategy[i].over)!Intersect(fp[k], ha.transition[t].guard) : k \in block}
  IN  R(strategy[i].over)!Intersect(
        R(strategy[i].over)!Transform(R(strategy[i].over)!Unite(guarded), ha.transition[t].reset),
        ha.invariant[ha.transition[t].target])

RefinedSuccessors(i, n, t, fp) ==
  LET W == strategy[i]
      K == R(W.over)!EnabledSegments(ha, t, fp)
      size == R(W.over)!BlockSize(ha, t, W, Len(fp))
      first[k \in DOMAIN fp] ==
        IF k - 1 \in K /\ k - first[k - 1] < size THEN first[k - 1] ELSE k
      blocks == {b \in {{k \in K : first[k] = f} : f \in {first[k] : k \in K}} :
                   BlockSet(i, t, fp, b) # {}}
      low(b) == CHOOSE k \in b : \A j \in b : k <= j
      high(b) == CHOOSE k \in b : \A j \in b : j <= k
      child(b) == NewNode(i, n, t, BlockSet(i, t, fp, b), Timings(i, n, low(b) - 1, high(b) + 1))
      sorted == InOrder(blocks, {p \in (SUBSET Nat) \X (SUBSET Nat) : low(p[1]) < low(p[2])})
      children[s \in {sorted}] == [k \in DOMAIN s |-> child(s[k])]
  IN  children[sorted]

(* matchesPathTransition and matchesPathTiming                            *)
MatchesPathTransition(p, node) == node.transition = p[node.depth].transition
MatchesPathTimingByContainment(p, node) ==
  /\ node.lower >= p[node.depth].lower
  /\ node.upper <= p[node.depth].upper
MatchesPathTiming(p, node) ==
  /\ node.upper >= p[node.depth].lower
  /\ node.lower <= p[node.depth].upper

--------------------------------------------------------------------------
Init ==
  /\ ha \in Automata
  /\ strategy \in Strategies
  /\ level = 1
  /\ nodes = [i \in Levels |->
                IF i = 1 THEN [k \in DOMAIN ha.initial |-> RootNode(1, ha.initial[k].loc)]
                ELSE << >>]
  /\ queue = [i \in Levels |-> IF i = 1 THEN [k \in DOMAIN ha.initial |-> k] ELSE << >>]
  /\ path = [i \in Levels |-> << >>]
  /\ conflict = [i \in Levels |-> NoNode]
  /\ collected = << >>
  /\ verdict = "none"
  /\ run = NoRun

current == nodes[level][Head(queue[level])]

(* addOrGetRoot: the nodes of level i with a root for location l.         *)
WithRoot(i, l) ==
  IF \E r \in R(strategy[i].over)!Roots(nodes[i]) : nodes[i][r].location = l THEN nodes[i]
  ELSE Append(nodes[i], RootNode(i, l))

(* handleFailure: the next level starts at the root of the path.          *)
RefineNext(i, n, fp) ==
  LET root == nodes[i][RootOf(i, n)].location
      target == WithRoot(i + 1, root)
      r == CHOOSE r \in R(strategy[i + 1].over)!Roots(target) : target[r].location = root
  IN  /\ conflict' = [conflict EXCEPT ![i] = n]
      /\ path' = [path EXCEPT ![i + 1] = R(strategy[i].over)!Path(nodes[i], n)]
      /\ nodes' = [nodes EXCEPT ![i][n].flowpipe = fp, ![i + 1] = target]
      /\ queue' = [queue EXCEPT ![i] = Tail(@), ![i + 1] = Append(@, r)]
      /\ level' = i + 1
      /\ collected' = << >>
      /\ UNCHANGED verdict

(* One iteration of LTIAnalyzer::run.                                     *)
AnalyzingBase == verdict = "none" /\ level = 1 /\ queue[1] # << >>

RefineBaseConflict ==
  /\ AnalyzingBase
  /\ \E fp \in {TimeSuccessors(1, current.location, current.initialSet)} :
       /\ MeetsBadStates(1, current.location, fp)
       /\ RefineNext(1, Head(queue[1]), fp)
  /\ UNCHANGED <<ha, strategy>>

ExpandBaseNode ==
  /\ AnalyzingBase
  /\ \E fp \in {TimeSuccessors(1, current.location, current.initialSet)} :
     LET n == Head(queue[1])
         children == IF current.depth = jumpDepth THEN << >> ELSE BaseChildren(n, fp)
     IN  /\ ~MeetsBadStates(1, current.location, fp)
         /\ nodes' = [nodes EXCEPT ![1] = [@ EXCEPT ![n].flowpipe = fp] \o children]
         /\ queue' = [queue EXCEPT ![1] = Tail(@) \o
                        [k \in DOMAIN children |-> Len(nodes[1]) + k]]
  /\ UNCHANGED <<ha, strategy, level, path, conflict, collected, verdict>>

ReportSafe ==
  /\ verdict = "none" /\ level = 1 /\ queue[1] = << >>
  /\ verdict' = "SAFE"
  /\ UNCHANGED <<ha, strategy, level, nodes, queue, path, conflict, collected>>

(* One iteration of RefinementAnalyzer::run, in its cases.  A node behind *)
(* the path is collected.                                                 *)
Refining == verdict = "none" /\ level > 1 /\ queue[level] # << >>

CollectNode ==
  /\ Refining
  /\ current.depth = Len(path[level]) + 1
  /\ collected' = Append(collected, Head(queue[level]))
  /\ queue' = [queue EXCEPT ![level] = Tail(@)]
  /\ UNCHANGED <<ha, strategy, level, nodes, path, conflict, verdict>>

(* A flowpipe that is there already is taken as it is, and not checked.   *)
OnPath == Refining /\ current.depth <= Len(path[level])

currentFlowpipe ==
  IF current.flowpipe # << >> THEN current.flowpipe
  ELSE TimeSuccessors(level, current.location, current.initialSet)

HasConflict ==
  current.flowpipe = << >> /\ MeetsBadStates(level, current.location, currentFlowpipe)

RefineConflict ==
  /\ OnPath
  /\ HasConflict
  /\ IF level < Top THEN RefineNext(level, Head(queue[level]), currentFlowpipe)
     ELSE /\ verdict' = "UNKNOWN"
          /\ nodes' = [nodes EXCEPT ![level][Head(queue[level])].flowpipe = currentFlowpipe]
          /\ queue' = [queue EXCEPT ![level] = Tail(@)]
          /\ UNCHANGED <<level, path, conflict, collected>>
  /\ UNCHANGED <<ha, strategy>>

(* Store the flowpipe and the children of the current node.               *)
Expand(children) ==
  nodes' = [nodes EXCEPT ![level] = [@ EXCEPT ![Head(queue[level])].flowpipe = currentFlowpipe]
                                      \o children]
NewIndex(k) == Len(nodes[level]) + k

StopAtJumpDepthWithoutPop ==
  /\ OnPath /\ ~HasConflict
  /\ current.depth = jumpDepth
  /\ Expand(<< >>)
  /\ UNCHANGED <<ha, strategy, level, path, conflict, collected, verdict, queue>>
StopAtJumpDepth ==
  /\ OnPath /\ ~HasConflict
  /\ current.depth = jumpDepth
  /\ Expand(<< >>)
  /\ queue' = [queue EXCEPT ![level] = Tail(@)]
  /\ UNCHANGED <<ha, strategy, level, path, conflict, collected, verdict>>

(* The last node of the path: all its successors are collected.           *)
CollectChildren ==
  /\ OnPath /\ ~HasConflict
  /\ current.depth # jumpDepth
  /\ current.depth = Len(path[level])
  /\ \E fp \in {currentFlowpipe} :
     LET n == Head(queue[level])
         byTransition == [t \in DOMAIN ha.transition |->
           IF ha.transition[t].source = current.location
           THEN RefinedSuccessors(level, n, t, fp) ELSE << >>]
         children == FlattenSeq(byTransition)
     IN  /\ Expand(children)
         /\ collected' = collected \o [k \in DOMAIN children |-> NewIndex(k)]
  /\ queue' = [queue EXCEPT ![level] = Tail(@)]
  /\ UNCHANGED <<ha, strategy, level, path, conflict, verdict>>

(* A node before the end of the path: its successors along the path are   *)
(* those in the tree, or else they are computed.                          *)
FollowPath ==
  /\ OnPath /\ ~HasConflict
  /\ current.depth # jumpDepth
  /\ current.depth < Len(path[level])
  /\ \E fp \in {currentFlowpipe} :
     LET n == Head(queue[level])
         p == path[level]
         existing == {c \in R(strategy[level].over)!Children(nodes[level], n) :
                        MatchesPathTransition(p, nodes[level][c])}
         children == IF existing # {} THEN << >>
                     ELSE RefinedSuccessors(level, n, p[current.depth + 1].transition, fp)
         candidates == IF existing # {} THEN existing
                       ELSE {NewIndex(k) : k \in DOMAIN children}
         node(c) == (nodes[level] \o children)[c]
     IN  /\ Expand(children)
         /\ queue' = [queue EXCEPT ![level] = Tail(@) \o
                        Ascending({c \in candidates : MatchesPathTiming(p, node(c))})]
  /\ UNCHANGED <<ha, strategy, level, path, conflict, collected, verdict>>

(* transferNodes: the collected nodes become children of the conflict     *)
(* node one level below; a refinement level queues those on its own path  *)
(* or behind it.                                                          *)
RefinementDoneAfterOneNode == verdict = "none" /\ level > 1
RefinementDone == verdict = "none" /\ level > 1 /\ queue[level] = << >>

HandBack ==
  /\ RefinementDone
  /\ LET below == level - 1
         source(k) == nodes[level][collected[k]]
         children == [k \in DOMAIN collected |->
           NewNode(below, conflict[below], source(k).transition,
                   strategy[below].over[source(k).initialSet], source(k))]
         queued(k) == \/ below = 1
                      \/ children[k].depth > Len(path[below])
                      \/ /\ MatchesPathTransition(path[below], children[k])
                         /\ MatchesPathTiming(path[below], children[k])
         indices == Ascending({k \in DOMAIN children : queued(k)})
     IN  /\ nodes' = [nodes EXCEPT ![below] = @ \o children]
         /\ queue' = [queue EXCEPT ![below] = @ \o
                        [k \in DOMAIN indices |-> Len(nodes[below]) + indices[k]]]
         /\ level' = below
  /\ UNCHANGED <<ha, strategy, path, conflict, verdict>>

TransferNodesAndKeep == HandBack /\ UNCHANGED collected
TransferNodes == HandBack /\ collected' = << >>

Analyze ==
  \/ RefineBaseConflict
  \/ ExpandBaseNode
  \/ ReportSafe
  \/ CollectNode
  \/ RefineConflict
  \/ StopAtJumpDepth
  \/ CollectChildren
  \/ FollowPath
  \/ TransferNodes

(* A run of the automaton after the verdict, in fixed time steps.         *)
RunStarts == verdict = "SAFE" /\ Start(ha) /\ UNCHANGED cegarVars
RunElapses == verdict = "SAFE" /\ Elapse(ha, horizon, 1) /\ UNCHANGED cegarVars
RunJumps == verdict = "SAFE" /\ Jump(ha, jumpDepth, 1) /\ UNCHANGED cegarVars

Next == (Analyze /\ UNCHANGED run) \/ RunStarts \/ RunElapses \/ RunJumps

Spec == /\ Init
        /\ [][Next]_<<cegarVars, run>>
        /\ WF_<<cegarVars, run>>(Analyze /\ UNCHANGED run)

--------------------------------------------------------------------------
(* One type invariant for the levels, trees and queues.                   *)
NodeType ==
  [location : Location, parent : Nat, transition : Nat, depth : Nat, initialSet : SUBSET Point,
   lower : Int, upper : Int, flowpipe : Seq(SUBSET Point)]

TypeOK ==
  /\ level \in Levels
  /\ \A i \in Levels :
       /\ nodes[i] \in Seq(NodeType)
       /\ queue[i] \in Seq(DOMAIN nodes[i])
       /\ conflict[i] \in DOMAIN nodes[i] \cup {NoNode}
       /\ path[i] \in Seq([lower : Int, upper : Int, transition : DOMAIN ha.transition])
  /\ collected \in Seq(DOMAIN nodes[level])
  /\ verdict \in {"none", "SAFE", "UNKNOWN"}

(* A verdict of safety, reached with any number of refinements, means     *)
(* that no run within the bounds meets a bad state: nothing gets lost     *)
(* when a conflict node is replaced by what the next level finds behind   *)
(* its path.  ("create and collect all children",                         *)
(* RefinementAnalyzer.tpp:80)                                             *)
Soundness == ~RunIsBad(ha)

(* With an exact last level an unknown verdict is a bad state that a run  *)
(* can reach: a spurious conflict never survives all refinements.         *)
UnknownIsReal ==
  (verdict = "UNKNOWN" /\ strategy[Top].timeStepFactor = 1) =>
     CanBeBad(ha, horizon, jumpDepth)

(* The assertion of setRefinement (RefinementAnalyzer.h:42): a refinement *)
(* is only started at a level that has finished the one before.           *)
RefinementStartsEmpty ==
  [][level' > level => queue[level'] = << >>]_<<cegarVars, run>>

(* The levels hand back and forth, but the analysis ends.                 *)
Termination == <>(verdict # "none")

(* Path of a conflict node: getPath ends at the root of its tree ("assert( *)
(* currentPos == 0 )", ReachTreev2.tpp:27).  It follows mParent, but a     *)
(* root that is added at a full capacity of the vector moves the roots     *)
(* before it, while their children keep the old address.                   *)
RootsMove(i, s) ==
  LET roots == R(strategy[i].over)!Roots(nodes[i])
      before == Cardinality({r \in roots : r < s})
  IN  s \in roots /\ before \in {2^k : k \in 0..before}

ParentsAreValid(i, n) ==
  \A c \in R(strategy[i].over)!AncestorsOrSelf(nodes[i], n) :
    nodes[i][c].depth = 1 => \A s \in c..Len(nodes[i]) : ~RootsMove(i, s)

PathsAreIntact ==
  [][level' > level /\ level > 1 => ParentsAreValid(level, Head(queue[level]))]_<<cegarVars, run>>
=============================================================================
