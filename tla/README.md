# Verification of HyPro's reachability analysis

HyPro computes over-approximations of the reachable states of hybrid automata.
This directory holds TLA+ models of its reachability algorithms, configurations
that check the models with TLC, and proofs checked by TLAPS. The models follow
the code under `src/include/hypro` (the library is mostly templates) and
`src/src`.

## 1. The system

| Part | State it keeps | Operations | What makes it correct |
|---|---|---|---|
| LTI analyzer (`algorithms/reachability/analyzer/LTIAnalyzer.*`) | work queue, reach tree, verdict | `run` | a success means that no run within the bounds meets a bad state; it returns |
| LTI worker (`workers/LTIWorker.*`, `LTIFlowpipeConstruction.*`) | none (a cache of matrices) | `computeTimeSuccessors`, `computeJumpSuccessors` | segments and successors include every run; node timings include the jump times |
| Reach tree (`datastructures/reachability/ReachTreev2.*`, `TreeNodev2.h`) | nodes, children, flags | `addChild`, `setFixedPoint`, `getPath` | the flag means what its comment says |
| Fixed-point detection (`fixedPointDetection.h`) | none | jump, continuous and Zeno tests | a dropped node is covered by one that is not |
| Bad-state handlers (`handlers/badStateHandlers`) | none | `ltiIntersectBadStates` ... | no bad state is overlooked |
| Settings (`datastructures/reachability/Settings.h`) | strategy, fixed parameters | constructor | all time steps are multiples of the fixed one |
| CEGAR and refinement analyzers (`CEGARAnalyzer.*`, `impl/RefinementAnalyzer.*`) | one reach tree per level, queue of paths | `run`, `createBaseLevel`, `createRefinementLevel` | a spurious conflict is refined, a real one reported, nothing skipped |
| Decompositional analyzer (`DecompositionalAnalyzer.*`, `DecompositionalUtil.*`) | a reach tree per subspace, clock values | `run`, synchronisation of jumps | subspaces stay in step |
| Singular and rectangular analyzers and workers | work queue, reach tree, what a worker keeps from node to node | `run` | verdict as above, and exact where sets are |
| Stochastic rectangular analyzer | the same, and densities | `forwardRun`, `backwardRun` | probabilities of reaching bad states |
| Context-based reachability (`Reach.*`, `contexts`, `handlers`, `discreteHandling.tpp`) | queue of tasks, contexts, handlers | `computeForwardReachability` | as above (the older implementation) |
| Timing (`timing/HierarchicalIntervalVector.*`, `EventTiming*`) | interval lists, timing trees | `insertInterval`, `intersectsEntry`, ... | a list denotes a function from time to entries |
| Work queues (`workQueue/*`) | queues shared by threads | `enqueue`, `getNextWorkable`, ... | nothing lost, nobody waits for ever |
| Statistics (`util/statistics`) | counters and clocks shared by threads | `add`, `start`, `stop` | counts are exact |
| Linear optimization (`util/linearOptimization`) | a constraint system, a solver instance per thread, a stored answer | changes of the system, `evaluate`, `checkPoint`, `checkConsistency`, `getInternalPoint`, `redundantConstraints` | answers are about the system as it is, whatever was asked before |
| Automaton composition and decomposition (`HybridAutomaton.tpp`, `decomposition`) | automata | `parallelCompose`, `decompose` | the product has the runs of both |
| Representations, conversions, numerics | sets | set operations | over-approximation |
| Parser, tool, plotting, Matlab bindings, examples | - | input and output | not modelled |

The analyzers are sequential. The tool builds the settings (a strategy with one
or more levels), parses the automaton, makes the roots of the reach tree and runs
one analyzer; the analyzer calls a worker for the flowpipe of a node and its jump
successors, adds the successors to the tree and to its queue, and consults the
fixed-point tests. What is hard is in the interplay: a node may be dropped because
of an older one that is itself not processed yet; the depth of nodes, the order of
the queue and the jump depth interact; segment indices, blocks and time steps are
converted into each other; the same flags are written by several tests; an analyzer that
stops at a conflict is resumed later; subspaces analyzed apart have to be put together again at
equal times. Threads occur in the work queues, the statistics and the solver contexts.

## 2. Modules

| Module | Models |
|---|---|
| `HybridAutomaton` | automata, and the set operations of a representation over any finite set of valuations |
| `LTIWorker` | segments, guards, blocks, successors, over sequences of sets |
| `ReachTree` | nodes, roots, children, paths, the fixed-point flag |
| `FixedPointDetection` | the tests of `fixedPointDetection.h` |
| `LTIAnalyzer` | `LTIAnalyzer::run` as a state machine, one action per step of the loop |
| `HybridRun` | one run of an automaton, with the earliest and latest time of its jumps |
| `ReachableStates` | what runs observe in a location and enter one with, as recursive functions over numbers |
| `Ordering` | the members of a set as an ascending list |
| `LTIVerification` | the analyzer with a run beside it, and the properties |
| `LTIInvariant` | the inductive invariants of the analyzer, its tree and the run beside it |
| `LTIProofs` | lemmas on the operators, and the theorems: types and soundness; what the tree says of runs |
| `Induction` | lemmas the proofs share: induction over numbers and intervals, sequences, ordered lists, what runs enter and observe |
| `CEGARAnalyzer` | the refinement loop over any number of levels, with a run beside it |
| `CEGARInvariant`, `CEGARProofs` | its inductive invariants, with runs as sequences of visits, and the theorems |
| `Subspaces` | decomposed automata, clocks, the composition of subspaces and their dependencies |
| `DecompositionalAnalyzer` | `DecompositionalAnalyzer::run`, with a worker per subspace |
| `DecompositionalVerification` | the same with a run of the undecomposed automaton, and the properties |
| `DecompositionalInvariant`, `DecompositionalProofs` | its inductive invariants and what the code takes for granted, and the theorems |
| `RectangularAutomaton` | rectangular automata and the handlers the two analyzers share |
| `RectangularAnalyzer`, `SingularAnalyzer` | the loops of the analyzers with their workers |
| `RectangularVerification` | both analyzers on one automaton, then a run of it, and the properties |
| `RectangularInvariant`, `RectangularProofs` | the inductive invariants of both, where they are exact and how their trees agree, lemmas on the operators, each analyzer's steps, and the theorems |
| `IntervalVector` | `HierarchicalIntervalVector` with its operations and queries |
| `Timeline` | the abstract specification of it: a type at every instant |
| `IntervalVectorProofs` | lemmas about sequences of end points, and the theorems |
| `WorkQueues` | workers on the queues of a `WorkQueueManager`, one step per lock |
| `TaskPool` | the abstract specification: a pool of tasks |
| `WorkQueuesProofs` | theorems about the queues |
| `Optimizer` | `Optimizer` with a GLPK instance per thread |
| `OptimizerProofs` | theorems about its queries |
| `MCAutomata`, `MC...` | instances for TLC |

### The LTI analyzer and the CEGAR analyzer

Valuations are the members of a finite set `Point`, and a state set is a subset of
it. `Over` is the over-approximation of the representation: every set operation of
the code that yields a set is followed by it. TLC runs use the interval hull (what
boxes do) and the identity (an exact representation); the proofs use only that
`Over[S]` includes `S` and that the empty set stays empty. Time is counted in time
steps: `flow` is the effect of one, and `during[l][p]` are the valuations on the way,
which the first segment has to include. The matrix exponential and the bloating of
the first segment are that relation; whether the numbers in the code are right is
outside the model.

A flowpipe is a sequence of sets, so segment k of the code is `flowpipe[n][k + 1]`.
The tree is a sequence of nodes in the order of their creation; the flowpipe, the
flag and the bounding box of a node change and are variables of their own. The
automaton and the settings are variables that never change, so that one TLC run
covers a whole family of both.

`LTIAnalyzer` splits an iteration of the loop at each point where the code branches:
`Dequeue`, `ComputeFirstSegment`, `ComputeNextSegment` (one iteration of the inner
loop each), the continuous fixed-point test (`SkipCoveredNode`), `ReportConflict`,
`PassCheck` (the depth), `ComputeJumpSuccessors` with the Zeno test, `AddChild` (one
successor: child node, timings, fixed-point test, bounding box, queue) and `FinishNode`
(the local test). `push_front` and `back` are `Append` and `Head`.

`CEGARAnalyzer` is coarser: its actions are iterations of the loops, because here the
interest is in what passes between levels. It uses the operators of `LTIWorker` and
`ReachTree` for the representation of each level (`R(over)!...`). A level has a
representation, a time step (a multiple of the fixed one), aggregation settings, a tree,
a queue and a path. `handleFailure` is `RefineNext` (the next level gets a root and the
path), `RefinementAnalyzer::run` is `CollectNode`, `RefineConflict`, `StopAtJumpDepth`,
`CollectChildren` and `FollowPath`, `transferNodes` is `TransferNodes`. The local vector
`pathSuccessors` is the variable `collected`, which is empty whenever `run` starts. The
conversion of a set into another representation is the `Over` of that representation. A
flowpipe that reaches its first bad segment ends there, as in the code, and the model
keeps such a truncated flowpipe in the node, because the code takes it up again. The base
level has fixed-point detection and the Zeno test off: `mRoots` of its analyzer refers to
a vector that no longer exists (`CEGARAnalyzer.tpp:14-17`), so with the tests on there is
no state to model.

The continuous test projects segments on the variables that change with time. The
field `alike` of an automaton gives the valuations that a location's projection cannot
tell apart, and `Project` is the set of valuations alike to a member.

Left out of these modules: urgent transitions and trigger times (the LTI worker ignores
them), interval resets (the code asserts there are none), external input.

### The decompositional analyzer

A subspace is a component of a valuation and has values of its own; it is discrete,
singular or segmented, which decides the worker that handles it. With clocks, a value of a
subspace goes with its clock values, each with what the clock showed at first, and the
sets of a subspace are sets of such records. `Dequeue`, `ComputeTimeSuccessors`,
`IntersectSubspacesWithClock` (which also removes redundant segments), `ReportConflict` or
`PassCheck`, `ComputeJumpSuccessors`, `AddSuccessor` or `AddSynchronizedSuccessor` (the latter
when all clocks are used up: subspaces are composed, related, and their clocks reset) and
`FinishNode` follow the loop of `run`. `getDependencies` keeps the rows of the composed polytope that involve
more than one subspace. The model has a row for every sum and difference of two subspaces, and
leaves it out where the ranges of the two imply its bound: then the subspaces are independent, the polytope has
rows of one subspace each, and the new dependencies are trivial, as after a reset to a constant. Relations
of three subspaces at once are not kept, which is the weaker condition; the instances have two. The trees of the subspaces grow in step, so a node of
the model stands for the nodes with the same index. The automaton of the run is the product
of the subspaces.

### The singular and the rectangular analyzer

Time elapse gives one set per location, so `TimeElapse` is everything reachable within the
horizon (or ever, without one), cut with the invariant afterwards. The two workers differ in
what they keep: that of the singular analyzer is reset at the end of an iteration
(`ResetWorker`), that of the rectangular one is cleared at the start (`Dequeue`), and a
transition has one successor in the first and a list in the second. The bad-state handlers
differ too (`LtiIntersectsBadStates`, `RectangularIntersectBadStates`).

### Interval vectors, work queues, the optimizer

`IntervalVector` keeps the vector as a sequence of end points; an operation is a step, and
splitting and erasing inside it are operators. Time is counted in units, so an interval
between end points is a set of cells, and `Timeline` is a function from cells to types.

`WorkQueues` has a worker per thread that runs the loop of
`example_singularReachability.cpp` (`while hasWorkable, getNextWorkable, process`). Looking at
one queue, taking an entry, and adding one are steps, because each holds one lock.

`Optimizer` has systems with one variable, whose solutions are an interval; the solver is
the operator `Solved`, an external part modelled by what the code relies on: status and
optimum of an instance with bounds on rows and column. A thread's instance is what matters
here, because it survives a query: its rows, the bounds of its column, its objective and
its sense are state (`context`), and every query is modelled by what it sets first and what
it leaves. `checkConsistency` and `getInternalPoint` write the stored answer and its flag one after
the other, in different orders, and other threads may come in between. The system itself is
changed only while no query is under way, since the code reads it without a lock.

## 3. Runs

| Run | States | Shows |
|---|---|---|
| `lti_soundness` | 65,107 | soundness of a success, processing of what was dropped as covered, timings, the assertion of the worker, real conflicts without aggregation, termination |
| `cegar` | 69,708 | SAFE and UNKNOWN are both right, refinements start empty, termination, with two and three levels |
| `decompositional` | 46,335 | soundness against the undecomposed automaton, conflicts are real with one clock and singular subspaces, segments that are read exist, what the code takes for granted holds here, termination, no deadlock |
| `singular_rectangular` | 65,346 | runs are covered, verdicts are right in both directions, the two analyzers agree, termination |
| `interval_vector` | 1,081 | vectors are sane, operations do what they are called for, queries answer as the code asserts |
| `work_queues` | 31,362 | nobody leaves a task behind, every entry is taken, refinement of a pool, termination |
| `optimizer` | 288,958 | optima, points, redundant rows and the stored answer are right whatever came before |
| `zeno_unsound`, `lost_successors`, `roots_moved`, `dependencies_overwritten`, `consistency_stale` | | violations, see section 6 |

Bounds of `lti_soundness`. One variable with the values 0 to 3 and two locations `a` and `b`, constant
slopes up, down and none, with and without a reset, invariants that end a flowpipe early
and late, guards met by the first, by later and by no segments, bad states local and global. Horizons
of two to four time units with a step of two give flowpipes of two and three segments, so
that blocks are complete and incomplete; a jump depth of two and three lets a location be
entered again and from both sides. A second family (`DetourFamily`) reaches the same
valuation by ways of different length, which is where the order of the queue
matters. Seven settings combine jump fixed points, coverage, local fixed points,
clustering, aggregation and none of it; the continuous test is on, for first segments, with
automata in which every variable changes with time. Automaton and settings are part of the
initial state. `CHECK_DEADLOCK FALSE`: the analysis ends, and runs end at the bounds.

`cegar` has all these automata, a horizon of two steps, a jump depth of two,
sixteen strategies of two levels (a first level of pairs of valuations or of boxes, with a time step of
one or two, with and without aggregation and clusters, and an exact second one) and
four of three levels (pairs, boxes and exact sets). Paths of length
zero to two, several nodes on a path, nodes in the tree from an earlier refinement, and
nodes handed back through two levels all occur. That `Soundness` holds here with three levels
too is due to the size of the automata: `lost_successors` has one where it does not.

`decompositional` has two subspaces of the values 0 to 3, in all pairs of dynamics that lead to
different code, no clock, a clock for every jump, and one or two clocks that wrap around, where
no node has two successors (with two, `dependencies_overwritten` ends in a counterexample). A
horizon of two steps gives three segments, a jump depth of two a second synchronisation.
Deadlock is checked: the only state without a step of the analysis is one with a verdict.

`singular_rectangular` has rectangular and singular automata with two initial states and two
transitions between the same locations, horizons of one, two and none, jump depths of one and two;
the singular analyzer gets the singular automata with a horizon. `interval_vector` has three types,
a horizon of four, and combines with vectors of up to three intervals: every state that the operations lead
to is visited and every query asked. `work_queues` has up to three workers, two queues and five
tasks, two of which are created twice and one at both ends. `optimizer` has two threads, up to two
constraints with coefficients 1 and -1 and constants 0 and 1, so that systems are empty, bounded,
unbounded, redundant and infeasible; threads are interchangeable.

Fairness. `WF(Analyze)`: `run` is a sequential loop that nothing interrupts. A run of
the automaton is under no fairness. `DecompositionalVerification` writes the same condition as
"the analysis has a verdict or steps again and again", which is equal since the absence of
deadlocks is checked. `WF(Step(w))` for each worker: a thread is scheduled, and nobody holds a lock for
ever.

## 4. Proofs

TLC checks small instances; the theorems below hold for every value of the constants. Every invariant
that a passing run checks is the statement of a theorem, except `TakenForGranted`, which is a hypothesis of
theorems, and `ConflictIsReal` of the decompositional analyzer.

### The LTI analyzer

`LTIProofs` proves for every finite set of valuations, every over-approximation,
every set of automata and of settings:

* `TypeCorrect`: the type invariant;
* `SuccessIsSound`: if the continuous and the Zeno test are off and no local bad
  condition is false (`SoundConfiguration`), a success means that no run within the
  bounds visits a bad state;
* `NothingDroppedIsLost`: under the same condition a success means that every valuation a node was added with,
  covered nodes included, is in a node of its location that has no fewer jumps left, whose flowpipe is
  complete and clean, and whose successors all have nodes (`DroppedNodesAreProcessed`).

None of the three parts of the condition can be dropped: the run `zeno_unsound` has a
success with a reachable bad state when the Zeno test is on; the other two are described
under "Further places" in section 6.

Assumptions: `OverAssumption` (the representation over-approximates and keeps the
empty set), `AutomataAssumption` (a step starts and ends where it should, initial
states satisfy the invariant, a clustered transition has a positive bound),
`PointAssumption` (finitely many valuations), `ParametersAssumption` (types).

The argument. `Soundness` is not inductive: what keeps a run inside the flowpipes is
that no successor was lost, and a successor may be dropped because an older node
covers it that is not processed yet. `IInv` therefore says (`CoverInv`) that every
valuation of every node's initial set belongs to a node of the same location that is
no deeper in the tree and is either done or still open, where done means that the
flowpipe is complete and safe and has a child for every successor. "No deeper" is
needed because the covering node must have as many jumps left; it is preserved since
the queue is breadth first (`BreadthFirst`): a new child is one level below the
current node and no older node is deeper than that. When the queue runs empty no node is
open, so every valuation is in a done node, and a run can be followed from done node
to done node (`RunInv`): elapse stays in the next segment, a jump leads to a valuation
of the successor set of some block, hence of a child, hence of a done node.

It also proves what the tree is about, for the same constants:

* `TreeInvariance`: the tree starts with the roots, and every further node is the child,
  for one of its jump successors, of an earlier node whose flowpipe was complete by then;
* `NodesMeetInvariants`: the assertion of `computeTimeSuccessors`, that the first segment of a node is
  not empty, if no initial state is (`InitialStatesExist`);
* `ConflictsAreReal`: the converse of soundness. If segments are not united and the
  representation keeps a class of sets that no operation of the analysis leaves
  (`NothingApproximated`), a failure means that a run meets a bad state, with no more jumps
  than the conflict node is deep;
* `SkipsNothing` and `RunsAreFollowed`: with the fixed-point tests and the Zeno test off, every node is open
  or done until a conflict ends the loop, and every run has a node with its path of transitions, whose
  timings include the time of its last jump. `TimingsFollowRuns` is about analyses without fixed-point
  tests anyway; the theorem has to exclude the Zeno test too, which leaves out jumps.

For `ConflictsAreReal` the class of sets is a witness `K` with `Keeps(K)`, fixed for the whole analysis: by
induction over the tree (a node comes after its parent) every initial set is in `K` and
consists of valuations that a run enters the location with by as many jumps (`Entered`), and every segment is in `K`
and consists of what runs observe (`Observed`). Both are recursive functions over numbers, unfolded in
`Induction`. All automata of `lti_soundness` satisfy
`Keeps` with the intervals for `K`, and `InitialStatesExist`.

### The rectangular and the singular analyzer

`RectangularProofs` proves for every set of valuations (finite or not), every
over-approximation, every set of rectangular automata and of settings:

* `AnalyzerTypes`: the types of both analyzers, among them that no successor set is empty
  and no queue holds a node without a place in the tree;
* `SuccessIsSafe`: if the global bad condition has constraints and no local one is false
  (`SoundConfiguration`), no run within the horizon and the jump depth visits a bad state
  after a success of either analyzer. A horizon of no bound is included;
* `EveryRunIsCovered`: after a success, and with any bad states, whatever a run visits within the horizon and the
  jump depth is in the flowpipe of a node with the path of jumps of the run;
* `FailuresAreReal`: if the analysis is exact (`IsExactAnalysis`), a failure of either analyzer means
  that a bad state can be reached;
* `BothAnalyzersAgree`: given the same singular automaton, and with `SoundConfiguration`, both come to the same
  verdict, and a success leaves trees of the same size with the same paths, locations, initial sets and flowpipes.

The two conditions are what the two bad-state handlers need: the rectangular one passes
over a global condition without rows, the other one does not look at the global condition
when the local one is false.

Assumptions: `OverAssumption`, `AutomataAssumption`, `ParametersAssumption` of
`RectangularAutomaton`; they are types, except for the first, which is as above. `MCRectangular` assumes in
addition, for TLC to evaluate, that all automata of the run are exact with the intervals as the
sets that boxes keep (`ExactAssumption`), so `FailuresAreReal` is not about nothing.

The argument. No test drops a node here, so the invariant is about nodes and not about who
covers them: every node is queued, the current one, or done, which means that its flowpipe has
everything its initial set can reach by time (`IsCovered`) and every jump from there leads
into a child (`IsExpanded`). While a node is current, `WorkerInv` says how far it has
come: what the flowpipe of the worker has, what is in its map, and that each pair of the map is
either pending or has its child. The invariant of the singular analyzer differs where the code
does: the worker is empty between two nodes, the flowpipe is stored late, and of the states that
enable a transition only the last counts, which is right because there is never more than one
(`Len(singularFlowpipe) <= 1`). Both rest on the same lemmas about trees that only grow
(`Grows`). Runs are followed as above; within a node by induction over steps, which is the
step from `Within(..., k)` to `Within(..., k + 1)`, or by the least closed set (`Ever`).

Paths of nodes are a recursive function over the tree. It is unfolded once per node, which is justified because
a node comes after its parent (`ParentsFirst`). For failures the invariant is
`FailureInv`: the sets of both trees are kept by the representation and contain only valuations that can be reached with as many jumps as the node is
deep (`ReachedWith`). Its hard part is the elapse without a horizon, where the reference semantics
counts as many steps as there are valuations: if one more step led to something new, every layer
before would have a valuation of its own, which are more than there are.

The two analyzers agree because both build the one tree that the singular worker determines
(`AgreementInv`): the first nodes are the initial states in their order, every other node is a successor of its parent
as that worker computes it (`IsBuilt`), no node has two children for a transition, and a node is worked on exactly
once, after which its flowpipe is the computed one, it is safe, and there is a child for each transition that can be taken
(`WorkedOnOnce`). The order of siblings is open, so the trees are compared node by node: by induction over the one tree each
node has a counterpart in the other, with the same path, and not two nodes have the same; so there is a bijection,
and the trees are of the same size. If one of them holds a node with a bad state, so does the other, and the other
cannot have ended with a success. On singular automata the computations of the two workers are equal, which is where
the different bad-state handlers need the condition. TLC checked `AgreementInv` on the instances of
`singular_rectangular`.

### The work queues

`WorkQueuesProofs` proves for any number of workers and queues, and whatever tasks a task
creates:

* `QueueTypes`: the type invariant (a worker holds a task just while it processes one);
* `NobodyLeavesATask`: no worker comes to an end of its work while a queue holds something
  that no other worker still comes past. Inductive with the types: every queue that is not
  empty is watched by some worker that has not passed it;
* `QueuesAreAPool`: the queues with their locks implement `TaskPool`, a set of tasks from which
  a worker takes one. It needs that no task is queued twice (`PoolInv`), which is where the
  test in `enqueue` matters.

Assumption: `QueuesAssumption` (types of what tasks create, initial queues without duplicates, no task is
`NoTask`).

### The refinement loop

`CEGARProofs` proves, for every finite set of valuations, all strategies and all automata:

* `CEGARTypes`: queues, conflict nodes and collected nodes belong to their levels, for any number of
  levels;
* `RefinementsStartEmpty`: the assertion of `setRefinement`, for any number of levels;
* `TwoLevelsAreSound`: with two levels and no local bad condition that is false (`HasTwoLevels`), `SAFE`
  means that no run within the bounds meets a bad state;
* `UnknownVerdictsAreReal`: if the last level is exact (its time step is the fixed one and its
  representation keeps every set, `LastIsExact`) and initial states are not empty, `UNKNOWN` is only reported if a
  run meets a bad state, for any number of levels and whatever the levels before the last are.

Two is the right number for soundness: `lost_successors` is a counterexample with three levels. A local
condition that is false hides the global one, as for the LTI analyzer. The strategies of the run `cegar` all end in
an exact level, and sixteen of the twenty have two.

Assumptions: those of `HybridAutomaton`; `StrategiesAssumption` (at least two levels, each representation
over-approximates and keeps the empty set), `BoundsAssumption` (types) and `InitialLocationsAssumption` (a
location has one initial state: `mInitialStates` is a map).

The argument has three layers. `LevelsInv` is about the levels: types; every node is a
root or stems from an earlier node of its level (`TreeInv`); a level below the running one waits for its conflict
node, whose path the next level follows (`ControlInv`).

`SoundInv` is about what is left to do. A run is a trace, a sequence of visits to locations
with entry, duration and the interval in which each jump happened, and a node covers a trace if its initial
set includes the visit at its depth and its path has the trace's transitions at matching times
(`Covers`). `CoverInv`: every trace is safe at its end, or covered by a node in the base queue, or by the
conflict node and by a node the refinement still has in its queue or has collected. Each
action moves a trace from one of these to another: expanding a base node gives it to a child, a
conflict to the root of the path, following the path to a child whose timings overlap those on the path, handing
back to the base queue. Since a refinement takes up nodes and children of earlier ones,
`KeptInv` says that a flowpipe that is kept is whole and clean, and `ChildrenInv` that a node with a
child for a transition has all of them.

`PathInv` and `ReachedInv` are the other direction: a path is a chain of jumps from a root to the conflict node, all a
level works on is on the path or one jump behind it, and what the exact last tree contains
is entered by runs with as many jumps as the node is deep. An exact tree only reports a bad state that is reached.

TLC checked each of these invariants on the instances of `cegar` before it was proved.

### The optimizer

`OptimizerProofs` proves for every number of threads, rows and constants:

* `InstancesStayCurrent`: the inductive invariant. An instance that may be used has the rows of the
  system as it is now, and the stored answer is no false `FEAS` whenever somebody relies on it;
* `OptimizerTypes`: the type invariant;
* `EvaluationsAreRight`, `PointsAreRight`, `RedundantRowsAreRedundant`: the answers of `evaluate`, `checkPoint` and
  `redundantConstraints`, each with the condition that is part of the property;
* `StoredAnswersAreReal`: when all queries have ended, a stored answer `FEAS` is about a system with a
  solution, in all interleavings of the two writes.

Assumption: `NumberAssumption` (numbers include 0 and are smaller than what stands for infinity).

The argument. A query leaves objective, sense and column bounds in the instance, so the proofs show
that each query overwrites what it depends on. Redundant rows are removed from last to first, and
each is tested against the rows not yet found redundant: `Found` says after k rows that the solutions of the
remaining rows are those of the system, which is an induction over `Tested`. For the stored answer the
invariant counts who relies on it (`AnswerCounts`): a thread about to return it, or anyone once the
flag is set and nobody is about to write. Only a false yes is excluded: the stored answer may be a false no,
which needs no second thread (`consistency_stale`). What a thread reads between the two writes of another one
is in the model, but the property is about the answer that is left when all queries have ended.

### The decompositional analyzer

`DecompositionalProofs` proves, for any number of subspaces, any values, any automata and settings:

* `DecompositionIsTyped`: the type invariant, in which sets have the type of their subspace and no initial set has a clock
  beyond the global time interval;
* `DecompositionIsSound`: a success means that no run of the undecomposed automaton within the bounds
  meets a bad state, if `TimesAreBracketed` and `NothingOverwritten` hold throughout the analysis;
* `EnoughClocksAreSound`: the same without a condition on the course of the analysis if there are no clocks, or
  more clocks than jumps and no segmented subspace (`ClocksSuffice`);
* `FirstSegmentsAreThere`: `isSafe` and `getDiscreteJumpSuccessors` never read a segment that is not there, if
  initial states satisfy the invariant and the clock times of successors are intervals.

The hypotheses are what the code relies on and does not test. `NothingOverwritten`: no successor follows a synchronised one
(else `dependencies_overwritten` happens). `TimesAreBracketed`: no segment has clock times outside those of the first and the
last one (else see section 6). `StartsInInvariant` and `SuccessorsHaveNoGaps`: `IntersectWithClock` cuts with intervals, and
an interval that hides a gap may leave nothing. They are conditions on the state, so the run `decompositional` checks
all four in every state of all its analyses (`TakenForGranted`): the theorems apply to all of it, synchronisations included.

Assumptions: `SubspaceAssumption`, `ValueAssumption` (subspaces are numbered, values are bounded integers) and
`AnalysesAssumption` (types; a subspace is discrete only if time leaves its variables alone).

The argument. An instant of a run of the whole automaton is a triple: the values of all variables, their values at the last
synchronisation, and the clocks. Each subspace sees its part of it (`ValuationOf`), and an instant is in a node if each part
is in the set of its subspace and the initial values satisfy the dependencies of the node (`IsEntry`). The invariant follows
instants through the loop: a stay in the current node is covered by the flowpipes, by segments with a common index
(`StayIsCovered`), is not bad once the check has passed, and its jumps have a pending successor or a child
(`StayIsLeft`); a node that is not open has all this behind it (`IsDone`). What has to be shown is that no cut loses an
instant. Clocks are the reason: all subspaces see the same clock, so its time is among the times of every subspace, and the
common times include it. That is also why an instant is in the composition of the cut sets that `isSafe` and the
synchronisation compute; after the latter it gets new clocks and its own values as initial ones, and these satisfy
the new dependencies, which hold for all of the composed set.

First segments: all clocks of a valuation agree, as they are set to zero together and no jump resets one (the discarded
result of `projectOn` matters here), and what one subspace can be at a time every other can, too (`AlignedInv`).
Then the times at which a node starts are common to all subspaces and survive the first cut.

### Interval vectors

`IntervalVectorProofs` proves for any horizon, any order of types and any vectors to combine with:

* `VectorsAreSane`: `isSane`, and that time points increase but at the two ends;
* `VectorOperationsAreExact`: inserting, filling, merging and uniting do to the type at each instant what they
  are called for (`VectorsAreTimelines` says the same as an implementation of `Timeline`);
* `VectorCoverIsExact` and `VectorIntersectionIsFound`: the answers of the two queries, the latter with the condition that is
  part of the property.

Assumptions: `OrderAssumption` and `HorizonAssumption` (types), and `OthersAssumption`: the vectors to combine with are sane, which every operation asserts of
its own.

The argument. A sane sequence of end points partitions time, so the type at an instant is that of the one interval that has
it. `Split` replaces one end point by one to three that cover the same time, at each of which the prevailing
type wins (`SplitReplaces`). The vector after an insertion is the concatenation of these pieces, taken through the list by
induction (`FlattenSeqIsDefined`), and without the end points whose neighbour to the right has the same type, which changes
no instant (`SanitizedKeeps`, again by induction). Merging and uniting insert one interval after the other, and with each
the type up to the end of that interval is the better of the two. The proofs use no induction theorem of the library: `Induction` derives
what is needed from the fact that a set of numbers has a least member, with sets in place of predicates.

### Only model-checked

Liveness (`Termination` of each analyzer and of the workers, `EveryTaskIsTaken`) is beyond the prover, and so are
the five runs that end in a counterexample. `ConflictIsReal` of `decompositional` is checked and not proved. `TakenForGranted` is not a theorem and cannot be one: what it says is false
for some automata. The theorems with conditions are about every state space, while the runs check the
properties without them where the instances satisfy them.

## 5. Hazards

`PROJECT.json` lists what is hard to test in this code, line by line, and the properties
that would catch it. In the modelled parts the recurring ones are: a decision to drop a
node that relies on another node's future (the order of the queue, jumps left); tests
that read flags and flowpipes while they are being built; indices and times at different
time steps; results that are lost when an analyzer stops in the middle and is resumed; a
worker or a solver instance that is used again and still holds what it held before; variables
that relate subspaces and are assigned before their last use; two locks where one would be
needed. The hazards of parts without a model carry a note.

## 6. Where the code and its comments part

Each is a run that TLC ends with a counterexample, and a finding with its quotation.

* `lost_successors`: a refinement level collects the successors behind its path in a
  local vector. When one of its later nodes fails, the vector is dropped, and after the
  refinement only the rest of the queue is processed. The example: a middle level with two
  nodes at the end of the path that are far apart in time; the first is clean, its
  successors are lost, and one of them is bad. The analysis reports SAFE.
* `roots_moved`: a refinement level keeps its roots in a vector and adds them on demand.
  The second one moves the first, whose children point to where it was; the path of a
  later conflict below it is read through that pointer.
* `zeno_unsound`: a jump back over an identity transition is omitted for a whole flowpipe
  when the initial set enables it, although time evolution has changed the later
  segments. The test is on by default.
* `dependencies_overwritten`: when the clocks are used up, the dependencies of the current
  node are replaced by those of its first successor, and the second successor is composed with
  those. The example: two transitions are enabled in the initial node, the first adds one to `x1` and the
  second changes nothing. The first successor is composed to the points (2, 1) and (3, 2), whose rows
  relate the subspaces: the difference of the variables is one. The initial values of the second successor are both
  zero, which violates that, so it is composed to nothing. A run that takes the second transition meets the bad
  state (2, 2), and the analysis reports a success.
* `consistency_stale`: one thread. `checkPoint` fixes the columns of the instance to its point
  (`adaptions_glpk_double.cpp:57`) and leaves them so; `checkConsistency` solves the instance as it finds it
  (`Optimizer.tpp:305`). After a point outside the system it answers that there is no solution, stores that, and
  answers so until the system changes.

Further places, where the model follows the code and no run is about the difference. The
unsound ones among them were seen as counterexamples before the properties were stated with
the conditions they need:

* LTI analyzer: the first covered child marks its parent as a fixed point (`ReachTreev2.tpp:38`);
  the local test compares a segment with itself and marks every node without children
  (`LTIAnalyzer.tpp:109`); one covered segment among the first ones drops the whole node in the
  continuous test, which ignores variables that do not change and comes before the safety
  result, so that a conflict may be dropped with the node; a local bad condition that is false ends
  the test before the global bad states; block sizes are one too large when the division is
  even (`LTIWorker.tpp:233`); transitions the model marks for aggregation or clustering give one
  successor per segment under `MODEL` (`LTIWorker.tpp:240`); the block size of a refinement
  level counts all segments instead of the enabled ones (`LTIWorker.tpp:58`); the second error matrix
  of the first segment is computed and not used (`LTIFlowpipeConstruction.tpp:100`).
* CEGAR analyzer: with a strategy of one level a conflict asks for a level that does not exist
  (`CEGARAnalyzer.tpp:43`).
* Decompositional analyzer: `resetUnusedClocks` changes nothing (`DecompositionalAnalyzer.tpp:299`), so that with more
  than one clock no clock shows when a jump was taken and a conflict may be spurious (`ConflictIsReal` is
  about one clock); the
  segment horizon computed from the clocks is discarded (`:147`); of a segmented subspace only the clock times of the first and
  the last segment count (`DecompositionalAnalyzer.h:186`). With clocks that are spread over the initial set of a
  node, which takes a jump before, and an invariant that the late valuations leave and the early ones do not, a segment
  in between has a clock time outside of these. It is cut away, and with it all further ones, "because they have higher clock
  values" (`DecompositionalAnalyzer.tpp:172`), so that a bad state behind it is missed. TLC finds that on an automaton with a
  segmented and a singular subspace, outside of the instances of `decompositional`.
* Rectangular analyzer: with any method but forward and backward `run` returns an uninitialised value
  (`RectangularAnalyzer.tpp:7`).
* Interval vectors: `intersectsEntry` overlooks the first interval for a query that begins in it and
  ends behind it (`HierarchicalIntervalVector.tpp:143`, against its own assertion `:165`), `fill` from 0
  leaves a first interval of no length.
* Work queues: with several workers `getNextWorkable` may have nothing although `hasWorkable` said so
  (against the assertion in `example_singularReachability.cpp:114`).
* Optimizer: of rows with a lower bound or an equation `redundantConstraints` tests both signs
  with `&&` where either would do, so that of `x >= 1` and `x >= 2` both are reported
  (`adaptions_glpk_double.cpp:112`), and it leaves its sense in the instance; refining a solution looks at
  upper rows only; `getInternalPoint` on an unbounded system stores a status that a later
  `checkConsistency` takes for no; the map of instances is read outside the lock that guards its
  growth (`Optimizer.tpp:187`).

## 7. What is left

In this order:

1. The clock times of segments in between, as a run of its own, and weaker conditions under which
   `TimesAreBracketed` holds: convex invariants and clocks without spread.
2. The fixed time step of `Settings` against its definition; the LRU cache as a refinement of a bounded
   map; statistics with their temporary locks; composition of automata against pairs of runs.
3. The context-based implementation (`Reach`, handlers, contexts), the older form of the LTI analyzer, and
   the timing tree (`EventTiming`).

Not modelled. The stochastic rectangular analyzer: its densities are numerics, and in this state of the
code it does not compile with its worker. Representations, conversions, linear algebra, quantifier elimination and
geometry: real arithmetic, for which `Over`, `during` and `Solved` stand. Parsing, plotting, the command-line tool,
bindings and examples: input and output without a state of their own. Most lines of the repository are
none of the library's: the solver and the parser runtime are vendored (`src/resources`), the parsers are
generated from grammars.
