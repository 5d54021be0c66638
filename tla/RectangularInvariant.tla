------------------------ MODULE RectangularInvariant ------------------------
(***************************************************************************)
(* The inductive invariant behind the soundness of the rectangular and the *)
(* singular analyzer.                                                      *)
(*                                                                         *)
(* A node is done once its flowpipe has everything its initial set can     *)
(* reach and everything that jumps from there has a node.  Every node is   *)
(* queued, the current one or done, and whatever is in a flowpipe has been *)
(* tested for bad states unless the loop gives up.                         *)
(***************************************************************************)
EXTENDS RectangularVerification

(* A global condition without constraints is passed over by the           *)
(* rectangular handler, and a local one that is false hides the global    *)
(* one from the other.                                                    *)
SoundConfiguration == ha.globalBad # Point /\ ha.localFalse = {}

(* What the automaton can be at in a location it enters from a set.       *)
Visited(A, P, l, S) == Reached(A, l, S \cap A.invariant[l], P.horizon) \cap A.invariant[l]

InFlowpipe(fp, p) == \E k \in DOMAIN fp : p \in fp[k]

(* A jump of the automaton from p to q by t.                              *)
Follows(A, l, p, t, q) ==
  /\ t \in TransitionsFrom(A, l)
  /\ p \in A.transition[t].guard
  /\ q \in A.transition[t].reset[p] \cap A.invariant[A.transition[t].target]

VisitedAt(A, P, tree, n) == Visited(A, P, tree[n].location, tree[n].initialSet)

IsCovered(A, P, tree, n) == \A p \in VisitedAt(A, P, tree, n) : InFlowpipe(tree[n].flowpipe, p)

HasChild(A, tree, n, t, q) ==
  \E c \in DOMAIN tree :
    /\ tree[c].parent = n
    /\ tree[c].transition = t
    /\ tree[c].location = A.transition[t].target
    /\ tree[c].depth = tree[n].depth + 1
    /\ q \in tree[c].initialSet

(* The transitions taken from a node and the valuations they lead to.     *)
Jumps(A, P, tree, n) ==
  {jump \in (DOMAIN A.transition) \X Point :
     \E p \in VisitedAt(A, P, tree, n) : Follows(A, tree[n].location, p, jump[1], jump[2])}

IsExpanded(A, P, tree, n) ==
  tree[n].depth < P.jumpDepth =>
    \A jump \in Jumps(A, P, tree, n) : HasChild(A, tree, n, jump[1], jump[2])

Done(A, P, tree, n) == IsCovered(A, P, tree, n) /\ IsExpanded(A, P, tree, n)

Queued(queue, n) == \E i \in DOMAIN queue : queue[i] = n

HasRoots(A, tree) ==
  \A i \in DOMAIN A.initial : \E n \in DOMAIN tree :
    /\ tree[n].parent = 0
    /\ tree[n].location = A.initial[i].loc
    /\ tree[n].depth = 0
    /\ tree[n].initialSet = A.initial[i].set

(* A node is added after its parent; roots have the parent 0.             *)
ParentsFirst(tree) == \A n \in DOMAIN tree : tree[n].parent \in 0..n - 1

IsSafeAt(A, l, fp) == \A k \in DOMAIN fp : fp[k] \cap BadStates(A, l) = {}

IsSafe(A, tree) == \A n \in DOMAIN tree : IsSafeAt(A, tree[n].location, tree[n].flowpipe)

BusyPcs == {"time", "jumps", "store", "children"}

--------------------------------------------------------------------------
(* The rectangular analyzer.                                              *)
ControlInv ==
  /\ pc \in BusyPcs => task \in DOMAIN nodes
  /\ pc \in {"start", "dequeue", "time"} => safe
  /\ pc \in {"jumps", "children"} => safe
  /\ pc \notin {"children", "done"} => pending = {}
  /\ pc = "time" => flowpipe = << >> /\ jumpSuccessors = NoSuccessors
  /\ pc = "jumps" => nodes[task].depth < par.jumpDepth
  /\ pc = "start" => nodes \in {Roots(ha), << >>}
  /\ pc = "done" <=> result # "none"
  /\ result = "success" => workQueue = << >> /\ safe

TreeInv ==
  pc # "start" =>
    /\ HasRoots(ha, nodes)
    /\ \A n \in DOMAIN nodes :
         Queued(workQueue, n) \/ (pc \in BusyPcs /\ n = task) \/ Done(ha, par, nodes, n)
           \/ result = "failure"

(* What the worker holds of the current node.                             *)
WorkerInv ==
  /\ pc \in {"jumps", "store", "children"} /\ safe =>
       /\ IsCovered(ha, par, nodes, task)
       /\ \A p \in VisitedAt(ha, par, nodes, task) : InFlowpipe(flowpipe, p)
  /\ pc = "store" /\ safe /\ nodes[task].depth < par.jumpDepth =>
       \A jump \in Jumps(ha, par, nodes, task) : \E s \in DOMAIN jumpSuccessors :
         s[1] = jump[1] /\ jump[2] \in jumpSuccessors[s]
  /\ pc = "children" /\ nodes[task].depth < par.jumpDepth =>
       \A jump \in Jumps(ha, par, nodes, task) :
         \/ HasChild(ha, nodes, task, jump[1], jump[2])
         \/ \E s \in pending : s[1] = jump[1] /\ jump[2] \in jumpSuccessors[s]

RectangularInv ==
  /\ TypeOK
  /\ ControlInv
  /\ ParentsFirst(nodes)
  /\ TreeInv
  /\ WorkerInv
  /\ SoundConfiguration /\ safe => IsSafe(ha, nodes)

--------------------------------------------------------------------------
(* The singular analyzer: its worker is empty between two nodes, and of a *)
(* flowpipe of one state the last one that enables a transition is the    *)
(* only one.                                                              *)
SingularControlInv ==
  /\ singularPc \in BusyPcs => singularTask \in DOMAIN singularNodes
  /\ singularPc \in {"dequeue", "time", "jumps", "children"} => singularSafe
  /\ singularPc \notin {"children", "done"} => singularPending = {}
  /\ singularPc \in {"dequeue", "time"} =>
       singularFlowpipe = << >> /\ singularSuccessors = Singular!NoSuccessors
  /\ Len(singularFlowpipe) <= 1
  /\ singularPc = "jumps" => singularNodes[singularTask].depth < par.jumpDepth
  /\ singularPc = "done" <=> singularResult # "none"
  /\ singularResult = "success" => singularQueue = << >> /\ singularSafe

SingularTreeInv ==
  /\ HasRoots(ha, singularNodes)
  /\ \A n \in DOMAIN singularNodes :
       Queued(singularQueue, n) \/ (singularPc \in BusyPcs /\ n = singularTask)
         \/ Done(ha, par, singularNodes, n) \/ singularResult = "failure"

SingularWorkerInv ==
  /\ singularPc \in {"jumps", "store"} /\ singularSafe =>
       /\ \A p \in VisitedAt(ha, par, singularNodes, singularTask) : InFlowpipe(singularFlowpipe, p)
       /\ SoundConfiguration =>
            IsSafeAt(ha, singularNodes[singularTask].location, singularFlowpipe)
  /\ singularPc = "store" /\ singularSafe /\ singularNodes[singularTask].depth < par.jumpDepth =>
       \A jump \in Jumps(ha, par, singularNodes, singularTask) :
         /\ jump[1] \in DOMAIN singularSuccessors
         /\ jump[2] \in singularSuccessors[jump[1]]
  /\ singularPc = "children" =>
       /\ IsCovered(ha, par, singularNodes, singularTask)
       /\ singularNodes[singularTask].depth < par.jumpDepth =>
            \A jump \in Jumps(ha, par, singularNodes, singularTask) :
              \/ HasChild(ha, singularNodes, singularTask, jump[1], jump[2])
              \/ jump[1] \in singularPending /\ jump[2] \in singularSuccessors[jump[1]]

SingularInv ==
  /\ Singular!TypeOK
  /\ SingularControlInv
  /\ ParentsFirst(singularNodes)
  /\ SingularTreeInv
  /\ SingularWorkerInv
  /\ SoundConfiguration /\ singularSafe => IsSafe(ha, singularNodes)

--------------------------------------------------------------------------
(* The run is at what a node with its path can reach in as many steps.    *)
Elapsed(A, P, l, S, steps) ==
  Reached(A, l, S \cap A.invariant[l], IF P.horizon < 0 THEN P.horizon ELSE steps)

Tracks(A, P, tree, n, r) ==
  /\ Path(tree, n) = r.path
  /\ tree[n].location = r.location
  /\ tree[n].depth = Len(r.path)
  /\ r.valuation \in Elapsed(A, P, r.location, tree[n].initialSet, r.steps)

RunType(A) ==
  [location : Location, valuation : Point, steps : Nat, path : Seq(DOMAIN A.transition)]

RunInv ==
  run # NoRun =>
    /\ Finished
    /\ run \in RunType(ha)
    /\ run.valuation \in ha.invariant[run.location]
    /\ par.horizon >= 0 => run.steps <= par.horizon
    /\ result = "success" => \E n \in DOMAIN nodes : Tracks(ha, par, nodes, n, run)
    /\ singularResult = "success" =>
         \E n \in DOMAIN singularNodes : Tracks(ha, par, singularNodes, n, run)

IInv == RectangularInv /\ SingularInv /\ RunInv
--------------------------------------------------------------------------
(* Where the analysis is exact, failures are real.                        *)

(* The automaton with steps that leave the invariant taken away.          *)
Confined(A) ==
  [A EXCEPT !.flow = [l \in Location |-> [p \in Point |-> A.flow[l][p] \cap A.invariant[l]]]]

(* K is a class of sets that the representation keeps as they are and the *)
(* operations of the analysis do not leave, as boxes keep intervals.      *)
(* What is in the invariant after a time elapse can be reached within it, *)
(* as is the case if invariants are convex.                               *)
Keeps(A, P, K) ==
  /\ \A S \in K : Over[S] = S
  /\ \A i \in DOMAIN A.initial : A.initial[i].set \in K
  /\ \A S \in K, l \in Location :
       /\ S \cap A.invariant[l] \in K
       /\ Reached(A, l, S, P.horizon) \in K
       /\ Reached(A, l, S \cap A.invariant[l], P.horizon) \cap A.invariant[l]
            \subseteq Reached(Confined(A), l, S \cap A.invariant[l], P.horizon)
  /\ \A S \in K, t \in DOMAIN A.transition :
       /\ S \cap A.transition[t].guard \in K
       /\ Image(S, A.transition[t].reset) \in K

IsExactAnalysis(A, P) ==
  /\ P.horizon < 0 => IsFiniteSet(Point)
  /\ \E K \in SUBSET SUBSET Point : Keeps(A, P, K)

(* The valuations with which location l is entered by the j-th jump.      *)
EntryOf(A, P, j, l) ==
  IF j = 0 THEN InitialIn(A, l)
  ELSE JumpsInto(A, l, ReachedWith(A, P.jumpDepth, P.horizon)[j - 1])

(* The states of a node with j jumps behind it.                           *)
IsExactFlowpipe(A, P, K, j, l, fp) ==
  \A k \in DOMAIN fp : fp[k] \in K /\ fp[k] \subseteq ReachedWith(A, P.jumpDepth, P.horizon)[j][l]

IsExactTree(A, P, K, tree) ==
  \A n \in DOMAIN tree :
    /\ tree[n].depth <= P.jumpDepth
    /\ tree[n].initialSet \in K
    /\ tree[n].initialSet \subseteq EntryOf(A, P, tree[n].depth, tree[n].location)
    /\ IsExactFlowpipe(A, P, K, tree[n].depth, tree[n].location, tree[n].flowpipe)

IsExactSuccessor(A, P, K, node, t, S) ==
  /\ node.depth < P.jumpDepth
  /\ t \in TransitionsFrom(A, node.location)
  /\ S \in K
  /\ S \subseteq EntryOf(A, P, node.depth + 1, A.transition[t].target)

BadIsReachable(A, P) ==
  \E l \in Location : Reachable(A, P.jumpDepth, P.horizon)[l] \cap BadStates(A, l) # {}

(* What the two analyzers hold, as long as nothing bad was found.         *)
ExactWith(K) ==
  /\ IsExactTree(ha, par, K, nodes)
  /\ pc \in {"jumps", "store", "children"} =>
       /\ IsExactFlowpipe(ha, par, K, nodes[task].depth, nodes[task].location, flowpipe)
       /\ \A s \in DOMAIN jumpSuccessors :
            IsExactSuccessor(ha, par, K, nodes[task], s[1], jumpSuccessors[s])

SingularExactWith(K) ==
  /\ IsExactTree(ha, par, K, singularNodes)
  /\ singularPc \in {"jumps", "store", "children"} =>
       LET node == singularNodes[singularTask] IN
       /\ IsExactFlowpipe(ha, par, K, node.depth, node.location, singularFlowpipe)
       /\ \A t \in DOMAIN singularSuccessors :
            IsExactSuccessor(ha, par, K, node, t, singularSuccessors[t])

FailureInv ==
  /\ result = "failure" => ~safe
  /\ singularResult = "failure" => ~singularSafe
  /\ IsExactAnalysis(ha, par) /\ (~safe \/ ~singularSafe) => BadIsReachable(ha, par)
  /\ IsExactAnalysis(ha, par) =>
       \A K \in SUBSET SUBSET Point : Keeps(ha, par, K) =>
         (safe => ExactWith(K)) /\ (singularSafe => SingularExactWith(K))
--------------------------------------------------------------------------
(* Where bad states are found alike, both analyzers build the same tree:   *)
(* every node is a root or what the singular worker computes of its       *)
(* parent, has no twin, and is worked on once.                            *)

Computed(A, P, node) == Singular!TimeSuccessors(A, node.location, node.initialSet, P.horizon)

SuccessorSets(A, P, node) ==
  Singular!JumpSuccessorSets(A, node.location, Computed(A, P, node).states)

(* The transitions that lead to children of a node.                       *)
Taken(A, P, node) ==
  {t \in DOMAIN SuccessorSets(A, P, node) : node.depth < P.jumpDepth /\ Computed(A, P, node).safe}

IsRootOf(A, i, node) ==
  /\ i \in DOMAIN A.initial
  /\ node.parent = 0 /\ node.depth = 0
  /\ node.location = A.initial[i].loc
  /\ node.initialSet = A.initial[i].set

IsSuccessorOf(A, P, node, child) ==
  /\ child.transition \in Taken(A, P, node)
  /\ child.location = A.transition[child.transition].target
  /\ child.depth = node.depth + 1
  /\ child.initialSet = SuccessorSets(A, P, node)[child.transition]

IsBuilt(A, P, tree) ==
  /\ \A i \in DOMAIN A.initial : i \in DOMAIN tree
  /\ \A n \in DOMAIN tree :
       IF n \in DOMAIN A.initial THEN IsRootOf(A, n, tree[n])
       ELSE tree[n].parent # 0 /\ IsSuccessorOf(A, P, tree[tree[n].parent], tree[n])
  /\ \A m, n \in DOMAIN tree :
       tree[n].parent # 0 /\ tree[m].parent = tree[n].parent
         /\ tree[m].transition = tree[n].transition => m = n

HasBranch(tree, n, t) == \E c \in DOMAIN tree : tree[c].parent = n /\ tree[c].transition = t

IsLeaf(tree, n) == \A c \in DOMAIN tree : tree[c].parent # n

IsExplored(A, P, tree, n) ==
  /\ Computed(A, P, tree[n]).safe
  /\ tree[n].flowpipe = Computed(A, P, tree[n]).states
  /\ \A t \in Taken(A, P, tree[n]) : HasBranch(tree, n, t)

WorkedOnOnce(A, P, tree, queue, busy) ==
  /\ \A i, j \in DOMAIN queue : queue[i] = queue[j] => i = j
  /\ \A n \in DOMAIN tree :
       IF Queued(queue, n) THEN n \notin busy /\ IsLeaf(tree, n) /\ tree[n].flowpipe = << >>
       ELSE n \in busy \/ IsExplored(A, P, tree, n)

RectangularAgrees ==
  pc # "start" =>
    /\ IsBuilt(ha, par, nodes)
    /\ result # "failure" =>
         WorkedOnOnce(ha, par, nodes, workQueue, IF pc \in BusyPcs THEN {task} ELSE {})
    /\ result = "failure" => task \in DOMAIN nodes /\ ~Computed(ha, par, nodes[task]).safe
    /\ pc = "time" => nodes[task].flowpipe = << >>
    /\ pc \in {"jumps", "store", "children"} =>
         LET computed == Computed(ha, par, nodes[task])
         IN  /\ safe = computed.safe
             /\ safe => flowpipe = computed.states /\ nodes[task].flowpipe = computed.states
    /\ pc \in {"time", "jumps", "store"} => IsLeaf(nodes, task)
    /\ pc \in {"store", "children"} =>
         LET taken == Taken(ha, par, nodes[task])
         IN  /\ DOMAIN jumpSuccessors = taken \X {1}
             /\ \A t \in taken : jumpSuccessors[<<t, 1>>] = SuccessorSets(ha, par, nodes[task])[t]
    /\ pc = "children" => \A jump \in DOMAIN jumpSuccessors :
         jump \in pending <=> ~HasBranch(nodes, task, jump[1])

SingularAgrees ==
  /\ IsBuilt(ha, par, singularNodes)
  /\ singularResult # "failure" =>
       WorkedOnOnce(ha, par, singularNodes, singularQueue,
                    IF singularPc \in BusyPcs THEN {singularTask} ELSE {})
  /\ singularResult = "failure" =>
       singularTask \in DOMAIN singularNodes /\ ~Computed(ha, par, singularNodes[singularTask]).safe
  /\ singularPc \in {"time", "jumps", "store"} =>
       singularNodes[singularTask].flowpipe = << >> /\ IsLeaf(singularNodes, singularTask)
  /\ singularPc \in {"jumps", "store"} =>
       LET computed == Computed(ha, par, singularNodes[singularTask])
       IN  singularSafe = computed.safe /\ singularFlowpipe = computed.states
  /\ singularPc = "children" =>
       LET computed == Computed(ha, par, singularNodes[singularTask])
       IN  computed.safe /\ singularNodes[singularTask].flowpipe = computed.states
  /\ singularPc \in {"store", "children"} =>
       LET taken == Taken(ha, par, singularNodes[singularTask])
       IN  /\ DOMAIN singularSuccessors = taken
           /\ \A t \in taken :
                singularSuccessors[t] = SuccessorSets(ha, par, singularNodes[singularTask])[t]
  /\ singularPc = "children" => \A t \in DOMAIN singularSuccessors :
       t \in singularPending <=> ~HasBranch(singularNodes, singularTask, t)

AgreementInv == SoundConfiguration => RectangularAgrees /\ SingularAgrees
=============================================================================
