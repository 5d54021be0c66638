-------------------------- MODULE CEGARInvariant --------------------------
(***************************************************************************)
(* The inductive invariants behind the properties of the refinement: what  *)
(* the trees, queues and paths of the levels have to do with each other,   *)
(* where the analysis keeps track of every run of the automaton, and that  *)
(* runs reach what the last level finds.                                   *)
(***************************************************************************)
EXTENDS CEGARAnalyzer

(* Nodes of a level are roots for the initial states, or stem from an     *)
(* earlier node by a transition.                                          *)
IsRootNode(i, node) ==
  /\ node.parent = NoNode /\ node.transition = 0 /\ node.depth = 0
  /\ node.lower = 0 /\ node.upper = 0
  /\ \E k \in DOMAIN ha.initial :
       /\ node.location = ha.initial[k].loc
       /\ node.initialSet = strategy[i].over[ha.initial[k].set]

IsChildNode(ns, n) ==
  /\ ns[n].parent \in 1..n - 1
  /\ ns[n].depth = ns[ns[n].parent].depth + 1
  /\ ns[n].transition \in DOMAIN ha.transition
  /\ ns[n].location = ha.transition[ns[n].transition].target

IsTree(i, ns) == \A n \in DOMAIN ns : IsRootNode(i, ns[n]) \/ IsChildNode(ns, n)

TreeInv == \A i \in Levels : IsTree(i, nodes[i])

PathTo(i, ns, n) == R(strategy[i].over)!Path(ns, n)
Above(i, ns, n) == R(strategy[i].over)!AncestorsOrSelf(ns, n)

(* Levels above the one that works have nothing to do; those below wait   *)
(* for their conflict node, whose path the next one follows.              *)
ControlInv ==
  /\ \A i \in Levels : i > level => queue[i] = << >>
  /\ \A i \in Levels : i < level =>
       /\ conflict[i] \in DOMAIN nodes[i]
       /\ path[i + 1] = PathTo(i, nodes[i], conflict[i])
  /\ level = 1 => collected = << >>
  /\ \A k \in DOMAIN collected : nodes[level][collected[k]].depth = Len(path[level]) + 1
  /\ verdict = "SAFE" => level = 1 /\ queue[1] = << >>

TypeInv ==
  /\ ha \in Automata /\ strategy \in Strategies
  /\ DOMAIN nodes = Levels /\ DOMAIN queue = Levels
  /\ DOMAIN path = Levels /\ DOMAIN conflict = Levels
  /\ TypeOK

LevelsInv == TypeInv /\ TreeInv /\ ControlInv

--------------------------------------------------------------------------
(* Runs as sequences of visits: a location, the valuation it is entered   *)
(* with, the first one observed, the number of whole time steps until it  *)
(* is left, the transition it was entered by, and the earliest and latest *)
(* time of that.                                                          *)
VisitType ==
  [location : Location, entry : Point, first : Point, steps : Nat,
   transition : Nat, earliest : Int, latest : Int]

Position(v, s) == Iterate(ha.flow[v.location], s)[v.first]

IsVisit(v) ==
  /\ Enters(ha, v.location, v.entry, v.first)
  /\ v.steps <= horizon
  /\ \A s \in 0..v.steps : Position(v, s) \in ha.invariant[v.location]

IsFirst(v) ==
  /\ \E k \in DOMAIN ha.initial :
       v.location = ha.initial[k].loc /\ v.entry \in ha.initial[k].set
  /\ v.earliest = 0 /\ v.latest = 0

Follows(u, v) ==
  /\ v.transition \in TransitionsFrom(ha, u.location)
  /\ LET tr == ha.transition[v.transition]
     IN  /\ v.location = tr.target
         /\ Position(u, u.steps) \in tr.guard
         /\ v.entry = tr.reset[Position(u, u.steps)]
  /\ v.earliest = u.earliest + u.steps
  /\ v.latest = u.latest + u.steps + 1

IsTrace(r) ==
  /\ r \in Seq(VisitType)
  /\ Len(r) \in 1..jumpDepth + 1
  /\ IsFirst(r[1])
  /\ \A k \in DOMAIN r : IsVisit(r[k])
  /\ \A k \in 2..Len(r) : Follows(r[k - 1], r[k])

IsSafe(v) == \A s \in 0..v.steps : Position(v, s) \notin BadStates(ha, v.location)

(* A node is on a run if the run has a visit at its depth that it         *)
(* includes, starts where its tree does and takes the jumps of its path.  *)
PathMatches(p, r) ==
  \A j \in DOMAIN p :
    /\ j + 1 \in DOMAIN r
    /\ p[j].transition = r[j + 1].transition
    /\ p[j].lower <= r[j + 1].earliest /\ r[j + 1].latest <= p[j].upper

Includes(node, v) ==
  /\ node.location = v.location
  /\ v.entry \in node.initialSet
  /\ node.lower <= v.earliest /\ v.latest <= node.upper

StartsIn(i, ns, n, l) ==
  \E a \in Above(i, ns, n) : ns[a].parent = NoNode /\ ns[a].location = l

Covers(i, ns, n, r) ==
  /\ ns[n].depth + 1 \in DOMAIN r
  /\ Includes(ns[n], r[ns[n].depth + 1])
  /\ StartsIn(i, ns, n, r[1].location)
  /\ PathMatches(PathTo(i, ns, n), r)

(* What is left to do has a node on the run: in the queue of the base     *)
(* level, or in the refinement of its conflict node.                      *)
IsQueued(i, r) == \E j \in DOMAIN queue[i] : Covers(i, nodes[i], queue[i][j], r)
IsCollected(r) == \E j \in DOMAIN collected : Covers(2, nodes[2], collected[j], r)
IsRefined(r) ==
  level = 2 /\ Covers(1, nodes[1], conflict[1], r) /\ (IsQueued(2, r) \/ IsCollected(r))

(* Two levels, and no local condition that hides global bad states.       *)
HasTwoLevels == Top = 2 /\ ha.localFalse = {}

CoverInv ==
  /\ verdict = "none" =>
       \A r : IsTrace(r) => IsSafe(r[Len(r)]) \/ IsQueued(1, r) \/ IsRefined(r)
  /\ verdict = "SAFE" => \A r : IsTrace(r) => IsSafe(r[Len(r)])

(* At the last level a flowpipe that is kept meets no bad states, and a   *)
(* node with a child for a transition has all of them.                    *)
KeptInv ==
  verdict = "none" =>
    \A n \in DOMAIN nodes[Top] : nodes[Top][n].flowpipe # << >> =>
      /\ nodes[Top][n].flowpipe =
           TimeSuccessors(Top, nodes[Top][n].location, nodes[Top][n].initialSet)
      /\ ~MeetsBadStates(Top, nodes[Top][n].location, nodes[Top][n].flowpipe)

Below(ns, n) == R(strategy[Top].over)!Children(ns, n)
HasChildFor(ns, n, t) == \E c \in Below(ns, n) : ns[c].transition = t

JumpsBy(d, r, t) == d + 2 \in DOMAIN r /\ r[d + 2].transition = t

HasAllFor(ns, n, t) ==
  \A r : IsTrace(r) /\ Covers(Top, ns, n, r) /\ JumpsBy(ns[n].depth, r, t) =>
    \E c \in Below(ns, n) : Covers(Top, ns, c, r)

ChildrenInv ==
  verdict = "none" =>
    \A n \in DOMAIN nodes[Top], t \in DOMAIN ha.transition :
      HasChildFor(nodes[Top], n, t) => HasAllFor(nodes[Top], n, t)

(* The run that is tracked is the end of a trace.                         *)
IsEndOf(r) ==
  LET v == r[Len(r)]
  IN  /\ run.jumps + 1 = Len(r)
      /\ run.location = v.location
      /\ run.steps = v.steps
      /\ run.valuation = Position(v, v.steps)

RunInv ==
  run # NoRun => run \in RunType /\ verdict = "SAFE" /\ \E r : IsTrace(r) /\ IsEndOf(r)

SoundInv ==
  /\ HasTwoLevels => CoverInv /\ KeptInv /\ ChildrenInv
  /\ RunInv

--------------------------------------------------------------------------
(* The jumps of a path start where the one before ends, the first one in   *)
(* location l.                                                             *)
HasEdges(ns) ==
  \A n \in DOMAIN ns : ns[n].parent # NoNode =>
    ha.transition[ns[n].transition].source = ns[ns[n].parent].location

LocationAfter(p, l, d) == IF d = 0 THEN l ELSE ha.transition[p[d].transition].target

IsChain(p, l) ==
  \A d \in DOMAIN p : ha.transition[p[d].transition].source = LocationAfter(p, l, d - 1)

EndsAt(p, l) == LocationAfter(p, l, Len(p))

(* A node on the path, or a successor of one at its end.                  *)
Fits(p, l, node) ==
  /\ node.depth <= Len(p) + 1
  /\ node.depth = 0 => node.location = l
  /\ node.depth \in DOMAIN p => node.transition = p[node.depth].transition
  /\ node.depth = Len(p) + 1 => ha.transition[node.transition].source = EndsAt(p, l)

(* The path a level follows leads to the conflict node it refines, and    *)
(* all it works on is on that path or one jump behind it.                 *)
IsFollowed(i, l) ==
  /\ IsChain(path[i], l)
  /\ EndsAt(path[i], l) = nodes[i - 1][conflict[i - 1]].location
  /\ \A j \in DOMAIN queue[i] : Fits(path[i], l, nodes[i][queue[i][j]])
  /\ i = level => \A j \in DOMAIN collected : Fits(path[i], l, nodes[i][collected[j]])
  /\ i < level => /\ Fits(path[i], l, nodes[i][conflict[i]])
                  /\ nodes[i][conflict[i]].depth <= Len(path[i])

PathInv ==
  /\ \A i \in Levels : HasEdges(nodes[i])
  /\ \A i \in 2..level : \E l \in Location : IsFollowed(i, l)

(* With an exact last level, what that level finds is reached by runs.    *)
LastIsExact ==
  /\ strategy[Top].timeStepFactor = 1
  /\ \A S \in SUBSET Point : strategy[Top].over[S] = S

InitialStatesExist == \A i \in DOMAIN ha.initial : ha.initial[i].set # {}

IsReached(node) ==
  /\ node.depth <= jumpDepth
  /\ node.initialSet # {}
  /\ node.initialSet \subseteq Entered(ha, horizon, jumpDepth)[node.depth][node.location]
  /\ node.flowpipe \in {<< >>, TimeSuccessors(Top, node.location, node.initialSet)}

ReachedInv ==
  LastIsExact /\ InitialStatesExist =>
    /\ \A n \in DOMAIN nodes[Top] : IsReached(nodes[Top][n])
    /\ verdict = "UNKNOWN" => CanBeBad(ha, horizon, jumpDepth)
=============================================================================
