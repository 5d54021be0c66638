----------------------- MODULE RectangularAutomaton -----------------------
(***************************************************************************)
(* Rectangular automata and the state-set operations of their handlers     *)
(* (algorithms/reachability/handlers).  A flow gives each variable an      *)
(* interval of slopes, a reset an interval of values: flow[l][p] are the   *)
(* valuations one time step after p, reset[p] those p can be reset to.     *)
(* Automata in which every flow is a single slope are singular.            *)
(***************************************************************************)
EXTENDS Integers, Sequences, FiniteSets

CONSTANTS
  Point,      \* valuations
  Location,   \* locations
  Over,       \* over-approximation by the representation
  Automata,   \* the automata to analyze
  Parameters  \* the settings to analyze them with

TransitionType ==
  [source : Location, target : Location, guard : SUBSET Point, reset : [Point -> SUBSET Point]]

RectangularAutomatonType ==
  [flow : [Location -> [Point -> SUBSET Point]],
   invariant : [Location -> SUBSET Point],
   initial : Seq([loc : Location, set : SUBSET Point]),
   localBad : [Location -> SUBSET Point],
   localFalse : SUBSET Location,   \* the local bad condition isFalse()
   globalBad : SUBSET Point,
   transition : Seq(TransitionType)]

ASSUME OverAssumption ==
  /\ Over \in [SUBSET Point -> SUBSET Point]
  /\ Over[{}] = {}
  /\ \A S \in SUBSET Point : S \subseteq Over[S]

ASSUME AutomataAssumption == Automata \subseteq RectangularAutomatonType

ParameterType == [horizon : Int, jumpDepth : Nat]

ASSUME ParametersAssumption == Parameters \subseteq ParameterType

TransitionsFrom(A, l) == {t \in DOMAIN A.transition : A.transition[t].source = l}

IsSingular(A) == \A l \in Location, p \in Point : Cardinality(A.flow[l][p]) = 1

--------------------------------------------------------------------------
Intersect(S, condition) == Over[S \cap condition]

Image(S, f) == UNION {f[p] : p \in S}

(* What a set can be at after at most so many steps, and at any time.     *)
Within(A, l, S, steps) ==
  {q \in Point : \E k \in 0..steps : \E path \in [0..k -> Point] :
     /\ path[0] \in S
     /\ \A i \in 1..k : path[i] \in A.flow[l][path[i - 1]]
     /\ path[k] = q}

Ever(A, l, S) ==
  {q \in Point : \A T \in SUBSET Point :
     S \subseteq T /\ Image(T, A.flow[l]) \subseteq T => q \in T}

(* A negative horizon stands for unbounded time.                          *)
Reached(A, l, S, horizon) ==
  IF horizon < 0 THEN Ever(A, l, S) ELSE Within(A, l, S, horizon)

(* A mutant: the horizon is ignored.                                      *)
TimeElapseUnbounded(A, l, S, horizon) == Over[Ever(A, l, S)]

(* rectangularApplyBoundedTimeEvolution, and rectangularApplyTimeEvolution *)
(* without a horizon.  The invariant plays no part in between.            *)
TimeElapse(A, l, S, horizon) == Over[Reached(A, l, S, horizon)]

(* singularJumpHandler::applyJump on a set that satisfies the guard.      *)
ApplyJump(A, t, S) ==
  Intersect(Over[Image(S, A.transition[t].reset)], A.invariant[A.transition[t].target])

(* A mutant: a location with bad states of its own has no others.         *)
RectangularIntersectLocalBadStates(A, l, S) ==
  IF A.localBad[l] # {} THEN Intersect(S, A.localBad[l])
  ELSE IF A.globalBad = Point THEN {}
  ELSE Intersect(S, A.globalBad)

(* rectangularIntersectBadStates: the intersection with the local bad     *)
(* states, or with the global ones.  A global condition without           *)
(* constraints is passed over.                                            *)
RectangularIntersectBadStates(A, l, S) ==
  IF Intersect(S, A.localBad[l]) # {} THEN Intersect(S, A.localBad[l])
  ELSE IF A.globalBad = Point THEN {}
  ELSE Intersect(S, A.globalBad)

(* ltiIntersectBadStates.                                                 *)
LtiIntersectsBadStates(A, l, S) ==
  /\ l \notin A.localFalse
  /\ \/ A.localBad[l] = Point
     \/ Intersect(S, A.localBad[l]) # {}
     \/ Intersect(S, A.globalBad) # {}

BadStates(A, l) == A.localBad[l] \cup A.globalBad

(* makeRoots: a node without a parent for every initial state.            *)
Roots(A) ==
  [i \in DOMAIN A.initial |->
     [parent |-> 0, transition |-> 0, location |-> A.initial[i].loc, depth |-> 0,
      initialSet |-> A.initial[i].set, flowpipe |-> << >>]]

(* ReachTreeNode::addChild.                                               *)
Child(A, nodes, n, t, S) ==
  [parent |-> n, transition |-> t, location |-> A.transition[t].target,
   depth |-> nodes[n].depth + 1, initialSet |-> S, flowpipe |-> << >>]

NodeType ==
  [parent : Nat, transition : Nat, location : Location, depth : Nat,
   initialSet : SUBSET Point, flowpipe : Seq(SUBSET Point)]

Indices(seq) == [i \in DOMAIN seq |-> i]
=============================================================================
