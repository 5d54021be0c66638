------------------------- MODULE HybridAutomaton -------------------------
(***************************************************************************)
(* The automata that the analyzers work on                                 *)
(* (include/hypro/datastructures/HybridAutomaton) and the state-set        *)
(* operations of the representations (include/hypro/representations).      *)
(*                                                                         *)
(* Valuations of the variables are the members of a set Point.  A state    *)
(* set of a representation is a subset of Point; Over[S] is the smallest   *)
(* set the representation can hold that includes S (the interval hull for  *)
(* boxes, S itself for an exact representation).                           *)
(*                                                                         *)
(* Time is counted in time steps.  flow[l][p] is the valuation one time    *)
(* step after p in location l, and during[l][p] all valuations visited in  *)
(* between (both ends included), so that every instant of a run is some    *)
(* q \in during[l][p] followed by a whole number of time steps.            *)
(* alike[l][p] are the valuations that agree with p in the variables that  *)
(* change with time in l: all of them if none does.                        *)
(***************************************************************************)
EXTENDS Integers, Sequences, FiniteSets

CONSTANTS
  Point,      \* valuations
  Location,   \* locations
  Over,       \* over-approximation by the representation
  Automata    \* the automata to analyze

Aggregations == {"none", "aggregation", "clustering"}

TransitionType ==
  [source : Location, target : Location, guard : SUBSET Point,
   reset : [Point -> Point], identityReset : BOOLEAN,
   aggregation : Aggregations, clusterBound : Nat]

AutomatonType ==
  [flow       : [Location -> [Point -> Point]],
   during     : [Location -> [Point -> SUBSET Point]],
   alike      : [Location -> [Point -> SUBSET Point]],
   invariant  : [Location -> SUBSET Point],
   initial    : Seq([loc : Location, set : SUBSET Point]),
   localBad   : [Location -> SUBSET Point],
   localFalse : SUBSET Location,   \* the local bad condition isFalse()
   globalBad  : SUBSET Point,
   transition : Seq(TransitionType)]

(***************************************************************************)
(* What the analysis relies on: a reset flagged as the identity is one, a  *)
(* clustered transition has a positive bound (it is a divisor), a time     *)
(* step starts and ends where it should, initial valuations satisfy the    *)
(* invariant (the assertion at LTIWorker.tpp:15 relies on it).             *)
(***************************************************************************)
IsAutomaton(A) ==
  /\ A \in AutomatonType
  /\ \A l \in Location, p \in Point : {p, A.flow[l][p]} \subseteq A.during[l][p]
  /\ \A i \in DOMAIN A.initial : A.initial[i].set \subseteq A.invariant[A.initial[i].loc]
  /\ \A t \in DOMAIN A.transition :
       /\ A.transition[t].identityReset <=> A.transition[t].reset = [p \in Point |-> p]
       /\ A.transition[t].aggregation = "clustering" => A.transition[t].clusterBound > 0

ASSUME OverAssumption ==
  /\ Over \in [SUBSET Point -> SUBSET Point]
  /\ Over[{}] = {}
  /\ \A S \in SUBSET Point : S \subseteq Over[S]

ASSUME AutomataAssumption == \A A \in Automata : IsAutomaton(A)

ASSUME PointAssumption == IsFiniteSet(Point)

--------------------------------------------------------------------------
(* Satisfiability of a condition and intersection with it.  The answer is *)
(* CONTAINMENT::NO exactly if the result is empty.                        *)
Intersect(S, condition) == Over[S \cap condition]

(* An affine transformation of a state set: by the flow, or by a reset.   *)
Transform(S, f) == Over[{f[p] : p \in S}]

(* Union of state sets by repeated unite().                               *)
Unite(SS) == Over[UNION SS]

(* Projection on the variables that change with time (as the set of all   *)
(* valuations with a projection in it).  If none does, the projection has *)
(* no dimensions, and boxes without dimensions contain each other.        *)
Project(A, l, S) == UNION {A.alike[l][p] : p \in S}

(* CONTAINMENT::FULL.                                                     *)
FullyContained(S, condition) == S \subseteq condition

TransitionsFrom(A, l) == {t \in DOMAIN A.transition : A.transition[t].source = l}

(* ltiIntersectBadStates: a local condition that is false hides the       *)
(* global bad states of the location, one that is true needs no test.     *)
IntersectsBadStates(A, l, S) ==
  /\ l \notin A.localFalse
  /\ \/ A.localBad[l] = Point
     \/ Intersect(S, A.localBad[l]) # {}
     \/ Intersect(S, A.globalBad) # {}

(* The bad states of the model, local and global.                         *)
BadStates(A, l) == A.localBad[l] \cup A.globalBad
=============================================================================
