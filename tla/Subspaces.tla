---------------------------- MODULE Subspaces ----------------------------
(***************************************************************************)
(* Decomposed automata, the state sets of their subspaces with             *)
(* synchronisation clocks (analyzer/DecompositionalUtil.tpp, and           *)
(* TimeInformation of algorithms/reachability/types.h), and what the       *)
(* workers of the subspaces compute (SingularWorker, LTIWorker,            *)
(* DiscreteWorker with a subspace index).                                  *)
(*                                                                         *)
(* The variables of a decomposed automaton fall into subspaces that evolve *)
(* independently; a condition is one set of values per subspace.  A        *)
(* valuation of a subspace holds the values x of its variables, the values *)
(* x0 they had when the clocks were last synchronised, and the clocks.     *)
(* Subspaces with discrete dynamics, and all of them if the analysis uses  *)
(* no clocks, hold x only.  Time is counted in time steps.                 *)
(***************************************************************************)
EXTENDS Integers, Sequences, FiniteSets, FiniteSetsExt

CONSTANTS
  Subspace,   \* 1..n
  Value,      \* values of the variables of a subspace, integers
  Location

ASSUME SubspaceAssumption ==
  IsFiniteSet(Subspace) /\ Subspace = 1..Cardinality(Subspace)

ASSUME ValueAssumption ==
  /\ Value \subseteq Int
  /\ \E low, high \in Value : \A v \in Value : low <= v /\ v <= high

Types == {"discrete", "singular", "segmented"}

Condition == [Subspace -> SUBSET Value]

(* flow[s][l] is the effect of one time step on subspace s in location l. *)
DecomposedAutomatonType ==
  [type : [Subspace -> Types],
   flow : [Subspace -> [Location -> [Value -> Value]]],
   invariant : [Location -> Condition],
   initial : [loc : Location, set : Condition],
   localBad : [Location -> SUBSET Condition],
   globalBad : SUBSET Condition,
   transition : Seq([source : Location, target : Location, guard : Condition,
                     reset : [Subspace -> [Value -> Value]]])]

(* A subspace is discrete if time leaves its variables alone.             *)
IsDecomposed(A) ==
  /\ A \in DecomposedAutomatonType
  /\ \A s \in Subspace : A.type[s] = "discrete" =>
       \A l \in Location, v \in Value : A.flow[s][l][v] = v

OfType(A, type) == {s \in Subspace : A.type[s] = type}

Clocked(A) == Subspace \ OfType(A, "discrete")

TransitionsFrom(A, l) == {t \in DOMAIN A.transition : A.transition[t].source = l}

--------------------------------------------------------------------------
(* x with its clocks at zero: addClockToAutomaton for the initial states, *)
(* addClocksAndInitial after a synchronisation.                           *)
Unset == -1

AddClocksAndInitial(x, clocks) ==
  [x |-> x, x0 |-> IF clocks = 0 THEN Unset ELSE x, clock |-> [i \in 0..clocks - 1 |-> 0]]

Clocks(A, s, clockCount) == IF s \in Clocked(A) THEN clockCount ELSE 0

(* The valuations of a subspace with clocks no later than a bound.        *)
Valuation(A, s, clockCount, latest) ==
  [x : Value, x0 : Value \cup {Unset}, clock : [0..Clocks(A, s, clockCount) - 1 -> 0..latest]]

Satisfying(S, values) == {v \in S : v.x \in values}

Tick(A, s, l, S) ==
  {[v EXCEPT !.x = A.flow[s][l][@], !.clock = [i \in DOMAIN @ |-> @[i] + 1]] : v \in S}

ApplyReset(A, s, t, S) == {[v EXCEPT !.x = A.transition[t].reset[s][@]] : v \in S}

--------------------------------------------------------------------------
(* TimeInformation: an interval for each clock, as the set of all pairs   *)
(* of a clock and one of its times.                                       *)
LatestTime(par) == (par.jumpDepth + 1) * par.horizon

GlobalTime(par) == {<<i, t>> : i \in 0..par.clockCount - 1, t \in 0..LatestTime(par)}

NoTime == {}

TimesOf(i, time) == {p \in time : p[1] = i}

IsEmptyTime(time, par) == \E i \in 0..par.clockCount - 1 : TimesOf(i, time) = {}

Hull(T) == IF T = {} THEN {} ELSE Min(T)..Max(T)

GetClockValues(S, par) ==
  UNION {{<<i, t>> : t \in Hull({v.clock[i] : v \in S})} : i \in 0..par.clockCount - 1}

UniteTime(time, other, par) ==
  UNION {{<<i, t>> : t \in Hull({p[2] : p \in TimesOf(i, time \cup other)})} :
           i \in 0..par.clockCount - 1}

(* intersectSegmentWithClock.  An empty interval has the bounds 0 and 0.  *)
IntersectWithClock(S, time) ==
  {v \in S : \A i \in DOMAIN v.clock :
     \/ <<i, v.clock[i]>> \in time
     \/ TimesOf(i, time) = {} /\ v.clock[i] = 0}

--------------------------------------------------------------------------
(* Flowpipes.  A singular or discrete subspace has at most one segment.   *)
SingularFlowpipe(A, s, l, S, horizon) ==
  LET start == Satisfying(S, A.invariant[l][s])
      after[k \in 0..horizon] == IF k = 0 THEN start ELSE Tick(A, s, l, after[k - 1])
      successors == Satisfying(UNION {after[k] : k \in 0..horizon}, A.invariant[l][s])
  IN  IF start = {} THEN << >> ELSE <<successors>>

DiscreteFlowpipe(A, s, l, S) == <<Satisfying(S, A.invariant[l][s])>>

(* At most count segments (a positive number).  Segment k covers the      *)
(* times from k - 1 to k; the first one is stored whether or not it is    *)
(* empty, a later empty one ends the flowpipe.                            *)
SegmentedFlowpipe(A, s, l, S, count) ==
  LET invariant == A.invariant[l][s]
      segment[k \in 1..count] ==
        IF k = 1 THEN Satisfying(S \cup Tick(A, s, l, S), invariant)
        ELSE Satisfying(Tick(A, s, l, segment[k - 1]), invariant)
      last == Max({n \in 1..count : \A k \in 2..n : segment[k] # {}})
  IN  SubSeq(segment, 1, last)

NumSegments(par) == par.horizon + 1

--------------------------------------------------------------------------
(* Valuations of all clocked subspaces at one instant: equal clocks, and  *)
(* initial values that depend on each other as the dependencies say.      *)
NoDependencies(A) == [Clocked(A) -> Value]

ComposeSubspaces(A, sets, dependencies) ==
  { f \in [Clocked(A) -> UNION {sets[s] : s \in Clocked(A)}] :
      /\ \A s \in Clocked(A) : f[s] \in sets[s]
      /\ \A s, u \in Clocked(A) : f[s].clock = f[u].clock
      /\ [s \in Clocked(A) |-> f[s].x0] \in dependencies }

(* The projection of a composed set on the original variables.            *)
Projected(composed) == {[s \in DOMAIN f |-> f[s].x] : f \in composed}

(* The rows of a composed set that may involve two subspaces say that      *)
(* r[3] * x of r[1] + r[4] * x of r[2] is at most their bound.  Such rows  *)
(* are what clocks, derivatives of equal size and shifts lead to.          *)
Rows(A) == {r \in Clocked(A) \X Clocked(A) \X {-1, 1} \X {-1, 1} : r[1] # r[2]}

RowValue(r, f) == r[3] * f[r[1]] + r[4] * f[r[2]]

Bound(r, set) == Max({RowValue(r, g) : g \in set})

(* The bound that the ranges of the two subspaces imply.                   *)
ImpliedBound(r, set) == Max({r[3] * g[r[1]] : g \in set}) + Max({r[4] * g[r[2]] : g \in set})

(* A mutant: rows that do involve two subspaces are not recognized.        *)
IsDependencyMissed(r, set) == Bound(r, set) = ImpliedBound(r, set)

(* isDependency: a row whose bound is implied is not among those of the    *)
(* set, which are then the ranges, of one subspace each.                   *)
IsDependency(r, set) == Bound(r, set) < ImpliedBound(r, set)

(* The constraints that involve several subspaces, none if the subspaces   *)
(* are independent in the set, as after a reset to constants.              *)
GetDependencies(A, set) ==
  {f \in [Clocked(A) -> Value] :
     \A r \in Rows(A) : IsDependency(r, set) => RowValue(r, f) <= Bound(r, set)}

(* A mutant: the clocks are not added again.                              *)
DecomposeWithoutClocks(set, s, clockCount) == {AddClocksAndInitial(f[s], 0) : f \in set}

Decompose(set, s, clockCount) == {AddClocksAndInitial(f[s], clockCount) : f \in set}

(* synchronizeAndResetClocks: new dependencies and sets.  Without a common *)
(* instant the dependencies are trivial and every set is empty.           *)
SynchronizeAndResetClocks(A, sets, dependencies, clockCount) ==
  LET composed == Projected(ComposeSubspaces(A, sets, dependencies))
  IN  IF composed = {}
      THEN [dependencies |-> NoDependencies(A), sets |-> [s \in Subspace |-> {}]]
      ELSE [dependencies |-> GetDependencies(A, composed),
            sets |-> [s \in Subspace |->
                        IF s \in Clocked(A) THEN Decompose(composed, s, clockCount)
                        ELSE sets[s]]]
=============================================================================
