----------------------------- MODULE MCCEGAR -----------------------------
(* Instances of CEGARAnalyzer for TLC, see the cfg files.                 *)
EXTENDS CEGARAnalyzer, MCAutomata

(* Pairs of valuations as the finest boxes, then boxes, then exact sets.  *)
Coarse == [S \in SUBSET MCPoint |->
  {p \in MCPoint : \E l, u \in S : 2 * (l \div 2) <= p /\ p <= 2 * (u \div 2) + 1}]

LevelOf(over, factor, aggregation, clustering) ==
  [over |-> over, timeStepFactor |-> factor, aggregation |-> aggregation,
   clustering |-> clustering]

TwoLevels ==
  {<<LevelOf(over, factor, aggregation, clustering), LevelOf(Exact, 1, "NO_AGG", -1)>> :
     over \in {Coarse, Hull}, factor \in {1, 2}, aggregation \in {"AGG", "NO_AGG"}, clustering \in {-1, 2}}
ThreeLevels ==
  {<<LevelOf(Coarse, 2, "AGG", -1), LevelOf(Hull, factor, aggregation, -1), LevelOf(Exact, 1, "NO_AGG", -1)>> :
     factor \in {1, 2}, aggregation \in {"AGG", "NO_AGG"}}

AllLevels == TwoLevels \cup ThreeLevels

(* Five valuations, and a jump whose early and late segments lead apart:  *)
(* the late ones look bad as boxes, the early ones are, one jump later.   *)
WidePoint == 0..4
WideHull == [S \in SUBSET WidePoint |-> {p \in WidePoint : \E l, u \in S : l <= p /\ p <= u}]
WideExact == [S \in SUBSET WidePoint |-> S]
WideStay == [p \in WidePoint |-> p]
WideUp == [p \in WidePoint |-> IF p < 4 THEN p + 1 ELSE 4]

WideEdge(from, to, guard, reset) ==
  [source |-> from, target |-> to, guard |-> guard, reset |-> reset,
   identityReset |-> FALSE, aggregation |-> "none", clusterBound |-> 0]

ApartFamily ==
  { [flow |-> ab(WideUp, WideStay),
     during |-> [l \in MCLocation |-> [p \in WidePoint |-> {p, ab(WideUp, WideStay)[l][p]}]],
     alike |-> [l \in MCLocation |-> [p \in WidePoint |-> {p}]],
     invariant |-> ab(WidePoint, WidePoint),
     initial |-> <<[loc |-> a, set |-> {0}]>>,
     localBad |-> ab({}, {1}), localFalse |-> {}, globalBad |-> {},
     transition |->
       << WideEdge(a, b, {0, 3, 4}, [p \in WidePoint |-> IF p = 3 THEN 0 ELSE IF p = 4 THEN 2 ELSE 3]),
          WideEdge(b, b, {3}, [p \in WidePoint |-> next]) >>] : next \in {1, 4} }

ApartStrategies ==
  {<<LevelOf(WideHull, 1, "AGG", -1), LevelOf(WideHull, 1, middle, -1), LevelOf(WideExact, 1, "NO_AGG", -1)>> :
     middle \in {"AGG", "NO_AGG"}}

(* Two initial locations, in which only the first level sees bad states,  *)
(* and a bad state one jump behind the second.                            *)
TwoRootsFamily ==
  { [Automaton(Stay, Stay, 0..3, 0..3, {0}, ab({2}, {1}), {}, {},
               << Edge(a, b, {0}, r, "none", 0), Edge(b, a, {0}, To(2), "none", 0) >>)
       EXCEPT !.initial = Append(@, [loc |-> b, set |-> {0}])] : r \in {Stay, Zero} }
=============================================================================
