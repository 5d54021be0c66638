---------------------------- MODULE MCAutomata ----------------------------
(***************************************************************************)
(* Small automata for the model checker: one variable with the values 0 to *)
(* 3, boxes as representation, two locations with constant slopes, a jump  *)
(* forth and one back.                                                     *)
(***************************************************************************)
EXTENDS Integers, Sequences, FiniteSets

CONSTANTS a, b      \* the locations

MCPoint == 0..3
MCLocation == {a, b}

(* The interval hull; and the identity, an exact representation.          *)
Hull == [S \in SUBSET MCPoint |-> {p \in MCPoint : \E l, u \in S : l <= p /\ p <= u}]
Exact == [S \in SUBSET MCPoint |-> S]

Stay == [p \in MCPoint |-> p]
Up   == [p \in MCPoint |-> IF p < 3 THEN p + 1 ELSE 3]
Down == [p \in MCPoint |-> IF p > 0 THEN p - 1 ELSE 0]
Zero == [p \in MCPoint |-> 0]

ab(x, y) == [l \in MCLocation |-> IF l = a THEN x ELSE y]

Edge(from, to, guard, reset, aggregation, bound) ==
  [source |-> from, target |-> to, guard |-> guard, reset |-> reset,
   identityReset |-> reset = Stay, aggregation |-> aggregation, clusterBound |-> bound]

Automaton(flowA, flowB, invA, invB, init, local, hidden, global, edges) ==
  [flow |-> ab(flowA, flowB),
   during |-> [l \in MCLocation |-> [p \in MCPoint |-> {p, ab(flowA, flowB)[l][p]}]],
   alike |-> [l \in MCLocation |-> [p \in MCPoint |->
               IF ab(flowA, flowB)[l] = Stay THEN MCPoint ELSE {p}]],
   invariant |-> ab(invA, invB),
   initial |-> <<[loc |-> a, set |-> init]>>,
   localBad |-> local, localFalse |-> hidden, globalBad |-> global,
   transition |-> edges]

(* Slopes, invariants, guards, resets and bad states vary.                *)
Family ==
  { Automaton(Up, fb, invA, 0..3, init, ab({}, bad), {}, {},
              << Edge(a, b, g1, Stay, "none", 0), Edge(b, a, g2, r2, "clustering", 2) >>) :
      fb \in {Up, Down}, invA \in {0..3, 0..2}, init \in {{0}, {0, 1}},
      bad \in {{0}, {3}}, g1 \in {1..2, {3}}, g2 \in {0..1, 2..2}, r2 \in {Stay, Zero} }
  \cup
  { Automaton(fa, fb, 0..3, invB, {1}, ab({}, {}), {}, bad,
              << Edge(a, b, {1}, Zero, "none", 0), Edge(a, b, 2..3, r, "aggregation", 1),
                 Edge(b, a, g, Stay, "none", 0) >>) :
      fa \in {Up, Stay}, fb \in {Up, Stay}, invB \in {0..3, 1..3}, bad \in {{0}, {3}},
      r \in {Stay, Down}, g \in {{0}, 1..3} }

(* Two ways to the same valuation of b, of one and of two jumps more, and  *)
(* a bad state one jump behind.                                           *)
To(v) == [p \in MCPoint |-> v]

DetourFamily ==
  { Automaton(Stay, Stay, 0..3, 0..3, {0}, ab({}, {0}), {}, {},
              << Edge(a, a, {0}, To(1), "none", 0), Edge(a, a, {0}, To(2), "none", 0),
                 Edge(a, a, {2}, To(3), "none", 0), Edge(a, b, {3}, Stay, "none", 0),
                 Edge(a, b, {1}, To(3), "none", 0), Edge(b, b, {3}, To(r), "none", 0) >>) :
      r \in {0, 2} }

(* One location entered twice, earlier and later on the same trajectory.  *)
TrajectoryFamily ==
  { Automaton(Up, Up, 0..3, 0..3, {0, 1}, ab({}, bad), {}, {},
              << Edge(a, b, g, Stay, "none", 0), Edge(a, b, 0..1, r, "none", 0) >>) :
      bad \in {{0}, {3}}, g \in {{0}, {1}}, r \in {Stay, Up} }

(* Automata in which all variables always change with time.               *)
ContinuousFamily == {A \in Family \cup TrajectoryFamily : \A l \in MCLocation : A.flow[l] # Stay}

SoundFamily == Family \cup DetourFamily

Setting(horizon, depth, aggregation, clustering, jumpFP, coverage, local) ==
  [horizon |-> horizon, timeStep |-> 2, jumpDepth |-> depth,
   aggregation |-> aggregation, clustering |-> clustering, box |-> TRUE, timeStepFactor |-> 2,
   detectJumpFixedPoints |-> jumpFP, detectFixedPointsByCoverage |-> coverage,
   numberSetsForContinuousCoverage |-> 0, detectContinuousFixedPointsLocally |-> local,
   detectZenoBehavior |-> FALSE]

(* The default of AnalysisParameters::detectZenoBehavior.                 *)
WithZeno(s) == [s EXCEPT !.detectZenoBehavior = TRUE]

PlainSettings ==
  {Setting(3, 2, "MODEL", -1, FALSE, FALSE, FALSE),
   Setting(4, 2, "AGG", -1, FALSE, FALSE, TRUE),
   Setting(4, 2, "AGG", 2, FALSE, FALSE, FALSE)}

FixedPointSettings ==
  {Setting(2, 3, "NO_AGG", -1, TRUE, FALSE, FALSE),
   Setting(4, 2, "NO_AGG", -1, TRUE, TRUE, TRUE),
   Setting(4, 3, "AGG", -1, TRUE, TRUE, TRUE),
   Setting(4, 2, "AGG", 2, TRUE, TRUE, FALSE)}

(* Two locations that both can be left at any time without a reset.       *)
PingPongFamily ==
  { Automaton(fa, fb, 0..3, 0..3, {1}, ab(bad, {}), {}, {},
              << Edge(a, b, g, Stay, "none", 0), Edge(b, a, 0..3, Stay, "none", 0) >>) :
      fa \in {Stay, Down}, fb \in {Stay, Up}, bad \in {{2}, {3}}, g \in {1..3, 2..3} }
=============================================================================
