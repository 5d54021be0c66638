------------------------- MODULE MCDecompositional -------------------------
(***************************************************************************)
(* Small decomposed automata: subspaces of one variable with the values 0  *)
(* to 3, two locations, slopes up, down and none.                          *)
(***************************************************************************)
EXTENDS DecompositionalInvariant

CONSTANTS a, b      \* the locations

MCSubspace == {1, 2}
MCValue == 0..3
MCLocation == {a, b}

Stay == [p \in MCValue |-> p]
Up   == [p \in MCValue |-> IF p < 3 THEN p + 1 ELSE 3]
Down == [p \in MCValue |-> IF p > 0 THEN p - 1 ELSE 0]
To(v) == [p \in MCValue |-> v]
Free == MCValue

both(x, y) == [s \in MCSubspace |-> IF s = 1 THEN x ELSE y]
ab(x, y) == [l \in MCLocation |-> IF l = a THEN x ELSE y]

Edge(from, to, guard, reset) == [source |-> from, target |-> to, guard |-> guard, reset |-> reset]

Automaton(type, flow1, flow2, invA, invB, init, bad, edges) ==
  [type |-> type, flow |-> both(flow1, flow2), invariant |-> ab(invA, invB),
   initial |-> [loc |-> a, set |-> init],
   localBad |-> ab({}, {bad}), globalBad |-> {}, transition |-> edges]

TypePairs == {both("singular", "singular"), both("segmented", "segmented"),
              both("singular", "segmented"), both("discrete", "singular"),
              both("discrete", "segmented")}

Flow(type, s, f, g) == IF type[s] = "discrete" THEN ab(Stay, Stay) ELSE ab(f, g)

Family ==
  { Automaton(type, Flow(type, 1, Up, f1), Flow(type, 2, Up, f2), both(Free, invA), both(Free, Free),
              both({0}, init), bad,
              << Edge(a, b, both(Free, g), both(Stay, Stay)), Edge(b, a, both(Free, 1..2), both(Stay, r)) >>) :
      type \in TypePairs, f1 \in {Up, Stay}, f2 \in {Down}, invA \in {Free, 0..2},
      init \in {{0}, {0, 1}}, g \in {{1}, 1..2}, r \in {Stay, To(0)},
      bad \in {both({0}, {0}), both({0}, {2}), both({3}, {1}), both({2}, {0, 1})} }

(* One transition for each location and no segmented subspace: at most    *)
(* one successor per node.                                                *)
OneSuccessor == {A \in Family : OfType(A, "segmented") = {}}

(* Two ways from a to b, taken after one or two time steps.  The first     *)
(* shifts variable 1, after which it is ahead by one.                      *)
Fork ==
  { Automaton(type, ab(Up, Up), ab(Up, Up), both(Free, Free), both(Free, Free), both({0}, {0}), bad,
              << Edge(a, b, both(1..2, Free), both(Up, Stay)), Edge(a, b, both(1..2, Free), both(Stay, Stay)) >>) :
      type \in {both("singular", "singular"), both("segmented", "singular")},
      bad \in {both({2}, {2}), both({1}, {2}), both({3}, {1})} }

Setting(clocks, depth, horizon, aggregate) ==
  [clockCount |-> clocks, jumpDepth |-> depth, horizon |-> horizon, aggregate |-> aggregate]

SoundAnalyses ==
  (Family \cup Fork) \X {Setting(0, 1, 2, FALSE), Setting(2, 1, 2, FALSE), Setting(3, 2, 2, TRUE)}
  \cup OneSuccessor \X {Setting(1, 2, 2, FALSE), Setting(2, 2, 2, FALSE)}

WrapAnalyses == Fork \X {Setting(1, 1, 2, FALSE)}
=============================================================================
