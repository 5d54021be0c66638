--------------------------- MODULE MCRectangular ---------------------------
(***************************************************************************)
(* Small rectangular automata: one variable with the values 0 to 3, two    *)
(* locations, slopes from intervals, resets to intervals.                  *)
(***************************************************************************)
EXTENDS RectangularInvariant

CONSTANTS a, b      \* the locations

MCPoint == 0..3
MCLocation == {a, b}
MCOver == [S \in SUBSET MCPoint |-> {p \in MCPoint : \E l, u \in S : l <= p /\ p <= u}]

(* One time step with a slope between low and high.                       *)
Slope(low, high) ==
  [p \in MCPoint |-> {q \in MCPoint : \E d \in low..high :
                        q = IF p + d < 0 THEN 0 ELSE IF p + d > 3 THEN 3 ELSE p + d}]

Keep == [p \in MCPoint |-> {p}]
To(S) == [p \in MCPoint |-> S]

ab(x, y) == [l \in MCLocation |-> IF l = a THEN x ELSE y]

Edge(from, to, guard, reset) == [source |-> from, target |-> to, guard |-> guard, reset |-> reset]

(* Two ways from a to b, one back, two initial states.                    *)
Family ==
  { [flow |-> ab(fa, fb), invariant |-> ab(invA, 0..3),
     initial |-> <<[loc |-> a, set |-> {0}], [loc |-> b, set |-> {2, 3}]>>,
     localBad |-> ab({}, bad), localFalse |-> {}, globalBad |-> global,
     transition |-> <<Edge(a, b, g, Keep), Edge(a, b, 2..3, To(1..2)), Edge(b, a, 0..1, r)>>] :
      fa \in {Slope(1, 1), Slope(0, 1)}, fb \in {Slope(-1, -1), Slope(-1, 1), Slope(0, 0)},
      invA \in {0..3, 0..2, 1..3}, bad \in {{0}, {}}, global \in {{}, {3}}, g \in {{1}},
      r \in {Keep, To(1..2)} }

MCParameters == {[horizon |-> h, jumpDepth |-> depth] : h \in {-1, 1, 2}, depth \in {1, 2}}

(* The boxes of one variable are intervals, and on all of these automata  *)
(* they are kept as they are: the analysis is exact here.                 *)
Intervals == {{p \in MCPoint : low <= p /\ p <= up} : low \in MCPoint, up \in -1..3}

ASSUME ExactAssumption == \A A \in Automata, P \in Parameters : Keeps(A, P, Intervals)
=============================================================================
