----------------------- MODULE FixedPointDetection -----------------------
(***************************************************************************)
(* The checks of algorithms/reachability/fixedPointDetection.h over the    *)
(* nodes of a reach tree.  boxed is the set of nodes whose initial         *)
(* bounding box is set: only those are candidates to cover a new node,     *)
(* which keeps the new node from covering itself.  The bounding-box        *)
(* pre-test of the generic version is implied by the containment test.     *)
(***************************************************************************)
EXTENDS ReachTree

(* detectJumpFixedPoint: the initial set of n is contained in that of one *)
(* other node or, for boxes on demand, covered by those of several.       *)
DetectJumpFixedPointAnywhere(nodes, boxed, par, n) ==
  \E m \in boxed : nodes[n].initialSet \subseteq nodes[m].initialSet
DetectJumpFixedPoint(nodes, boxed, par, n) ==
  LET others == {m \in boxed : nodes[m].location = nodes[n].location}
  IN  IF par.box /\ par.detectFixedPointsByCoverage
      THEN others # {} /\ nodes[n].initialSet \subseteq UNION {nodes[m].initialSet : m \in others}
      ELSE \E m \in others : nodes[n].initialSet \subseteq nodes[m].initialSet

DetectContinuousFixedPointReversed(A, nodes, flowpipe, par, n) ==
  LET first(m) == 1..par.numberSetsForContinuousCoverage \cap DOMAIN flowpipe[m]
  IN  \E i \in first(n), m \in DOMAIN nodes \ {n} : \E j \in first(m) :
        /\ nodes[m].location = nodes[n].location
        /\ Project(A, nodes[m].location, flowpipe[m][j])
             \subseteq Project(A, nodes[n].location, flowpipe[n][i])
(* detectContinuousFixedPoints: one of the first segments of n lies in    *)
(* (or, for boxes, is covered by) the first segments of another node, all *)
(* of them projected on the variables that change with time.              *)
DetectContinuousFixedPoint(A, nodes, flowpipe, par, n) ==
  LET first(m) == 1..par.numberSetsForContinuousCoverage \cap DOMAIN flowpipe[m]
      projected(m, i) == Project(A, nodes[m].location, flowpipe[m][i])
  IN  \E i \in first(n), m \in DOMAIN nodes \ {n} :
        /\ nodes[m].location = nodes[n].location
        /\ \/ \E j \in first(m) : projected(n, i) \subseteq projected(m, j)
           \/ /\ par.box
              /\ first(m) # {}
              /\ projected(n, i) \subseteq UNION {projected(m, j) : j \in first(m)}

(* The test within one flowpipe: some segment contains some segment.      *)
DetectLocalFixedPoint(fp) ==
  \E i, j \in DOMAIN fp : fp[i] \subseteq fp[j]

(* getZenoTransitions: identity jumps back to the location of the parent  *)
(* that the whole initial set of n enables.                               *)
ZenoTransitions(A, nodes, par, n) ==
  IF par.detectZenoBehavior /\ nodes[n].parent # Root
  THEN {t \in TransitionsFrom(A, nodes[n].location) :
          /\ A.transition[nodes[n].transition].identityReset
          /\ A.transition[t].target = nodes[nodes[n].parent].location
          /\ A.transition[t].identityReset
          /\ FullyContained(nodes[n].initialSet, A.transition[t].guard)}
  ELSE {}
=============================================================================
