---------------------------- MODULE LTIWorker ----------------------------
(***************************************************************************)
(* The set computations of LTIWorker (workers/LTIWorker.tpp) and the       *)
(* aggregation of LTIFlowpipeConstruction.tpp: the segments of a flowpipe  *)
(* and the jump successors of a finished flowpipe.                         *)
(*                                                                         *)
(* Flowpipes are sequences; segment k of the code is flowpipe[k + 1].      *)
(***************************************************************************)
EXTENDS HybridAutomaton

AggregationSettings == {"MODEL", "AGG", "NO_AGG"}

(* ceil(nextafter(horizon / timeStep)): one more than the number of whole *)
(* time steps in the horizon, also when it is a multiple of the time step. *)
NumSegments(horizon, timeStep) == horizon \div timeStep + 1

(* constructFirstSegment and the intersection with the invariant.         *)
FirstSegment(A, l, init) ==
  Intersect(Unite({A.during[l][p] : p \in init}), A.invariant[l])

(* One iteration of the loop: time evolution, then the invariant.         *)
NextSegment(A, l, segment) ==
  Intersect(Transform(segment, A.flow[l]), A.invariant[l])

--------------------------------------------------------------------------
(* Indices of the segments that satisfy the guard of transition t.        *)
EnabledSegments(A, t, fp) ==
  {k \in DOMAIN fp : Intersect(fp[k], A.transition[t].guard) # {}}

(* Number of enabled segments united into one successor.                  *)
BlockSize(A, t, par, enabledCount) ==
  IF par.aggregation = "AGG"
  THEN IF par.clustering > 0
       THEN (enabledCount + par.clustering) \div par.clustering
       ELSE enabledCount
  ELSE IF par.aggregation = "MODEL" /\ A.transition[t].aggregation = "clustering"
       THEN (1 + A.transition[t].clusterBound) \div A.transition[t].clusterBound
       ELSE 1

(* The block the enabled segment k falls into: enabled segments are       *)
(* counted through, whether or not they are adjacent in the flowpipe.     *)
Rank(k, K) == Cardinality({j \in K : j < k})

BlockOf(A, t, par, fp, k) ==
  LET K == EnabledSegments(A, t, fp)
  IN  Rank(k, K) \div BlockSize(A, t, par, Cardinality(K))

Block(A, t, par, fp, b) ==
  {k \in EnabledSegments(A, t, fp) : BlockOf(A, t, par, fp, k) = b}

(* Aggregation, reset and target invariant for one block.                 *)
SuccessorSetOfWholeSegments(A, t, par, fp, b) ==
  LET tr == A.transition[t]
  IN  Intersect(Transform(Unite({fp[k] : k \in Block(A, t, par, fp, b)}), tr.reset),
                A.invariant[tr.target])
SuccessorSet(A, t, par, fp, b) ==
  LET tr == A.transition[t]
      guarded == {Intersect(fp[k], tr.guard) : k \in Block(A, t, par, fp, b)}
  IN  Intersect(Transform(Unite(guarded), tr.reset), A.invariant[tr.target])

(* First and last segment index (of the code) of a block: as many         *)
(* segments come before, and all but as many up to it.                    *)
BlockFirst(A, t, par, fp, b) ==
  Cardinality({i \in DOMAIN fp : \A k \in Block(A, t, par, fp, b) : i < k})
BlockLast(A, t, par, fp, b) ==
  Len(fp) - Cardinality({i \in DOMAIN fp : \A k \in Block(A, t, par, fp, b) : i > k}) - 1

(* computeJumpSuccessors: the blocks whose successor set is not empty.    *)
JumpSuccessors(A, l, par, fp) ==
  UNION { { [transition |-> t, block |-> b] :
              b \in {BlockOf(A, t, par, fp, k) : k \in EnabledSegments(A, t, fp)} }
          : t \in TransitionsFrom(A, l) }

NonEmptyJumpSuccessorsUnfiltered(A, l, par, fp) == JumpSuccessors(A, l, par, fp)
NonEmptyJumpSuccessors(A, l, par, fp) ==
  {j \in JumpSuccessors(A, l, par, fp) : SuccessorSet(A, j.transition, par, fp, j.block) # {}}

(* Transitions in the order of the location, blocks in the order of time. *)
Before(i, j) ==
  \/ i.transition < j.transition
  \/ i.transition = j.transition /\ i.block < j.block
=============================================================================
