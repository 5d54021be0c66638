---------------------------- MODULE LTIProofs ----------------------------
(***************************************************************************)
(* Proofs about the LTI analyzer for every automaton, every setting and    *)
(* every representation: facts about the definitions it is built from,     *)
(* type correctness, the inductive invariant of LTIInvariant and, from it, *)
(* the soundness of the success verdict; then what the reach tree is       *)
(* about: what its nodes stem from, that no node is entered outside its    *)
(* invariant, that a reported conflict is one of a run if nothing is       *)
(* over-approximated, and that nodes carry the path and the timings of the *)
(* runs they follow.                                                       *)
(***************************************************************************)
EXTENDS LTIInvariant, FiniteSetTheorems, Induction

--------------------------------------------------------------------------
(* State-set operations.                                                  *)

(* Every operation of a representation yields a state set that includes   *)
(* the exact result.                                                      *)
LEMMA OverIncludes ==
  ASSUME NEW S \in SUBSET Point
  PROVE  Over[S] \in SUBSET Point /\ S \subseteq Over[S]
BY OverAssumption

LEMMA IntersectIncludes ==
  ASSUME NEW S \in SUBSET Point, NEW c
  PROVE  /\ Intersect(S, c) \in SUBSET Point
         /\ S \cap c \subseteq Intersect(S, c)
<1>1. S \cap c \in SUBSET Point
  OBVIOUS
<1> QED
  BY <1>1, OverIncludes DEF Intersect

LEMMA TransformIncludes ==
  ASSUME NEW S \in SUBSET Point, NEW f \in [Point -> Point]
  PROVE  /\ Transform(S, f) \in SUBSET Point
         /\ \A p \in S : f[p] \in Transform(S, f)
<1>1. {f[p] : p \in S} \in SUBSET Point
  OBVIOUS
<1> QED
  BY <1>1, OverIncludes DEF Transform

LEMMA UniteIncludes ==
  ASSUME NEW SS \in SUBSET SUBSET Point
  PROVE  /\ Unite(SS) \in SUBSET Point
         /\ \A S \in SS : S \subseteq Unite(SS)
<1>1. UNION SS \in SUBSET Point
  OBVIOUS
<1> QED
  BY <1>1, OverIncludes DEF Unite

--------------------------------------------------------------------------
(* The worker.                                                            *)

LEMMA AutomatonTypes ==
  ASSUME NEW A \in Automata
  PROVE  /\ A \in AutomatonType
         /\ IsAutomaton(A)
         /\ \A l \in Location : /\ A.flow[l] \in [Point -> Point]
                                /\ A.during[l] \in [Point -> SUBSET Point]
                                /\ A.invariant[l] \in SUBSET Point
         /\ \A t \in DOMAIN A.transition : A.transition[t] \in TransitionType
         /\ \A i \in DOMAIN A.initial : A.initial[i] \in [loc : Location, set : SUBSET Point]
<1>1. IsAutomaton(A)
  BY AutomataAssumption
<1>2. A \in AutomatonType
  BY <1>1 DEF IsAutomaton
<1>3. /\ A.flow \in [Location -> [Point -> Point]]
      /\ A.during \in [Location -> [Point -> SUBSET Point]]
      /\ A.invariant \in [Location -> SUBSET Point]
      /\ A.transition \in Seq(TransitionType)
      /\ A.initial \in Seq([loc : Location, set : SUBSET Point])
  BY <1>2 DEF AutomatonType
<1>4. \A l \in Location : /\ A.flow[l] \in [Point -> Point]
                          /\ A.during[l] \in [Point -> SUBSET Point]
                          /\ A.invariant[l] \in SUBSET Point
  <2> DEFINE fl == A.flow
             du == A.during
             iv == A.invariant
  <2>1. /\ fl \in [Location -> [Point -> Point]]
        /\ du \in [Location -> [Point -> SUBSET Point]]
        /\ iv \in [Location -> SUBSET Point]
    BY <1>3
  <2> HIDE DEF fl, du, iv
  <2>2. \A l \in Location : /\ fl[l] \in [Point -> Point]
                            /\ du[l] \in [Point -> SUBSET Point]
                            /\ iv[l] \in SUBSET Point
    BY <2>1
  <2> QED
    BY <2>2 DEF fl, du, iv
<1>5. \A t \in DOMAIN A.transition : A.transition[t] \in TransitionType
  <2> DEFINE ts == A.transition
  <2>1. ts \in Seq(TransitionType)
    BY <1>3
  <2> HIDE DEF ts
  <2>2. \A t \in DOMAIN ts : ts[t] \in TransitionType
    BY <2>1
  <2> QED
    BY <2>2 DEF ts
<1>6. \A i \in DOMAIN A.initial : A.initial[i] \in [loc : Location, set : SUBSET Point]
  <2> DEFINE is == A.initial
             IT == [loc : Location, set : SUBSET Point]
  <2>1. is \in Seq(IT)
    BY <1>3
  <2> HIDE DEF is, IT
  <2>2. \A i \in DOMAIN is : is[i] \in IT
    BY <2>1
  <2> QED
    BY <2>2 DEF is, IT
<1> QED
  BY <1>1, <1>2, <1>4, <1>5, <1>6

LEMMA FirstSegmentType ==
  ASSUME NEW A \in Automata, NEW l \in Location, NEW S \in SUBSET Point
  PROVE  /\ FirstSegment(A, l, S) \in SUBSET Point
         /\ \A p \in S : A.during[l][p] \cap A.invariant[l] \subseteq FirstSegment(A, l, S)
<1> DEFINE SS == {A.during[l][p] : p \in S}
<1>1. A.during[l] \in [Point -> SUBSET Point]
  BY AutomatonTypes
<1>2. SS \in SUBSET SUBSET Point
  BY <1>1
<1>3. \A p \in S : A.during[l][p] \in SS
  OBVIOUS
<1>4. FirstSegment(A, l, S) = Intersect(Unite(SS), A.invariant[l])
  BY DEF FirstSegment
<1> HIDE DEF SS
<1>5. /\ Unite(SS) \in SUBSET Point
      /\ \A p \in S : A.during[l][p] \subseteq Unite(SS)
  BY <1>2, <1>3, UniteIncludes
<1>6. /\ Intersect(Unite(SS), A.invariant[l]) \in SUBSET Point
      /\ Unite(SS) \cap A.invariant[l] \subseteq Intersect(Unite(SS), A.invariant[l])
  BY <1>5, IntersectIncludes
<1> QED
  BY <1>4, <1>5, <1>6

LEMMA NextSegmentType ==
  ASSUME NEW A \in Automata, NEW l \in Location, NEW S \in SUBSET Point
  PROVE  /\ NextSegment(A, l, S) \in SUBSET Point
         /\ \A p \in S : A.flow[l][p] \in A.invariant[l] => A.flow[l][p] \in NextSegment(A, l, S)
<1>1. A.flow[l] \in [Point -> Point]
  BY AutomatonTypes
<1>2. /\ Transform(S, A.flow[l]) \in SUBSET Point
      /\ \A p \in S : A.flow[l][p] \in Transform(S, A.flow[l])
  BY <1>1, TransformIncludes
<1> QED
  BY <1>2, IntersectIncludes DEF NextSegment

LEMMA SuccessorSetType ==
  ASSUME NEW A \in Automata, NEW t \in DOMAIN A.transition, NEW p,
         NEW fp \in Seq(SUBSET Point), NEW b
  PROVE  /\ SuccessorSet(A, t, p, fp, b) \in SUBSET Point
         /\ \A k \in Block(A, t, p, fp, b) : \A x \in fp[k] \cap A.transition[t].guard :
              A.transition[t].reset[x] \in A.invariant[A.transition[t].target]
                => A.transition[t].reset[x] \in SuccessorSet(A, t, p, fp, b)
<1> DEFINE tr == A.transition[t]
           B == Block(A, t, p, fp, b)
           guarded == {Intersect(fp[k], tr.guard) : k \in B}
<1>1. B \subseteq DOMAIN fp
  BY DEF Block, EnabledSegments
<1>2. /\ tr \in TransitionType
      /\ tr.reset \in [Point -> Point]
  BY AutomatonTypes DEF TransitionType
<1>3. \A k \in B : /\ fp[k] \in SUBSET Point
                   /\ Intersect(fp[k], tr.guard) \in SUBSET Point
                   /\ fp[k] \cap tr.guard \subseteq Intersect(fp[k], tr.guard)
  BY <1>1, IntersectIncludes
<1>4. /\ Unite(guarded) \in SUBSET Point
      /\ \A k \in B : Intersect(fp[k], tr.guard) \subseteq Unite(guarded)
  <2>1. guarded \in SUBSET SUBSET Point
    BY <1>3
  <2>2. \A k \in B : Intersect(fp[k], tr.guard) \in guarded
    OBVIOUS
  <2> HIDE DEF guarded
  <2> QED
    BY <2>1, <2>2, UniteIncludes
<1>5. /\ Transform(Unite(guarded), tr.reset) \in SUBSET Point
      /\ \A x \in Unite(guarded) : tr.reset[x] \in Transform(Unite(guarded), tr.reset)
  BY <1>2, <1>4, TransformIncludes
<1>6. SuccessorSet(A, t, p, fp, b) = Intersect(Transform(Unite(guarded), tr.reset), A.invariant[tr.target])
  BY DEF SuccessorSet
<1> HIDE DEF guarded, B
<1> QED
  BY <1>3, <1>4, <1>5, <1>6, IntersectIncludes DEF B

(* computeJumpSuccessors loses no jump: a valuation of a segment that     *)
(* satisfies the guard of a transition, and the target invariant after    *)
(* the reset, is in one of the successor sets.                            *)
LEMMA JumpIsCovered ==
  ASSUME NEW A \in Automata, NEW l \in Location, NEW p, NEW fp \in Seq(SUBSET Point),
         NEW t \in TransitionsFrom(A, l), NEW k \in DOMAIN fp,
         NEW x \in fp[k] \cap A.transition[t].guard,
         A.transition[t].reset[x] \in A.invariant[A.transition[t].target]
  PROVE  \E j \in NonEmptyJumpSuccessors(A, l, p, fp) :
           /\ j.transition = t
           /\ k \in Block(A, t, p, fp, j.block)
           /\ A.transition[t].reset[x] \in SuccessorSet(A, t, p, fp, j.block)
<1> DEFINE b == BlockOf(A, t, p, fp, k)
           j == [transition |-> t, block |-> b]
<1>1. t \in DOMAIN A.transition
  BY DEF TransitionsFrom
<1>2. k \in EnabledSegments(A, t, fp)
  <2>1. fp[k] \in SUBSET Point
    OBVIOUS
  <2> QED
    BY <2>1, IntersectIncludes DEF EnabledSegments
<1>3. k \in Block(A, t, p, fp, b)
  BY <1>2 DEF Block
<1>4. A.transition[t].reset[x] \in SuccessorSet(A, t, p, fp, b)
  BY <1>1, <1>3, SuccessorSetType
<1>5. j \in JumpSuccessors(A, l, p, fp)
  <2>1. j \in {[transition |-> t, block |-> b1] :
                b1 \in {BlockOf(A, t, p, fp, k1) : k1 \in EnabledSegments(A, t, fp)}}
    BY <1>2
  <2> QED
    BY <2>1 DEF JumpSuccessors
<1>6. j.transition = t /\ j.block = b
  OBVIOUS
<1> HIDE DEF j, b
<1> QED
  BY <1>3, <1>4, <1>5, <1>6 DEF NonEmptyJumpSuccessors

(* The bounds of a block are integers: the flowpipe is finite.            *)
LEMMA BlockBoundsType ==
  ASSUME NEW A, NEW t, NEW p, NEW fp \in Seq(SUBSET Point), NEW b
  PROVE  BlockFirst(A, t, p, fp, b) \in Int /\ BlockLast(A, t, p, fp, b) \in Int
<1>1. \A X : X \subseteq DOMAIN fp => Cardinality(X) \in Nat
  <2> SUFFICES ASSUME NEW X, X \subseteq DOMAIN fp
               PROVE  Cardinality(X) \in Nat
    OBVIOUS
  <2>1. Len(fp) \in Int /\ DOMAIN fp = 1..Len(fp)
    OBVIOUS
  <2>2. IsFiniteSet(1..Len(fp))
    BY <2>1, FS_Interval
  <2>3. IsFiniteSet(X)
    BY <2>1, <2>2, FS_Subset
  <2> QED
    BY <2>3, FS_CardinalityType
<1> DEFINE below == {i \in DOMAIN fp : \A k \in Block(A, t, p, fp, b) : i < k}
           above == {i \in DOMAIN fp : \A k \in Block(A, t, p, fp, b) : i > k}
<1>2. Cardinality(below) \in Nat /\ Cardinality(above) \in Nat
  <2>1. below \subseteq DOMAIN fp /\ above \subseteq DOMAIN fp
    OBVIOUS
  <2> HIDE DEF below, above
  <2> QED
    BY <1>1, <2>1
<1>3. /\ BlockFirst(A, t, p, fp, b) = Cardinality(below)
      /\ BlockLast(A, t, p, fp, b) = Len(fp) - Cardinality(above) - 1
  BY DEF BlockFirst, BlockLast
<1> HIDE DEF below, above
<1> QED
  BY <1>2, <1>3

(* A successor belongs to a transition of the location it leaves.         *)
LEMMA SuccessorTransition ==
  ASSUME NEW A, NEW l, NEW p, NEW fp, NEW j \in NonEmptyJumpSuccessors(A, l, p, fp)
  PROVE  /\ j.transition \in DOMAIN A.transition
         /\ A.transition[j.transition].source = l
<1>1. j \in JumpSuccessors(A, l, p, fp)
  BY DEF NonEmptyJumpSuccessors
<1>2. PICK t \in TransitionsFrom(A, l) :
        j \in {[transition |-> t, block |-> b] :
                b \in {BlockOf(A, t, p, fp, k) : k \in EnabledSegments(A, t, fp)}}
  BY <1>1 DEF JumpSuccessors
<1>3. j.transition = t
  BY <1>2
<1> QED
  BY <1>3 DEF TransitionsFrom

--------------------------------------------------------------------------
(* The reach tree.                                                        *)

(* Marking fixed points leaves a flag for every node.                     *)
LEMMA SetFixedPointType ==
  ASSUME NEW ns, NEW flag \in Seq(TriBool), NEW n, NEW value \in TriBool
  PROVE  /\ SetFixedPoint(ns, flag, n, value) \in Seq(TriBool)
         /\ Len(SetFixedPoint(ns, flag, n, value)) = Len(flag)
<1>1. PICK marked : SetFixedPoint(ns, flag, n, value) =
        [m \in DOMAIN flag |->
           IF m = n THEN value
           ELSE IF value = "TRUE" /\ m \in marked THEN "TRUE"
           ELSE flag[m]]
  BY DEF SetFixedPoint
<1>2. DOMAIN flag = 1..Len(flag) /\ Len(flag) \in Nat
  OBVIOUS
<1>3. SetFixedPoint(ns, flag, n, value) \in [1..Len(flag) -> TriBool]
  BY <1>1, <1>2 DEF TriBool
<1> QED
  BY <1>2, <1>3

(* There is a root for every initial state, and it includes it.           *)
LEMMA MakeRootsType ==
  ASSUME NEW A \in Automata
  PROVE  /\ MakeRoots(A) \in Seq(NodeType)
         /\ DOMAIN MakeRoots(A) = DOMAIN A.initial
         /\ \A i \in DOMAIN A.initial :
              /\ MakeRoots(A)[i].location = A.initial[i].loc
              /\ MakeRoots(A)[i].depth = 0
              /\ A.initial[i].set \subseteq MakeRoots(A)[i].initialSet
<1> DEFINE is == A.initial
           root(i) == [location |-> is[i].loc, parent |-> Root, transition |-> Root,
                       depth |-> 0, initialSet |-> Over[is[i].set], lower |-> 0, upper |-> 0]
<1>1. is \in Seq([loc : Location, set : SUBSET Point])
  BY AutomatonTypes DEF AutomatonType
<1>2. DOMAIN is = 1..Len(is) /\ Len(is) \in Nat
  BY <1>1
<1>3. \A i \in DOMAIN is : is[i] \in [loc : Location, set : SUBSET Point]
  BY AutomatonTypes
<1>4. \A i \in DOMAIN is : root(i) \in NodeType /\ is[i].set \subseteq Over[is[i].set]
  <2> TAKE i \in DOMAIN is
  <2>1. is[i].loc \in Location /\ is[i].set \in SUBSET Point
    BY <1>3
  <2>2. Over[is[i].set] \in SUBSET Point /\ is[i].set \subseteq Over[is[i].set]
    BY <2>1, OverIncludes
  <2> QED
    BY <2>1, <2>2 DEF NodeType, Root
<1>5. MakeRoots(A) = [i \in DOMAIN is |-> root(i)]
  BY DEF MakeRoots
<1>6. MakeRoots(A) \in [1..Len(is) -> NodeType]
  BY <1>2, <1>4, <1>5
<1> QED
  BY <1>2, <1>4, <1>5, <1>6

(* The child for a jump successor.                                        *)
LEMMA ChildNodeType ==
  ASSUME NEW A \in Automata, NEW ns \in Seq(NodeType), NEW n \in DOMAIN ns,
         NEW S \in SUBSET Point, NEW lower \in Int, NEW upper \in Int,
         NEW t \in DOMAIN A.transition
  PROVE  /\ ChildNode(A, ns, n, S, lower, upper, t) \in NodeType
         /\ ChildNode(A, ns, n, S, lower, upper, t).location = A.transition[t].target
         /\ ChildNode(A, ns, n, S, lower, upper, t).depth = ns[n].depth + 1
         /\ ChildNode(A, ns, n, S, lower, upper, t).initialSet = S
<1>1. A.transition[t].target \in Location
  BY AutomatonTypes DEF TransitionType
<1>2. n \in Nat /\ ns[n].depth \in Nat
  <2>1. ns[n] \in NodeType /\ n \in Nat
    OBVIOUS
  <2> QED
    BY <2>1 DEF NodeType
<1>3. t \in Nat
  <2>1. A.transition \in Seq(TransitionType)
    BY AutomatonTypes DEF AutomatonType
  <2> QED
    BY <2>1
<1>4. ns[n].depth + 1 \in Nat
  BY <1>2
<1> DEFINE depth == ns[n].depth + 1
           target == A.transition[t].target
<1>5. ChildNode(A, ns, n, S, lower, upper, t) =
        [location |-> target, parent |-> n, transition |-> t, depth |-> depth,
         initialSet |-> S, lower |-> lower, upper |-> upper]
  BY DEF ChildNode
<1>6. target \in Location /\ depth \in Nat
  BY <1>1, <1>4
<1> HIDE DEF depth, target
<1>7. ChildNode(A, ns, n, S, lower, upper, t) \in NodeType
  BY <1>2, <1>3, <1>5, <1>6 DEF NodeType
<1> QED
  BY <1>5, <1>7 DEF depth, target

(* A node with a jump fixed point is covered by the other nodes of its    *)
(* location, valuation by valuation.                                      *)
LEMMA JumpFixedPointCovers ==
  ASSUME NEW ns, NEW B, NEW p, NEW n, DetectJumpFixedPoint(ns, B, p, n)
  PROVE  \A x \in ns[n].initialSet :
           \E m \in B : ns[m].location = ns[n].location /\ x \in ns[m].initialSet
BY DEF DetectJumpFixedPoint

--------------------------------------------------------------------------
(* Time steps that fit into the horizon are fewer than the segments.      *)
LEMMA StepsWithinSegments ==
  ASSUME NEW h \in Nat, NEW d \in Nat \ {0}, NEW k \in Nat, k * d <= h
  PROVE  NumSegments(h, d) \in Nat /\ k + 1 <= NumSegments(h, d)
<1> DEFINE q == h \div d
<1>1. q \in Nat /\ h < (q + 1) * d
  OBVIOUS
<1> HIDE DEF q
<1>2. k <= q
  <2> SUFFICES ASSUME k > q
               PROVE  FALSE
    BY <1>1
  <2>1. PICK e \in Nat : k = q + 1 + e
    <3>1. k - q - 1 \in Nat /\ k = q + 1 + (k - q - 1)
      BY <1>1
    <3> QED
      BY <3>1
  <2>2. k * d = (q + 1) * d + e * d
    BY <1>1, <2>1
  <2>3. e * d \in Nat
    BY <2>1
  <2> QED
    BY <1>1, <2>2, <2>3
<1> QED
  BY <1>1, <1>2 DEF NumSegments, q

--------------------------------------------------------------------------
(* Facts about one state.                                                 *)

LEMMA Typed ==
  ASSUME TypeOK
  PROVE  /\ ha \in Automata /\ par \in ParameterType
         /\ DOMAIN flowpipe = DOMAIN nodes
         /\ DOMAIN hasFixedPoint = DOMAIN nodes
         /\ \A n \in DOMAIN nodes :
              /\ nodes[n] \in NodeType
              /\ nodes[n].location \in Location
              /\ nodes[n].depth \in Nat
              /\ nodes[n].initialSet \in SUBSET Point
              /\ nodes[n].lower \in Int
              /\ nodes[n].upper \in Int
              /\ flowpipe[n] \in Seq(SUBSET Point)
         /\ \A i \in DOMAIN workQueue : workQueue[i] \in DOMAIN nodes
<1>1. ha \in Automata /\ par \in ParameterType
  BY ParametersAssumption DEF TypeOK
<1>2. DOMAIN flowpipe = DOMAIN nodes /\ DOMAIN hasFixedPoint = DOMAIN nodes
  BY DEF TypeOK
<1>3. \A n \in DOMAIN nodes : nodes[n] \in NodeType
  BY DEF TypeOK
<1>4. \A n \in DOMAIN nodes :
        /\ nodes[n].location \in Location
        /\ nodes[n].depth \in Nat
        /\ nodes[n].initialSet \in SUBSET Point
        /\ nodes[n].lower \in Int
        /\ nodes[n].upper \in Int
  BY <1>3 DEF NodeType
<1>5. \A n \in DOMAIN nodes : flowpipe[n] \in Seq(SUBSET Point)
  BY <1>2 DEF TypeOK
<1>6. \A i \in DOMAIN workQueue : workQueue[i] \in DOMAIN nodes
  BY DEF TypeOK
<1> QED
  BY <1>1, <1>2, <1>3, <1>4, <1>5, <1>6

LEMMA SettingTypes ==
  ASSUME TypeOK
  PROVE  /\ par.horizon \in Nat /\ par.timeStep \in Nat \ {0}
         /\ par.jumpDepth \in Nat /\ par.timeStepFactor \in Nat
         /\ NumSegments(par.horizon, par.timeStep) \in Nat
<1>1. /\ par.horizon \in Nat /\ par.timeStep \in Nat \ {0}
      /\ par.jumpDepth \in Nat /\ par.timeStepFactor \in Nat
  BY Typed DEF ParameterType
<1>2. 0 * par.timeStep <= par.horizon
  BY <1>1
<1> QED
  BY <1>1, <1>2, StepsWithinSegments

--------------------------------------------------------------------------
(* Facts that hold of a node still hold after a step that adds nodes and  *)
(* leaves the flowpipe of this one alone.                                 *)

TreeGrows ==
  /\ ha' = ha /\ par' = par
  /\ \A m \in DOMAIN nodes : m \in DOMAIN nodes' /\ nodes'[m] = nodes[m]

LEMMA FlowpipeStays ==
  ASSUME TreeGrows, NEW n \in DOMAIN nodes, flowpipe'[n] = flowpipe[n]
  PROVE  /\ IsFlowpipe(n) => IsFlowpipe(n)'
         /\ IsComplete(n) => IsComplete(n)'
         /\ IsSafe(n) => IsSafe(n)'
         /\ Successors(n)' = Successors(n)
         /\ \A j : HasChildFor(n, j) => HasChildFor(n, j)'
<1>1. ha' = ha /\ par' = par /\ nodes'[n] = nodes[n] /\ flowpipe'[n] = flowpipe[n]
  BY DEF TreeGrows
<1>2. IsFlowpipe(n) => IsFlowpipe(n)'
  BY <1>1 DEF IsFlowpipe
<1>3. IsComplete(n) => IsComplete(n)'
  BY <1>1 DEF IsComplete
<1>4. IsSafe(n) => IsSafe(n)'
  BY <1>1 DEF IsSafe
<1>5. Successors(n)' = Successors(n)
  BY <1>1 DEF Successors
<1>6. \A j : HasChildFor(n, j) => HasChildFor(n, j)'
  <2>1. \A j : ChildOf(n, j)' = ChildOf(n, j)
    BY <1>1 DEF ChildOf, ChildNode, EndOfSegment
  <2> QED
    BY <2>1 DEF HasChildFor, TreeGrows
<1> QED
  BY <1>2, <1>3, <1>4, <1>5, <1>6

LEMMA DoneStays ==
  ASSUME TreeGrows, NEW n \in DOMAIN nodes, flowpipe'[n] = flowpipe[n], Done(n)
  PROVE  Done(n)'
<1>1. IsFlowpipe(n)' /\ IsComplete(n)' /\ IsSafe(n)'
  BY FlowpipeStays DEF Done
<1>2. IsExpanded(n)'
  <2>1. nodes'[n].depth # par'.jumpDepth => nodes[n].depth # par.jumpDepth
    BY DEF TreeGrows
  <2>2. nodes[n].depth # par.jumpDepth => \A j \in Successors(n) : HasChildFor(n, j)
    BY DEF Done, IsExpanded
  <2>3. /\ Successors(n)' = Successors(n)
        /\ \A j : HasChildFor(n, j) => HasChildFor(n, j)'
    BY FlowpipeStays
  <2> QED
    BY <2>1, <2>2, <2>3 DEF IsExpanded
<1> QED
  BY <1>1, <1>2 DEF Done

LEMMA RootStays ==
  ASSUME TreeGrows, RootInv
  PROVE  RootInv'
BY DEF TreeGrows, RootInv

(* What covers an old node goes on to do so if no node gets lost.         *)
LEMMA CoverStays ==
  ASSUME TreeGrows, CoverInv, result # "failure",
         \A m \in DOMAIN nodes : Open(m) \/ Done(m) => Open(m)' \/ Done(m)'
  PROVE  \A n \in DOMAIN nodes : \A p \in nodes[n].initialSet :
           \E m \in DOMAIN nodes' : CoveredBy(n, p, m)'
<1> SUFFICES ASSUME NEW n \in DOMAIN nodes, NEW p \in nodes[n].initialSet
             PROVE  \E m \in DOMAIN nodes' : CoveredBy(n, p, m)'
  OBVIOUS
<1>1. PICK m \in DOMAIN nodes : CoveredBy(n, p, m)
  BY DEF CoverInv
<1>2. m \in DOMAIN nodes' /\ nodes'[m] = nodes[m] /\ nodes'[n] = nodes[n]
  BY DEF TreeGrows
<1>3. Open(m)' \/ Done(m)'
  BY <1>1 DEF CoveredBy
<1>4. CoveredBy(n, p, m)'
  BY <1>1, <1>2, <1>3 DEF CoveredBy
<1> QED
  BY <1>2, <1>4

LEMMA CoverStaysInTree ==
  ASSUME TreeGrows, nodes' = nodes, CoverInv, result # "failure",
         \A m \in DOMAIN nodes : Open(m) \/ Done(m) => Open(m)' \/ Done(m)'
  PROVE  CoverInv'
<1>1. \A n \in DOMAIN nodes : \A p \in nodes[n].initialSet :
        \E m \in DOMAIN nodes' : CoveredBy(n, p, m)'
  BY CoverStays
<1> QED
  BY <1>1 DEF CoverInv

--------------------------------------------------------------------------
(* The initial states.                                                    *)

(* An analysis is of an automaton of the family, with settings of it.     *)
LEMMA InitSettings == Init => ha \in Automata /\ par \in Parameters
<1> SUFFICES ASSUME Init
             PROVE  ha \in Automata /\ par \in Parameters
  OBVIOUS
<1>1. PICK analysis \in Analyses : ha = analysis[1] /\ par = analysis[2]
  BY DEF Init
<1>2. analysis \in Automata \X Parameters
  BY AnalysesAssumption
<1> QED
  BY <1>1, <1>2

LEMMA InitAnalysis == Init => AnalysisInv
<1> SUFFICES ASSUME Init
             PROVE  AnalysisInv
  OBVIOUS
<1>1. /\ ha \in Automata
      /\ nodes \in Seq(NodeType)
      /\ DOMAIN nodes = DOMAIN ha.initial
      /\ \A i \in DOMAIN ha.initial :
           /\ nodes[i].location = ha.initial[i].loc
           /\ nodes[i].depth = 0
           /\ ha.initial[i].set \subseteq nodes[i].initialSet
  BY InitSettings, MakeRootsType DEF Init
<1>2. /\ DOMAIN nodes = 1..Len(nodes) /\ Len(nodes) \in Nat
  BY <1>1
<1>3. TypeOK
  <2>1. flowpipe \in Seq(Seq(SUBSET Point)) /\ Len(flowpipe) = Len(nodes)
    <3>1. flowpipe \in [1..Len(nodes) -> Seq(SUBSET Point)]
      BY <1>2 DEF Init
    <3> QED
      BY <1>2, <3>1
  <2>2. hasFixedPoint \in Seq(TriBool) /\ Len(hasFixedPoint) = Len(nodes)
    <3>1. hasFixedPoint \in [1..Len(nodes) -> TriBool]
      BY <1>2 DEF Init, TriBool
    <3> QED
      BY <1>2, <3>1
  <2>3. workQueue \in Seq(DOMAIN nodes)
    <3>1. workQueue \in [1..Len(nodes) -> DOMAIN nodes]
      BY <1>2 DEF Init
    <3> QED
      BY <1>2, <3>1
  <2> QED
    BY <1>1, <2>1, <2>2, <2>3, InitSettings DEF Init, TypeOK, NoNode, Steps
<1>4. ControlInv
  BY DEF Init, ControlInv, Busy
<1>5. \A i \in DOMAIN workQueue : i \in DOMAIN nodes /\ workQueue[i] = i /\ flowpipe[i] = << >>
  BY DEF Init
<1>6. QueueInv
  BY <1>5 DEF Init, QueueInv, Busy
<1>7. BreadthFirst
  BY <1>1, <1>5 DEF Init, BreadthFirst, Busy
<1>8. RootInv
  BY <1>1 DEF RootInv
<1>9. CurrentInv
  BY DEF Init, CurrentInv
<1>10. CoverInv
  <2> SUFFICES ASSUME NEW n \in DOMAIN nodes, NEW p \in nodes[n].initialSet
               PROVE  CoveredBy(n, p, n)
    BY DEF CoverInv
  <2>1. Open(n)
    BY <1>5 DEF Init, Open
  <2> QED
    BY <1>1, <2>1 DEF CoveredBy
<1> QED
  BY <1>3, <1>4, <1>6, <1>7, <1>8, <1>9, <1>10 DEF AnalysisInv

--------------------------------------------------------------------------
(* The steps of the loop, one lemma each.                                 *)

LEMMA DequeueStep ==
  ASSUME AnalysisInv, Dequeue
  PROVE  AnalysisInv'
<1>1. /\ TypeOK /\ ControlInv /\ QueueInv /\ BreadthFirst /\ RootInv
      /\ SoundConfiguration => CoverInv
  BY DEF AnalysisInv
<1>2. /\ pc = "dequeue" /\ workQueue # << >> /\ workQueue \in Seq(DOMAIN nodes)
      /\ currentNode' = Head(workQueue) /\ workQueue' = Tail(workQueue)
      /\ pc' = "firstSegment"
      /\ UNCHANGED <<ha, par, nodes, flowpipe, hasFixedPoint, safetyResult, pending, result>>
  BY <1>1 DEF Dequeue, settings, TypeOK
<1>3. /\ Head(workQueue) \in DOMAIN nodes /\ Head(workQueue) = workQueue[1]
      /\ 1 \in DOMAIN workQueue
      /\ workQueue' \in Seq(DOMAIN nodes)
      /\ \A i \in DOMAIN workQueue' : i + 1 \in DOMAIN workQueue /\ workQueue'[i] = workQueue[i + 1]
      /\ \A i \in DOMAIN workQueue : i # 1 =>
           i - 1 \in DOMAIN workQueue' /\ workQueue'[i - 1] = workQueue[i]
  BY <1>2, Dequeued
<1>4. ~Busy /\ Busy'
  BY <1>2 DEF Busy
<1>5. DOMAIN workQueue \subseteq Int /\ DOMAIN workQueue' \subseteq Nat \ {0}
  BY <1>2, <1>3
<1>6. TypeOK'
  <2>1. boxed' \subseteq DOMAIN nodes
    BY <1>1, <1>3 DEF Dequeue, TypeOK
  <2> QED
    BY <1>1, <1>2, <1>3, <2>1 DEF TypeOK, Steps
<1>7. ControlInv'
  BY <1>1, <1>2, <1>3, <1>4 DEF ControlInv, QueueInv
<1>8. QueueInv'
  <2>1. \A i \in DOMAIN workQueue' : flowpipe'[workQueue'[i]] = << >>
    BY <1>1, <1>2, <1>3 DEF QueueInv
  <2>2. \A i, j \in DOMAIN workQueue' : workQueue'[i] = workQueue'[j] => i = j
    <3> SUFFICES ASSUME NEW i \in DOMAIN workQueue', NEW j \in DOMAIN workQueue',
                        workQueue'[i] = workQueue'[j]
                 PROVE  i = j
      OBVIOUS
    <3>1. i + 1 = j + 1
      BY <1>1, <1>3 DEF QueueInv
    <3> QED
      BY <1>5, <3>1
  <2>3. \A i \in DOMAIN workQueue' : workQueue'[i] # currentNode'
    <3> SUFFICES ASSUME NEW i \in DOMAIN workQueue', workQueue'[i] = currentNode'
                 PROVE  FALSE
      OBVIOUS
    <3>1. i + 1 = 1
      BY <1>1, <1>2, <1>3 DEF QueueInv
    <3> QED
      BY <1>5, <3>1
  <2> QED
    BY <2>1, <2>2, <2>3 DEF QueueInv
<1>9. BreadthFirst'
  <2>1. \A i, j \in DOMAIN workQueue' : i <= j =>
          nodes'[workQueue'[i]].depth <= nodes'[workQueue'[j]].depth
    <3> SUFFICES ASSUME NEW i \in DOMAIN workQueue', NEW j \in DOMAIN workQueue', i <= j
                 PROVE  nodes[workQueue[i + 1]].depth <= nodes[workQueue[j + 1]].depth
      BY <1>2, <1>3
    <3>1. i + 1 <= j + 1
      BY <1>5
    <3> QED
      BY <1>1, <1>3, <3>1 DEF BreadthFirst
  <2>2. \A i \in DOMAIN workQueue', n \in DOMAIN nodes' :
          nodes'[n].depth <= nodes'[workQueue'[i]].depth + 1
    BY <1>1, <1>2, <1>3 DEF BreadthFirst
  <2>3. \A i \in DOMAIN workQueue' : nodes'[currentNode'].depth <= nodes'[workQueue'[i]].depth
    <3> TAKE i \in DOMAIN workQueue'
    <3>1. 1 <= i + 1
      BY <1>5
    <3> QED
      BY <1>1, <1>2, <1>3, <3>1 DEF BreadthFirst
  <2>4. \A n \in DOMAIN nodes' : nodes'[n].depth <= nodes'[currentNode'].depth + 1
    BY <1>1, <1>2, <1>3 DEF BreadthFirst
  <2> QED
    BY <2>1, <2>2, <2>3, <2>4 DEF BreadthFirst
<1>10. TreeGrows
  BY <1>2 DEF TreeGrows
<1>11. CurrentInv'
  BY <1>2 DEF CurrentInv
<1>12. SoundConfiguration' => CoverInv'
  <2> SUFFICES ASSUME SoundConfiguration'
               PROVE  CoverInv'
    OBVIOUS
  <2>1. CoverInv
    BY <1>1, <1>2 DEF SoundConfiguration
  <2>2. result # "failure"
    BY <1>1, <1>2 DEF ControlInv
  <2>3. ASSUME NEW m \in DOMAIN nodes, Open(m)
        PROVE  Open(m)'
    <3>1. PICK i \in DOMAIN workQueue : workQueue[i] = m
      BY <1>4, <2>3 DEF Open
    <3>2. CASE i = 1
      BY <1>2, <1>3, <1>4, <3>1, <3>2 DEF Open
    <3>3. CASE i # 1
      BY <1>3, <3>1, <3>3 DEF Open
    <3> QED
      BY <3>2, <3>3
  <2>4. ASSUME NEW m \in DOMAIN nodes, Done(m)
        PROVE  Done(m)'
    BY <1>2, <1>10, <2>4, DoneStays
  <2> QED
    BY <1>2, <1>10, <2>1, <2>2, <2>3, <2>4, CoverStaysInTree
<1> QED
  BY <1>1, <1>6, <1>7, <1>8, <1>9, <1>10, <1>11, <1>12, RootStays DEF AnalysisInv

(* A step within the processing of the current node, which may change its *)
(* flowpipe.                                                              *)
LEMMA StaysBusy ==
  ASSUME AnalysisInv, Busy, Busy',
         UNCHANGED <<ha, par, nodes, workQueue, currentNode, result>>,
         \A n \in DOMAIN nodes : n # currentNode => flowpipe'[n] = flowpipe[n]
  PROVE  /\ QueueInv' /\ BreadthFirst' /\ RootInv'
         /\ SoundConfiguration' => CoverInv'
<1>1. /\ TypeOK /\ ControlInv /\ QueueInv /\ BreadthFirst /\ RootInv
      /\ SoundConfiguration => CoverInv
  BY DEF AnalysisInv
<1>2. TreeGrows
  BY DEF TreeGrows
<1>3. QueueInv'
  BY <1>1, Typed DEF QueueInv
<1>4. BreadthFirst'
  BY <1>1 DEF BreadthFirst
<1>5. SoundConfiguration' => CoverInv'
  <2> SUFFICES ASSUME SoundConfiguration'
               PROVE  CoverInv'
    OBVIOUS
  <2>1. CoverInv
    BY <1>1 DEF SoundConfiguration
  <2>2. result # "failure"
    BY <1>1 DEF ControlInv, Busy
  <2>3. \A m \in DOMAIN nodes : Open(m) => Open(m)'
    BY DEF Open
  <2>4. Open(currentNode)'
    BY DEF Open
  <2>5. ASSUME NEW m \in DOMAIN nodes, m # currentNode, Done(m)
        PROVE  Done(m)'
    BY <1>2, <2>5, DoneStays
  <2>6. \A m \in DOMAIN nodes : Open(m) \/ Done(m) => Open(m)' \/ Done(m)'
    BY <2>3, <2>4, <2>5
  <2> QED
    BY <1>2, <2>1, <2>2, <2>6, CoverStaysInTree
<1> QED
  BY <1>1, <1>2, <1>3, <1>4, <1>5, RootStays

(* The loop turns away from the current node for good.                    *)
LEMMA NodeFinished ==
  ASSUME AnalysisInv, Busy, pc' = "dequeue",
         UNCHANGED <<ha, par, nodes, flowpipe, workQueue, currentNode, result>>,
         SoundConfiguration => Done(currentNode)
  PROVE  /\ QueueInv' /\ BreadthFirst' /\ RootInv'
         /\ SoundConfiguration' => CoverInv'
<1>1. /\ TypeOK /\ ControlInv /\ QueueInv /\ BreadthFirst /\ RootInv
      /\ SoundConfiguration => CoverInv
  BY DEF AnalysisInv
<1>2. TreeGrows
  BY DEF TreeGrows
<1>3. ~Busy'
  BY DEF Busy
<1>4. QueueInv'
  BY <1>1, <1>3 DEF QueueInv
<1>5. BreadthFirst'
  BY <1>1, <1>3 DEF BreadthFirst
<1>6. SoundConfiguration' => CoverInv'
  <2> SUFFICES ASSUME SoundConfiguration'
               PROVE  CoverInv'
    OBVIOUS
  <2>1. SoundConfiguration /\ CoverInv
    BY <1>1 DEF SoundConfiguration
  <2>2. result # "failure"
    BY <1>1 DEF ControlInv, Busy
  <2>3. \A m \in DOMAIN nodes : m # currentNode /\ Open(m) => Open(m)'
    BY DEF Open
  <2>4. ASSUME NEW m \in DOMAIN nodes, Done(m)
        PROVE  Done(m)'
    BY <1>2, <2>4, DoneStays
  <2>5. \A m \in DOMAIN nodes : Open(m) \/ Done(m) => Open(m)' \/ Done(m)'
    BY <2>1, <2>3, <2>4
  <2> QED
    BY <1>2, <2>1, <2>2, <2>5, CoverStaysInTree
<1> QED
  BY <1>1, <1>2, <1>4, <1>5, <1>6, RootStays

(* Storing a segment in the flowpipe of the current node.                 *)
LEMMA StoreSegmentTypes ==
  ASSUME TypeOK, currentNode \in DOMAIN nodes,
         NEW segment \in SUBSET Point, StoreSegment(segment)
  PROVE  /\ flowpipe' \in Seq(Seq(SUBSET Point)) /\ Len(flowpipe') = Len(flowpipe)
         /\ flowpipe'[currentNode] = Append(flowpipe[currentNode], segment)
         /\ \A n \in DOMAIN nodes : n # currentNode => flowpipe'[n] = flowpipe[n]
         /\ safetyResult' \in {"SAFE", "UNKNOWN"}
         /\ pc' \in {"check", "nextSegment"}
         /\ pc' = "check" <=> safetyResult' = "UNKNOWN"
         /\ pc' = "nextSegment" => ~IntersectsBadStates(ha, nodes[currentNode].location, segment)
<1>1. /\ flowpipe \in Seq(Seq(SUBSET Point)) /\ DOMAIN flowpipe = DOMAIN nodes
      /\ flowpipe[currentNode] \in Seq(SUBSET Point)
  BY Typed DEF TypeOK
<1> DEFINE fp == Append(flowpipe[currentNode], segment)
<1>2. fp \in Seq(SUBSET Point)
  BY <1>1
<1>3. flowpipe' = [flowpipe EXCEPT ![currentNode] = fp]
  BY DEF StoreSegment, AppendSegment
<1> HIDE DEF fp
<1>4. /\ flowpipe' \in Seq(Seq(SUBSET Point)) /\ Len(flowpipe') = Len(flowpipe)
      /\ flowpipe'[currentNode] = fp
      /\ \A n \in DOMAIN nodes : n # currentNode => flowpipe'[n] = flowpipe[n]
  BY <1>1, <1>2, <1>3
<1> QED
  BY <1>4 DEF StoreSegment, current, fp

LEMMA ComputeFirstSegmentStep ==
  ASSUME AnalysisInv, ComputeFirstSegment
  PROVE  AnalysisInv'
<1>1. /\ TypeOK /\ ControlInv /\ QueueInv /\ BreadthFirst /\ RootInv
  BY DEF AnalysisInv
<1>2. /\ pc = "firstSegment" /\ Busy
      /\ currentNode \in DOMAIN nodes /\ flowpipe[currentNode] = << >>
      /\ result = "none"
  BY <1>1 DEF ComputeFirstSegment, ControlInv, Busy
<1> DEFINE n == currentNode
           segment == FirstSegment(ha, nodes[n].location, nodes[n].initialSet)
<1>3. /\ StoreSegment(segment)
      /\ UNCHANGED <<ha, par, nodes, boxed, hasFixedPoint, workQueue, currentNode, pending, result>>
  BY DEF ComputeFirstSegment, settings, current
<1>4. segment \in SUBSET Point
  BY <1>1, <1>2, Typed, FirstSegmentType
<1> HIDE DEF segment
<1>5. /\ flowpipe' \in Seq(Seq(SUBSET Point)) /\ Len(flowpipe') = Len(flowpipe)
      /\ flowpipe'[n] = Append(flowpipe[n], segment)
      /\ \A m \in DOMAIN nodes : m # n => flowpipe'[m] = flowpipe[m]
      /\ safetyResult' \in {"SAFE", "UNKNOWN"}
      /\ pc' \in {"check", "nextSegment"}
      /\ pc' = "check" <=> safetyResult' = "UNKNOWN"
      /\ pc' = "nextSegment" => ~IntersectsBadStates(ha, nodes[n].location, segment)
  BY <1>1, <1>2, <1>3, <1>4, StoreSegmentTypes
<1>6. Busy'
  BY <1>5 DEF Busy
<1>7. TypeOK'
  BY <1>1, <1>3, <1>5 DEF TypeOK, Steps
<1>8. ControlInv'
  BY <1>1, <1>2, <1>3, <1>5 DEF ControlInv
<1>9. CurrentInv'
  <2>1. /\ Len(flowpipe'[n]) = 1 /\ flowpipe'[n][1] = segment /\ flowpipe'[n] # << >>
        /\ DOMAIN flowpipe'[n] = {1}
    BY <1>2, <1>4, <1>5
  <2>2. IsFlowpipe(n)'
    BY <1>3, <2>1 DEF IsFlowpipe, segment
  <2>3. pc' = "nextSegment" => IsSafe(n)'
    BY <1>3, <1>5, <2>1 DEF IsSafe
  <2> QED
    BY <1>3, <1>5, <2>2, <2>3 DEF CurrentInv
<1> QED
  BY <1>2, <1>3, <1>5, <1>6, <1>7, <1>8, <1>9, StaysBusy DEF AnalysisInv

LEMMA ComputeNextSegmentStep ==
  ASSUME AnalysisInv, ComputeNextSegment
  PROVE  AnalysisInv'
<1> DEFINE n == currentNode
           fp == flowpipe[n]
           segment == NextSegment(ha, nodes[n].location, fp[Len(fp)])
<1>1. TypeOK /\ ControlInv /\ CurrentInv
  BY DEF AnalysisInv
<1>2. /\ pc = "nextSegment" /\ Busy /\ result = "none"
      /\ n \in DOMAIN nodes
      /\ IsFlowpipe(n) /\ IsSafe(n)
  BY <1>1 DEF ComputeNextSegment, ControlInv, CurrentInv, Busy
<1>3. UNCHANGED <<ha, par, nodes, boxed, hasFixedPoint, workQueue, currentNode, pending, result>>
  BY DEF ComputeNextSegment, settings
<1>4. /\ fp \in Seq(SUBSET Point) /\ fp # << >>
      /\ Len(fp) \in DOMAIN fp /\ fp[Len(fp)] \in SUBSET Point
  BY <1>1, <1>2, Typed DEF IsFlowpipe
<1>5. segment \in SUBSET Point
  BY <1>1, <1>2, <1>4, Typed, NextSegmentType
<1>6. TreeGrows
  BY <1>3 DEF TreeGrows
<1>7. CASE Len(fp) < NumSegments(par.horizon, par.timeStep) /\ segment # {}
  <2>1. StoreSegment(segment)
    BY <1>7 DEF ComputeNextSegment, current
  <2> HIDE DEF segment
  <2>2. /\ flowpipe' \in Seq(Seq(SUBSET Point)) /\ Len(flowpipe') = Len(flowpipe)
        /\ flowpipe'[n] = Append(fp, segment)
        /\ \A m \in DOMAIN nodes : m # n => flowpipe'[m] = flowpipe[m]
        /\ safetyResult' \in {"SAFE", "UNKNOWN"}
        /\ pc' \in {"check", "nextSegment"}
        /\ pc' = "check" <=> safetyResult' = "UNKNOWN"
        /\ pc' = "nextSegment" => ~IntersectsBadStates(ha, nodes[n].location, segment)
    BY <1>1, <1>2, <1>5, <2>1, StoreSegmentTypes
  <2>3. Busy'
    BY <2>2 DEF Busy
  <2>4. TypeOK'
    BY <1>1, <1>3, <2>2 DEF TypeOK, Steps
  <2>5. ControlInv'
    BY <1>1, <1>2, <1>3, <2>2 DEF ControlInv
  <2>6. /\ Len(flowpipe'[n]) = Len(fp) + 1 /\ flowpipe'[n] # << >>
        /\ DOMAIN flowpipe'[n] = DOMAIN fp \cup {Len(fp) + 1}
        /\ \A k \in DOMAIN fp : flowpipe'[n][k] = fp[k]
        /\ flowpipe'[n][Len(fp) + 1] = segment
    <3>1. /\ Append(fp, segment) \in Seq(SUBSET Point)
          /\ Len(Append(fp, segment)) = Len(fp) + 1
          /\ DOMAIN Append(fp, segment) = DOMAIN fp \cup {Len(fp) + 1}
          /\ \A k \in DOMAIN fp : Append(fp, segment)[k] = fp[k]
          /\ Append(fp, segment)[Len(fp) + 1] = segment
      BY <1>4, <1>5, Appended
    <3>2. Append(fp, segment) # << >>
      BY <1>4, <3>1
    <3> QED
      BY <2>2, <3>1, <3>2
  <2>7. IsFlowpipe(n)'
    <3>1. 1 \in DOMAIN fp
      BY <1>4
    <3>2. flowpipe'[n][1] = FirstSegment(ha', nodes'[n].location, nodes'[n].initialSet)
      BY <1>2, <1>3, <2>6, <3>1 DEF IsFlowpipe
    <3>3. ASSUME NEW k \in 1..Len(flowpipe'[n]) - 1
          PROVE  flowpipe'[n][k + 1] = NextSegment(ha', nodes'[n].location, flowpipe'[n][k])
      <4>1. k \in DOMAIN fp /\ Len(fp) \in Nat
        BY <1>4, <2>6
      <4>2. CASE k = Len(fp)
        BY <1>3, <2>6, <4>1, <4>2 DEF segment
      <4>3. CASE k # Len(fp)
        <5>1. k \in 1..Len(fp) - 1 /\ k + 1 \in DOMAIN fp
          BY <1>4, <4>1, <4>3
        <5>2. fp[k + 1] = NextSegment(ha, nodes[n].location, fp[k])
          BY <1>2, <5>1 DEF IsFlowpipe
        <5> QED
          BY <1>3, <2>6, <4>1, <5>1, <5>2
      <4> QED
        BY <4>2, <4>3
    <3> QED
      BY <1>3, <2>6, <3>2, <3>3 DEF IsFlowpipe
  <2>8. pc' = "nextSegment" => IsSafe(n)'
    BY <1>2, <1>3, <2>2, <2>6 DEF IsSafe
  <2>9. CurrentInv'
    BY <1>3, <2>2, <2>7, <2>8 DEF CurrentInv
  <2> QED
    BY <1>2, <1>3, <2>2, <2>3, <2>4, <2>5, <2>9, StaysBusy DEF AnalysisInv
<1>8. CASE ~(Len(fp) < NumSegments(par.horizon, par.timeStep) /\ segment # {})
  <2>1. pc' = "check" /\ flowpipe' = flowpipe /\ safetyResult' = safetyResult
    BY <1>8 DEF ComputeNextSegment, current
  <2>2. Busy'
    BY <2>1 DEF Busy
  <2>3. TypeOK'
    BY <1>1, <1>3, <2>1 DEF TypeOK, Steps
  <2>4. ControlInv'
    BY <1>1, <1>2, <1>3, <2>1 DEF ControlInv
  <2>5. IsComplete(n)
    <3>1. Len(fp) \in Nat /\ NumSegments(par.horizon, par.timeStep) \in Nat
      BY <1>1, <1>4, SettingTypes
    <3> QED
      BY <1>8, <3>1 DEF IsComplete
  <2>6. IsFlowpipe(n)' /\ IsComplete(n)' /\ IsSafe(n)'
    BY <1>2, <1>3, <1>6, <2>1, <2>5, FlowpipeStays
  <2>7. CurrentInv'
    BY <1>3, <2>1, <2>6 DEF CurrentInv
  <2> QED
    BY <1>2, <1>3, <2>1, <2>2, <2>3, <2>4, <2>7, StaysBusy DEF AnalysisInv
<1> QED
  BY <1>7, <1>8

LEMMA SkipCoveredNodeStep ==
  ASSUME AnalysisInv, SkipCoveredNode
  PROVE  AnalysisInv'
<1>1. TypeOK /\ ControlInv
  BY DEF AnalysisInv
<1>2. /\ pc = "check" /\ Busy /\ result = "none" /\ pc' = "dequeue"
      /\ UNCHANGED <<ha, par, nodes, flowpipe, boxed, workQueue, currentNode, safetyResult,
                     pending, result>>
  BY <1>1 DEF SkipCoveredNode, settings, ControlInv, Busy
<1>3. hasFixedPoint' \in Seq(TriBool) /\ Len(hasFixedPoint') = Len(hasFixedPoint)
  <2>1. hasFixedPoint \in Seq(TriBool) /\ "TRUE" \in TriBool
    BY <1>1 DEF TypeOK, TriBool
  <2>2. LET marked == SetFixedPoint(nodes, hasFixedPoint, currentNode, "TRUE")
        IN  marked \in Seq(TriBool) /\ Len(marked) = Len(hasFixedPoint)
    BY <2>1, SetFixedPointType
  <2>3. \/ hasFixedPoint' = SetFixedPoint(nodes, hasFixedPoint, currentNode, "TRUE")
        \/ hasFixedPoint' = hasFixedPoint
    BY DEF SkipCoveredNode
  <2> QED
    BY <2>1, <2>2, <2>3
<1>4. TypeOK'
  BY <1>1, <1>2, <1>3 DEF TypeOK, Steps
<1>5. ~Busy'
  BY <1>2 DEF Busy
<1>6. ControlInv'
  BY <1>1, <1>2, <1>5 DEF ControlInv
<1>7. CurrentInv'
  BY <1>2 DEF CurrentInv
<1>8. ~SoundConfiguration
  BY DEF SkipCoveredNode, CoveredContinuously, SoundConfiguration
<1> QED
  BY <1>2, <1>4, <1>6, <1>7, <1>8, NodeFinished DEF AnalysisInv

LEMMA ReportConflictStep ==
  ASSUME AnalysisInv, ReportConflict
  PROVE  AnalysisInv'
<1>1. /\ TypeOK /\ ControlInv /\ QueueInv /\ BreadthFirst /\ RootInv
  BY DEF AnalysisInv
<1>2. /\ pc = "check" /\ Busy /\ result' = "failure" /\ pc' = "done"
      /\ UNCHANGED <<ha, par, nodes, flowpipe, boxed, hasFixedPoint, workQueue, currentNode,
                     safetyResult, pending>>
  BY DEF ReportConflict, settings, Busy
<1>3. ~Busy'
  BY <1>2 DEF Busy
<1>4. TypeOK'
  BY <1>1, <1>2 DEF TypeOK, Steps
<1>5. ControlInv'
  BY <1>1, <1>2, <1>3 DEF ControlInv
<1>6. QueueInv' /\ BreadthFirst' /\ RootInv'
  BY <1>1, <1>2, <1>3 DEF QueueInv, BreadthFirst, RootInv
<1>7. CurrentInv' /\ CoverInv'
  BY <1>2 DEF CurrentInv, CoverInv
<1> QED
  BY <1>4, <1>5, <1>6, <1>7 DEF AnalysisInv

LEMMA PassCheckStep ==
  ASSUME AnalysisInv, PassCheck
  PROVE  AnalysisInv'
<1>1. TypeOK /\ ControlInv /\ CurrentInv
  BY DEF AnalysisInv
<1>2. /\ pc = "check" /\ Busy /\ result = "none" /\ safetyResult = "SAFE"
      /\ currentNode \in DOMAIN nodes
      /\ IsFlowpipe(currentNode) /\ IsSafe(currentNode) /\ IsComplete(currentNode)
  BY <1>1 DEF PassCheck, ControlInv, CurrentInv, Busy
<1>3. /\ pc' = IF nodes[currentNode].depth = par.jumpDepth THEN "dequeue" ELSE "expand"
      /\ UNCHANGED <<ha, par, nodes, flowpipe, boxed, hasFixedPoint, workQueue, currentNode,
                     safetyResult, pending, result>>
  BY DEF PassCheck, settings, current
<1>4. TypeOK'
  BY <1>1, <1>3 DEF TypeOK, Steps
<1>5. ControlInv'
  BY <1>1, <1>2, <1>3 DEF ControlInv
<1>6. CASE nodes[currentNode].depth = par.jumpDepth
  <2>1. pc' = "dequeue"
    BY <1>3, <1>6
  <2>2. Done(currentNode)
    BY <1>2, <1>6 DEF Done, IsExpanded
  <2>3. CurrentInv'
    BY <2>1 DEF CurrentInv
  <2> QED
    BY <1>2, <1>3, <1>4, <1>5, <2>1, <2>2, <2>3, NodeFinished DEF AnalysisInv
<1>7. CASE nodes[currentNode].depth # par.jumpDepth
  <2>1. pc' = "expand" /\ Busy'
    BY <1>3, <1>7 DEF Busy
  <2>2. TreeGrows
    BY <1>3 DEF TreeGrows
  <2>3. IsFlowpipe(currentNode)' /\ IsSafe(currentNode)' /\ IsComplete(currentNode)'
    BY <1>2, <1>3, <2>2, FlowpipeStays
  <2>4. CurrentInv'
    BY <2>1, <2>3 DEF CurrentInv
  <2> QED
    BY <1>2, <1>3, <1>4, <1>5, <2>1, <2>4, StaysBusy DEF AnalysisInv
<1> QED
  BY <1>6, <1>7

LEMMA ComputeJumpSuccessorsStep ==
  ASSUME AnalysisInv, ComputeJumpSuccessors
  PROVE  AnalysisInv'
<1>1. TypeOK /\ ControlInv /\ CurrentInv
  BY DEF AnalysisInv
<1>2. /\ pc = "expand" /\ Busy /\ result = "none" /\ pc' = "jumps" /\ Busy'
      /\ currentNode \in DOMAIN nodes
      /\ IsFlowpipe(currentNode) /\ IsSafe(currentNode) /\ IsComplete(currentNode)
  BY <1>1 DEF ComputeJumpSuccessors, ControlInv, CurrentInv, Busy
<1>3. UNCHANGED <<ha, par, nodes, flowpipe, boxed, hasFixedPoint, workQueue, currentNode,
                 safetyResult, result>>
  BY DEF ComputeJumpSuccessors, settings
<1>4. pending' = {j \in Successors(currentNode) :
                    j.transition \notin ZenoTransitions(ha, nodes, par, currentNode)}
  BY DEF ComputeJumpSuccessors, Successors, current
<1>5. TypeOK'
  <2>1. \A j \in Successors(currentNode) : j.transition \in DOMAIN ha.transition
    BY SuccessorTransition DEF Successors
  <2>2. \A j \in pending' : j.transition \in DOMAIN ha'.transition
    BY <1>3, <1>4, <2>1
  <2> QED
    BY <1>1, <1>2, <1>3, <2>2 DEF TypeOK, Steps
<1>6. TreeGrows
  BY <1>3 DEF TreeGrows
<1>7. Successors(currentNode)' = Successors(currentNode)
  BY <1>2, <1>3, <1>6, FlowpipeStays
<1>8. ControlInv'
  BY <1>1, <1>2, <1>3, <1>4, <1>7 DEF ControlInv
<1>9. CurrentInv'
  <2>1. IsFlowpipe(currentNode)' /\ IsSafe(currentNode)' /\ IsComplete(currentNode)'
    BY <1>2, <1>3, <1>6, FlowpipeStays
  <2>2. ~par.detectZenoBehavior => pending' = Successors(currentNode)
    BY <1>4 DEF ZenoTransitions
  <2> QED
    BY <1>2, <1>3, <1>7, <2>1, <2>2 DEF CurrentInv
<1> QED
  BY <1>2, <1>3, <1>5, <1>8, <1>9, StaysBusy DEF AnalysisInv

LEMMA FinishNodeStep ==
  ASSUME AnalysisInv, FinishNode
  PROVE  AnalysisInv'
<1>1. TypeOK /\ ControlInv /\ CurrentInv
  BY DEF AnalysisInv
<1>2. /\ pc = "jumps" /\ Busy /\ result = "none" /\ pc' = "dequeue" /\ ~Busy' /\ pending = {}
      /\ IsFlowpipe(currentNode) /\ IsSafe(currentNode) /\ IsComplete(currentNode)
  BY <1>1 DEF FinishNode, ControlInv, CurrentInv, Busy
<1>3. UNCHANGED <<ha, par, nodes, flowpipe, boxed, workQueue, currentNode, safetyResult,
                 pending, result>>
  BY DEF FinishNode, settings
<1>4. hasFixedPoint' \in Seq(TriBool) /\ Len(hasFixedPoint') = Len(hasFixedPoint)
  <2>1. hasFixedPoint \in Seq(TriBool) /\ "TRUE" \in TriBool
    BY <1>1 DEF TypeOK, TriBool
  <2>2. LET marked == SetFixedPoint(nodes, hasFixedPoint, currentNode, "TRUE")
        IN  marked \in Seq(TriBool) /\ Len(marked) = Len(hasFixedPoint)
    BY <2>1, SetFixedPointType
  <2>3. \/ hasFixedPoint' = SetFixedPoint(nodes, hasFixedPoint, currentNode, "TRUE")
        \/ hasFixedPoint' = hasFixedPoint
    BY DEF FinishNode
  <2> QED
    BY <2>1, <2>2, <2>3
<1>5. TypeOK'
  BY <1>1, <1>2, <1>3, <1>4 DEF TypeOK, Steps
<1>6. ControlInv'
  BY <1>1, <1>2, <1>3 DEF ControlInv
<1>7. CurrentInv'
  BY <1>2 DEF CurrentInv
<1>8. SoundConfiguration => Done(currentNode)
  <2>1. ~par.detectZenoBehavior =>
          \A j \in Successors(currentNode) : HasChildFor(currentNode, j)
    BY <1>1, <1>2 DEF CurrentInv
  <2> QED
    BY <1>2, <2>1 DEF SoundConfiguration, Done, IsExpanded
<1> QED
  BY <1>2, <1>3, <1>5, <1>6, <1>7, <1>8, NodeFinished DEF AnalysisInv

LEMMA SucceedStep ==
  ASSUME AnalysisInv, Succeed
  PROVE  AnalysisInv'
<1>1. /\ TypeOK /\ ControlInv /\ QueueInv /\ BreadthFirst /\ RootInv
      /\ SoundConfiguration => CoverInv
  BY DEF AnalysisInv
<1>2. /\ pc = "dequeue" /\ workQueue = << >> /\ result = "none"
      /\ result' = "success" /\ pc' = "done" /\ ~Busy /\ ~Busy'
      /\ UNCHANGED <<ha, par, nodes, flowpipe, boxed, hasFixedPoint, workQueue, currentNode,
                     safetyResult, pending>>
  BY <1>1 DEF Succeed, settings, Busy, ControlInv
<1>3. TypeOK'
  BY <1>1, <1>2 DEF TypeOK, Steps
<1>4. ControlInv'
  BY <1>1, <1>2 DEF ControlInv
<1>5. QueueInv' /\ BreadthFirst' /\ RootInv' /\ CurrentInv'
  BY <1>1, <1>2 DEF QueueInv, BreadthFirst, RootInv, CurrentInv
<1>6. SoundConfiguration' => CoverInv'
  <2> SUFFICES ASSUME SoundConfiguration'
               PROVE  CoverInv'
    OBVIOUS
  <2>1. CoverInv /\ TreeGrows
    BY <1>1, <1>2 DEF SoundConfiguration, TreeGrows
  <2>2. \A m \in DOMAIN nodes : Open(m) => Open(m)'
    BY <1>2 DEF Open
  <2>3. ASSUME NEW m \in DOMAIN nodes, Done(m)
        PROVE  Done(m)'
    BY <1>2, <2>1, <2>3, DoneStays
  <2>4. \A m \in DOMAIN nodes : Open(m) \/ Done(m) => Open(m)' \/ Done(m)'
    BY <2>2, <2>3
  <2> QED
    BY <1>2, <2>1, <2>4, CoverStaysInTree
<1> QED
  BY <1>3, <1>4, <1>5, <1>6 DEF AnalysisInv

(* The child of a node for a jump successor.                              *)
LEMMA ChildOfFacts ==
  ASSUME TypeOK, NEW n \in DOMAIN nodes, NEW j, j.transition \in DOMAIN ha.transition
  PROVE  /\ ChildOf(n, j) \in NodeType
         /\ ChildOf(n, j).location = ha.transition[j.transition].target
         /\ ChildOf(n, j).depth = nodes[n].depth + 1
         /\ ChildOf(n, j).initialSet = SuccessorSet(ha, j.transition, par, flowpipe[n], j.block)
<1> DEFINE fp == flowpipe[n]
           S == SuccessorSet(ha, j.transition, par, fp, j.block)
           first == BlockFirst(ha, j.transition, par, fp, j.block)
           last == BlockLast(ha, j.transition, par, fp, j.block)
           lower == nodes[n].lower + first * par.timeStepFactor
           upper == nodes[n].upper + (last + 1) * par.timeStepFactor
<1>2. /\ ha \in Automata /\ nodes \in Seq(NodeType) /\ fp \in Seq(SUBSET Point)
      /\ nodes[n].lower \in Int /\ nodes[n].upper \in Int
  BY Typed DEF TypeOK
<1>3. S \in SUBSET Point
  BY <1>2, SuccessorSetType
<1>4. lower \in Int /\ upper \in Int
  <2>1. first \in Int /\ last \in Int
    BY <1>2, BlockBoundsType
  <2>2. par.timeStepFactor \in Int
    BY SettingTypes
  <2> HIDE DEF first, last
  <2> QED
    BY <1>2, <2>1, <2>2
<1>5. ChildOf(n, j) = ChildNode(ha, nodes, n, S, lower, upper, j.transition)
  BY DEF ChildOf, EndOfSegment
<1> HIDE DEF S, lower, upper
<1>6. /\ ChildOf(n, j) \in NodeType
      /\ ChildOf(n, j).location = ha.transition[j.transition].target
      /\ ChildOf(n, j).depth = nodes[n].depth + 1
      /\ ChildOf(n, j).initialSet = S
  BY <1>2, <1>3, <1>4, <1>5, ChildNodeType
<1> QED
  BY <1>6 DEF S

LEMMA ChildFacts ==
  ASSUME AnalysisInv, pc = "jumps", NEW j \in pending
  PROVE  /\ Child(j) = ChildOf(currentNode, j)
         /\ Child(j) \in NodeType
         /\ Child(j).location = ha.transition[j.transition].target
         /\ Child(j).depth = nodes[currentNode].depth + 1
         /\ Child(j).initialSet = SuccessorSet(ha, j.transition, par, flowpipe[currentNode], j.block)
<1>1. TypeOK /\ currentNode \in DOMAIN nodes /\ j.transition \in DOMAIN ha.transition
  BY DEF AnalysisInv, TypeOK, ControlInv, Busy
<1>2. Child(j) = ChildOf(currentNode, j)
  BY DEF Child, ChildOf, current
<1> QED
  BY <1>1, <1>2, ChildOfFacts

LEMMA AddChildStep ==
  ASSUME AnalysisInv, AddChild
  PROVE  AnalysisInv'
<1>1. /\ TypeOK /\ ControlInv /\ QueueInv /\ BreadthFirst /\ RootInv /\ CurrentInv
      /\ SoundConfiguration => CoverInv
  BY DEF AnalysisInv
<1>0. PICK n \in Nat : n = Len(nodes) + 1
  BY <1>1 DEF TypeOK
<1> DEFINE reached == par.detectJumpFixedPoints /\ DetectJumpFixedPoint(nodes', boxed, par, n)
<1>2. /\ pc = "jumps" /\ Busy /\ result = "none" /\ pc' = pc /\ Busy'
      /\ currentNode \in DOMAIN nodes
      /\ IsFlowpipe(currentNode) /\ IsSafe(currentNode) /\ IsComplete(currentNode)
      /\ UNCHANGED <<ha, par, currentNode, safetyResult, result>>
      /\ flowpipe' = Append(flowpipe, << >>)
  BY <1>1 DEF AddChild, settings, ControlInv, CurrentInv, Busy, NewFlowpipe
<1>3. PICK j \in pending :
        /\ pending' = pending \ {j}
        /\ nodes' = Append(nodes, Child(j))
        /\ hasFixedPoint' = IF ~par.detectJumpFixedPoints THEN Append(hasFixedPoint, "NSET")
                            ELSE SetFixedPoint(nodes', Append(hasFixedPoint, "NSET"), n,
                                               IF reached THEN "TRUE" ELSE "FALSE")
        /\ boxed' = IF par.detectJumpFixedPoints THEN boxed \cup {n} ELSE boxed
        /\ workQueue' = IF reached THEN workQueue ELSE Enqueue(workQueue, n)
  BY <1>0 DEF AddChild
<1>4. /\ nodes \in Seq(NodeType) /\ Child(j) \in NodeType
      /\ Len(nodes) \in Nat /\ DOMAIN nodes = 1..Len(nodes) /\ n \notin DOMAIN nodes
  BY <1>0, <1>1, <1>2, ChildFacts DEF TypeOK
<1>5. /\ nodes' \in Seq(NodeType) /\ Len(nodes') = n
      /\ DOMAIN nodes' = DOMAIN nodes \cup {n}
      /\ \A m \in DOMAIN nodes : nodes'[m] = nodes[m]
      /\ nodes'[n] = Child(j)
  BY <1>0, <1>3, <1>4, Appended
<1>6. /\ flowpipe' \in Seq(Seq(SUBSET Point)) /\ Len(flowpipe') = n
      /\ \A m \in DOMAIN nodes : flowpipe'[m] = flowpipe[m]
      /\ flowpipe'[n] = << >>
  <2>1. /\ flowpipe \in Seq(Seq(SUBSET Point)) /\ << >> \in Seq(SUBSET Point)
        /\ Len(flowpipe) = Len(nodes) /\ DOMAIN flowpipe = DOMAIN nodes
    BY <1>1, Typed DEF TypeOK
  <2>2. /\ Append(flowpipe, << >>) \in Seq(Seq(SUBSET Point))
        /\ Len(Append(flowpipe, << >>)) = Len(flowpipe) + 1
        /\ \A m \in DOMAIN flowpipe : Append(flowpipe, << >>)[m] = flowpipe[m]
        /\ Append(flowpipe, << >>)[Len(flowpipe) + 1] = << >>
    BY <2>1, Appended
  <2> QED
    BY <1>0, <1>2, <2>1, <2>2
<1>7. TreeGrows
  BY <1>2, <1>5 DEF TreeGrows
<1>8. /\ workQueue' \in Seq(DOMAIN nodes')
      /\ \A i \in DOMAIN workQueue : i \in DOMAIN workQueue' /\ workQueue'[i] = workQueue[i]
      /\ \A i \in DOMAIN workQueue' \ DOMAIN workQueue :
           i = Len(workQueue) + 1 /\ workQueue'[i] = n /\ ~reached
      /\ ~reached => \E i \in DOMAIN workQueue' : workQueue'[i] = n
      /\ DOMAIN workQueue = 1..Len(workQueue) /\ Len(workQueue) \in Nat
  <2>1. workQueue \in Seq(DOMAIN nodes) /\ DOMAIN nodes \subseteq DOMAIN nodes' /\ n \in DOMAIN nodes'
    BY <1>1, <1>5 DEF TypeOK
  <2>2. workQueue \in Seq(DOMAIN nodes')
    BY <2>1, SeqLarger
  <2>3. /\ Append(workQueue, n) \in Seq(DOMAIN nodes')
        /\ DOMAIN Append(workQueue, n) = DOMAIN workQueue \cup {Len(workQueue) + 1}
        /\ \A i \in DOMAIN workQueue : Append(workQueue, n)[i] = workQueue[i]
        /\ Append(workQueue, n)[Len(workQueue) + 1] = n
    BY <2>1, <2>2, Appended
  <2>4. workQueue' = IF reached THEN workQueue ELSE Append(workQueue, n)
    BY <1>3 DEF Enqueue
  <2>5. DOMAIN workQueue = 1..Len(workQueue) /\ Len(workQueue) \in Nat
    BY <2>2
  <2> HIDE DEF reached
  <2>6. CASE reached
    BY <2>2, <2>4, <2>5, <2>6
  <2>7. CASE ~reached
    BY <2>3, <2>4, <2>5, <2>7
  <2> QED
    BY <2>6, <2>7
<1>9. /\ Child(j).location = ha.transition[j.transition].target
      /\ Child(j).depth = nodes[currentNode].depth + 1
      /\ Child(j).initialSet = SuccessorSet(ha, j.transition, par, flowpipe[currentNode], j.block)
  BY <1>1, <1>2, ChildFacts DEF AnalysisInv
<1>10. \A i \in DOMAIN workQueue : workQueue[i] \in DOMAIN nodes
  BY <1>1, Typed
<1> HIDE DEF reached
<1>11. TypeOK'
  <2>1. hasFixedPoint' \in Seq(TriBool) /\ Len(hasFixedPoint') = n
    <3>1. hasFixedPoint \in Seq(TriBool) /\ Len(hasFixedPoint) = Len(nodes)
      BY <1>1 DEF TypeOK
    <3>2. /\ Append(hasFixedPoint, "NSET") \in Seq(TriBool)
          /\ Len(Append(hasFixedPoint, "NSET")) = n
      BY <1>0, <3>1, Appended DEF TriBool
    <3>3. (IF reached THEN "TRUE" ELSE "FALSE") \in TriBool
      BY DEF TriBool
    <3> DEFINE flag == Append(hasFixedPoint, "NSET")
               value == IF reached THEN "TRUE" ELSE "FALSE"
    <3>4. \/ hasFixedPoint' = flag
          \/ hasFixedPoint' = SetFixedPoint(nodes', flag, n, value)
      BY <1>3
    <3> HIDE DEF flag, value
    <3>5. flag \in Seq(TriBool) /\ Len(flag) = n /\ value \in TriBool
      BY <3>2, <3>3 DEF flag, value
    <3>6. /\ SetFixedPoint(nodes', flag, n, value) \in Seq(TriBool)
          /\ Len(SetFixedPoint(nodes', flag, n, value)) = n
      BY <3>5, SetFixedPointType
    <3> QED
      BY <3>4, <3>5, <3>6
  <2>2. boxed' \subseteq DOMAIN nodes'
    BY <1>1, <1>3, <1>5 DEF TypeOK
  <2>3. \A i \in pending' : i.transition \in DOMAIN ha'.transition
    BY <1>1, <1>2, <1>3 DEF TypeOK
  <2>4. currentNode' \in DOMAIN nodes' \cup {NoNode}
    BY <1>2, <1>5
  <2> QED
    BY <1>1, <1>2, <1>5, <1>6, <1>8, <2>1, <2>2, <2>3, <2>4 DEF TypeOK
<1>typed. \A m \in DOMAIN nodes' : nodes'[m].depth \in Nat
  <2>1. \A m \in DOMAIN nodes' : nodes'[m] \in NodeType
    BY <1>4, <1>5
  <2> QED
    BY <2>1 DEF NodeType
<1>12. ControlInv'
  <2>1. Successors(currentNode)' = Successors(currentNode)
    BY <1>2, <1>6, <1>7, FlowpipeStays
  <2>2. pending' \subseteq Successors(currentNode)
    BY <1>1, <1>2, <1>3 DEF ControlInv
  <2> QED
    BY <1>2, <1>5, <2>1, <2>2 DEF ControlInv
<1>13. QueueInv'
  <2>1. \A i \in DOMAIN workQueue' : flowpipe'[workQueue'[i]] = << >>
    <3> TAKE i \in DOMAIN workQueue'
    <3>1. CASE i \in DOMAIN workQueue
      BY <1>1, <1>6, <1>8, <1>10, <3>1 DEF QueueInv
    <3>2. CASE i \notin DOMAIN workQueue
      <4>1. workQueue'[i] = n
        BY <1>8, <3>2
      <4> QED
        BY <1>6, <4>1
    <3> QED
      BY <3>1, <3>2
  <2>2. \A i, k \in DOMAIN workQueue' : workQueue'[i] = workQueue'[k] => i = k
    BY <1>1, <1>4, <1>8, <1>10 DEF QueueInv
  <2>3. \A i \in DOMAIN workQueue' : workQueue'[i] # currentNode'
    BY <1>1, <1>2, <1>4, <1>8 DEF QueueInv
  <2> QED
    BY <2>1, <2>2, <2>3 DEF QueueInv
<1>14. BreadthFirst'
  <2> DEFINE d == nodes[currentNode].depth
  <2>1. /\ d \in Nat /\ nodes'[n].depth = d + 1 /\ nodes'[currentNode'].depth = d
        /\ \A m \in DOMAIN nodes : nodes[m].depth \in Nat /\ nodes[m].depth <= d + 1
        /\ \A i \in DOMAIN workQueue : d <= nodes[workQueue[i]].depth
    BY <1>1, <1>2, <1>5, <1>9, Typed DEF BreadthFirst
  <2>2. \A i \in DOMAIN workQueue' :
          \/ i \in DOMAIN workQueue /\ nodes'[workQueue'[i]].depth = nodes[workQueue[i]].depth
          \/ i = Len(workQueue) + 1 /\ nodes'[workQueue'[i]].depth = d + 1
    BY <1>5, <1>8, <1>10, <2>1
  <2>3. \A m \in DOMAIN nodes' : nodes'[m].depth <= d + 1
    BY <1>5, <2>1
  <2> HIDE DEF d
  <2>4. \A i, k \in DOMAIN workQueue' : i <= k =>
          nodes'[workQueue'[i]].depth <= nodes'[workQueue'[k]].depth
    <3> SUFFICES ASSUME NEW i \in DOMAIN workQueue', NEW k \in DOMAIN workQueue', i <= k
                 PROVE  nodes'[workQueue'[i]].depth <= nodes'[workQueue'[k]].depth
      OBVIOUS
    <3>1. CASE k \in DOMAIN workQueue
      <4>1. i \in DOMAIN workQueue
        BY <1>8, <2>2, <3>1
      <4> QED
        BY <1>1, <1>5, <1>8, <1>10, <3>1, <4>1 DEF BreadthFirst
    <3>2. CASE k \notin DOMAIN workQueue
      <4>1. nodes'[workQueue'[k]].depth = d + 1
        BY <2>2, <3>2
      <4>2. workQueue'[i] \in DOMAIN nodes'
        BY <1>8
      <4> QED
        BY <2>3, <4>1, <4>2
    <3> QED
      BY <3>1, <3>2
  <2>5. \A i \in DOMAIN workQueue' : d <= nodes'[workQueue'[i]].depth
    BY <2>1, <2>2
  <2>6. \A i \in DOMAIN workQueue', m \in DOMAIN nodes' :
          nodes'[m].depth <= nodes'[workQueue'[i]].depth + 1
    <3> TAKE i \in DOMAIN workQueue', m \in DOMAIN nodes'
    <3>1. nodes'[workQueue'[i]].depth \in Nat /\ d <= nodes'[workQueue'[i]].depth
      BY <1>10, <2>1, <2>2, <2>5
    <3>2. nodes'[m].depth \in Nat /\ nodes'[m].depth <= d + 1
      BY <1>5, <2>1, <2>3
    <3> QED
      BY <2>1, <3>1, <3>2
  <2> QED
    BY <2>1, <2>3, <2>4, <2>5, <2>6 DEF BreadthFirst
<1>15. CurrentInv'
  <2>1. IsFlowpipe(currentNode)' /\ IsSafe(currentNode)' /\ IsComplete(currentNode)'
    BY <1>2, <1>6, <1>7, FlowpipeStays
  <2>2. /\ Successors(currentNode)' = Successors(currentNode)
        /\ \A i : HasChildFor(currentNode, i) => HasChildFor(currentNode, i)'
    BY <1>2, <1>6, <1>7, FlowpipeStays
  <2>3. HasChildFor(currentNode, j)'
    <3>1. nodes'[n] = ChildOf(currentNode, j)
      BY <1>1, <1>2, <1>5, ChildFacts DEF AnalysisInv
    <3>2. ChildOf(currentNode, j)' = ChildOf(currentNode, j)
      BY <1>2, <1>5, <1>6 DEF ChildOf, ChildNode, EndOfSegment
    <3> QED
      BY <1>5, <3>1, <3>2 DEF HasChildFor
  <2>4. ~par'.detectZenoBehavior =>
          \A i \in Successors(currentNode)' \ pending' : HasChildFor(currentNode, i)'
    BY <1>1, <1>2, <1>3, <2>2, <2>3 DEF CurrentInv
  <2> QED
    BY <1>2, <2>1, <2>4 DEF CurrentInv
<1>16. SoundConfiguration' => CoverInv'
  <2> SUFFICES ASSUME SoundConfiguration'
               PROVE  CoverInv'
    OBVIOUS
  <2>1. CoverInv /\ result # "failure"
    BY <1>1, <1>2 DEF SoundConfiguration
  <2>2. \A m \in DOMAIN nodes : Open(m) => Open(m)'
    BY <1>2, <1>8 DEF Open
  <2>3. ASSUME NEW m \in DOMAIN nodes, Done(m)
        PROVE  Done(m)'
    BY <1>6, <1>7, <2>3, DoneStays
  <2>4. \A k \in DOMAIN nodes : \A p \in nodes[k].initialSet :
          \E m \in DOMAIN nodes' : CoveredBy(k, p, m)'
    BY <1>7, <2>1, <2>2, <2>3, CoverStays
  <2>5. ASSUME NEW p \in nodes'[n].initialSet
        PROVE  \E m \in DOMAIN nodes' : CoveredBy(n, p, m)'
    <3>1. CASE reached
      <4>1. PICK k \in boxed : nodes'[k].location = nodes'[n].location /\ p \in nodes'[k].initialSet
        BY <2>5, <3>1, JumpFixedPointCovers DEF reached
      <4>2. /\ k \in DOMAIN nodes /\ nodes'[k] = nodes[k]
            /\ nodes[k].depth \in Nat /\ nodes[currentNode].depth \in Nat
        BY <1>1, <1>2, <1>5, <4>1, Typed DEF TypeOK
      <4>3. PICK m \in DOMAIN nodes' : CoveredBy(k, p, m)'
        BY <2>4, <4>1, <4>2
      <4>4. nodes'[k].depth <= nodes'[n].depth
        BY <1>1, <1>2, <1>5, <1>9, <4>2 DEF BreadthFirst
      <4>5. nodes'[m].depth <= nodes'[n].depth
        <5>1. nodes'[m].depth <= nodes'[k].depth
          BY <4>3 DEF CoveredBy
        <5>2. /\ nodes'[m].depth \in Nat /\ nodes'[k].depth \in Nat
              /\ nodes'[n].depth \in Nat
          BY <1>5, <1>11, <1>typed, <4>2
        <5> QED
          BY <4>4, <5>1, <5>2
      <4> QED
        BY <4>1, <4>3, <4>5 DEF CoveredBy
    <3>2. CASE ~reached
      <4>1. Open(n)'
        BY <1>8, <3>2 DEF Open
      <4>2. nodes'[n].depth <= nodes'[n].depth
        BY <1>2, <1>5, <1>9, <1>1, Typed
      <4> QED
        BY <1>5, <2>5, <4>1, <4>2 DEF CoveredBy
    <3> QED
      BY <3>1, <3>2
  <2>6. \A k \in DOMAIN nodes : nodes'[k].initialSet = nodes[k].initialSet
    BY <1>5
  <2>7. \A k \in DOMAIN nodes' : \A p \in nodes'[k].initialSet :
          \E m \in DOMAIN nodes' : CoveredBy(k, p, m)'
    BY <1>5, <2>4, <2>5, <2>6
  <2> QED
    BY <2>7 DEF CoverInv
<1> QED
  BY <1>1, <1>7, <1>11, <1>12, <1>13, <1>14, <1>15, <1>16, RootStays DEF AnalysisInv

LEMMA NextAnalysis == AnalysisInv /\ [Next]_vars => AnalysisInv'
<1> SUFFICES ASSUME AnalysisInv, [Next]_vars
             PROVE  AnalysisInv'
  OBVIOUS
<1>1. CASE Dequeue
  BY <1>1, DequeueStep
<1>2. CASE ComputeFirstSegment
  BY <1>2, ComputeFirstSegmentStep
<1>3. CASE ComputeNextSegment
  BY <1>3, ComputeNextSegmentStep
<1>4. CASE SkipCoveredNode
  BY <1>4, SkipCoveredNodeStep
<1>5. CASE ReportConflict
  BY <1>5, ReportConflictStep
<1>6. CASE PassCheck
  BY <1>6, PassCheckStep
<1>7. CASE ComputeJumpSuccessors
  BY <1>7, ComputeJumpSuccessorsStep
<1>8. CASE AddChild
  BY <1>8, AddChildStep
<1>9. CASE FinishNode
  BY <1>9, FinishNodeStep
<1>10. CASE Succeed
  BY <1>10, SucceedStep
<1>11. CASE UNCHANGED vars
  <2>1. /\ UNCHANGED <<ha, par, nodes, flowpipe, boxed, hasFixedPoint, workQueue,
                       currentNode, safetyResult, pending, pc, result>>
        /\ TreeGrows
    BY <1>11 DEF vars, TreeGrows
  <2>2. TypeOK' /\ ControlInv' /\ QueueInv' /\ BreadthFirst' /\ RootInv' /\ CurrentInv'
    <3>1. TypeOK' /\ QueueInv' /\ BreadthFirst' /\ RootInv'
      BY <2>1 DEF AnalysisInv, TypeOK, QueueInv, BreadthFirst, RootInv, Busy
    <3>2. ControlInv'
      BY <2>1 DEF AnalysisInv, ControlInv, Busy, Successors
    <3>3. CurrentInv'
      <4>1. \A n, j : ChildOf(n, j)' = ChildOf(n, j)
        BY <2>1 DEF ChildOf, ChildNode, EndOfSegment
      <4>2. \A n, j : HasChildFor(n, j)' = HasChildFor(n, j)
        BY <2>1, <4>1 DEF HasChildFor
      <4>3. \A n : /\ IsFlowpipe(n)' = IsFlowpipe(n) /\ IsSafe(n)' = IsSafe(n)
                   /\ IsComplete(n)' = IsComplete(n) /\ Successors(n)' = Successors(n)
        BY <2>1 DEF IsFlowpipe, IsSafe, IsComplete, Successors
      <4> QED
        BY <2>1, <4>2, <4>3 DEF AnalysisInv, CurrentInv
    <3> QED
      BY <3>1, <3>2, <3>3
  <2>3. SoundConfiguration' => CoverInv'
    <3>1. SoundConfiguration' => SoundConfiguration
      BY <2>1 DEF SoundConfiguration
    <3>2. \A m \in DOMAIN nodes : Open(m) => Open(m)'
      BY <2>1 DEF Open, Busy
    <3>3. ASSUME NEW m \in DOMAIN nodes, Done(m)
          PROVE  Done(m)'
      BY <2>1, <3>3, DoneStays
    <3>4. \A m \in DOMAIN nodes : Open(m) \/ Done(m) => Open(m)' \/ Done(m)'
      BY <3>2, <3>3
    <3>5. CASE result = "failure"
      BY <2>1, <3>5 DEF CoverInv
    <3>6. CASE result # "failure"
      BY <2>1, <3>1, <3>4, <3>6, CoverStaysInTree DEF AnalysisInv
    <3> QED
      BY <3>5, <3>6
  <2> QED
    BY <2>2, <2>3 DEF AnalysisInv
<1> QED
  BY <1>1, <1>2, <1>3, <1>4, <1>5, <1>6, <1>7, <1>8, <1>9, <1>10, <1>11 DEF Next

--------------------------------------------------------------------------
(* The runs of the automaton after a success.                             *)

(* After a success nothing is open: a valuation of an initial set is in   *)
(* the initial set of a done node.                                        *)
LEMMA CoveredByDone ==
  ASSUME AnalysisInv, SoundConfiguration, result = "success",
         NEW n \in DOMAIN nodes, NEW p \in nodes[n].initialSet
  PROVE  \E m \in DOMAIN nodes :
           /\ Done(m)
           /\ nodes[m].location = nodes[n].location
           /\ nodes[m].depth <= nodes[n].depth
           /\ p \in nodes[m].initialSet
<1>1. PICK m \in DOMAIN nodes : CoveredBy(n, p, m)
  BY DEF AnalysisInv, CoverInv
<1>2. ~Open(m)
  <2>1. workQueue = << >> /\ ~Busy
    BY DEF AnalysisInv, ControlInv, Busy
  <2>2. DOMAIN workQueue = {}
    BY <2>1
  <2> QED
    BY <2>1, <2>2 DEF Open
<1> QED
  BY <1>1, <1>2 DEF CoveredBy

(* A valuation observed on entering a location is in the first segment.   *)
LEMMA EnteringIsTracked ==
  ASSUME AnalysisInv, NEW m \in DOMAIN nodes, Done(m), NEW p \in nodes[m].initialSet,
         NEW q, Enters(ha, nodes[m].location, p, q)
  PROVE  1 \in DOMAIN flowpipe[m] /\ q \in flowpipe[m][1]
<1>1. TypeOK
  BY DEF AnalysisInv
<1>2. /\ flowpipe[m] \in Seq(SUBSET Point) /\ flowpipe[m] # << >>
      /\ flowpipe[m][1] = FirstSegment(ha, nodes[m].location, nodes[m].initialSet)
  BY <1>1, Typed DEF Done, IsFlowpipe
<1>3. ha.during[nodes[m].location][p] \cap ha.invariant[nodes[m].location]
        \subseteq FirstSegment(ha, nodes[m].location, nodes[m].initialSet)
  BY <1>1, Typed, FirstSegmentType
<1>4. 1 \in DOMAIN flowpipe[m]
  BY <1>2
<1> QED
  BY <1>2, <1>3, <1>4 DEF Enters

LEMMA StartStep ==
  ASSUME AnalysisInv, RunStarts
  PROVE  RunInv'
<1>1. TypeOK /\ RootInv /\ result = "success" /\ UNCHANGED vars
  BY DEF AnalysisInv, RunStarts
<1> DEFINE Started(i, p, q) ==
             /\ Enters(ha, ha.initial[i].loc, p, q)
             /\ run' = [location |-> ha.initial[i].loc, valuation |-> q, steps |-> 0, jumps |-> 0,
                        path |-> << >>, earliest |-> 0, latest |-> 0]
<1>i. PICK i \in DOMAIN ha.initial : \E p \in ha.initial[i].set, q \in Point : Started(i, p, q)
  BY DEF RunStarts, Start
<1>2. PICK p \in ha.initial[i].set, q \in Point : Started(i, p, q)
  BY <1>i
<1>3. ha.initial[i] \in [loc : Location, set : SUBSET Point]
  BY <1>1, AutomatonTypes DEF TypeOK
<1>4. run' \in RunType
  <2>1. ha.initial[i].loc \in Location /\ << >> \in Seq(Nat)
    BY <1>3
  <2> QED
    BY <1>2, <2>1 DEF RunType
<1>5. run'.jumps <= par.jumpDepth
  BY <1>1, <1>2, SettingTypes
<1>6. ASSUME SoundConfiguration
      PROVE  \E m \in DOMAIN nodes :
               /\ Done(m)
               /\ nodes[m].location = run'.location
               /\ nodes[m].depth <= run'.jumps
               /\ run'.steps + 1 \in DOMAIN flowpipe[m]
               /\ run'.valuation \in flowpipe[m][run'.steps + 1]
  <2>1. PICK n \in DOMAIN nodes :
          /\ nodes[n].location = ha.initial[i].loc
          /\ nodes[n].depth = 0
          /\ ha.initial[i].set \subseteq nodes[n].initialSet
    BY <1>1 DEF RootInv
  <2>2. PICK m \in DOMAIN nodes :
          /\ Done(m)
          /\ nodes[m].location = nodes[n].location
          /\ nodes[m].depth <= nodes[n].depth
          /\ p \in nodes[m].initialSet
    BY <1>1, <1>2, <1>6, <2>1, CoveredByDone
  <2>3. 1 \in DOMAIN flowpipe[m] /\ q \in flowpipe[m][1]
    BY <1>2, <2>1, <2>2, EnteringIsTracked
  <2> QED
    BY <1>2, <2>1, <2>2, <2>3
<1>7. SoundConfiguration' => \E m \in DOMAIN nodes' : TrackedBy(m)'
  <2>1. TreeGrows /\ SoundConfiguration' = SoundConfiguration /\ UNCHANGED <<nodes, flowpipe>>
    BY <1>1 DEF vars, TreeGrows, SoundConfiguration
  <2>2. \A m \in DOMAIN nodes : Done(m) => Done(m)'
    BY <2>1, DoneStays
  <2> QED
    BY <1>6, <2>1, <2>2 DEF TrackedBy
<1> QED
  BY <1>1, <1>4, <1>5, <1>7 DEF RunInv, vars

(* While time elapses a run stays in the flowpipe it is in.               *)
LEMMA ElapsingIsTracked ==
  ASSUME AnalysisInv, RunInv, RunElapses, NEW m \in DOMAIN nodes, TrackedBy(m)
  PROVE  /\ run'.location = run.location /\ run'.jumps = run.jumps /\ run'.path = run.path
         /\ run'.earliest = run.earliest /\ run'.latest = run.latest
         /\ run'.steps + 1 \in DOMAIN flowpipe[m]
         /\ run'.valuation \in flowpipe[m][run'.steps + 1]
<1>1. TypeOK /\ result = "success" /\ run # NoRun /\ UNCHANGED vars
  BY DEF AnalysisInv, RunElapses, Elapse
<1>2. run \in RunType
  BY <1>1 DEF RunInv
<1>3. /\ (run.steps + 1) * par.timeStep <= par.horizon
      /\ ha.flow[run.location][run.valuation] \in ha.invariant[run.location]
      /\ run' = [run EXCEPT !.valuation = ha.flow[run.location][@], !.steps = @ + 1]
  BY DEF RunElapses, Elapse
<1> DEFINE k == run.steps + 1
           l == run.location
           next == ha.flow[l][run.valuation]
<1>4. /\ l \in Location /\ run.valuation \in Point /\ run.steps \in Nat /\ k \in Nat
      /\ run.jumps \in Nat
  BY <1>2 DEF RunType
<1>5. next \in Point
  BY <1>1, <1>4, AutomatonTypes DEF TypeOK
<1>6. /\ run'.valuation = next /\ run'.steps = k
      /\ run'.location = l /\ run'.jumps = run.jumps /\ run'.path = run.path
      /\ run'.earliest = run.earliest /\ run'.latest = run.latest
  BY <1>2, <1>3, <1>4, <1>5 DEF RunType
<1>7. /\ Done(m) /\ nodes[m].location = l /\ nodes[m].depth <= run.jumps
      /\ k \in DOMAIN flowpipe[m] /\ run.valuation \in flowpipe[m][k]
      /\ flowpipe[m] \in Seq(SUBSET Point)
  BY <1>1, Typed DEF TrackedBy
<1> DEFINE fp == flowpipe[m]
<1>8. next \in NextSegment(ha, l, fp[k])
  <2>1. fp[k] \in SUBSET Point
    BY <1>7
  <2> QED
    BY <1>1, <1>3, <1>4, <1>7, <2>1, NextSegmentType DEF TypeOK
<1>9. k + 1 <= NumSegments(par.horizon, par.timeStep)
  BY <1>1, <1>3, <1>4, SettingTypes, StepsWithinSegments
<1>10. k < Len(fp)
  <2> SUFFICES ASSUME ~(k < Len(fp))
               PROVE  FALSE
    OBVIOUS
  <2>1. k = Len(fp) /\ Len(fp) \in Nat
    BY <1>4, <1>7
  <2>2. NextSegment(ha, l, fp[k]) = {}
    <3>1. ~(Len(fp) >= NumSegments(par.horizon, par.timeStep))
      BY <1>1, <1>9, <2>1, SettingTypes
    <3> QED
      BY <1>7, <2>1, <3>1 DEF Done, IsComplete
  <2> QED
    BY <1>8, <2>2
<1>11. k + 1 \in DOMAIN fp /\ k \in 1..Len(fp) - 1
  BY <1>4, <1>7, <1>10
<1>12. fp[k + 1] = NextSegment(ha, l, fp[k])
  BY <1>7, <1>11 DEF Done, IsFlowpipe
<1> QED
  BY <1>6, <1>7, <1>8, <1>11, <1>12

LEMMA ElapseStep ==
  ASSUME AnalysisInv, RunInv, RunElapses
  PROVE  RunInv'
<1>1. TypeOK /\ result = "success" /\ run # NoRun /\ UNCHANGED vars
  BY DEF AnalysisInv, RunElapses, Elapse
<1>2. run \in RunType /\ run.jumps <= par.jumpDepth
  BY <1>1 DEF RunInv
<1>3. /\ (run.steps + 1) * par.timeStep <= par.horizon
      /\ ha.flow[run.location][run.valuation] \in ha.invariant[run.location]
      /\ run' = [run EXCEPT !.valuation = ha.flow[run.location][@], !.steps = @ + 1]
  BY DEF RunElapses, Elapse
<1> DEFINE k == run.steps + 1
           l == run.location
           next == ha.flow[l][run.valuation]
<1>4. /\ l \in Location /\ run.valuation \in Point /\ run.steps \in Nat /\ k \in Nat
      /\ run.jumps \in Nat
  BY <1>2 DEF RunType
<1>5. next \in Point
  BY <1>1, <1>4, AutomatonTypes DEF TypeOK
<1>6. /\ run' \in RunType /\ run'.valuation = next /\ run'.steps = k
      /\ run'.location = l /\ run'.jumps = run.jumps
  BY <1>2, <1>3, <1>4, <1>5 DEF RunType
<1>7. ASSUME SoundConfiguration
      PROVE  \E m \in DOMAIN nodes :
               /\ Done(m)
               /\ nodes[m].location = run'.location
               /\ nodes[m].depth <= run'.jumps
               /\ run'.steps + 1 \in DOMAIN flowpipe[m]
               /\ run'.valuation \in flowpipe[m][run'.steps + 1]
  <2>1. PICK m \in DOMAIN nodes : TrackedBy(m)
    BY <1>1, <1>7 DEF RunInv
  <2> QED
    BY <1>6, <2>1, ElapsingIsTracked DEF TrackedBy
<1>8. SoundConfiguration' => \E m \in DOMAIN nodes' : TrackedBy(m)'
  <2>1. TreeGrows /\ SoundConfiguration' = SoundConfiguration /\ UNCHANGED <<nodes, flowpipe>>
    BY <1>1 DEF vars, TreeGrows, SoundConfiguration
  <2>2. \A m \in DOMAIN nodes : Done(m) => Done(m)'
    BY <2>1, DoneStays
  <2> QED
    BY <1>7, <2>1, <2>2 DEF TrackedBy
<1> QED
  BY <1>1, <1>2, <1>6, <1>8 DEF RunInv, vars

(* A jump out of a flowpipe leads into one of its successors, whose block *)
(* has the segment that the run is in.                                    *)
LEMMA JumpingIsTracked ==
  ASSUME TypeOK, run \in RunType, NEW n \in DOMAIN nodes, TrackedBy(n),
         NEW t \in TransitionsFrom(ha, run.location),
         run.valuation \in ha.transition[t].guard,
         ha.transition[t].reset[run.valuation] \in ha.invariant[ha.transition[t].target]
  PROVE  \E j \in Successors(n) :
           /\ j.transition = t
           /\ run.steps + 1 \in Block(ha, t, par, flowpipe[n], j.block)
           /\ ha.transition[t].reset[run.valuation]
                \in SuccessorSet(ha, t, par, flowpipe[n], j.block)
<1> DEFINE k == run.steps + 1
           p == ha.transition[t].reset[run.valuation]
<1>1. /\ nodes[n].location = run.location /\ run.location \in Location
      /\ k \in DOMAIN flowpipe[n] /\ flowpipe[n] \in Seq(SUBSET Point)
      /\ run.valuation \in flowpipe[n][k] \cap ha.transition[t].guard
      /\ ha \in Automata
  BY Typed DEF TrackedBy, RunType
<1>2. \E j \in NonEmptyJumpSuccessors(ha, run.location, par, flowpipe[n]) :
        /\ j.transition = t
        /\ k \in Block(ha, t, par, flowpipe[n], j.block)
        /\ p \in SuccessorSet(ha, t, par, flowpipe[n], j.block)
  BY <1>1, JumpIsCovered
<1> QED
  BY <1>1, <1>2 DEF Successors

LEMMA JumpStep ==
  ASSUME AnalysisInv, RunInv, RunJumps
  PROVE  RunInv'
<1>1. /\ TypeOK /\ result = "success" /\ run # NoRun /\ run.jumps < par.jumpDepth
      /\ UNCHANGED vars
  BY DEF AnalysisInv, RunJumps, Jump
<1>2. run \in RunType
  BY <1>1 DEF RunInv
<1>3. PICK t \in TransitionsFrom(ha, run.location), q \in Point :
        /\ run.valuation \in ha.transition[t].guard
        /\ Enters(ha, ha.transition[t].target, ha.transition[t].reset[run.valuation], q)
        /\ run' = [location |-> ha.transition[t].target, valuation |-> q, steps |-> 0,
                   jumps |-> run.jumps + 1, path |-> Append(run.path, t),
                   earliest |-> run.earliest + run.steps * par.timeStepFactor,
                   latest |-> run.latest + (run.steps + 1) * par.timeStepFactor]
  BY DEF RunJumps, Jump
<1> DEFINE tr == ha.transition[t]
           p == tr.reset[run.valuation]
           k == run.steps + 1
<1>4. /\ run.location \in Location /\ run.valuation \in Point /\ run.steps \in Nat
      /\ run.jumps \in Nat /\ run.path \in Seq(Nat) /\ run.earliest \in Int /\ run.latest \in Int
  BY <1>2 DEF RunType
<1>5. t \in DOMAIN ha.transition /\ t \in Nat /\ tr \in TransitionType
  <2>1. ha.transition \in Seq(TransitionType)
    BY <1>1, AutomatonTypes DEF TypeOK, AutomatonType
  <2> QED
    BY <2>1 DEF TransitionsFrom
<1>6. /\ run' \in RunType /\ run'.location = tr.target /\ run'.valuation = q
      /\ run'.steps = 0 /\ run'.jumps = run.jumps + 1
  <2>1. tr.target \in Location
    BY <1>5 DEF TransitionType
  <2>2. Append(run.path, t) \in Seq(Nat)
    BY <1>4, <1>5, Appended
  <2>3. /\ run.earliest + run.steps * par.timeStepFactor \in Int
        /\ run.latest + (run.steps + 1) * par.timeStepFactor \in Int
    <3>1. \A x, y, z \in Int : x + y * z \in Int /\ x + (y + 1) * z \in Int
      OBVIOUS
    <3>2. par.timeStepFactor \in Int /\ run.steps \in Int
      BY <1>1, <1>4, SettingTypes
    <3> QED
      BY <1>4, <3>1, <3>2
  <2> DEFINE path == Append(run.path, t)
             earliest == run.earliest + run.steps * par.timeStepFactor
             latest == run.latest + (run.steps + 1) * par.timeStepFactor
             target == tr.target
  <2>4. run' = [location |-> target, valuation |-> q, steps |-> 0, jumps |-> run.jumps + 1,
                path |-> path, earliest |-> earliest, latest |-> latest]
    BY <1>3
  <2>5. target \in Location /\ path \in Seq(Nat) /\ earliest \in Int /\ latest \in Int
    BY <2>1, <2>2, <2>3
  <2> HIDE DEF path, earliest, latest, target
  <2>6. /\ run' \in RunType /\ run'.location = target /\ run'.valuation = q
        /\ run'.steps = 0 /\ run'.jumps = run.jumps + 1
    BY <1>4, <2>4, <2>5 DEF RunType
  <2> QED
    BY <2>6 DEF target
<1>7. run'.jumps <= par.jumpDepth
  BY <1>1, <1>4, <1>6, SettingTypes
<1>8. ASSUME SoundConfiguration
      PROVE  \E m \in DOMAIN nodes :
               /\ Done(m)
               /\ nodes[m].location = run'.location
               /\ nodes[m].depth <= run'.jumps
               /\ run'.steps + 1 \in DOMAIN flowpipe[m]
               /\ run'.valuation \in flowpipe[m][run'.steps + 1]
  <2>1. PICK n \in DOMAIN nodes : TrackedBy(n)
    BY <1>1, <1>8 DEF RunInv
  <2>2. /\ Done(n) /\ nodes[n].depth <= run.jumps /\ nodes[n].depth \in Nat
    BY <1>1, <2>1, Typed DEF TrackedBy
  <2>3. PICK j \in Successors(n) :
          j.transition = t /\ p \in SuccessorSet(ha, t, par, flowpipe[n], j.block)
    <3>1. p \in ha.invariant[tr.target]
      BY <1>3 DEF Enters
    <3> QED
      BY <1>1, <1>2, <1>3, <2>1, <3>1, JumpingIsTracked
  <2>4. nodes[n].depth # par.jumpDepth
    BY <1>1, <1>4, <2>2, SettingTypes
  <2>5. PICK c \in DOMAIN nodes :
          /\ nodes[c].location = tr.target
          /\ nodes[c].depth = nodes[n].depth + 1
          /\ p \in nodes[c].initialSet
    <3>1. PICK c \in DOMAIN nodes : nodes[c] = ChildOf(n, j)
      BY <2>2, <2>3, <2>4 DEF Done, IsExpanded, HasChildFor
    <3>2. /\ ChildOf(n, j).location = tr.target
          /\ ChildOf(n, j).depth = nodes[n].depth + 1
          /\ ChildOf(n, j).initialSet = SuccessorSet(ha, t, par, flowpipe[n], j.block)
      BY <1>1, <1>5, <2>3, ChildOfFacts
    <3> QED
      BY <2>3, <3>1, <3>2
  <2>6. PICK m \in DOMAIN nodes :
          /\ Done(m)
          /\ nodes[m].location = nodes[c].location
          /\ nodes[m].depth <= nodes[c].depth
          /\ p \in nodes[m].initialSet
    BY <1>1, <1>8, <2>5, CoveredByDone
  <2>7. 1 \in DOMAIN flowpipe[m] /\ q \in flowpipe[m][1]
    BY <1>3, <2>5, <2>6, EnteringIsTracked
  <2>8. nodes[m].depth <= run.jumps + 1
    <3>1. nodes[m].depth \in Nat /\ nodes[c].depth \in Nat
      BY <1>1, Typed
    <3> QED
      BY <1>4, <2>2, <2>5, <2>6, <3>1
  <2> QED
    BY <1>6, <2>5, <2>6, <2>7, <2>8
<1>9. SoundConfiguration' => \E m \in DOMAIN nodes' : TrackedBy(m)'
  <2>1. TreeGrows /\ SoundConfiguration' = SoundConfiguration /\ UNCHANGED <<nodes, flowpipe>>
    BY <1>1 DEF vars, TreeGrows, SoundConfiguration
  <2>2. \A m \in DOMAIN nodes : Done(m) => Done(m)'
    BY <2>1, DoneStays
  <2> QED
    BY <1>8, <2>1, <2>2 DEF TrackedBy
<1> QED
  BY <1>1, <1>6, <1>7, <1>9 DEF RunInv, vars

LEMMA InitInvariant == VerificationInit => IInv
BY InitAnalysis DEF VerificationInit, IInv, RunInv

LEMMA NextInvariant == IInv /\ [VerificationNext]_verificationVars => IInv'
<1> SUFFICES ASSUME IInv, [VerificationNext]_verificationVars
             PROVE  IInv'
  OBVIOUS
<1>1. AnalysisInv /\ RunInv
  BY DEF IInv
<1>2. AnalysisInv'
  <2>1. [Next]_vars
    BY DEF VerificationNext, verificationVars, Analyze, RunStarts, RunElapses, RunJumps
  <2> QED
    BY <1>1, <2>1, NextAnalysis
<1>3. RunInv'
  <2>1. CASE Analyze
    <3>1. result # "success"
      <4>1. pc = "done" <=> result # "none"
        BY <1>1 DEF AnalysisInv, ControlInv
      <4>2. pc # "done"
        BY <2>1 DEF Analyze, Next, Dequeue, ComputeFirstSegment, ComputeNextSegment,
                    SkipCoveredNode, ReportConflict, PassCheck, ComputeJumpSuccessors,
                    AddChild, FinishNode, Succeed
      <4> QED
        BY <4>1, <4>2
    <3>2. run = NoRun /\ run' = run
      BY <1>1, <2>1, <3>1 DEF Analyze, RunInv
    <3> QED
      BY <3>2 DEF RunInv
  <2>2. CASE RunStarts
    BY <1>1, <2>2, StartStep
  <2>3. CASE RunElapses
    BY <1>1, <2>3, ElapseStep
  <2>4. CASE RunJumps
    BY <1>1, <2>4, JumpStep
  <2>5. CASE UNCHANGED verificationVars
    <3>1. UNCHANGED <<vars, run>>
      BY <2>5 DEF verificationVars
    <3>2. /\ TreeGrows /\ SoundConfiguration' = SoundConfiguration
          /\ UNCHANGED <<run, result, par, nodes, flowpipe>>
      BY <3>1 DEF vars, TreeGrows, SoundConfiguration
    <3>3. \A m \in DOMAIN nodes : Done(m) => Done(m)'
      BY <3>2, DoneStays
    <3>4. \A m \in DOMAIN nodes : TrackedBy(m) => TrackedBy(m)'
      BY <3>2, <3>3 DEF TrackedBy
    <3> QED
      BY <1>1, <3>2, <3>4 DEF RunInv
  <2> QED
    BY <2>1, <2>2, <2>3, <2>4, <2>5 DEF VerificationNext
<1> QED
  BY <1>2, <1>3 DEF IInv

--------------------------------------------------------------------------
(* The results.                                                           *)

(* The inductive invariant holds throughout: no part of an initial set is *)
(* lost on the way through the work queue, and a run stays in the tree.   *)
THEOREM Invariance == VerificationSpec => []IInv
BY InitInvariant, NextInvariant, PTL DEF VerificationSpec

(* Type correctness of the analyzer's state.                              *)
THEOREM TypeCorrect == VerificationSpec => []TypeOK
<1>1. IInv => TypeOK
  BY DEF IInv, AnalysisInv
<1> QED
  BY <1>1, Invariance, PTL

LEMMA InvariantIsSound == IInv /\ SoundConfiguration => Soundness
<1> SUFFICES ASSUME IInv, SoundConfiguration, RunIsBad(ha)
             PROVE  FALSE
  BY DEF Soundness
<1>1. TypeOK /\ run # NoRun /\ run.valuation \in BadStates(ha, run.location)
  BY DEF IInv, AnalysisInv, RunIsBad
<1>2. PICK n \in DOMAIN nodes : TrackedBy(n)
  BY <1>1 DEF IInv, RunInv
<1> DEFINE k == run.steps + 1
           S == flowpipe[n][k]
<1>3. /\ nodes[n].location = run.location /\ run.valuation \in S /\ S \in SUBSET Point
      /\ ~IntersectsBadStates(ha, run.location, S)
  BY <1>1, <1>2, Typed DEF TrackedBy, Done, IsSafe
<1> HIDE DEF S
<1>4. /\ Intersect(S, ha.localBad[run.location]) = {}
      /\ Intersect(S, ha.globalBad) = {}
  BY <1>3 DEF IntersectsBadStates, SoundConfiguration
<1>5. S \cap ha.localBad[run.location] = {} /\ S \cap ha.globalBad = {}
  BY <1>3, <1>4, IntersectIncludes
<1> QED
  BY <1>1, <1>3, <1>5 DEF BadStates

(* Soundness of LTIAnalyzer::run: with the continuous fixed-point and Zeno*)
(* tests off and no local bad condition that is false, a run within the   *)
(* bounds of a successful analysis visits no bad state.                   *)
THEOREM SuccessIsSound == VerificationSpec => [](SoundConfiguration => Soundness)
BY Invariance, InvariantIsSound, PTL

(* After a success nothing is left of what the fixed-point test dropped:  *)
(* all of it is in nodes that were processed to the end, as deep at most.  *)
THEOREM NothingDroppedIsLost == VerificationSpec => []DroppedNodesAreProcessed
<1>1. ASSUME IInv
      PROVE  DroppedNodesAreProcessed
  <2> SUFFICES ASSUME result = "success", SoundConfiguration,
                      NEW n \in DOMAIN nodes, NEW p \in nodes[n].initialSet
               PROVE  \E m \in DOMAIN nodes : Processed(n, p, m)
    BY DEF DroppedNodesAreProcessed
  <2>1. PICK m \in DOMAIN nodes : CoveredBy(n, p, m)
    BY <1>1 DEF IInv, AnalysisInv, CoverInv
  <2>2. workQueue = << >> /\ ~Busy
    BY <1>1 DEF IInv, AnalysisInv, ControlInv, Busy
  <2>3. ~Open(m)
    BY <2>2 DEF Open
  <2> QED
    BY <2>1, <2>3 DEF CoveredBy, Processed
<1> QED
  BY <1>1, Invariance, PTL

--------------------------------------------------------------------------
(* What a step of the loop does to the tree.                              *)

LEMMA TreeSteps ==
  ASSUME AnalysisInv, [Next]_vars
  PROVE  /\ TreeGrows
         /\ AddChild \/ nodes' = nodes
         /\ ComputeFirstSegment \/ ComputeNextSegment
              \/ \A m \in DOMAIN nodes : flowpipe'[m] = flowpipe[m]
         /\ ComputeFirstSegment \/ ComputeNextSegment =>
              \A m \in DOMAIN nodes : m # currentNode => flowpipe'[m] = flowpipe[m]
<1>1. TypeOK /\ ControlInv
  BY DEF AnalysisInv
<1>2. CASE AddChild
  <2>1. PICK j \in pending : nodes' = Append(nodes, Child(j))
    BY <1>2 DEF AddChild
  <2>2. pc = "jumps" /\ UNCHANGED <<ha, par>> /\ flowpipe' = Append(flowpipe, << >>)
    BY <1>2 DEF AddChild, settings, NewFlowpipe
  <2>3. Child(j) \in NodeType /\ nodes \in Seq(NodeType)
    BY <1>1, <2>2, ChildFacts DEF TypeOK
  <2>4. \A m \in DOMAIN nodes : m \in DOMAIN nodes' /\ nodes'[m] = nodes[m]
    BY <2>1, <2>3, Appended
  <2>5. /\ flowpipe \in Seq(Seq(SUBSET Point)) /\ << >> \in Seq(SUBSET Point)
        /\ DOMAIN flowpipe = DOMAIN nodes
    BY <1>1, Typed DEF TypeOK
  <2>6. \A m \in DOMAIN nodes : flowpipe'[m] = flowpipe[m]
    BY <2>2, <2>5, Appended
  <2>7. ~(ComputeFirstSegment \/ ComputeNextSegment)
    BY <2>2 DEF ComputeFirstSegment, ComputeNextSegment
  <2> QED
    BY <1>2, <2>2, <2>4, <2>6, <2>7 DEF TreeGrows
<1>3. CASE ComputeFirstSegment \/ ComputeNextSegment
  <2>1. UNCHANGED <<ha, par, nodes>> /\ currentNode \in DOMAIN nodes
    BY <1>1, <1>3 DEF ComputeFirstSegment, ComputeNextSegment, settings, ControlInv, Busy
  <2>2. \A m \in DOMAIN nodes : m # currentNode => flowpipe'[m] = flowpipe[m]
    <3>1. flowpipe' = flowpipe \/ \E x : flowpipe' = [flowpipe EXCEPT ![currentNode] = x]
      BY <1>3 DEF ComputeFirstSegment, ComputeNextSegment, StoreSegment
    <3>2. DOMAIN flowpipe = DOMAIN nodes
      BY <1>1, Typed
    <3> QED
      BY <3>1, <3>2
  <2> QED
    BY <1>3, <2>1, <2>2 DEF TreeGrows
<1>4. CASE ~(AddChild \/ ComputeFirstSegment \/ ComputeNextSegment)
  <2>1. UNCHANGED <<ha, par, nodes, flowpipe>>
    BY <1>4 DEF Next, vars, settings, Dequeue, SkipCoveredNode, ReportConflict, PassCheck,
                ComputeJumpSuccessors, FinishNode, Succeed
  <2> QED
    BY <1>4, <2>1 DEF TreeGrows
<1> QED
  BY <1>2, <1>3, <1>4

(* A complete flowpipe does not change any more.                          *)
LEMMA FinishedStays ==
  ASSUME AnalysisInv, [Next]_vars, NEW m \in DOMAIN nodes, IsFinished(m)
  PROVE  flowpipe'[m] = flowpipe[m] /\ IsFinished(m)' /\ Successors(m)' = Successors(m)
<1>1. TypeOK /\ ControlInv
  BY DEF AnalysisInv
<1>2. TreeGrows
  BY TreeSteps
<1>3. flowpipe'[m] = flowpipe[m]
  <2>1. CASE ComputeFirstSegment
    <3>1. flowpipe[currentNode] = << >>
      BY <1>1, <2>1 DEF ComputeFirstSegment, ControlInv
    <3>2. m # currentNode
      BY <3>1 DEF IsFinished, IsFlowpipe
    <3> QED
      BY <2>1, <3>2, TreeSteps
  <2>2. CASE ComputeNextSegment
    <3>1. CASE m # currentNode
      BY <2>2, <3>1, TreeSteps
    <3>2. CASE m = currentNode
      <4> DEFINE fp == flowpipe[m]
                 segment == NextSegment(ha, nodes[m].location, fp[Len(fp)])
      <4>1. Len(fp) \in Nat /\ NumSegments(par.horizon, par.timeStep) \in Nat
        BY <1>1, Typed, SettingTypes
      <4>2. ~(Len(fp) < NumSegments(par.horizon, par.timeStep) /\ segment # {})
        BY <4>1 DEF IsFinished, IsComplete
      <4>3. flowpipe' = flowpipe
        BY <2>2, <3>2, <4>2 DEF ComputeNextSegment, current
      <4> QED
        BY <4>3
    <3> QED
      BY <3>1, <3>2
  <2>3. CASE ~(ComputeFirstSegment \/ ComputeNextSegment)
    BY <2>3, TreeSteps
  <2> QED
    BY <2>1, <2>2, <2>3
<1> QED
  BY <1>2, <1>3, FlowpipeStays DEF IsFinished

(* Nor does the child of a node with such a flowpipe.                     *)
LEMMA ChildOfStays ==
  ASSUME TreeGrows, NEW m \in DOMAIN nodes, flowpipe'[m] = flowpipe[m], NEW j
  PROVE  ChildOf(m, j)' = ChildOf(m, j)
BY DEF TreeGrows, ChildOf, ChildNode, EndOfSegment

LEMMA TreeStep ==
  ASSUME AnalysisInv, TreeInv, [Next]_vars
  PROVE  TreeInv'
<1>1. TypeOK /\ ControlInv /\ CurrentInv
  BY DEF AnalysisInv
<1>2. TreeGrows
  BY TreeSteps
<1>3. \A i \in DOMAIN ha'.initial : i \in DOMAIN nodes' /\ nodes'[i] = MakeRoots(ha')[i]
  BY <1>2 DEF TreeGrows, TreeInv
<1>4. nodes \in Seq(NodeType) /\ DOMAIN nodes = 1..Len(nodes) /\ Len(nodes) \in Nat
  BY <1>1 DEF TypeOK
<1>5. ASSUME NEW n \in DOMAIN nodes, NEW m \in 1..n - 1, IsChildOf(n, m)
      PROVE  IsChildOf(n, m)'
  <2>1. m \in DOMAIN nodes
    BY <1>4
  <2>2. PICK j \in Successors(m) : nodes[n] = ChildOf(m, j)
    BY <1>5 DEF IsChildOf
  <2>3. flowpipe'[m] = flowpipe[m] /\ IsFinished(m)' /\ Successors(m)' = Successors(m)
    BY <1>5, <2>1, FinishedStays DEF IsChildOf
  <2>4. nodes'[n] = ChildOf(m, j)'
    BY <1>2, <2>1, <2>2, <2>3, ChildOfStays DEF TreeGrows
  <2> QED
    BY <2>3, <2>4 DEF IsChildOf
<1>6. ASSUME NEW n \in DOMAIN nodes' \ DOMAIN ha'.initial
      PROVE  \E m \in 1..n - 1 : IsChildOf(n, m)'
  <2>1. CASE n \in DOMAIN nodes
    BY <1>2, <1>5, <2>1 DEF TreeInv, TreeGrows
  <2>2. CASE n \notin DOMAIN nodes
    <3>1. AddChild
      BY <2>2, TreeSteps
    <3>2. /\ pc = "jumps" /\ currentNode \in DOMAIN nodes
          /\ IsFinished(currentNode) /\ pending \subseteq Successors(currentNode)
      BY <1>1, <3>1 DEF AddChild, ControlInv, CurrentInv, Busy, IsFinished
    <3>3. PICK j \in pending : nodes' = Append(nodes, Child(j))
      BY <3>1 DEF AddChild
    <3>4. PICK c \in DOMAIN nodes : c = currentNode
      BY <3>2
    <3>5. Child(j) = ChildOf(c, j) /\ Child(j) \in NodeType /\ j \in Successors(c)
      BY <3>2, <3>4, ChildFacts
    <3>6. n = Len(nodes) + 1 /\ nodes'[n] = ChildOf(c, j)
      BY <1>4, <2>2, <3>3, <3>5, Appended
    <3>7. flowpipe'[c] = flowpipe[c] /\ IsFinished(c)' /\ Successors(c)' = Successors(c)
      BY <3>2, <3>4, FinishedStays
    <3>8. nodes'[n] = ChildOf(c, j)'
      BY <1>2, <3>6, <3>7, ChildOfStays
    <3>9. c \in 1..n - 1
      BY <1>4, <3>6
    <3>10. IsChildOf(n, c)'
      BY <3>5, <3>7, <3>8 DEF IsChildOf
    <3> QED
      BY <3>9, <3>10
  <2> QED
    BY <2>1, <2>2
<1> QED
  BY <1>3, <1>6 DEF TreeInv

LEMMA TreeInit == VerificationInit => TreeInv
<1> SUFFICES ASSUME Init
             PROVE  TreeInv
  BY DEF VerificationInit
<1>1. DOMAIN nodes = DOMAIN ha.initial
  BY InitSettings, MakeRootsType DEF Init
<1> QED
  BY <1>1 DEF Init, TreeInv

LEMMA VerificationSteps ==
  [VerificationNext]_verificationVars => [Next]_vars
BY DEF VerificationNext, verificationVars, Analyze, RunStarts, RunElapses, RunJumps

(* Every node is a root or the child, for one of its successors, of an    *)
(* earlier node whose flowpipe is complete.                               *)
THEOREM TreeInvariance == VerificationSpec => []TreeInv
<1>1. IInv /\ TreeInv /\ [VerificationNext]_verificationVars => TreeInv'
  BY TreeStep, VerificationSteps DEF IInv
<1> QED
  BY <1>1, TreeInit, Invariance, PTL DEF VerificationSpec

--------------------------------------------------------------------------
(* No node is entered outside its invariant.                              *)

LEMMA SuccessorMeetsInvariant ==
  ASSUME NEW A \in Automata, NEW l, NEW p, NEW fp \in Seq(SUBSET Point),
         NEW j \in NonEmptyJumpSuccessors(A, l, p, fp)
  PROVE  SuccessorSet(A, j.transition, p, fp, j.block)
           \cap A.invariant[A.transition[j.transition].target] # {}
<1> DEFINE tr == A.transition[j.transition]
           S == Transform(Unite({Intersect(fp[k], tr.guard) :
                                   k \in Block(A, j.transition, p, fp, j.block)}), tr.reset)
           c == A.invariant[tr.target]
<1>1. SuccessorSet(A, j.transition, p, fp, j.block) = Intersect(S, c)
  BY DEF SuccessorSet
<1>2. Intersect(S, c) # {}
  BY <1>1 DEF NonEmptyJumpSuccessors
<1>3. j.transition \in DOMAIN A.transition
  BY SuccessorTransition
<1>4. c \in SUBSET Point
  <2>1. tr.target \in Location
    BY <1>3, AutomatonTypes DEF TransitionType
  <2> QED
    BY <2>1, AutomatonTypes
<1> HIDE DEF S, c
<1>5. S \cap c \in SUBSET Point
  BY <1>4
<1>6. S \cap c # {}
  BY <1>2, OverAssumption DEF Intersect
<1>7. S \cap c \subseteq Intersect(S, c)
  BY <1>5, OverAssumption DEF Intersect
<1> QED
  BY <1>1, <1>6, <1>7 DEF c

LEMMA NodeMeetsInvariant ==
  ASSUME AnalysisInv, TreeInv, InitialStatesExist, NEW n \in DOMAIN nodes
  PROVE  nodes[n].initialSet \cap ha.invariant[nodes[n].location] # {}
<1>1. TypeOK /\ ha \in Automata
  BY DEF AnalysisInv, TypeOK
<1>2. CASE n \in DOMAIN ha.initial
  <2>1. /\ ha.initial[n].set # {}
        /\ ha.initial[n].set \subseteq ha.invariant[ha.initial[n].loc]
    BY <1>1, <1>2, AutomatonTypes DEF InitialStatesExist, IsAutomaton
  <2>2. /\ nodes[n].location = ha.initial[n].loc
        /\ ha.initial[n].set \subseteq nodes[n].initialSet
    BY <1>1, <1>2, MakeRootsType DEF TreeInv
  <2> QED
    BY <2>1, <2>2
<1>3. CASE n \notin DOMAIN ha.initial
  <2>1. PICK m \in 1..n - 1 : IsChildOf(n, m)
    BY <1>3 DEF TreeInv
  <2>2. m \in DOMAIN nodes
    BY <1>1 DEF TypeOK
  <2>3. PICK j \in Successors(m) : nodes[n] = ChildOf(m, j)
    BY <2>1 DEF IsChildOf
  <2>4. j.transition \in DOMAIN ha.transition
    BY <2>3, SuccessorTransition DEF Successors
  <2>5. /\ nodes[n].location = ha.transition[j.transition].target
        /\ nodes[n].initialSet = SuccessorSet(ha, j.transition, par, flowpipe[m], j.block)
    BY <1>1, <2>2, <2>3, <2>4, ChildOfFacts
  <2>6. flowpipe[m] \in Seq(SUBSET Point)
    BY <1>1, <2>2, Typed
  <2> QED
    BY <1>1, <2>3, <2>5, <2>6, SuccessorMeetsInvariant DEF Successors
<1> QED
  BY <1>2, <1>3

LEMMA FirstSegmentExists ==
  ASSUME AnalysisInv, TreeInv, InitialStatesExist, NEW n \in DOMAIN nodes
  PROVE  FirstSegment(ha, nodes[n].location, nodes[n].initialSet) # {}
<1> DEFINE l == nodes[n].location
           S == nodes[n].initialSet
<1>1. ha \in Automata /\ l \in Location /\ S \in SUBSET Point
  BY Typed DEF AnalysisInv
<1>2. PICK p \in S : p \in ha.invariant[l]
  BY NodeMeetsInvariant
<1> HIDE DEF l, S
<1>3. p \in ha.during[l][p]
  BY <1>1, <1>2, AutomatonTypes DEF IsAutomaton
<1>4. p \in FirstSegment(ha, l, S)
  BY <1>1, <1>2, <1>3, FirstSegmentType
<1> QED
  BY <1>4 DEF l, S

(* The assertion of LTIWorker::computeTimeSuccessors holds if no initial  *)
(* state is empty: successors are intersected with the target invariant,  *)
(* and the empty ones are dropped.                                        *)
THEOREM NodesMeetInvariants ==
  VerificationSpec => [](InitialStatesExist => FirstSegmentMeetsInvariant)
<1>1. IInv /\ TreeInv => (InitialStatesExist => FirstSegmentMeetsInvariant)
  <2> SUFFICES ASSUME IInv, TreeInv, InitialStatesExist, pc = "nextSegment"
               PROVE  flowpipe[currentNode][1] # {}
    BY DEF FirstSegmentMeetsInvariant
  <2>1. AnalysisInv /\ currentNode \in DOMAIN nodes /\ IsFlowpipe(currentNode)
    BY DEF IInv, AnalysisInv, ControlInv, CurrentInv, Busy
  <2>2. FirstSegment(ha, nodes[currentNode].location, nodes[currentNode].initialSet) # {}
    BY <2>1, FirstSegmentExists
  <2> QED
    BY <2>1, <2>2 DEF IsFlowpipe
<1> QED
  BY <1>1, Invariance, TreeInvariance, PTL

--------------------------------------------------------------------------
(* Conflicts.                                                             *)

LEMMA ConflictInit == VerificationInit => ConflictInv
<1> SUFFICES ASSUME Init
             PROVE  ConflictInv
  BY DEF VerificationInit
<1>1. TypeOK
  BY InitAnalysis DEF AnalysisInv
<1>2. \A n \in DOMAIN nodes : Len(flowpipe[n]) <= NumSegments(par.horizon, par.timeStep)
  <2>1. NumSegments(par.horizon, par.timeStep) \in Nat
    BY <1>1, SettingTypes
  <2>2. \A n \in DOMAIN nodes : flowpipe[n] = << >>
    BY DEF Init
  <2> QED
    BY <2>1, <2>2
<1> QED
  BY <1>2 DEF Init, ConflictInv

(* Storing a segment: what it does to the flowpipe of the current node,   *)
(* and whether the flowpipe then ends in a conflict.                      *)
LEMMA StoredSegment ==
  ASSUME TypeOK, CurrentInv', UNCHANGED <<ha, par, nodes, currentNode>>,
         currentNode \in DOMAIN nodes, NEW segment \in SUBSET Point, StoreSegment(segment),
         flowpipe[currentNode] = << >> \/ segment # {},
         Len(flowpipe[currentNode]) < NumSegments(par.horizon, par.timeStep),
         \A n \in DOMAIN nodes : Len(flowpipe[n]) <= NumSegments(par.horizon, par.timeStep),
         result' = result, result = "none"
  PROVE  ConflictInv'
<1> DEFINE fp == flowpipe[currentNode]
           N == NumSegments(par.horizon, par.timeStep)
<1>1. /\ flowpipe'[currentNode] = Append(fp, segment)
      /\ \A n \in DOMAIN nodes : n # currentNode => flowpipe'[n] = flowpipe[n]
      /\ pc' \in {"check", "nextSegment"}
      /\ pc' = "check" <=> safetyResult' = "UNKNOWN"
      /\ safetyResult' \in {"SAFE", "UNKNOWN"}
  BY StoreSegmentTypes
<1>2. fp \in Seq(SUBSET Point) /\ Len(fp) \in Nat /\ N \in Nat
  BY Typed, SettingTypes
<1>3. /\ Len(flowpipe'[currentNode]) = Len(fp) + 1
      /\ flowpipe'[currentNode][Len(fp) + 1] = segment
  BY <1>1, <1>2, Appended
<1>4. \A n \in DOMAIN nodes : Len(flowpipe'[n]) <= N
  <2> TAKE n \in DOMAIN nodes
  <2>1. CASE n = currentNode
    <3> HIDE DEF N
    <3> QED
      BY <1>2, <1>3, <2>1 DEF N
  <2>2. CASE n # currentNode
    BY <1>1, <2>2
  <2> QED
    BY <2>1, <2>2
<1>5. ASSUME safetyResult' = "UNKNOWN"
      PROVE  EndsInConflict(currentNode)'
  <2>1. IntersectsBadStates(ha, nodes[currentNode].location, segment)
    BY <1>5 DEF StoreSegment, current
  <2>2. IsFlowpipe(currentNode)'
    BY <1>1, <1>5 DEF CurrentInv
  <2>3. Len(flowpipe'[currentNode]) = 1 \/ segment # {}
    BY <1>3
  <2> QED
    BY <1>2, <1>3, <2>1, <2>2, <2>3 DEF EndsInConflict
<1> QED
  BY <1>1, <1>4, <1>5 DEF ConflictInv

LEMMA ConflictStep ==
  ASSUME AnalysisInv, ConflictInv, [Next]_vars
  PROVE  ConflictInv'
<1>1. TypeOK /\ ControlInv /\ CurrentInv
  BY DEF AnalysisInv
<1>2. CurrentInv'
  BY NextAnalysis DEF AnalysisInv
<1>3. CASE ComputeFirstSegment
  <2>1. /\ UNCHANGED <<ha, par, nodes, currentNode, result>> /\ result = "none"
        /\ currentNode \in DOMAIN nodes /\ flowpipe[currentNode] = << >>
        /\ StoreSegment(FirstSegment(ha, nodes[currentNode].location,
                                     nodes[currentNode].initialSet))
    BY <1>1, <1>3 DEF ComputeFirstSegment, settings, ControlInv, Busy, current
  <2>2. FirstSegment(ha, nodes[currentNode].location, nodes[currentNode].initialSet)
          \in SUBSET Point
    BY <1>1, <2>1, Typed, FirstSegmentType
  <2>3. Len(flowpipe[currentNode]) < NumSegments(par.horizon, par.timeStep)
    <3>1. 0 * par.timeStep <= par.horizon
      BY <1>1, SettingTypes
    <3>2. 0 + 1 <= NumSegments(par.horizon, par.timeStep)
      BY <1>1, <3>1, SettingTypes, StepsWithinSegments
    <3> QED
      BY <1>1, <2>1, <3>2, SettingTypes
  <2>4. \A n \in DOMAIN nodes : Len(flowpipe[n]) <= NumSegments(par.horizon, par.timeStep)
    BY DEF ConflictInv
  <2> QED
    BY <1>1, <1>2, <2>1, <2>2, <2>3, <2>4, StoredSegment
<1>4. CASE ComputeNextSegment
  <2> DEFINE fp == flowpipe[currentNode]
             segment == NextSegment(ha, nodes[currentNode].location, fp[Len(fp)])
  <2>1. /\ UNCHANGED <<ha, par, nodes, currentNode, result>> /\ result = "none"
        /\ currentNode \in DOMAIN nodes /\ pc = "nextSegment" /\ IsFlowpipe(currentNode)
    BY <1>1, <1>4 DEF ComputeNextSegment, settings, ControlInv, CurrentInv, Busy
  <2>2. fp \in Seq(SUBSET Point) /\ fp # << >> /\ fp[Len(fp)] \in SUBSET Point
    BY <1>1, <2>1, Typed DEF IsFlowpipe
  <2>3. segment \in SUBSET Point
    BY <1>1, <2>1, <2>2, Typed, NextSegmentType
  <2>4. \A n \in DOMAIN nodes : Len(flowpipe[n]) <= NumSegments(par.horizon, par.timeStep)
    BY DEF ConflictInv
  <2>5. CASE Len(fp) < NumSegments(par.horizon, par.timeStep) /\ segment # {}
    <3>1. StoreSegment(segment)
      BY <1>4, <2>5 DEF ComputeNextSegment, current
    <3> HIDE DEF segment
    <3> QED
      BY <1>1, <1>2, <2>1, <2>3, <2>4, <2>5, <3>1, StoredSegment
  <2>6. CASE ~(Len(fp) < NumSegments(par.horizon, par.timeStep) /\ segment # {})
    <3>1. pc' = "check" /\ UNCHANGED <<flowpipe, safetyResult>>
      BY <1>4, <2>6 DEF ComputeNextSegment, current
    <3>2. safetyResult = "SAFE"
      BY <2>1 DEF ConflictInv
    <3> QED
      BY <2>1, <2>4, <3>1, <3>2 DEF ConflictInv
  <2> QED
    BY <2>5, <2>6
<1>5. CASE AddChild
  <2>1. pc' = "jumps" /\ result' = result /\ UNCHANGED <<ha, par>> /\ result = "none"
        /\ pc = "jumps" /\ flowpipe' = Append(flowpipe, << >>)
    BY <1>1, <1>5 DEF AddChild, settings, ControlInv, NewFlowpipe
  <2>2. \A n \in DOMAIN nodes' : Len(flowpipe'[n]) <= NumSegments(par.horizon, par.timeStep)
    <3>1. NumSegments(par.horizon, par.timeStep) \in Nat
      BY <1>1, SettingTypes
    <3>2. /\ flowpipe \in Seq(Seq(SUBSET Point)) /\ << >> \in Seq(SUBSET Point)
          /\ DOMAIN flowpipe = DOMAIN nodes
      BY <1>1, Typed DEF TypeOK
    <3>3. /\ DOMAIN flowpipe' = DOMAIN nodes \cup {Len(flowpipe) + 1}
          /\ \A n \in DOMAIN nodes : flowpipe'[n] = flowpipe[n]
          /\ flowpipe'[Len(flowpipe) + 1] = << >>
      BY <2>1, <3>2, Appended
    <3>4. DOMAIN flowpipe' = DOMAIN nodes'
      <4>1. TypeOK'
        BY NextAnalysis DEF AnalysisInv
      <4> QED
        BY <4>1 DEF TypeOK
    <3> QED
      BY <3>1, <3>3, <3>4 DEF ConflictInv
  <2> QED
    BY <2>1, <2>2 DEF ConflictInv
<1>6. CASE ReportConflict
  <2>1. /\ UNCHANGED <<ha, par, nodes, flowpipe, currentNode, safetyResult>>
        /\ pc = "check" /\ pc' = "done" /\ result' = "failure" /\ safetyResult = "UNKNOWN"
        /\ result = "none"
    BY <1>1, <1>6 DEF ReportConflict, settings, ControlInv
  <2>2. currentNode \in DOMAIN nodes /\ EndsInConflict(currentNode)
    BY <2>1 DEF ConflictInv
  <2>3. EndsInConflict(currentNode)'
    BY <2>1, <2>2 DEF EndsInConflict, IsFlowpipe
  <2> QED
    BY <2>1, <2>2, <2>3 DEF ConflictInv
<1>7. CASE Dequeue \/ SkipCoveredNode \/ PassCheck \/ ComputeJumpSuccessors \/ FinishNode \/ Succeed
  <2>1. /\ UNCHANGED <<ha, par, nodes, flowpipe, safetyResult>>
        /\ pc' \in {"firstSegment", "dequeue", "expand", "jumps", "done"}
        /\ pc' = "done" => result' = "success"
        /\ result' = result \/ result' = "success"
        /\ result = "none"
    BY <1>1, <1>7 DEF Dequeue, SkipCoveredNode, PassCheck, ComputeJumpSuccessors, FinishNode,
                      Succeed, settings, ControlInv
  <2> QED
    BY <2>1 DEF ConflictInv
<1>8. CASE UNCHANGED vars
  <2>1. UNCHANGED <<ha, par, nodes, flowpipe, safetyResult, currentNode, pc, result>>
    BY <1>8 DEF vars
  <2> QED
    BY <2>1 DEF ConflictInv, EndsInConflict, IsFlowpipe
<1> QED
  BY <1>3, <1>4, <1>5, <1>6, <1>7, <1>8 DEF Next

--------------------------------------------------------------------------
(* Without over-approximation the sets of the analysis are reached.       *)

LEMMA SegmentsAreExact ==
  ASSUME TypeOK, NEW K \in SUBSET SUBSET Point, Keeps(K),
         NEW l \in Location, NEW S \in K
  PROVE  /\ FirstSegment(ha, l, S) \in K
         /\ FirstSegment(ha, l, S) = ha.invariant[l] \cap UNION {ha.during[l][p] : p \in S}
         /\ NextSegment(ha, l, S) \in K
         /\ NextSegment(ha, l, S) = ha.invariant[l] \cap {ha.flow[l][p] : p \in S}
<1> DEFINE D == UNION {ha.during[l][p] : p \in S}
           F == {ha.flow[l][p] : p \in S}
           c == ha.invariant[l]
<1>1. D \in K /\ F \in K
  BY DEF Keeps
<1>2. FirstSegment(ha, l, S) = Over[Over[D] \cap c]
  BY DEF FirstSegment, Intersect, Unite
<1>3. NextSegment(ha, l, S) = Over[Over[F] \cap c]
  BY DEF NextSegment, Intersect, Transform
<1> HIDE DEF D, F
<1>4. D \cap c \in K /\ F \cap c \in K
  BY <1>1 DEF Keeps
<1> HIDE DEF c
<1>5. Over[D] = D /\ Over[F] = F /\ Over[D \cap c] = D \cap c /\ Over[F \cap c] = F \cap c
  BY <1>1, <1>4 DEF Keeps
<1>6. FirstSegment(ha, l, S) = D \cap c /\ NextSegment(ha, l, S) = F \cap c
  BY <1>2, <1>3, <1>5
<1> QED
  BY <1>4, <1>6 DEF D, F, c

(* Without aggregation a block is a single segment.                       *)
LEMMA BlockIsSegment ==
  ASSUME NEW A, NEW t, NEW p, p.aggregation = "NO_AGG", NEW fp \in Seq(SUBSET Point),
         NEW k \in EnabledSegments(A, t, fp)
  PROVE  Block(A, t, p, fp, BlockOf(A, t, p, fp, k)) = {k}
<1> DEFINE K == EnabledSegments(A, t, fp)
           earlier(i) == {j \in K : j < i}
<1>1. K \in SUBSET (1..Len(fp)) /\ Len(fp) \in Nat
  BY DEF EnabledSegments
<1>2. \A i : IsFiniteSet(earlier(i)) /\ Cardinality(earlier(i)) \in Nat
  <2> TAKE i
  <2>1. earlier(i) \subseteq 1..Len(fp)
    BY <1>1
  <2>2. IsFiniteSet(1..Len(fp))
    BY <1>1, FS_Interval
  <2> HIDE DEF earlier
  <2> QED
    BY <2>1, <2>2, FS_Subset, FS_CardinalityType
<1>3. \A i \in K : BlockOf(A, t, p, fp, i) = Cardinality(earlier(i))
  <2> TAKE i \in K
  <2>1. BlockSize(A, t, p, Cardinality(K)) = 1
    BY DEF BlockSize
  <2>2. BlockOf(A, t, p, fp, i) = Cardinality(earlier(i)) \div 1
    BY <2>1 DEF BlockOf, Rank
  <2> DEFINE n == Cardinality(earlier(i))
  <2>3. n \in Nat
    BY <1>2
  <2> HIDE DEF n
  <2>4. n \div 1 = n
    BY <2>3
  <2> QED
    BY <2>2, <2>4 DEF n
<1>4. ASSUME NEW i \in K, NEW j \in K, i < j
      PROVE  Cardinality(earlier(i)) < Cardinality(earlier(j))
  <2>1. earlier(i) \subseteq earlier(j) /\ i \in earlier(j) /\ i \notin earlier(i)
    BY <1>1, <1>4
  <2>2. earlier(i) # earlier(j)
    BY <2>1
  <2> HIDE DEF earlier
  <2> QED
    BY <1>2, <2>1, <2>2, FS_Subset
<1> HIDE DEF earlier
<1>5. ASSUME NEW i \in K, BlockOf(A, t, p, fp, i) = BlockOf(A, t, p, fp, k)
      PROVE  i = k
  <2>1. Cardinality(earlier(i)) = Cardinality(earlier(k))
    BY <1>3, <1>5
  <2>2. ~(i < k) /\ ~(k < i)
    BY <1>2, <1>4, <2>1
  <2>3. i \in Int /\ k \in Int
    BY <1>1
  <2> QED
    BY <2>2, <2>3
<1> QED
  BY <1>5 DEF Block

LEMMA SuccessorIsExact ==
  ASSUME TypeOK, NEW K \in SUBSET SUBSET Point, Keeps(K), par.aggregation = "NO_AGG",
         NEW l, NEW fp \in Seq(SUBSET Point), \A k \in DOMAIN fp : fp[k] \in K,
         NEW j \in NonEmptyJumpSuccessors(ha, l, par, fp)
  PROVE  \E k \in DOMAIN fp :
           LET tr == ha.transition[j.transition]
               image == {tr.reset[p] : p \in fp[k] \cap tr.guard}
           IN  /\ SuccessorSet(ha, j.transition, par, fp, j.block) = image \cap ha.invariant[tr.target]
               /\ SuccessorSet(ha, j.transition, par, fp, j.block) \in K
<1> DEFINE t == j.transition
           tr == ha.transition[t]
<1>1. t \in DOMAIN ha.transition
  BY SuccessorTransition
<1>2. PICK k \in EnabledSegments(ha, t, fp) : j.block = BlockOf(ha, t, par, fp, k)
  BY DEF NonEmptyJumpSuccessors, JumpSuccessors
<1>3. k \in DOMAIN fp
  BY <1>2 DEF EnabledSegments
<1>4. Block(ha, t, par, fp, j.block) = {k}
  BY <1>2, BlockIsSegment
<1> DEFINE G == fp[k] \cap tr.guard
           I == {tr.reset[p] : p \in G}
           c == ha.invariant[tr.target]
<1>5. G \in K
  BY <1>1, <1>3 DEF Keeps
<1>6. I \in K
  BY <1>1, <1>5 DEF Keeps
<1>7. I \cap c \in K
  <2>1. tr.target \in Location
    BY <1>1, AutomatonTypes DEF TypeOK, TransitionType
  <2> HIDE DEF I
  <2> QED
    BY <1>6, <2>1 DEF Keeps
<1>8. Over[G] = G /\ Over[I] = I /\ Over[I \cap c] = I \cap c
  <2> HIDE DEF I, G, c
  <2> QED
    BY <1>5, <1>6, <1>7 DEF Keeps
<1>9. {Intersect(fp[i], tr.guard) : i \in Block(ha, t, par, fp, j.block)} = {G}
  BY <1>4, <1>8 DEF Intersect
<1>10. Unite({Intersect(fp[i], tr.guard) : i \in Block(ha, t, par, fp, j.block)}) = G
  <2> HIDE DEF G
  <2> QED
    BY <1>8, <1>9 DEF Unite
<1>11. Transform(G, tr.reset) = I
  BY <1>8 DEF Transform
<1>12. SuccessorSet(ha, t, par, fp, j.block) = I \cap c
  <2> HIDE DEF G, I, c
  <2> QED
    BY <1>8, <1>10, <1>11 DEF SuccessorSet, Intersect, c
<1> QED
  BY <1>3, <1>7, <1>12

LEMMA FlowpipeIsReached ==
  ASSUME TypeOK, ConflictInv, NEW K \in SUBSET SUBSET Point, Keeps(K),
         NEW n \in DOMAIN nodes, IsFlowpipe(n), nodes[n].initialSet \in K,
         NEW entered, nodes[n].initialSet \subseteq entered
  PROVE  \A k \in DOMAIN flowpipe[n] :
           /\ flowpipe[n][k] \in K
           /\ flowpipe[n][k] \subseteq Observed(ha, nodes[n].location, entered,
                                                NumSegments(par.horizon, par.timeStep) - 1)
<1> DEFINE fp == flowpipe[n]
           l == nodes[n].location
           N == NumSegments(par.horizon, par.timeStep)
<1>1. /\ l \in Location /\ fp \in Seq(SUBSET Point) /\ Len(fp) \in Nat /\ N \in Nat
      /\ Len(fp) <= N /\ fp # << >> /\ DOMAIN fp = 1..Len(fp)
  BY Typed, SettingTypes DEF ConflictInv, IsFlowpipe
<1>2. /\ fp[1] = FirstSegment(ha, l, nodes[n].initialSet)
      /\ \A k \in 1..Len(fp) - 1 : fp[k + 1] = NextSegment(ha, l, fp[k])
  BY DEF IsFlowpipe
<1> HIDE DEF N, fp
<1>3. N - 1 \in Nat
  BY <1>1
<1>at. PICK at : AreObserved(ha, l, entered, N - 1, at)
  BY <1>3, ObservedIsDefined
<1>4. /\ Observed(ha, l, entered, N - 1) = UNION {at[k] : k \in 0..N - 1}
      /\ at[0] = ha.invariant[l] \cap UNION {ha.during[l][p] : p \in entered}
      /\ \A k \in 1..N - 1 : at[k] = ha.invariant[l] \cap {ha.flow[l][p] : p \in at[k - 1]}
  BY <1>at DEF AreObserved
<1> DEFINE S == {k \in 1..Len(fp) : fp[k] \in K /\ fp[k] \subseteq at[k - 1]}
<1>5. 1 \in S
  <2>1. 1 \in 1..Len(fp) /\ 1 - 1 = 0
    BY <1>1
  <2>2. fp[1] \in K /\ fp[1] = ha.invariant[l] \cap UNION {ha.during[l][p] : p \in nodes[n].initialSet}
    BY <1>1, <1>2, SegmentsAreExact
  <2>3. fp[1] \subseteq at[0]
    BY <1>4, <2>2
  <2> QED
    BY <2>1, <2>2, <2>3
<1>6. ASSUME NEW k \in 1..Len(fp) - 1, k \in S
      PROVE  k + 1 \in S
  <2>1. fp[k] \in K /\ fp[k] \subseteq at[k - 1]
    BY <1>6
  <2>2. fp[k + 1] \in K /\ fp[k + 1] = ha.invariant[l] \cap {ha.flow[l][p] : p \in fp[k]}
    BY <1>1, <1>2, <2>1, SegmentsAreExact
  <2>3. k \in 1..N - 1 /\ k + 1 \in 1..Len(fp) /\ (k + 1) - 1 = k
    BY <1>1
  <2>4. at[k] = ha.invariant[l] \cap {ha.flow[l][p] : p \in at[k - 1]}
    BY <1>4, <2>3
  <2>5. fp[k + 1] \subseteq at[k]
    BY <2>1, <2>2, <2>4
  <2> QED
    BY <2>2, <2>3, <2>5
<1> HIDE DEF S
<1>7. 1..Len(fp) \subseteq S
  <2>1. 1 \in Int /\ Len(fp) \in Int
    BY <1>1
  <2> QED
    BY <1>5, <1>6, <2>1, InductionInInterval
<1>8. ASSUME NEW k \in DOMAIN fp
      PROVE  fp[k] \in K /\ fp[k] \subseteq Observed(ha, l, entered, N - 1)
  <2>1. k \in 1..Len(fp) /\ fp[k] \in K /\ fp[k] \subseteq at[k - 1]
    BY <1>1, <1>7 DEF S
  <2>2. k - 1 \in 0..N - 1
    BY <1>1, <2>1
  <2> QED
    BY <1>4, <2>1, <2>2
<1> QED
  BY <1>8 DEF fp, N

IsReached(K, n) ==
  /\ nodes[n].initialSet \in K
  /\ nodes[n].initialSet \subseteq
       Entered(ha, NumSegments(par.horizon, par.timeStep) - 1, nodes[n].depth)
         [nodes[n].depth][nodes[n].location]

LEMMA RootIsReached ==
  ASSUME TypeOK, TreeInv, NEW K \in SUBSET SUBSET Point, Keeps(K),
         NEW n \in DOMAIN ha.initial
  PROVE  IsReached(K, n)
<1> DEFINE s == NumSegments(par.horizon, par.timeStep) - 1
           S == ha.initial[n].set
           l == ha.initial[n].loc
<1>1. ha \in Automata /\ l \in Location /\ S \in K /\ S \subseteq ha.invariant[l]
  BY AutomatonTypes DEF TypeOK, Keeps, IsAutomaton
<1>2. nodes[n].initialSet = Over[S] /\ nodes[n].location = l /\ nodes[n].depth = 0
  <2>1. nodes[n] = MakeRoots(ha)[n]
    BY DEF TreeInv
  <2> QED
    BY <2>1 DEF MakeRoots
<1>3. Over[S] = S
  BY <1>1 DEF Keeps
<1>4. Entered(ha, s, 0)[0] = EnteredFirst(ha)
  BY EnteredIsDefined
<1>5. S \subseteq EnteredFirst(ha)[l]
  <2>1. l \in DOMAIN ha.invariant
    BY <1>1, AutomatonTypes DEF AutomatonType
  <2> QED
    BY <1>1, <2>1 DEF EnteredFirst
<1> QED
  BY <1>1, <1>2, <1>3, <1>4, <1>5 DEF IsReached

LEMMA ChildIsReached ==
  ASSUME TypeOK, TreeInv, ConflictInv, NEW K \in SUBSET SUBSET Point, Keeps(K),
         par.aggregation = "NO_AGG",
         NEW n \in DOMAIN nodes, NEW m \in DOMAIN nodes, IsChildOf(n, m), IsReached(K, m)
  PROVE  IsReached(K, n)
<1> DEFINE s == NumSegments(par.horizon, par.timeStep) - 1
           d == nodes[m].depth
           l == nodes[m].location
           before == Entered(ha, s, d)[d]
<1>1. /\ ha \in Automata /\ d \in Nat /\ l \in Location /\ flowpipe[m] \in Seq(SUBSET Point)
  BY Typed
<1>2. PICK j \in Successors(m) : nodes[n] = ChildOf(m, j)
  BY DEF IsChildOf
<1> DEFINE t == j.transition
           tr == ha.transition[t]
<1>3. t \in DOMAIN ha.transition /\ tr.source = l
  BY <1>2, SuccessorTransition DEF Successors
<1>4. /\ nodes[n].location = tr.target /\ nodes[n].depth = d + 1
      /\ nodes[n].initialSet = SuccessorSet(ha, t, par, flowpipe[m], j.block)
  BY <1>2, <1>3, ChildOfFacts
<1>5. \A k \in DOMAIN flowpipe[m] :
        flowpipe[m][k] \in K /\ flowpipe[m][k] \subseteq Observed(ha, l, before[l], s)
  BY FlowpipeIsReached DEF IsReached, IsChildOf, IsFinished
<1>6. PICK k \in DOMAIN flowpipe[m] :
        /\ nodes[n].initialSet = {tr.reset[p] : p \in flowpipe[m][k] \cap tr.guard}
                                   \cap ha.invariant[tr.target]
        /\ nodes[n].initialSet \in K
  <2>1. j \in NonEmptyJumpSuccessors(ha, l, par, flowpipe[m])
    BY <1>2 DEF Successors
  <2>2. \A k \in DOMAIN flowpipe[m] : flowpipe[m][k] \in K
    BY <1>5
  <2> DEFINE fp == flowpipe[m]
  <2>3. fp \in Seq(SUBSET Point)
    BY <1>1
  <2> HIDE DEF fp, l
  <2>4. PICK k \in DOMAIN fp :
          LET tra == ha.transition[j.transition]
              image == {tra.reset[p] : p \in fp[k] \cap tra.guard}
          IN  /\ SuccessorSet(ha, j.transition, par, fp, j.block) = image \cap ha.invariant[tra.target]
              /\ SuccessorSet(ha, j.transition, par, fp, j.block) \in K
    BY <2>1, <2>2, <2>3, SuccessorIsExact DEF fp
  <2> QED
    BY <1>4, <2>4 DEF fp
<1>7. tr.target \in Location
  BY <1>1, <1>3, AutomatonTypes DEF TransitionType
<1>8. Entered(ha, s, d + 1)[d + 1] = EnteredNext(ha, s, before)
  <2>1. Entered(ha, s, d + 1)[d + 1] = EnteredNext(ha, s, Entered(ha, s, d + 1)[(d + 1) - 1])
    BY <1>1, EnteredIsDefined
  <2>2. (d + 1) - 1 = d /\ d + 1 \in Nat /\ d <= d /\ d <= d + 1
    BY <1>1
  <2>3. Entered(ha, s, d + 1)[d] = Entered(ha, s, d)[d]
    BY <1>1, <2>2, EnteredIsUnique
  <2> QED
    BY <2>1, <2>2, <2>3
<1> HIDE DEF before, s
<1>9. {tr.reset[p] : p \in flowpipe[m][k] \cap tr.guard}
        \subseteq {tr.reset[p] : p \in tr.guard \cap Observed(ha, tr.source, before[tr.source], s)}
  BY <1>3, <1>5
<1> DEFINE images(i) ==
             {ha.transition[i].reset[p] : p \in ha.transition[i].guard \cap
                Observed(ha, ha.transition[i].source, before[ha.transition[i].source], s)}
           into == {i \in DOMAIN ha.transition : ha.transition[i].target = tr.target}
<1>10. EnteredNext(ha, s, before)[tr.target] =
         ha.invariant[tr.target] \cap UNION {images(i) : i \in into}
  <2>1. tr.target \in DOMAIN ha.invariant
    BY <1>1, <1>7, AutomatonTypes DEF AutomatonType
  <2> QED
    BY <2>1 DEF EnteredNext
<1>11. t \in into
  BY <1>3
<1>12. {tr.reset[p] : p \in flowpipe[m][k] \cap tr.guard} \subseteq images(t)
  BY <1>9
<1> HIDE DEF images, into, tr
<1>13. nodes[n].initialSet \subseteq EnteredNext(ha, s, before)[tr.target]
  BY <1>6, <1>10, <1>11, <1>12
<1> QED
  BY <1>4, <1>6, <1>8, <1>13 DEF IsReached, s

LEMMA NodesAreReached ==
  ASSUME TypeOK, TreeInv, ConflictInv, NEW K \in SUBSET SUBSET Point, Keeps(K),
         par.aggregation = "NO_AGG", NEW n \in DOMAIN nodes
  PROVE  IsReached(K, n)
<1> DEFINE T == {i \in DOMAIN nodes : ~IsReached(K, i)}
<1>1. DOMAIN nodes \subseteq Nat /\ DOMAIN nodes = 1..Len(nodes) /\ Len(nodes) \in Nat
  BY DEF TypeOK
<1> SUFFICES ASSUME T # {}
             PROVE  FALSE
  OBVIOUS
<1>2. PICK i \in T : \A k \in T : i <= k
  BY <1>1, LeastNumber
<1>3. i \notin DOMAIN ha.initial
  BY <1>2, RootIsReached
<1>4. PICK m \in 1..i - 1 : IsChildOf(i, m)
  BY <1>2, <1>3 DEF TreeInv
<1>5. m \in DOMAIN nodes /\ ~(i <= m)
  BY <1>1, <1>2, <1>4
<1>6. IsReached(K, m)
  BY <1>2, <1>5
<1> QED
  BY <1>2, <1>4, <1>5, <1>6, ChildIsReached

LEMMA ConflictsAreReached ==
  ASSUME AnalysisInv, TreeInv, ConflictInv, InitialStatesExist, NothingApproximated,
         result = "failure"
  PROVE  CanBeBad(ha, NumSegments(par.horizon, par.timeStep) - 1, current.depth)
<1>1. TypeOK /\ pc = "done" /\ currentNode \in DOMAIN nodes /\ EndsInConflict(currentNode)
  BY DEF AnalysisInv, ControlInv, ConflictInv
<1>2. PICK n \in DOMAIN nodes : n = currentNode
  BY <1>1
<1>3. PICK K \in SUBSET SUBSET Point : Keeps(K)
  BY DEF NothingApproximated
<1> DEFINE fp == flowpipe[n]
           last == fp[Len(fp)]
           l == nodes[n].location
           d == nodes[n].depth
           s == NumSegments(par.horizon, par.timeStep) - 1
           e == Entered(ha, s, d)[d][l]
<1>4. /\ ha \in Automata /\ l \in Location /\ d \in Nat /\ fp \in Seq(SUBSET Point)
      /\ IsFlowpipe(n) /\ fp # << >> /\ Len(fp) \in DOMAIN fp
  BY <1>1, <1>2, Typed DEF EndsInConflict, IsFlowpipe
<1>5. last \subseteq Observed(ha, l, e, s)
  <2>1. IsReached(K, n)
    BY <1>1, <1>3, NodesAreReached DEF NothingApproximated
  <2>2. nodes[n].initialSet \in K /\ nodes[n].initialSet \subseteq e
    BY <2>1 DEF IsReached
  <2> HIDE DEF e
  <2>3. \A k \in DOMAIN fp : fp[k] \subseteq Observed(ha, l, e, s)
    BY <1>1, <1>3, <1>4, <2>2, FlowpipeIsReached
  <2> QED
    BY <1>4, <2>3
<1>6. last # {}
  <2>1. Len(fp) = 1 \/ last # {}
    BY <1>1, <1>2 DEF EndsInConflict
  <2>2. fp[1] = FirstSegment(ha, l, nodes[n].initialSet)
    BY <1>4 DEF IsFlowpipe
  <2>3. FirstSegment(ha, l, nodes[n].initialSet) # {}
    BY FirstSegmentExists
  <2> QED
    BY <2>1, <2>2, <2>3
<1>7. last \in SUBSET Point
  BY <1>4
<1> HIDE DEF last
<1>8. last \cap BadStates(ha, l) # {}
  <2>1. \/ ha.localBad[l] = Point
        \/ Intersect(last, ha.localBad[l]) # {}
        \/ Intersect(last, ha.globalBad) # {}
    BY <1>1, <1>2 DEF EndsInConflict, IntersectsBadStates, last
  <2>2. \A c : Intersect(last, c) # {} => last \cap c # {}
    BY OverAssumption DEF Intersect
  <2> QED
    BY <1>6, <1>7, <2>1, <2>2 DEF BadStates
<1>9. Observed(ha, l, e, s) \cap BadStates(ha, l) # {}
  BY <1>5, <1>8
<1>10. d \in 0..d /\ current.depth = d
  BY <1>2, <1>4 DEF current
<1> HIDE DEF d, l, s
<1> QED
  BY <1>4, <1>9, <1>10 DEF CanBeBad, s

(* Conflicts have a segment of the current node that meets bad states.    *)
THEOREM ConflictInvariance == VerificationSpec => []ConflictInv
<1>1. IInv /\ ConflictInv /\ [VerificationNext]_verificationVars => ConflictInv'
  BY ConflictStep, VerificationSteps DEF IInv
<1> QED
  BY <1>1, ConflictInit, Invariance, PTL DEF VerificationSpec

(* The converse of soundness: if nothing is over-approximated and the     *)
(* initial states exist, LTIAnalyzer::run reports a conflict only if a    *)
(* run meets a bad state, with no more jumps than the conflict node is    *)
(* deep.                                                                  *)
THEOREM ConflictsAreReal ==
  VerificationSpec => [](InitialStatesExist /\ NothingApproximated => ConflictIsReal)
<1>1. IInv /\ TreeInv /\ ConflictInv =>
        (InitialStatesExist /\ NothingApproximated => ConflictIsReal)
  BY ConflictsAreReached DEF IInv, ConflictIsReal
<1> QED
  BY <1>1, Invariance, TreeInvariance, ConflictInvariance, PTL

--------------------------------------------------------------------------
(* Without the tests that leave out nodes or jumps nothing is skipped.    *)

LEMMA DoneForGood ==
  ASSUME AnalysisInv, [Next]_vars, NEW m \in DOMAIN nodes, Done(m)
  PROVE  Done(m)'
<1>1. flowpipe'[m] = flowpipe[m]
  BY FinishedStays DEF Done, IsFinished
<1> QED
  BY <1>1, TreeSteps, DoneStays

(* The node at hand is done when the loop turns to the next one.          *)
LEMMA OpenUntilDone ==
  ASSUME AnalysisInv, FollowsEveryJump, [Next]_vars, NEW m \in DOMAIN nodes, Open(m)
  PROVE  result' = "failure" \/ Open(m)' \/ Done(m)'
<1>1. TypeOK /\ ControlInv /\ CurrentInv
  BY DEF AnalysisInv
<1>2. CASE Dequeue
  <2>1. /\ pc = "dequeue" /\ pc' = "firstSegment" /\ workQueue # << >>
        /\ currentNode' = Head(workQueue) /\ workQueue' = Tail(workQueue)
    BY <1>2 DEF Dequeue
  <2>2. PICK i \in DOMAIN workQueue : workQueue[i] = m
    BY <2>1 DEF Open, Busy
  <2>3. workQueue \in Seq(DOMAIN nodes)
    BY <1>1 DEF TypeOK
  <2>4. CASE i = 1
    <3>1. currentNode' = m
      BY <2>1, <2>2, <2>3, <2>4, Dequeued
    <3> QED
      BY <2>1, <3>1 DEF Open, Busy
  <2>5. CASE i # 1
    <3>1. i - 1 \in DOMAIN workQueue' /\ workQueue'[i - 1] = m
      BY <2>1, <2>2, <2>3, <2>5, Dequeued
    <3> QED
      BY <3>1 DEF Open
  <2> QED
    BY <2>4, <2>5
<1>3. CASE ComputeFirstSegment \/ ComputeNextSegment \/ ComputeJumpSuccessors
  <2>1. UNCHANGED <<workQueue, currentNode>>
    BY <1>3 DEF ComputeFirstSegment, ComputeNextSegment, ComputeJumpSuccessors
  <2>2. Busy'
    BY <1>3 DEF ComputeFirstSegment, ComputeNextSegment, ComputeJumpSuccessors, StoreSegment, Busy
  <2> QED
    BY <2>1, <2>2 DEF Open
<1>4. CASE SkipCoveredNode
  BY <1>1, <1>4, SettingTypes DEF SkipCoveredNode, CoveredContinuously, FollowsEveryJump
<1>5. CASE ReportConflict
  BY <1>5 DEF ReportConflict
<1>6. CASE PassCheck
  <2>1. /\ pc = "check" /\ safetyResult = "SAFE" /\ UNCHANGED <<ha, par, workQueue, currentNode>>
        /\ pc' = IF nodes[currentNode].depth = par.jumpDepth THEN "dequeue" ELSE "expand"
    BY <1>6 DEF PassCheck, settings, current
  <2>2. CASE nodes[currentNode].depth = par.jumpDepth /\ m = currentNode
    <3>1. Done(m)
      BY <1>1, <2>1, <2>2 DEF CurrentInv, Done, IsExpanded
    <3> QED
      BY <3>1, DoneForGood
  <2>3. CASE nodes[currentNode].depth # par.jumpDepth
    BY <2>1, <2>3 DEF Open, Busy
  <2>4. CASE m # currentNode
    BY <2>1, <2>4 DEF Open
  <2> QED
    BY <2>2, <2>3, <2>4
<1>7. CASE AddChild
  <2>1. pc = "jumps" /\ UNCHANGED <<currentNode, pc>>
    BY <1>7 DEF AddChild
  <2>2. \A i \in DOMAIN workQueue : i \in DOMAIN workQueue' /\ workQueue'[i] = workQueue[i]
    <3>1. workQueue' = workQueue \/ workQueue' = Append(workQueue, Len(nodes) + 1)
      BY <1>7 DEF AddChild, Enqueue
    <3>2. workQueue \in Seq(Int) /\ Len(nodes) + 1 \in Int
      <4>1. DOMAIN nodes \subseteq Int /\ Len(nodes) \in Int /\ workQueue \in Seq(DOMAIN nodes)
        BY <1>1 DEF TypeOK
      <4> QED
        BY <4>1, SeqLarger
    <3> QED
      BY <3>1, <3>2, Appended
  <2> QED
    BY <2>1, <2>2 DEF Open, Busy
<1>8. CASE FinishNode
  <2>1. /\ pc = "jumps" /\ pending = {} /\ UNCHANGED <<ha, par, workQueue, currentNode>>
    BY <1>8 DEF FinishNode, settings
  <2>2. CASE m = currentNode
    <3>1. Done(m)
      BY <1>1, <2>1, <2>2 DEF CurrentInv, Done, IsExpanded, FollowsEveryJump
    <3> QED
      BY <3>1, DoneForGood
  <2>3. CASE m # currentNode
    BY <2>1, <2>3 DEF Open
  <2> QED
    BY <2>2, <2>3
<1>9. CASE Succeed
  BY <1>9 DEF Succeed, Open, Busy
<1>10. CASE UNCHANGED vars
  BY <1>10 DEF vars, Open, Busy
<1> QED
  BY <1>2, <1>3, <1>4, <1>5, <1>6, <1>7, <1>8, <1>9, <1>10 DEF Next

LEMMA NothingSkippedStep ==
  ASSUME AnalysisInv, NothingSkipped, [Next]_vars
  PROVE  NothingSkipped'
<1> SUFFICES ASSUME FollowsEveryJump', result' # "failure", NEW n \in DOMAIN nodes'
             PROVE  Open(n)' \/ Done(n)'
  BY DEF NothingSkipped
<1>1. FollowsEveryJump
  BY TreeSteps DEF TreeGrows, FollowsEveryJump
<1>2. CASE n \in DOMAIN nodes
  <2>1. Open(n) \/ Done(n)
    <3>1. result # "failure"
      <4>1. CASE UNCHANGED vars
        BY <4>1 DEF vars
      <4>2. CASE Next
        <5>1. pc # "done"
          BY <4>2 DEF Next, Dequeue, ComputeFirstSegment, ComputeNextSegment,
                      SkipCoveredNode, ReportConflict, PassCheck, ComputeJumpSuccessors,
                      AddChild, FinishNode, Succeed
        <5> QED
          BY <5>1 DEF AnalysisInv, ControlInv
      <4> QED
        BY <4>1, <4>2
    <3> QED
      BY <1>1, <1>2, <3>1 DEF NothingSkipped
  <2> QED
    BY <1>1, <1>2, <2>1, OpenUntilDone, DoneForGood
<1>3. CASE n \notin DOMAIN nodes
  <2>1. AddChild
    BY <1>3, TreeSteps
  <2>2. pc = "jumps" /\ pc' = pc
    BY <2>1 DEF AddChild
  <2>3. PICK j \in pending :
          /\ nodes' = Append(nodes, Child(j))
          /\ workQueue' = Enqueue(workQueue, Len(nodes) + 1)
    BY <1>1, <2>1 DEF AddChild, FollowsEveryJump
  <2>4. Child(j) \in NodeType /\ nodes \in Seq(NodeType)
    BY <2>2, ChildFacts DEF AnalysisInv, TypeOK
  <2>5. n = Len(nodes) + 1 /\ Len(nodes) \in Nat
    BY <1>3, <2>3, <2>4, Appended
  <2>6. workQueue \in Seq(Int)
    <3>1. DOMAIN nodes \subseteq Int /\ workQueue \in Seq(DOMAIN nodes)
      BY <2>4 DEF AnalysisInv, TypeOK
    <3> QED
      BY <3>1, SeqLarger
  <2>7. Len(workQueue) + 1 \in DOMAIN workQueue' /\ workQueue'[Len(workQueue) + 1] = n
    BY <2>3, <2>5, <2>6, Appended DEF Enqueue
  <2> QED
    BY <2>7 DEF Open
<1> QED
  BY <1>2, <1>3

LEMMA NothingSkippedInit == VerificationInit => NothingSkipped
<1> SUFFICES ASSUME Init, NEW n \in DOMAIN nodes
             PROVE  Open(n)
  BY DEF VerificationInit, NothingSkipped
<1>1. n \in DOMAIN workQueue /\ workQueue[n] = n
  BY DEF Init
<1> QED
  BY <1>1 DEF Open

--------------------------------------------------------------------------
(* The path to a node.                                                    *)

LEMMA ParentsAreEarlier ==
  ASSUME TypeOK, TreeInv, NEW n \in DOMAIN nodes
  PROVE  nodes[n].parent = Root \/ nodes[n].parent \in 1..n - 1
<1>1. CASE n \in DOMAIN ha.initial
  <2>1. nodes[n] = MakeRoots(ha)[n]
    BY <1>1 DEF TreeInv
  <2> QED
    BY <1>1, <2>1 DEF MakeRoots
<1>2. CASE n \notin DOMAIN ha.initial
  <2>1. PICK m \in 1..n - 1 : IsChildOf(n, m)
    BY <1>2 DEF TreeInv
  <2>2. PICK j : nodes[n] = ChildOf(m, j)
    BY <2>1 DEF IsChildOf
  <2>3. ChildOf(m, j).parent = m
    BY DEF ChildOf, ChildNode
  <2> QED
    BY <2>1, <2>2, <2>3
<1> QED
  BY <1>1, <1>2

(* The entry of a path for the jump to n.                                 *)
LastJump(n) ==
  [lower |-> nodes[n].lower, upper |-> nodes[n].upper, transition |-> nodes[n].transition]

LEMMA PathIsDefined ==
  ASSUME TypeOK, TreeInv, NEW n \in DOMAIN nodes
  PROVE  Path(nodes, n) = IF nodes[n].parent = Root THEN << >>
                          ELSE Append(Path(nodes, nodes[n].parent), LastJump(n))
<1> DEFINE Value(f, m) == IF nodes[m].parent = Root THEN << >>
                          ELSE Append(f[nodes[m].parent], LastJump(m))
           IsPath(f, m) == f = [k \in 1..m |-> Value(f, k)]
           S == {m \in Nat : m <= Len(nodes) => \E f : IsPath(f, m)}
<1>0. \A f, g, m : nodes[m].parent = Root \/ f[nodes[m].parent] = g[nodes[m].parent]
                     => Value(f, m) = Value(g, m)
  OBVIOUS
<1>d. DOMAIN nodes = 1..Len(nodes) /\ Len(nodes) \in Nat
  BY DEF TypeOK
<1>p. \A m : Path(nodes, m) = (CHOOSE f : f = [k \in DOMAIN nodes |-> Value(f, k)])[m]
  BY DEF Path, LastJump
<1>v. \A f, m : Value(f, m) = IF nodes[m].parent = Root THEN << >>
                              ELSE Append(f[nodes[m].parent], LastJump(m))
  OBVIOUS
<1> HIDE DEF Value
<1>1. 0 \in S
  <2> DEFINE f == [k \in 1..0 |-> Value(<< >>, k)]
  <2>1. f = [k \in 1..0 |-> Value(f, k)]
    OBVIOUS
  <2> HIDE DEF f
  <2> QED
    BY <2>1
<1>2. ASSUME NEW m \in Nat, m \in S PROVE m + 1 \in S
  <2> SUFFICES ASSUME m + 1 <= Len(nodes)
               PROVE  \E f : IsPath(f, m + 1)
    OBVIOUS
  <2>1. PICK f : f = [k \in 1..m |-> Value(f, k)]
    BY <1>2, <1>d
  <2> DEFINE g == [k \in 1..m + 1 |-> Value(f, k)]
  <2>2. \A k \in 1..m : g[k] = f[k]
    BY <2>1
  <2>3. ASSUME NEW k \in 1..m + 1 PROVE Value(f, k) = Value(g, k)
    <3>1. k \in DOMAIN nodes
      BY <1>d
    <3>2. nodes[k].parent = Root \/ nodes[k].parent \in 1..m
      BY <3>1, ParentsAreEarlier
    <3> HIDE DEF g
    <3> QED
      BY <1>0, <2>2, <3>2
  <2>4. g = [k \in 1..m + 1 |-> Value(g, k)]
    BY <2>3
  <2> HIDE DEF g
  <2> QED
    BY <2>4
<1> HIDE DEF S
<1>3. Len(nodes) \in S
  BY <1>1, <1>2, <1>d, InductionFromZero
<1>4. \E f : IsPath(f, Len(nodes))
  BY <1>3, <1>d DEF S
<1> DEFINE path == CHOOSE f : f = [k \in DOMAIN nodes |-> Value(f, k)]
<1>5. path = [k \in DOMAIN nodes |-> Value(path, k)]
  <2>1. \E f : f = [k \in DOMAIN nodes |-> Value(f, k)]
    BY <1>4, <1>d
  <2> QED
    BY <2>1
<1>6. \A m : Path(nodes, m) = path[m]
  BY <1>p
<1> HIDE DEF path
<1>7. path[n] = Value(path, n)
  BY <1>5
<1>8. Path(nodes, n) = path[n] /\ Path(nodes, nodes[n].parent) = path[nodes[n].parent]
  BY <1>6
<1> QED
  BY <1>7, <1>8, <1>v

LEMMA PathType ==
  ASSUME TypeOK, TreeInv, NEW n \in DOMAIN nodes
  PROVE  Path(nodes, n) \in Seq([lower : Int, upper : Int, transition : Nat])
<1> DEFINE J == [lower : Int, upper : Int, transition : Nat]
           T == {i \in DOMAIN nodes : Path(nodes, i) \notin Seq(J)}
<1>1. DOMAIN nodes \subseteq Nat /\ DOMAIN nodes = 1..Len(nodes) /\ Len(nodes) \in Nat
  BY DEF TypeOK
<1> SUFFICES ASSUME T # {}
             PROVE  FALSE
  OBVIOUS
<1>2. PICK i \in T : \A k \in T : i <= k
  BY <1>1, LeastNumber
<1>3. LastJump(i) \in J
  BY <1>2, Typed DEF LastJump, NodeType
<1>4. Path(nodes, i) = IF nodes[i].parent = Root THEN << >>
                       ELSE Append(Path(nodes, nodes[i].parent), LastJump(i))
  BY <1>2, PathIsDefined
<1> HIDE DEF J
<1>5. CASE nodes[i].parent = Root
  BY <1>2, <1>4, <1>5
<1>6. CASE nodes[i].parent # Root
  <2>1. nodes[i].parent \in 1..i - 1
    BY <1>2, <1>6, ParentsAreEarlier
  <2>2. nodes[i].parent \in DOMAIN nodes /\ ~(i <= nodes[i].parent)
    BY <1>1, <1>2, <2>1
  <2>3. Path(nodes, nodes[i].parent) \in Seq(J)
    BY <1>2, <2>2
  <2>4. Append(Path(nodes, nodes[i].parent), LastJump(i)) \in Seq(J)
    BY <1>3, <2>3, Appended
  <2> QED
    BY <1>2, <1>4, <1>6, <2>4
<1> QED
  BY <1>5, <1>6

(* The child's path is that of its parent and one transition.             *)
LEMMA ChildPath ==
  ASSUME TypeOK, TreeInv, NEW n \in DOMAIN nodes, NEW c \in DOMAIN nodes, NEW j,
         nodes[c] = ChildOf(n, j)
  PROVE  TransitionPath(c) = Append(TransitionPath(n), j.transition)
<1>1. nodes[c].parent = n /\ nodes[c].transition = j.transition
  BY DEF ChildOf, ChildNode
<1>2. n # Root
  BY DEF TypeOK, Root
<1> DEFINE before == Path(nodes, n)
           after == Path(nodes, c)
           J == [lower : Int, upper : Int, transition : Nat]
<1>3. after = Append(before, LastJump(c))
  BY <1>1, <1>2, PathIsDefined
<1>4. before \in Seq(J) /\ after \in Seq(J)
  BY PathType
<1>5. LastJump(c) \in J /\ LastJump(c).transition = j.transition
  BY <1>1, Typed DEF LastJump, NodeType
<1>6. TransitionPath(n) = [i \in DOMAIN before |-> before[i].transition]
  BY DEF TransitionPath
<1>7. TransitionPath(c) = [i \in DOMAIN after |-> after[i].transition]
  BY DEF TransitionPath
<1> HIDE DEF before, after
<1>8. \A s \in Seq(J) : \A i \in DOMAIN s : s[i].transition \in Nat
  <2> HIDE DEF J
  <2> TAKE s \in Seq(J)
  <2> TAKE i \in DOMAIN s
  <2>1. s[i] \in J
    OBVIOUS
  <2> QED
    BY <2>1 DEF J
<1> HIDE DEF J
<1>9. /\ DOMAIN after = 1..Len(before) + 1 /\ Len(before) \in Nat /\ DOMAIN before = 1..Len(before)
      /\ \A i \in 1..Len(before) : after[i] = before[i]
      /\ after[Len(before) + 1] = LastJump(c)
  <2>1. Len(before) \in Nat /\ DOMAIN before = 1..Len(before)
    BY <1>4
  <2>2. /\ DOMAIN Append(before, LastJump(c)) = DOMAIN before \cup {Len(before) + 1}
        /\ \A i \in DOMAIN before : Append(before, LastJump(c))[i] = before[i]
        /\ Append(before, LastJump(c))[Len(before) + 1] = LastJump(c)
    BY <1>4, <1>5, Appended
  <2>3. DOMAIN before \cup {Len(before) + 1} = 1..Len(before) + 1
    BY <2>1
  <2> QED
    BY <1>3, <2>1, <2>2, <2>3
<1>10. TransitionPath(n) \in Seq(Nat) /\ Len(TransitionPath(n)) = Len(before)
       /\ \A i \in 1..Len(before) : TransitionPath(n)[i] = before[i].transition
  <2>1. TransitionPath(n) \in [1..Len(before) -> Nat]
    BY <1>4, <1>6, <1>8, <1>9
  <2>2. TransitionPath(n) \in Seq(Nat)
    BY <1>9, <2>1
  <2>3. Len(TransitionPath(n)) = Len(before)
    BY <1>9, <2>1, <2>2
  <2> QED
    BY <1>6, <1>9, <2>2, <2>3
<1>11. Append(TransitionPath(n), j.transition) =
         [i \in 1..Len(before) + 1 |->
            IF i = Len(before) + 1 THEN j.transition ELSE TransitionPath(n)[i]]
  BY <1>10
<1>12. \A i \in 1..Len(before) + 1 :
         after[i].transition = IF i = Len(before) + 1 THEN j.transition ELSE TransitionPath(n)[i]
  BY <1>5, <1>9, <1>10
<1> QED
  BY <1>7, <1>9, <1>11, <1>12

(* The bounds of a block include its segments.                            *)
LEMMA BlockBounds ==
  ASSUME NEW A, NEW t, NEW p, NEW fp \in Seq(SUBSET Point), NEW b, NEW k \in Block(A, t, p, fp, b),
         k \in DOMAIN fp
  PROVE  BlockFirst(A, t, p, fp, b) <= k - 1 /\ k - 1 <= BlockLast(A, t, p, fp, b)
<1> DEFINE below == {i \in DOMAIN fp : \A m \in Block(A, t, p, fp, b) : i < m}
           above == {i \in DOMAIN fp : \A m \in Block(A, t, p, fp, b) : i > m}
<1>1. Len(fp) \in Int /\ DOMAIN fp = 1..Len(fp) /\ k \in 1..Len(fp)
  OBVIOUS
<1>2. below \subseteq 1..k - 1 /\ above \subseteq k + 1..Len(fp)
  BY <1>1
<1>3. /\ BlockFirst(A, t, p, fp, b) = Cardinality(below)
      /\ BlockLast(A, t, p, fp, b) = Len(fp) - Cardinality(above) - 1
  BY DEF BlockFirst, BlockLast
<1> HIDE DEF below, above
<1>4. IsFiniteSet(1..k - 1) /\ Cardinality(1..k - 1) = k - 1
  BY <1>1, FS_Interval
<1>5. IsFiniteSet(k + 1..Len(fp)) /\ Cardinality(k + 1..Len(fp)) = Len(fp) - k
  <2>1. k + 1 \in Int /\ Len(fp) \in Int /\ k \in Int /\ k <= Len(fp)
    BY <1>1
  <2>2. /\ IsFiniteSet(k + 1..Len(fp))
        /\ Cardinality(k + 1..Len(fp)) = IF k + 1 > Len(fp) THEN 0 ELSE Len(fp) - (k + 1) + 1
    BY <2>1, FS_Interval
  <2> QED
    BY <2>1, <2>2
<1>6. Cardinality(below) <= k - 1 /\ Cardinality(above) <= Len(fp) - k
  BY <1>2, <1>4, <1>5, FS_Subset
<1>7. Cardinality(below) \in Nat /\ Cardinality(above) \in Nat
  BY <1>2, <1>4, <1>5, FS_Subset, FS_CardinalityType
<1> QED
  BY <1>1, <1>3, <1>6, <1>7

LEMMA ScalingIsMonotone ==
  ASSUME NEW a \in Int, NEW b \in Int, a <= b, NEW f \in Nat
  PROVE  a * f <= b * f
<1> DEFINE S == {n \in Nat : a * n <= b * n}
<1>1. 0 \in S
  OBVIOUS
<1>2. ASSUME NEW n \in Nat, n \in S PROVE n + 1 \in S
  <2>1. a * n \in Int /\ b * n \in Int /\ a * n <= b * n
    BY <1>2
  <2>2. a * (n + 1) = a * n + a /\ b * (n + 1) = b * n + b
    OBVIOUS
  <2> QED
    BY <2>1, <2>2
<1> HIDE DEF S
<1>3. f \in S
  BY <1>1, <1>2, InductionFromZero
<1> QED
  BY <1>3 DEF S

(* A child's timings are those of its parent, later by the bounds of the  *)
(* block the jump leaves from.                                            *)
LEMMA ChildTimings ==
  ASSUME TypeOK, NEW n \in DOMAIN nodes, NEW j, NEW k \in Nat, k + 1 \in DOMAIN flowpipe[n],
         k + 1 \in Block(ha, j.transition, par, flowpipe[n], j.block)
  PROVE  /\ ChildOf(n, j).lower <= nodes[n].lower + k * par.timeStepFactor
         /\ nodes[n].upper + (k + 1) * par.timeStepFactor <= ChildOf(n, j).upper
<1> DEFINE fp == flowpipe[n]
           first == BlockFirst(ha, j.transition, par, fp, j.block)
           last == BlockLast(ha, j.transition, par, fp, j.block)
           f == par.timeStepFactor
<1>1. /\ fp \in Seq(SUBSET Point) /\ nodes[n].lower \in Int /\ nodes[n].upper \in Int
      /\ f \in Nat
  BY Typed, SettingTypes
<1>2. first \in Int /\ last \in Int
  BY <1>1, BlockBoundsType
<1>3. first <= k /\ k <= last
  BY <1>1, BlockBounds
<1>4. /\ ChildOf(n, j).lower = nodes[n].lower + first * f
      /\ ChildOf(n, j).upper = nodes[n].upper + (last + 1) * f
  BY DEF ChildOf, ChildNode, EndOfSegment
<1> HIDE DEF first, last, f
<1>5. first * f <= k * f /\ (k + 1) * f <= (last + 1) * f
  BY <1>1, <1>2, <1>3, ScalingIsMonotone
<1>6. first * f \in Int /\ k * f \in Int /\ (k + 1) * f \in Int /\ (last + 1) * f \in Int
  BY <1>1, <1>2
<1>7. /\ nodes[n].lower + first * f <= nodes[n].lower + k * f
      /\ nodes[n].upper + (k + 1) * f <= nodes[n].upper + (last + 1) * f
  <2>1. \A u, v, w \in Int : v <= w => u + v <= u + w
    OBVIOUS
  <2> QED
    BY <1>1, <1>5, <1>6, <2>1
<1> QED
  BY <1>4, <1>7 DEF f

--------------------------------------------------------------------------
(* A run is followed by a node with its path, whose timings include the   *)
(* time of the last jump.                                                 *)

(* After a success nothing is left to process.                            *)
LEMMA AllDone ==
  ASSUME AnalysisInv, NothingSkipped, FollowsEveryJump, result = "success",
         NEW n \in DOMAIN nodes
  PROVE  Done(n)
<1>1. Open(n) \/ Done(n)
  BY DEF NothingSkipped
<1>2. workQueue = << >> /\ ~Busy
  BY DEF AnalysisInv, ControlInv, Busy
<1>3. DOMAIN workQueue = {}
  BY <1>2
<1> QED
  BY <1>1, <1>2, <1>3 DEF Open

LEMMA PathStays ==
  ASSUME UNCHANGED nodes, NEW n
  PROVE  TransitionPath(n)' = TransitionPath(n)
<1>1. Path(nodes, n)' = Path(nodes, n)
  BY Zenon
<1> QED
  BY <1>1 DEF TransitionPath

RunStep == RunStarts \/ RunElapses \/ RunJumps

(* The step of a run keeps the tree, and with it what is known of nodes.  *)
LEMMA RunStepKeepsTree ==
  ASSUME RunStep, NEW n \in DOMAIN nodes, Done(n),
         nodes[n].location = run'.location,
         nodes[n].depth <= run'.jumps,
         run'.steps + 1 \in DOMAIN flowpipe[n],
         run'.valuation \in flowpipe[n][run'.steps + 1],
         TransitionPath(n) = run'.path,
         nodes[n].lower <= run'.earliest,
         run'.latest <= nodes[n].upper
  PROVE  \E m \in DOMAIN nodes' : TimedBy(m)'
<1>1. UNCHANGED vars
  BY DEF RunStep, RunStarts, RunElapses, RunJumps
<1>2. UNCHANGED <<ha, par, nodes, flowpipe>>
  BY <1>1 DEF vars
<1>3. TreeGrows
  BY <1>2 DEF TreeGrows
<1>4. Done(n)'
  BY <1>2, <1>3, DoneStays
<1>5. TransitionPath(n)' = TransitionPath(n)
  BY <1>2, PathStays
<1>6. TimedBy(n)'
  BY <1>2, <1>4, <1>5 DEF TimedBy, TrackedBy
<1> QED
  BY <1>2, <1>6

LEMMA StartIsFollowed ==
  ASSUME AnalysisInv, TreeInv, NothingSkipped, FollowsEveryJump, RunStarts
  PROVE  \E m \in DOMAIN nodes' : TimedBy(m)'
<1>1. TypeOK /\ result = "success"
  BY DEF AnalysisInv, RunStarts
<1> DEFINE Started(i, p, q) ==
             /\ Enters(ha, ha.initial[i].loc, p, q)
             /\ run' = [location |-> ha.initial[i].loc, valuation |-> q, steps |-> 0, jumps |-> 0,
                        path |-> << >>, earliest |-> 0, latest |-> 0]
<1>i. PICK i \in DOMAIN ha.initial : \E p \in ha.initial[i].set, q \in Point : Started(i, p, q)
  BY DEF RunStarts, Start
<1>2. PICK p \in ha.initial[i].set, q \in Point : Started(i, p, q)
  BY <1>i
<1>3. i \in DOMAIN nodes /\ nodes[i] = MakeRoots(ha)[i]
  BY DEF TreeInv
<1>4. /\ nodes[i].location = ha.initial[i].loc /\ nodes[i].parent = Root /\ nodes[i].depth = 0
      /\ nodes[i].lower = 0 /\ nodes[i].upper = 0
      /\ nodes[i].initialSet = Over[ha.initial[i].set]
  BY <1>3 DEF MakeRoots
<1>5. p \in nodes[i].initialSet
  <2>1. ha.initial[i].set \in SUBSET Point
    BY <1>1, AutomatonTypes DEF TypeOK
  <2> QED
    BY <1>2, <1>4, <2>1, OverIncludes
<1>6. Done(i)
  BY <1>1, <1>3, AllDone
<1>7. 1 \in DOMAIN flowpipe[i] /\ q \in flowpipe[i][1]
  BY <1>2, <1>3, <1>4, <1>5, <1>6, EnteringIsTracked
<1>8. TransitionPath(i) = << >>
  <2>1. Path(nodes, i) = << >>
    BY <1>1, <1>3, <1>4, PathIsDefined
  <2> QED
    BY <2>1 DEF TransitionPath
<1>9. /\ nodes[i].location = run'.location /\ nodes[i].depth <= run'.jumps
      /\ run'.steps + 1 = 1 /\ run'.valuation = q /\ run'.path = << >>
      /\ nodes[i].lower <= run'.earliest /\ run'.latest <= nodes[i].upper
  BY <1>2, <1>4
<1> QED
  BY <1>3, <1>6, <1>7, <1>8, <1>9, RunStepKeepsTree DEF RunStep

LEMMA ElapsingIsFollowed ==
  ASSUME IInv, FollowedInv, FollowsEveryJump, RunElapses
  PROVE  \E m \in DOMAIN nodes' : TimedBy(m)'
<1>1. run # NoRun
  BY DEF RunElapses, Elapse
<1>2. PICK m \in DOMAIN nodes : TimedBy(m)
  BY <1>1 DEF FollowedInv
<1>3. /\ run'.location = run.location /\ run'.jumps = run.jumps /\ run'.path = run.path
      /\ run'.earliest = run.earliest /\ run'.latest = run.latest
      /\ run'.steps + 1 \in DOMAIN flowpipe[m]
      /\ run'.valuation \in flowpipe[m][run'.steps + 1]
  BY <1>2, ElapsingIsTracked DEF IInv, TimedBy
<1> QED
  BY <1>2, <1>3, RunStepKeepsTree DEF RunStep, TimedBy, TrackedBy

LEMMA JumpingIsFollowed ==
  ASSUME IInv, TreeInv, NothingSkipped, FollowedInv, FollowsEveryJump, RunJumps
  PROVE  \E m \in DOMAIN nodes' : TimedBy(m)'
<1>1. /\ AnalysisInv /\ TypeOK /\ result = "success" /\ run # NoRun
      /\ run.jumps < par.jumpDepth /\ run \in RunType
  BY DEF IInv, AnalysisInv, RunInv, RunJumps, Jump
<1>2. PICK n \in DOMAIN nodes : TimedBy(n)
  BY <1>1 DEF FollowedInv
<1>3. PICK t \in TransitionsFrom(ha, run.location), q \in Point :
        /\ run.valuation \in ha.transition[t].guard
        /\ Enters(ha, ha.transition[t].target, ha.transition[t].reset[run.valuation], q)
        /\ run' = [location |-> ha.transition[t].target, valuation |-> q, steps |-> 0,
                   jumps |-> run.jumps + 1, path |-> Append(run.path, t),
                   earliest |-> run.earliest + run.steps * par.timeStepFactor,
                   latest |-> run.latest + (run.steps + 1) * par.timeStepFactor]
  BY DEF RunJumps, Jump
<1> DEFINE p == ha.transition[t].reset[run.valuation]
           f == par.timeStepFactor
<1>4. /\ run.steps \in Nat /\ run.jumps \in Nat /\ run.earliest \in Int /\ run.latest \in Int
      /\ f \in Nat /\ par.jumpDepth \in Nat
  BY <1>1, SettingTypes DEF RunType
<1>5. /\ run'.location = ha.transition[t].target /\ run'.valuation = q /\ run'.steps = 0
      /\ run'.jumps = run.jumps + 1 /\ run'.path = Append(run.path, t)
      /\ run'.earliest = run.earliest + run.steps * f
      /\ run'.latest = run.latest + (run.steps + 1) * f
  BY <1>3
<1>6. /\ Done(n) /\ nodes[n].depth <= run.jumps /\ nodes[n].depth \in Nat
      /\ TransitionPath(n) = run.path
      /\ nodes[n].lower <= run.earliest /\ run.latest <= nodes[n].upper
      /\ nodes[n].lower \in Int /\ nodes[n].upper \in Int
      /\ run.steps + 1 \in DOMAIN flowpipe[n]
  BY <1>1, <1>2, Typed DEF TimedBy, TrackedBy
<1>7. PICK j \in Successors(n) :
        /\ j.transition = t
        /\ run.steps + 1 \in Block(ha, t, par, flowpipe[n], j.block)
        /\ p \in SuccessorSet(ha, t, par, flowpipe[n], j.block)
  <2>1. p \in ha.invariant[ha.transition[t].target]
    BY <1>3 DEF Enters
  <2> QED
    BY <1>1, <1>2, <1>3, <2>1, JumpingIsTracked DEF TimedBy
<1>8. nodes[n].depth # par.jumpDepth
  BY <1>1, <1>4, <1>6
<1>9. PICK c \in DOMAIN nodes : nodes[c] = ChildOf(n, j)
  BY <1>6, <1>7, <1>8 DEF Done, IsExpanded, HasChildFor
<1>10. /\ nodes[c].location = ha.transition[t].target
       /\ nodes[c].depth = nodes[n].depth + 1
       /\ p \in nodes[c].initialSet
  <2>1. t \in DOMAIN ha.transition
    BY DEF TransitionsFrom
  <2> QED
    BY <1>1, <1>7, <1>9, <2>1, ChildOfFacts
<1>11. Done(c)
  BY <1>1, AllDone
<1>12. 1 \in DOMAIN flowpipe[c] /\ q \in flowpipe[c][1]
  BY <1>1, <1>3, <1>10, <1>11, EnteringIsTracked
<1>13. TransitionPath(c) = Append(run.path, t)
  BY <1>1, <1>6, <1>7, <1>9, ChildPath
<1>14. /\ nodes[c].lower <= nodes[n].lower + run.steps * f
       /\ nodes[n].upper + (run.steps + 1) * f <= nodes[c].upper
  BY <1>1, <1>4, <1>6, <1>7, <1>9, ChildTimings
<1>15. nodes[c].lower <= run'.earliest /\ run'.latest <= nodes[c].upper
  <2>1. /\ run.steps * f \in Int /\ (run.steps + 1) * f \in Int
        /\ nodes[c].lower \in Int /\ nodes[c].upper \in Int
    BY <1>1, <1>4, Typed
  <2> DEFINE u == run.steps * f
             v == (run.steps + 1) * f
  <2>2. /\ run'.earliest = run.earliest + u /\ run'.latest = run.latest + v
        /\ nodes[c].lower <= nodes[n].lower + u /\ nodes[n].upper + v <= nodes[c].upper
        /\ u \in Int /\ v \in Int
    BY <1>5, <1>14, <2>1
  <2> HIDE DEF u, v
  <2> QED
    BY <1>4, <1>6, <2>1, <2>2
<1>16. nodes[c].depth <= run'.jumps /\ run'.steps + 1 = 1
  BY <1>4, <1>5, <1>6, <1>10
<1> QED
  BY <1>5, <1>10, <1>11, <1>12, <1>13, <1>15, <1>16, RunStepKeepsTree DEF RunStep

LEMMA FollowedStep ==
  ASSUME IInv, TreeInv, NothingSkipped, FollowedInv, [VerificationNext]_verificationVars
  PROVE  FollowedInv'
<1> SUFFICES ASSUME FollowsEveryJump', run' # NoRun
             PROVE  \E m \in DOMAIN nodes' : TimedBy(m)'
  BY DEF FollowedInv
<1>1. AnalysisInv
  BY DEF IInv
<1>2. FollowsEveryJump
  BY <1>1, VerificationSteps, TreeSteps DEF TreeGrows, FollowsEveryJump
<1>3. CASE RunStarts
  BY <1>1, <1>2, <1>3, StartIsFollowed
<1>4. CASE RunElapses
  BY <1>2, <1>4, ElapsingIsFollowed
<1>5. CASE RunJumps
  BY <1>2, <1>5, JumpingIsFollowed
<1>6. CASE UNCHANGED verificationVars
  <2>1. PICK m \in DOMAIN nodes : TimedBy(m)
    BY <1>2, <1>6 DEF FollowedInv, verificationVars
  <2>2. UNCHANGED vars /\ UNCHANGED run
    BY <1>6 DEF verificationVars
  <2>3. UNCHANGED <<ha, par, nodes, flowpipe>>
    BY <2>2 DEF vars
  <2>4. TreeGrows
    BY <2>3 DEF TreeGrows
  <2>5. Done(m)'
    BY <2>1, <2>3, <2>4, DoneStays DEF TimedBy, TrackedBy
  <2>6. TransitionPath(m)' = TransitionPath(m)
    BY <2>3, PathStays
  <2>7. TimedBy(m)'
    BY <2>1, <2>2, <2>3, <2>5, <2>6 DEF TimedBy, TrackedBy
  <2> QED
    BY <2>3, <2>7
<1>7. CASE Analyze
  <2>1. run # NoRun /\ Next
    BY <1>7 DEF Analyze
  <2>2. pc = "done"
    BY <2>1 DEF IInv, AnalysisInv, ControlInv, RunInv
  <2> QED
    BY <2>1, <2>2 DEF Next, Dequeue, ComputeFirstSegment, ComputeNextSegment, SkipCoveredNode,
                      ReportConflict, PassCheck, ComputeJumpSuccessors, AddChild, FinishNode, Succeed
<1> QED
  BY <1>3, <1>4, <1>5, <1>6, <1>7 DEF VerificationNext

(* Without fixed-point detection, node after node until it is done,       *)
(* nothing is left out of the tree (ReachabilityWorker's loop).           *)
THEOREM SkipsNothing == VerificationSpec => []NothingSkipped
<1>1. IInv /\ NothingSkipped /\ [VerificationNext]_verificationVars => NothingSkipped'
  BY NothingSkippedStep, VerificationSteps DEF IInv
<1> QED
  BY <1>1, NothingSkippedInit, Invariance, PTL DEF VerificationSpec

LEMMA FollowedInit == VerificationInit => FollowedInv
BY DEF VerificationInit, FollowedInv

(* The timings that the refinement of a path looks its nodes up by: every *)
(* run has a node with its path, and jumped within the timings of the     *)
(* node, unless jumps are left out by the tests for fixed points.         *)
THEOREM RunsAreFollowed == VerificationSpec => [](~par.detectZenoBehavior => TimingsFollowRuns)
<1>1. IInv /\ TreeInv /\ NothingSkipped /\ FollowedInv /\ [VerificationNext]_verificationVars
        => FollowedInv'
  BY FollowedStep
<1>2. FollowedInv => (~par.detectZenoBehavior => TimingsFollowRuns)
  <2> SUFFICES ASSUME FollowedInv, FollowsEveryJump, run # NoRun
               PROVE  TimingsFollowRuns
    BY DEF TimingsFollowRuns, FollowsEveryJump
  <2>1. PICK n \in DOMAIN nodes : TimedBy(n)
    BY DEF FollowedInv
  <2> QED
    BY <2>1 DEF TimingsFollowRuns, TimedBy, TrackedBy
<1> QED
  BY <1>1, <1>2, FollowedInit, Invariance, TreeInvariance, SkipsNothing, PTL DEF VerificationSpec
=============================================================================
