---------------------------- MODULE CEGARProofs ----------------------------
(***************************************************************************)
(* Proofs about the refinement along a strategy, for every automaton,      *)
(* every strategy and every representation: types, that a refinement only  *)
(* starts at an idle level, that with two levels a verdict of safety is    *)
(* right, and that an unknown verdict is a bad state that a run can reach  *)
(* if the last level is exact.                                             *)
(***************************************************************************)
EXTENDS CEGARInvariant, FiniteSetTheorems, Induction

--------------------------------------------------------------------------
(* State-set operations of a representation.                              *)
IsRepresentation(o) ==
  /\ o \in [SUBSET Point -> SUBSET Point]
  /\ o[{}] = {}
  /\ \A S \in SUBSET Point : S \subseteq o[S]

LEMMA IntersectIncludes ==
  ASSUME NEW o, IsRepresentation(o), NEW S \in SUBSET Point, NEW c
  PROVE  /\ R(o)!Intersect(S, c) \in SUBSET Point
         /\ S \cap c \subseteq R(o)!Intersect(S, c)
         /\ R(o)!Intersect(S, c) # {} <=> S \cap c # {}
<1>1. S \cap c \in SUBSET Point
  OBVIOUS
<1> QED
  BY <1>1 DEF R!Intersect, IsRepresentation

LEMMA TransformIncludes ==
  ASSUME NEW o, IsRepresentation(o), NEW S \in SUBSET Point, NEW f \in [Point -> Point]
  PROVE  /\ R(o)!Transform(S, f) \in SUBSET Point
         /\ \A p \in S : f[p] \in R(o)!Transform(S, f)
<1>1. {f[p] : p \in S} \in SUBSET Point
  OBVIOUS
<1> QED
  BY <1>1 DEF R!Transform, IsRepresentation

LEMMA UniteIncludes ==
  ASSUME NEW o, IsRepresentation(o), NEW SS \in SUBSET SUBSET Point
  PROVE  /\ R(o)!Unite(SS) \in SUBSET Point
         /\ \A S \in SS : S \subseteq R(o)!Unite(SS)
<1>1. UNION SS \in SUBSET Point
  OBVIOUS
<1> QED
  BY <1>1 DEF R!Unite, IsRepresentation

LEMMA FirstSegmentIncludes ==
  ASSUME NEW o, IsRepresentation(o), NEW A, NEW l, A.during[l] \in [Point -> SUBSET Point],
         NEW S \in SUBSET Point
  PROVE  /\ R(o)!FirstSegment(A, l, S) \in SUBSET Point
         /\ \A p \in S : A.during[l][p] \cap A.invariant[l] \subseteq R(o)!FirstSegment(A, l, S)
<1> DEFINE SS == {A.during[l][p] : p \in S}
<1>1. SS \in SUBSET SUBSET Point
  OBVIOUS
<1>2. \A p \in S : A.during[l][p] \in SS
  OBVIOUS
<1>3. R(o)!FirstSegment(A, l, S) = R(o)!Intersect(R(o)!Unite(SS), A.invariant[l])
  BY DEF R!FirstSegment
<1> HIDE DEF SS
<1>4. /\ R(o)!Unite(SS) \in SUBSET Point
      /\ \A p \in S : A.during[l][p] \subseteq R(o)!Unite(SS)
  BY <1>1, <1>2, UniteIncludes
<1>5. /\ R(o)!Intersect(R(o)!Unite(SS), A.invariant[l]) \in SUBSET Point
      /\ R(o)!Unite(SS) \cap A.invariant[l] \subseteq
           R(o)!Intersect(R(o)!Unite(SS), A.invariant[l])
  BY <1>4, IntersectIncludes
<1> QED
  BY <1>3, <1>4, <1>5

LEMMA NextSegmentIncludes ==
  ASSUME NEW o, IsRepresentation(o), NEW A, NEW l, A.flow[l] \in [Point -> Point],
         NEW S \in SUBSET Point
  PROVE  /\ R(o)!NextSegment(A, l, S) \in SUBSET Point
         /\ \A p \in S : A.flow[l][p] \in A.invariant[l] =>
              A.flow[l][p] \in R(o)!NextSegment(A, l, S)
<1>1. /\ R(o)!Transform(S, A.flow[l]) \in SUBSET Point
      /\ \A p \in S : A.flow[l][p] \in R(o)!Transform(S, A.flow[l])
  BY TransformIncludes
<1>2. /\ R(o)!Intersect(R(o)!Transform(S, A.flow[l]), A.invariant[l]) \in SUBSET Point
      /\ R(o)!Transform(S, A.flow[l]) \cap A.invariant[l] \subseteq
           R(o)!Intersect(R(o)!Transform(S, A.flow[l]), A.invariant[l])
  BY <1>1, IntersectIncludes
<1> QED
  BY <1>1, <1>2 DEF R!NextSegment
--------------------------------------------------------------------------
(* Automata, strategies and the automaton of a level.                     *)

LEMMA AutomatonTypes ==
  ASSUME NEW A \in Automata
  PROVE  /\ A \in AutomatonType
         /\ IsAutomaton(A)
         /\ A.transition \in Seq(TransitionType)
         /\ \A l \in Location : /\ A.flow[l] \in [Point -> Point]
                                /\ A.during[l] \in [Point -> SUBSET Point]
                                /\ A.invariant[l] \in SUBSET Point
         /\ \A t \in DOMAIN A.transition : A.transition[t] \in TransitionType /\ t \in Nat
         /\ \A i \in DOMAIN A.initial :
              /\ A.initial[i] \in [loc : Location, set : SUBSET Point]
              /\ A.initial[i].loc \in Location
              /\ A.initial[i].set \in SUBSET Point
              /\ A.initial[i].set \subseteq A.invariant[A.initial[i].loc]
<1>1. IsAutomaton(A)
  BY AutomataAssumption
<1>2. A \in AutomatonType
  BY <1>1 DEF IsAutomaton
<1>3. /\ A.flow \in [Location -> [Point -> Point]]
      /\ A.during \in [Location -> [Point -> SUBSET Point]]
      /\ A.invariant \in [Location -> SUBSET Point]
      /\ A.transition \in Seq(TransitionType)
      /\ A.initial \in Seq([loc : Location, set : SUBSET Point])
  BY <1>2 DEF AutomatonType
<1>4. \A l \in Location : /\ A.flow[l] \in [Point -> Point]
                          /\ A.during[l] \in [Point -> SUBSET Point]
                          /\ A.invariant[l] \in SUBSET Point
  <2> DEFINE fl == A.flow
             du == A.during
             iv == A.invariant
  <2>1. /\ fl \in [Location -> [Point -> Point]]
        /\ du \in [Location -> [Point -> SUBSET Point]]
        /\ iv \in [Location -> SUBSET Point]
    BY <1>3
  <2> HIDE DEF fl, du, iv
  <2>2. \A l \in Location : /\ fl[l] \in [Point -> Point]
                            /\ du[l] \in [Point -> SUBSET Point]
                            /\ iv[l] \in SUBSET Point
    BY <2>1
  <2> QED
    BY <2>2 DEF fl, du, iv
<1>5. \A t \in DOMAIN A.transition : A.transition[t] \in TransitionType /\ t \in Nat
  <2> DEFINE ts == A.transition
  <2>1. ts \in Seq(TransitionType)
    BY <1>3
  <2> HIDE DEF ts
  <2>2. \A t \in DOMAIN ts : ts[t] \in TransitionType /\ t \in Nat
    BY <2>1
  <2> QED
    BY <2>2 DEF ts
<1>6. \A i \in DOMAIN A.initial : A.initial[i] \in [loc : Location, set : SUBSET Point]
  <2> DEFINE is == A.initial
             IT == [loc : Location, set : SUBSET Point]
  <2>1. is \in Seq(IT)
    BY <1>3
  <2> HIDE DEF is, IT
  <2>2. \A i \in DOMAIN is : is[i] \in IT
    BY <2>1
  <2> QED
    BY <2>2 DEF is, IT
<1>7. \A i \in DOMAIN A.initial : A.initial[i].set \subseteq A.invariant[A.initial[i].loc]
  BY <1>1 DEF IsAutomaton
<1> QED
  BY <1>1, <1>2, <1>3, <1>4, <1>5, <1>6, <1>7

LEMMA TransitionTypes ==
  ASSUME NEW A \in Automata, NEW t \in DOMAIN A.transition
  PROVE  /\ A.transition[t].source \in Location /\ A.transition[t].target \in Location
         /\ A.transition[t].reset \in [Point -> Point]
         /\ A.transition[t].guard \in SUBSET Point
         /\ t \in Nat \ {0}
<1>1. A.transition[t] \in TransitionType
  BY AutomatonTypes
<1>2. t \in Nat \ {0}
  BY AutomatonTypes
<1> QED
  BY <1>1, <1>2 DEF TransitionType

LEMMA StrategyTypes ==
  ASSUME NEW s \in Strategies
  PROVE  /\ s \in Seq(LevelType) /\ Len(s) \in Nat /\ Len(s) > 1 /\ DOMAIN s = 1..Len(s)
         /\ \A i \in 1..Len(s) :
              /\ IsRepresentation(s[i].over)
              /\ s[i].timeStepFactor \in Nat \ {0}
              /\ s[i].aggregation \in {"MODEL", "AGG", "NO_AGG"}
              /\ s[i].clustering \in Int
<1>1. s \in Seq(LevelType) /\ Len(s) > 1
  BY StrategiesAssumption
<1>2. Len(s) \in Nat /\ DOMAIN s = 1..Len(s)
  BY <1>1
<1>3. ASSUME NEW i \in 1..Len(s)
      PROVE  /\ IsRepresentation(s[i].over)
             /\ s[i].timeStepFactor \in Nat \ {0}
             /\ s[i].aggregation \in {"MODEL", "AGG", "NO_AGG"}
             /\ s[i].clustering \in Int
  <2>1. s[i] \in LevelType
    <3> DEFINE T == LevelType
    <3> HIDE DEF T
    <3>1. s \in Seq(T)
      BY <1>1 DEF T
    <3>2. s[i] \in T
      BY <1>2, <3>1
    <3> QED
      BY <3>2 DEF T
  <2>2. s[i].over[{}] = {} /\ \A S \in SUBSET Point : S \subseteq s[i].over[S]
    BY <1>2, StrategiesAssumption
  <2> QED
    BY <2>1, <2>2 DEF LevelType, IsRepresentation
<1> QED
  BY <1>1, <1>2, <1>3

(* A function iterated.                                                   *)
IsIteration(f, k, it) ==
  /\ Iterate(f, k) = it[k]
  /\ it[0] = [p \in Point |-> p]
  /\ \A j \in 1..k : it[j] = [p \in Point |-> f[it[j - 1][p]]]

LEMMA IterateIsDefined ==
  ASSUME NEW f, NEW n \in Nat
  PROVE  \E it : IsIteration(f, n, it)
<1> DEFINE Value(g, k) == [p \in Point |-> IF k = 0 THEN p ELSE f[g[k - 1][p]]]
           IsAt(g, m) == g = [k \in 0..m |-> Value(g, k)]
           S == {m \in Nat : \E g : IsAt(g, m)}
<1>a. \A g : Value(g, 0) = [p \in Point |-> p]
  OBVIOUS
<1>b. \A g, k : k # 0 => Value(g, k) = [p \in Point |-> f[g[k - 1][p]]]
  OBVIOUS
<1>0. \A g, h, k : k = 0 \/ g[k - 1] = h[k - 1] => Value(g, k) = Value(h, k)
  <2> HIDE DEF Value
  <2> QED
    BY <1>a, <1>b
<1>c. Iterate(f, n) = (CHOOSE g : IsAt(g, n))[n]
  BY DEF Iterate
<1> HIDE DEF Value
<1>1. 0 \in S
  <2> DEFINE g == [k \in 0..0 |-> Value(<< >>, k)]
  <2>1. \A k \in 0..0 : Value(<< >>, k) = Value(g, k)
    BY <1>0
  <2>2. g = [k \in 0..0 |-> Value(g, k)]
    BY <2>1
  <2> HIDE DEF g
  <2> QED
    BY <2>2
<1>2. ASSUME NEW m \in Nat, m \in S PROVE m + 1 \in S
  <2>1. PICK g : g = [k \in 0..m |-> Value(g, k)]
    BY <1>2
  <2> DEFINE h == [k \in 0..m + 1 |-> Value(g, k)]
  <2>2. \A k \in 0..m : h[k] = g[k]
    BY <2>1
  <2>3. ASSUME NEW k \in 0..m + 1 PROVE Value(g, k) = Value(h, k)
    <3>1. k = 0 \/ k - 1 \in 0..m
      OBVIOUS
    <3> HIDE DEF h
    <3> QED
      BY <1>0, <2>2, <3>1
  <2>4. h = [k \in 0..m + 1 |-> Value(h, k)]
    BY <2>3
  <2> HIDE DEF h
  <2> QED
    BY <2>4
<1> HIDE DEF S
<1>3. n \in S
  BY <1>1, <1>2, InductionFromZero
<1>4. \E g : IsAt(g, n)
  BY <1>3 DEF S
<1> DEFINE it == CHOOSE g : IsAt(g, n)
<1>5. IsAt(it, n)
  <2> HIDE DEF IsAt
  <2> QED
    BY <1>4
<1>6. Iterate(f, n) = it[n]
  BY <1>c
<1> HIDE DEF it
<1>7. \A k \in 0..n : it[k] = Value(it, k)
  BY <1>5
<1>8. it[0] = [p \in Point |-> p]
  BY <1>7, <1>a
<1>9. \A j \in 1..n : it[j] = [p \in Point |-> f[it[j - 1][p]]]
  <2> TAKE j \in 1..n
  <2>1. j \in 0..n /\ j # 0
    OBVIOUS
  <2> QED
    BY <1>7, <1>b, <2>1
<1> QED
  BY <1>6, <1>8, <1>9 DEF IsIteration

LEMMA IterationIsUnique ==
  ASSUME NEW f, NEW m \in Nat, NEW n \in Nat, NEW it, NEW jt,
         IsIteration(f, m, it), IsIteration(f, n, jt), NEW k \in Nat, k <= m, k <= n
  PROVE  it[k] = jt[k]
<1> DEFINE S == {j \in 0..k : it[j] = jt[j]}
<1>1. 0 \in S
  BY DEF IsIteration
<1>2. ASSUME NEW j \in 0..k - 1, j \in S
      PROVE  j + 1 \in S
  <2>1. j + 1 \in 1..m /\ j + 1 \in 1..n /\ j + 1 \in 0..k /\ (j + 1) - 1 = j
    OBVIOUS
  <2>2. /\ it[j + 1] = [p \in Point |-> f[it[(j + 1) - 1][p]]]
        /\ jt[j + 1] = [p \in Point |-> f[jt[(j + 1) - 1][p]]]
    BY <2>1 DEF IsIteration
  <2>3. it[j] = jt[j]
    BY <1>2
  <2> QED
    BY <2>1, <2>2, <2>3
<1> HIDE DEF S
<1>3. 0..k \subseteq S
  BY <1>1, <1>2, InductionInInterval
<1> QED
  BY <1>3 DEF S

LEMMA IterateSteps ==
  ASSUME NEW f \in [Point -> Point], NEW n \in Nat
  PROVE  /\ Iterate(f, 0) = [p \in Point |-> p]
         /\ Iterate(f, n + 1) = [p \in Point |-> f[Iterate(f, n)[p]]]
<1>1. PICK it : IsIteration(f, 0, it)
  BY IterateIsDefined
<1>2. PICK jt : IsIteration(f, n, jt)
  BY IterateIsDefined
<1>3. PICK kt : IsIteration(f, n + 1, kt)
  BY IterateIsDefined
<1>4. Iterate(f, 0) = [p \in Point |-> p]
  BY <1>1 DEF IsIteration
<1>5. jt[n] = kt[n]
  BY <1>2, <1>3, IterationIsUnique
<1>6. n + 1 \in 1..n + 1 /\ (n + 1) - 1 = n
  OBVIOUS
<1>7. kt[n + 1] = [p \in Point |-> f[kt[(n + 1) - 1][p]]]
  BY <1>3, <1>6 DEF IsIteration
<1>8. Iterate(f, n + 1) = kt[n + 1] /\ Iterate(f, n) = jt[n]
  BY <1>2, <1>3 DEF IsIteration
<1> QED
  BY <1>4, <1>5, <1>6, <1>7, <1>8

LEMMA IterateType ==
  ASSUME NEW f \in [Point -> Point], NEW n \in Nat
  PROVE  Iterate(f, n) \in [Point -> Point]
<1> DEFINE S == {m \in Nat : Iterate(f, m) \in [Point -> Point]}
<1>1. 0 \in S
  BY IterateSteps
<1>2. ASSUME NEW m \in Nat, m \in S PROVE m + 1 \in S
  <2>1. Iterate(f, m) \in [Point -> Point]
    BY <1>2
  <2>2. Iterate(f, m + 1) = [p \in Point |-> f[Iterate(f, m)[p]]]
    BY IterateSteps
  <2>3. Iterate(f, m + 1) \in [Point -> Point]
    BY <2>1, <2>2
  <2> QED
    BY <2>3
<1> HIDE DEF S
<1>3. n \in S
  BY <1>1, <1>2, InductionFromZero
<1> QED
  BY <1>3 DEF S

LEMMA IterateAdds ==
  ASSUME NEW f \in [Point -> Point], NEW m \in Nat, NEW n \in Nat, NEW p \in Point
  PROVE  Iterate(f, m + n)[p] = Iterate(f, m)[Iterate(f, n)[p]]
<1> DEFINE S == {k \in Nat : Iterate(f, k + n)[p] = Iterate(f, k)[Iterate(f, n)[p]]}
<1>0. Iterate(f, n)[p] \in Point
  BY IterateType
<1>1. 0 \in S
  <2>1. 0 + n = n
    OBVIOUS
  <2>2. Iterate(f, 0) = [q \in Point |-> q]
    BY IterateSteps
  <2>3. Iterate(f, 0)[Iterate(f, n)[p]] = Iterate(f, n)[p]
    BY <1>0, <2>2
  <2> QED
    BY <2>1, <2>3
<1>2. ASSUME NEW k \in Nat, k \in S PROVE k + 1 \in S
  <2>1. (k + 1) + n = (k + n) + 1 /\ k + n \in Nat
    OBVIOUS
  <2>2. Iterate(f, (k + n) + 1) = [q \in Point |-> f[Iterate(f, k + n)[q]]]
    BY <2>1, IterateSteps
  <2>3. Iterate(f, k + 1) = [q \in Point |-> f[Iterate(f, k)[q]]]
    BY IterateSteps
  <2>4. Iterate(f, k + n)[p] = Iterate(f, k)[Iterate(f, n)[p]]
    BY <1>2
  <2>5. Iterate(f, (k + n) + 1)[p] = Iterate(f, k + 1)[Iterate(f, n)[p]]
    BY <1>0, <2>2, <2>3, <2>4
  <2> QED
    BY <2>1, <2>5
<1> HIDE DEF S
<1>3. m \in S
  BY <1>1, <1>2, InductionFromZero
<1> QED
  BY <1>3 DEF S
LEMMA LevelTypes ==
  ASSUME TypeInv
  PROVE  /\ Top \in Nat /\ Top > 1 /\ Levels = 1..Top /\ level \in 1..Top
         /\ horizon \in Nat /\ jumpDepth \in Nat
         /\ \A i \in Levels :
              /\ IsRepresentation(strategy[i].over)
              /\ strategy[i].timeStepFactor \in Nat \ {0}
              /\ strategy[i].aggregation \in {"MODEL", "AGG", "NO_AGG"}
              /\ strategy[i].clustering \in Int
BY StrategyTypes, BoundsAssumption DEF TypeInv, TypeOK, Top, Levels

LEMMA AtLevelTypes ==
  ASSUME TypeInv, NEW i \in Levels, NEW l \in Location
  PROVE  /\ AtLevel(i).invariant[l] = ha.invariant[l]
         /\ AtLevel(i).flow[l] = Iterate(ha.flow[l], strategy[i].timeStepFactor)
         /\ AtLevel(i).flow[l] \in [Point -> Point]
         /\ AtLevel(i).during[l] \in [Point -> SUBSET Point]
         /\ \A p \in Point : AtLevel(i).during[l][p] =
              {Iterate(ha.flow[l], k)[q] : k \in 0..strategy[i].timeStepFactor - 1,
                                           q \in ha.during[l][p]}
<1> DEFINE factor == strategy[i].timeStepFactor
           flow == [m \in Location |-> Iterate(ha.flow[m], factor)]
           during == [m \in Location |-> [p \in Point |->
                        {Iterate(ha.flow[m], k)[q] : k \in 0..factor - 1, q \in ha.during[m][p]}]]
<1>1. ha \in AutomatonType /\ factor \in Nat \ {0}
  BY LevelTypes, AutomatonTypes DEF TypeInv
<1>2. AtLevel(i) = [ha EXCEPT !.flow = flow, !.during = during]
  BY DEF AtLevel
<1>3. ha.flow[l] \in [Point -> Point] /\ ha.during[l] \in [Point -> SUBSET Point]
  BY AutomatonTypes DEF TypeInv
<1> HIDE DEF flow, during, factor
<1>4. /\ AtLevel(i).invariant = ha.invariant /\ AtLevel(i).flow = flow
      /\ AtLevel(i).during = during
  BY <1>1, <1>2 DEF AutomatonType
<1>5. flow[l] = Iterate(ha.flow[l], factor) /\ flow[l] \in [Point -> Point]
  BY <1>1, <1>3, IterateType DEF flow
<1>6. during[l] = [p \in Point |->
                    {Iterate(ha.flow[l], k)[q] : k \in 0..factor - 1, q \in ha.during[l][p]}]
  BY DEF during
<1>7. ASSUME NEW p \in Point, NEW k \in 0..factor - 1, NEW q \in ha.during[l][p]
      PROVE  Iterate(ha.flow[l], k)[q] \in Point
  <2>1. k \in Nat /\ q \in Point
    BY <1>1, <1>3
  <2> QED
    BY <1>3, <2>1, IterateType
<1>8. during[l] \in [Point -> SUBSET Point]
  BY <1>6, <1>7
<1> QED
  BY <1>4, <1>5, <1>6, <1>8 DEF factor

--------------------------------------------------------------------------
(* The flowpipe of a node: what it consists of, and where it ends.        *)
IsFlowpipeOf(i, l, S, fp) ==
  /\ fp \in Seq(SUBSET Point)
  /\ Len(fp) \in 1..horizon \div strategy[i].timeStepFactor + 1
  /\ fp[1] = R(strategy[i].over)!FirstSegment(AtLevel(i), l, S)
  /\ \A k \in 2..Len(fp) :
       fp[k] = R(strategy[i].over)!NextSegment(AtLevel(i), l, fp[k - 1])
  /\ \A k \in 1..Len(fp) - 1 : ~IsBad(i, l, fp[k])
  /\ \/ Len(fp) = horizon \div strategy[i].timeStepFactor + 1
     \/ IsBad(i, l, fp[Len(fp)])
     \/ R(strategy[i].over)!NextSegment(AtLevel(i), l, fp[Len(fp)]) = {}

LEMMA TimeSuccessorsAreFlowpipe ==
  ASSUME TypeInv, NEW i \in Levels, NEW l \in Location, NEW S \in SUBSET Point
  PROVE  IsFlowpipeOf(i, l, S, TimeSuccessors(i, l, S))
<1> DEFINE o == strategy[i].over
           A == AtLevel(i)
           N == R(o)!NumSegments(horizon, strategy[i].timeStepFactor)
           First == R(o)!FirstSegment(A, l, S)
           NextOf(s) == R(o)!NextSegment(A, l, s)
           Value(f, k) == IF k = 1 THEN First ELSE NextOf(f[k - 1])
           IsAt(f, m) == f = [k \in 1..m |-> Value(f, k)]
           at == CHOOSE f : IsAt(f, N)
           ends(k) == k = N \/ IsBad(i, l, at[k]) \/ at[k + 1] = {}
           E == {k \in 1..N : ends(k)}
           length == CHOOSE k \in 1..N : ends(k) /\ \A j \in 1..k - 1 : ~ends(j)
           fp == [k \in 1..length |-> at[k]]
           T == {m \in Nat : \E f : IsAt(f, m)}
<1>0. IsRepresentation(o) /\ A.flow[l] \in [Point -> Point] /\ A.during[l] \in [Point -> SUBSET Point]
  BY LevelTypes, AtLevelTypes
<1>1. N = horizon \div strategy[i].timeStepFactor + 1 /\ N \in Nat \ {0}
  <2>1. N = horizon \div strategy[i].timeStepFactor + 1
    BY DEF R!NumSegments
  <2>2. horizon \in Nat /\ strategy[i].timeStepFactor \in Nat \ {0}
    BY LevelTypes
  <2> HIDE DEF N
  <2>3. horizon \div strategy[i].timeStepFactor \in Nat
    BY <2>2
  <2> QED
    BY <2>1, <2>3
<1>2. TimeSuccessors(i, l, S) = fp
  BY DEF TimeSuccessors
<1>3. First \in SUBSET Point
  BY <1>0, FirstSegmentIncludes
<1>4. \A s \in SUBSET Point : NextOf(s) \in SUBSET Point
  BY <1>0, NextSegmentIncludes
<1>v. \A f : Value(f, 1) = First /\ \A k : k # 1 => Value(f, k) = NextOf(f[k - 1])
  OBVIOUS
<1> HIDE DEF First, NextOf, N
<1>5. \A f, g, k : k = 1 \/ f[k - 1] = g[k - 1] => Value(f, k) = Value(g, k)
  OBVIOUS
<1> HIDE DEF Value
<1>6. 0 \in T
  <2> DEFINE f == [k \in 1..0 |-> Value(<< >>, k)]
  <2>1. f = [k \in 1..0 |-> Value(f, k)]
    OBVIOUS
  <2> HIDE DEF f
  <2> QED
    BY <2>1
<1>7. ASSUME NEW m \in Nat, m \in T PROVE m + 1 \in T
  <2>1. PICK f : f = [k \in 1..m |-> Value(f, k)]
    BY <1>7
  <2> DEFINE g == [k \in 1..m + 1 |-> Value(f, k)]
  <2>2. \A k \in 1..m : g[k] = f[k]
    BY <2>1
  <2>3. ASSUME NEW k \in 1..m + 1 PROVE Value(f, k) = Value(g, k)
    <3>1. k = 1 \/ k - 1 \in 1..m
      OBVIOUS
    <3> HIDE DEF g
    <3> QED
      BY <1>5, <2>2, <3>1
  <2>4. g = [k \in 1..m + 1 |-> Value(g, k)]
    BY <2>3
  <2> HIDE DEF g
  <2> QED
    BY <2>4
<1> HIDE DEF T
<1>8. N \in T
  BY <1>1, <1>6, <1>7, InductionFromZero
<1>9. \E f : IsAt(f, N)
  BY <1>8 DEF T
<1>10. at = [k \in 1..N |-> Value(at, k)]
  <2>1. IsAt(at, N)
    <3> HIDE DEF IsAt
    <3> QED
      BY <1>9
  <2> QED
    BY <2>1
<1> HIDE DEF at
<1>11. at[1] = First /\ \A k \in 2..N : at[k] = NextOf(at[k - 1])
  <2>1. \A k \in 1..N : at[k] = Value(at, k)
    BY <1>10
  <2>2. 1 \in 1..N /\ \A k \in 2..N : k \in 1..N /\ k # 1
    BY <1>1
  <2> QED
    BY <2>1, <2>2, <1>v
<1>12. \A k \in 1..N : at[k] \in SUBSET Point
  <2> DEFINE Q == {k \in 1..N : at[k] \in SUBSET Point}
  <2>1. 1 \in Q
    BY <1>1, <1>3, <1>11
  <2>2. ASSUME NEW k \in 1..N - 1, k \in Q PROVE k + 1 \in Q
    <3>1. k + 1 \in 2..N /\ (k + 1) - 1 = k
      BY <1>1
    <3>2. at[k + 1] = NextOf(at[k])
      BY <1>11, <3>1
    <3> QED
      BY <1>4, <2>2, <3>1, <3>2
  <2> HIDE DEF Q
  <2>3. 1..N \subseteq Q
    BY <1>1, <2>1, <2>2, InductionInInterval
  <2> QED
    BY <2>3 DEF Q
<1>13. \E k \in 1..N : ends(k) /\ \A j \in 1..k - 1 : ~ends(j)
  <2>1. N \in E
    BY <1>1
  <2>2. E \in SUBSET Nat /\ E \subseteq 1..N
    BY <1>1
  <2>e. \A k \in 1..N : k \in E <=> ends(k)
    OBVIOUS
  <2> HIDE DEF E, ends
  <2>3. PICK k \in E : \A j \in E : k <= j
    BY <2>1, <2>2, LeastNumber
  <2>4. \A j \in 1..k - 1 : j \notin E /\ j \in 1..N
    BY <1>1, <2>2, <2>3
  <2> QED
    BY <2>2, <2>3, <2>4, <2>e
<1>14. length \in 1..N /\ ends(length) /\ \A j \in 1..length - 1 : ~ends(j)
  <2> HIDE DEF ends
  <2> QED
    BY <1>13
<1> HIDE DEF length
<1>15. fp \in Seq(SUBSET Point) /\ Len(fp) = length /\ \A k \in 1..length : fp[k] = at[k]
  <2>1. length \in Nat /\ \A k \in 1..length : at[k] \in SUBSET Point
    BY <1>1, <1>12, <1>14
  <2> QED
    BY <2>1
<1> HIDE DEF fp
<1>16. fp[1] = First /\ \A k \in 2..Len(fp) : fp[k] = NextOf(fp[k - 1])
  <2>1. 1 \in 1..length /\ \A k \in 2..length : k \in 2..N /\ k \in 1..length /\ k - 1 \in 1..length
    BY <1>1, <1>14
  <2> QED
    BY <1>11, <1>15, <2>1
<1>17. \A k \in 1..Len(fp) - 1 : ~IsBad(i, l, fp[k])
  <2>1. \A k \in 1..length - 1 : k \in 1..length
    BY <1>1, <1>14
  <2> QED
    BY <1>14, <1>15, <2>1
<1>18. Len(fp) = N \/ IsBad(i, l, fp[Len(fp)]) \/ NextOf(fp[Len(fp)]) = {}
  <2>1. fp[Len(fp)] = at[length] /\ Len(fp) = length
    BY <1>1, <1>14, <1>15
  <2>2. CASE at[length + 1] = {} /\ length # N
    <3>1. length + 1 \in 2..N /\ (length + 1) - 1 = length
      BY <1>1, <1>14, <2>2
    <3>2. at[length + 1] = NextOf(at[length])
      BY <1>11, <3>1
    <3> QED
      BY <2>1, <2>2, <3>2
  <2> QED
    BY <1>14, <2>1, <2>2
<1> QED
  BY <1>1, <1>2, <1>14, <1>15, <1>16, <1>17, <1>18 DEF IsFlowpipeOf, First, NextOf
--------------------------------------------------------------------------
(* Visits.                                                                *)

LEMMA VisitTypes ==
  ASSUME TypeInv, NEW v \in VisitType, IsVisit(v)
  PROVE  /\ v.location \in Location /\ v.entry \in Point /\ v.first \in Point
         /\ v.steps \in Nat /\ v.steps <= horizon
         /\ v.entry \in ha.invariant[v.location]
         /\ v.first \in ha.during[v.location][v.entry]
         /\ \A s \in Nat : Position(v, s) \in Point
<1>1. /\ v.location \in Location /\ v.entry \in Point /\ v.first \in Point /\ v.steps \in Nat
  BY DEF VisitType
<1>2. ha.flow[v.location] \in [Point -> Point]
  BY <1>1, AutomatonTypes DEF TypeInv
<1>3. \A s \in Nat : Position(v, s) \in Point
  BY <1>1, <1>2, IterateType DEF Position
<1> QED
  BY <1>1, <1>3 DEF IsVisit, Enters

LEMMA Division ==
  ASSUME NEW s \in Nat, NEW f \in Nat \ {0}
  PROVE  /\ s \div f \in Nat /\ s % f \in 0..f - 1
         /\ s = f * (s \div f) + (s % f)
         /\ f * (s \div f) <= s /\ s + 1 <= f * ((s \div f) + 1)
<1>1. /\ s \div f \in Nat /\ s % f \in 0..f - 1 /\ s = f * (s \div f) + (s % f)
  OBVIOUS
<1> DEFINE q == s \div f
           m == s % f
<1>2. q \in Nat /\ m \in 0..f - 1 /\ s = f * q + m
  BY <1>1
<1> HIDE DEF q, m
<1>3. f * (q + 1) = f * q + f /\ f * q \in Nat
  BY <1>2
<1>4. f * q <= s /\ s + 1 <= f * (q + 1)
  BY <1>2, <1>3
<1> QED
  BY <1>1, <1>4 DEF q

LEMMA DivisionBound ==
  ASSUME NEW h \in Nat, NEW f \in Nat \ {0}, NEW k \in Nat, f * k <= h
  PROVE  k <= h \div f
<1> DEFINE q == h \div f
<1>1. q \in Nat /\ h + 1 <= f * (q + 1)
  BY Division
<1> HIDE DEF q
<1> SUFFICES ASSUME q < k PROVE FALSE
  BY <1>1 DEF q
<1>2. PICK e \in Nat : k = q + 1 + e
  <2>1. k - q - 1 \in Nat /\ k = q + 1 + (k - q - 1)
    BY <1>1
  <2> QED
    BY <2>1
<1>3. f * k = f * (q + 1) + f * e
  BY <1>1, <1>2
<1>4. f * e \in Nat /\ f * (q + 1) \in Nat /\ f * k \in Nat
  BY <1>1, <1>2
<1> QED
  BY <1>1, <1>3, <1>4

(* A segment that is not bad has no bad states.                           *)
LEMMA GoodSegment ==
  ASSUME TypeInv, ha.localFalse = {}, NEW i \in Levels, NEW l \in Location, NEW S \in SUBSET Point,
         ~IsBad(i, l, S)
  PROVE  S \cap BadStates(ha, l) = {}
<1> DEFINE o == strategy[i].over
<1>1. IsRepresentation(o)
  BY LevelTypes
<1>2. R(o)!Intersect(S, ha.localBad[l]) = {} /\ R(o)!Intersect(S, ha.globalBad) = {}
  BY DEF IsBad, R!IntersectsBadStates
<1>3. S \cap ha.localBad[l] = {} /\ S \cap ha.globalBad = {}
  BY <1>1, <1>2, IntersectIncludes
<1> QED
  BY <1>3 DEF BadStates

(* The flowpipe of a node includes all of a visit that the node includes. *)
LEMMA VisitIsCovered ==
  ASSUME TypeInv, NEW i \in Levels, NEW S \in SUBSET Point, NEW v \in VisitType, IsVisit(v),
         v.entry \in S, NEW fp, IsFlowpipeOf(i, v.location, S, fp),
         ~MeetsBadStates(i, v.location, fp)
  PROVE  \A s \in 0..v.steps :
           LET k == s \div strategy[i].timeStepFactor + 1
           IN  k \in 1..Len(fp) /\ Position(v, s) \in fp[k]
<1> DEFINE l == v.location
           f == strategy[i].timeStepFactor
           o == strategy[i].over
           N == horizon \div f + 1
           flow == ha.flow[l]
           A == AtLevel(i)
           InSegment(k, j) == k + 1 \in 1..Len(fp) /\ Position(v, f * k + j) \in fp[k + 1]
           Q == {k \in Nat : \A j \in 0..f - 1 : f * k + j <= v.steps => InSegment(k, j)}
<1>1. /\ l \in Location /\ v.entry \in Point /\ v.first \in Point /\ v.steps \in Nat
      /\ v.steps <= horizon /\ v.first \in ha.during[l][v.entry]
      /\ \A s \in Nat : Position(v, s) \in Point
  BY VisitTypes
<1>2. f \in Nat \ {0} /\ IsRepresentation(o) /\ horizon \in Nat
  BY LevelTypes
<1>3. /\ A.invariant[l] = ha.invariant[l]
      /\ A.flow[l] = Iterate(flow, f)
      /\ A.flow[l] \in [Point -> Point]
      /\ A.during[l] \in [Point -> SUBSET Point]
      /\ \A p \in Point : A.during[l][p] =
           {Iterate(flow, k)[q] : k \in 0..f - 1, q \in ha.during[l][p]}
  BY <1>1, AtLevelTypes
<1>4. flow \in [Point -> Point]
  BY <1>1, AutomatonTypes DEF TypeInv
<1>5. /\ fp \in Seq(SUBSET Point) /\ Len(fp) \in 1..N
      /\ fp[1] = R(o)!FirstSegment(A, l, S)
      /\ \A k \in 2..Len(fp) : fp[k] = R(o)!NextSegment(A, l, fp[k - 1])
      /\ Len(fp) = N \/ R(o)!NextSegment(A, l, fp[Len(fp)]) = {}
  BY DEF IsFlowpipeOf, MeetsBadStates
<1>6. \A s \in 0..v.steps : Position(v, s) \in ha.invariant[l] /\ Position(v, s) = Iterate(flow, s)[v.first]
  BY DEF IsVisit, Position
<1>7. Len(fp) \in Nat /\ N \in Nat /\ \A k \in 1..Len(fp) : fp[k] \in SUBSET Point
  <2>1. horizon \div f \in Nat
    BY <1>2, Division
  <2>2. N \in Nat
    <3> HIDE DEF f
    <3> QED
      BY <2>1
  <2> HIDE DEF N
  <2> QED
    BY <1>5, <2>2
<1> HIDE DEF A, N, o, l, f
<1>8. 0 \in Q
  <2> SUFFICES ASSUME NEW j \in 0..f - 1, f * 0 + j <= v.steps
               PROVE  InSegment(0, j)
    OBVIOUS
  <2>1. f * 0 + j = j /\ j \in 0..v.steps /\ j \in Nat
    BY <1>2, <1>1
  <2>2. Position(v, j) \in A.during[l][v.entry] \cap A.invariant[l]
    BY <1>1, <1>3, <1>6, <2>1
  <2>3. Position(v, j) \in R(o)!FirstSegment(A, l, S)
    BY <1>2, <1>3, <2>2, FirstSegmentIncludes
  <2> QED
    BY <1>5, <1>7, <2>1, <2>3
<1>9. ASSUME NEW k \in Nat, k \in Q PROVE k + 1 \in Q
  <2> SUFFICES ASSUME NEW j \in 0..f - 1, f * (k + 1) + j <= v.steps
               PROVE  InSegment(k + 1, j)
    OBVIOUS
  <2> DEFINE s == f * k + j
             x == Position(v, s)
  <2>1. f * k \in Nat /\ f * (k + 1) = f * k + f /\ s \in Nat /\ j \in Nat
    BY <1>2
  <2>2. s <= v.steps /\ f * (k + 1) + j = f + s /\ f + s \in 0..v.steps /\ f * (k + 1) <= v.steps
    BY <1>1, <1>2, <2>1
  <2>3. k + 1 \in 1..Len(fp) /\ x \in fp[k + 1]
    BY <1>9, <2>2
  <2>4. Position(v, f + s) = A.flow[l][x] /\ Position(v, f + s) \in ha.invariant[l]
    <3>1. Iterate(flow, f + s)[v.first] = Iterate(flow, f)[Iterate(flow, s)[v.first]]
      <4>1. flow \in [Point -> Point] /\ f \in Nat /\ s \in Nat /\ v.first \in Point
        BY <1>1, <1>2, <1>4, <2>1
      <4> QED
        BY ONLY <4>1, IterateAdds
    <3>2. s \in 0..v.steps
      BY <2>1, <2>2
    <3> QED
      BY <1>3, <1>6, <2>2, <3>1, <3>2
  <2>5. A.flow[l][x] \in R(o)!NextSegment(A, l, fp[k + 1])
    BY <1>2, <1>3, <1>7, <2>3, <2>4, NextSegmentIncludes
  <2>6. k + 1 # Len(fp)
    <3> SUFFICES ASSUME k + 1 = Len(fp) PROVE FALSE
      OBVIOUS
    <3>1. Len(fp) = N
      BY <1>5, <2>5
    <3>2. f * (k + 1) <= horizon
      BY <1>1, <1>2, <2>1, <2>2
    <3>3. k + 1 <= horizon \div f
      <4>1. f \in Nat \ {0} /\ horizon \in Nat /\ k + 1 \in Nat
        BY <1>2
      <4> QED
        BY ONLY <3>2, <4>1, DivisionBound
    <3>4. horizon \div f \in Nat
      BY <1>2, Division
    <3> QED
      BY <3>1, <3>3, <3>4 DEF N
  <2>7. (k + 1) + 1 \in 2..Len(fp) /\ ((k + 1) + 1) - 1 = k + 1
    BY <1>7, <2>3, <2>6
  <2>8. fp[(k + 1) + 1] = R(o)!NextSegment(A, l, fp[k + 1])
    BY <1>5, <2>7
  <2> HIDE DEF s, x
  <2> QED
    BY <1>7, <2>2, <2>4, <2>5, <2>7, <2>8
<1> HIDE DEF Q
<1>10. Nat \subseteq Q
  BY <1>8, <1>9, InductionFromZero
<1> SUFFICES ASSUME NEW s \in 0..v.steps
             PROVE  s \div f + 1 \in 1..Len(fp) /\ Position(v, s) \in fp[s \div f + 1]
  BY DEF f
<1>11. s \div f \in Nat /\ s % f \in 0..f - 1 /\ s = f * (s \div f) + (s % f)
  <2>1. s \in Nat
    BY <1>1
  <2> QED
    BY <1>2, <2>1, Division
<1>12. s \div f \in Q
  BY <1>10, <1>11
<1>13. f * (s \div f) + (s % f) <= v.steps
  BY <1>11
<1>14. InSegment(s \div f, s % f)
  BY <1>11, <1>12, <1>13 DEF Q
<1> QED
  BY <1>11, <1>14

(* So if the flowpipe meets no bad states the visit does not either.      *)
LEMMA VisitIsSafe ==
  ASSUME TypeInv, ha.localFalse = {}, NEW i \in Levels, NEW S \in SUBSET Point,
         NEW v \in VisitType, IsVisit(v), v.entry \in S,
         NEW fp, IsFlowpipeOf(i, v.location, S, fp), ~MeetsBadStates(i, v.location, fp)
  PROVE  IsSafe(v)
<1>1. v.location \in Location
  BY VisitTypes
<1>2. /\ fp \in Seq(SUBSET Point) /\ Len(fp) \in Nat
      /\ \A k \in 1..Len(fp) : ~IsBad(i, v.location, fp[k])
  BY DEF IsFlowpipeOf, MeetsBadStates
<1>3. \A k \in 1..Len(fp) : fp[k] \cap BadStates(ha, v.location) = {}
  <2> TAKE k \in 1..Len(fp)
  <2>1. fp[k] \in SUBSET Point
    BY <1>2
  <2> QED
    BY <1>1, <1>2, <2>1, GoodSegment
<1>4. ASSUME NEW s \in 0..v.steps PROVE Position(v, s) \notin BadStates(ha, v.location)
  <2>1. PICK k \in 1..Len(fp) : Position(v, s) \in fp[k]
    BY VisitIsCovered
  <2> QED
    BY <1>3, <2>1
<1> QED
  BY <1>4 DEF IsSafe

--------------------------------------------------------------------------
(* Sequences.                                                             *)
(* The elements of the sequences that a sequence consists of.             *)
Flattens(seqs, flat, n) ==
  /\ \A i \in 1..n : \A k \in DOMAIN seqs[i] : \E m \in DOMAIN flat : flat[m] = seqs[i][k]
  /\ \A m \in DOMAIN flat : \E i \in 1..n : \E k \in DOMAIN seqs[i] : flat[m] = seqs[i][k]

LEMMA FlattenSeqFlattens ==
  ASSUME NEW S, NEW seqs \in Seq(Seq(S))
  PROVE  FlattenSeq(seqs) \in Seq(S) /\ Flattens(seqs, FlattenSeq(seqs), Len(seqs))
<1> DEFINE n == Len(seqs)
           Value(f, i) == IF i = 1 THEN seqs[i] ELSE f[i - 1] \o seqs[i]
           IsAt(f, m) == f = [i \in 1..m |-> Value(f, i)]
           flatten == CHOOSE f : IsAt(f, n)
           T == {m \in Nat : \E f : IsAt(f, m)}
           Q == {i \in 1..n : flatten[i] \in Seq(S) /\ Flattens(seqs, flatten[i], i)}
<1>1. n \in Nat /\ DOMAIN seqs = 1..n /\ \A i \in 1..n : seqs[i] \in Seq(S)
  OBVIOUS
<1>2. FlattenSeq(seqs) = IF n = 0 THEN seqs ELSE flatten[n]
  BY DEF FlattenSeq
<1>v. \A f : Value(f, 1) = seqs[1] /\ \A i : i # 1 => Value(f, i) = f[i - 1] \o seqs[i]
  OBVIOUS
<1>5. \A f, g, i : i = 1 \/ f[i - 1] = g[i - 1] => Value(f, i) = Value(g, i)
  OBVIOUS
<1> HIDE DEF Value, n
<1>6. 0 \in T
  <2> DEFINE f == [i \in 1..0 |-> Value(<< >>, i)]
  <2>1. f = [i \in 1..0 |-> Value(f, i)]
    OBVIOUS
  <2> HIDE DEF f
  <2> QED
    BY <2>1
<1>7. ASSUME NEW m \in Nat, m \in T PROVE m + 1 \in T
  <2>1. PICK f : f = [i \in 1..m |-> Value(f, i)]
    BY <1>7
  <2> DEFINE g == [i \in 1..m + 1 |-> Value(f, i)]
  <2>2. \A i \in 1..m : g[i] = f[i]
    BY <2>1
  <2>3. ASSUME NEW i \in 1..m + 1 PROVE Value(f, i) = Value(g, i)
    <3>1. i = 1 \/ i - 1 \in 1..m
      OBVIOUS
    <3> HIDE DEF g
    <3> QED
      BY <1>5, <2>2, <3>1
  <2>4. g = [i \in 1..m + 1 |-> Value(g, i)]
    BY <2>3
  <2> HIDE DEF g
  <2> QED
    BY <2>4
<1> HIDE DEF T
<1>8. n \in T
  BY <1>1, <1>6, <1>7, InductionFromZero
<1>9. \E f : IsAt(f, n)
  BY <1>8 DEF T
<1>10. flatten = [i \in 1..n |-> Value(flatten, i)]
  <2>1. IsAt(flatten, n)
    <3> HIDE DEF IsAt
    <3> QED
      BY <1>9
  <2> QED
    BY <2>1
<1> HIDE DEF flatten
<1>11. \A i \in 1..n : flatten[i] = Value(flatten, i)
  BY <1>10
<1>12. 1 <= n => 1 \in Q
  <2> SUFFICES ASSUME 1 <= n PROVE 1 \in Q
    OBVIOUS
  <2>1. 1 \in 1..n
    BY <1>1
  <2>2. flatten[1] = seqs[1]
    BY <1>11, <1>v, <2>1
  <2>3. seqs[1] \in Seq(S)
    BY <1>1, <2>1
  <2>4. Flattens(seqs, seqs[1], 1)
    BY DEF Flattens
  <2> QED
    BY <2>1, <2>2, <2>3, <2>4
<1>13. ASSUME NEW i \in 1..n - 1, i \in Q PROVE i + 1 \in Q
  <2> DEFINE a == flatten[i]
             b == seqs[i + 1]
  <2>1. i + 1 \in 1..n /\ i + 1 # 1 /\ (i + 1) - 1 = i /\ i \in Nat
    BY <1>1
  <2>2. flatten[i + 1] = a \o b
    BY <1>11, <1>v, <2>1
  <2>3. a \in Seq(S) /\ b \in Seq(S) /\ Flattens(seqs, a, i)
    BY <1>1, <1>13, <2>1
  <2> HIDE DEF a, b
  <2>c. /\ a \o b \in Seq(S)
        /\ \A j \in DOMAIN a : j \in DOMAIN (a \o b) /\ (a \o b)[j] = a[j]
        /\ \A j \in DOMAIN b : Len(a) + j \in DOMAIN (a \o b) /\ (a \o b)[Len(a) + j] = b[j]
        /\ \A j \in DOMAIN (a \o b) : j \in DOMAIN a \/ \E k \in DOMAIN b : j = Len(a) + k
    BY <2>3, Concatenated
  <2> DEFINE c == a \o b
  <2> HIDE DEF c
  <2>4. ASSUME NEW j \in 1..i + 1, NEW k \in DOMAIN seqs[j]
        PROVE  \E m \in DOMAIN c : c[m] = seqs[j][k]
    <3>1. CASE j = i + 1
      <4>1. k \in DOMAIN b /\ seqs[j][k] = b[k]
        BY <3>1 DEF b
      <4> QED
        BY <2>c, <4>1 DEF c
    <3>2. CASE j # i + 1
      <4>1. j \in 1..i
        BY <2>1, <3>2
      <4>2. PICK m \in DOMAIN a : a[m] = seqs[j][k]
        BY <2>3, <4>1 DEF Flattens
      <4> QED
        BY <2>c, <4>2 DEF c
    <3> QED
      BY <3>1, <3>2
  <2>5. ASSUME NEW m \in DOMAIN c
        PROVE  \E j \in 1..i + 1 : \E k \in DOMAIN seqs[j] : c[m] = seqs[j][k]
    <3>1. CASE m \in DOMAIN a
      <4>1. PICK j \in 1..i : \E k \in DOMAIN seqs[j] : a[m] = seqs[j][k]
        BY <2>3, <3>1 DEF Flattens
      <4>2. c[m] = a[m] /\ j \in 1..i + 1
        BY <2>1, <2>c, <3>1 DEF c
      <4> QED
        BY <4>1, <4>2
    <3>2. CASE m \notin DOMAIN a
      <4>1. PICK k \in DOMAIN b : m = Len(a) + k
        BY <2>c, <3>2 DEF c
      <4>2. c[m] = b[k] /\ i + 1 \in 1..i + 1
        BY <2>1, <2>c, <4>1 DEF c
      <4>3. k \in DOMAIN seqs[i + 1] /\ c[m] = seqs[i + 1][k]
        BY <4>2 DEF b
      <4> QED
        BY <4>2, <4>3
    <3> QED
      BY <3>1, <3>2
  <2>6. Flattens(seqs, c, i + 1)
    BY <2>4, <2>5 DEF Flattens
  <2>7. c \in Seq(S) /\ flatten[i + 1] = c
    BY <2>2, <2>c DEF c
  <2> QED
    BY <2>1, <2>6, <2>7
<1>14. 1..n \subseteq Q
  <2> HIDE DEF Q
  <2>1. \A i \in 1..n - 1 : i \in Q => i + 1 \in Q
    BY <1>13
  <2>2. 1 \in Int /\ n \in Int
    BY <1>1
  <2> QED
    BY <1>12, <2>1, <2>2, InductionInInterval
<1>15. CASE n = 0
  <2>1. seqs = << >>
    BY <1>1, <1>15 DEF n
  <2>2. FlattenSeq(seqs) = << >>
    BY <1>2, <1>15, <2>1
  <2>3. Flattens(seqs, << >>, 0)
    BY DEF Flattens
  <2> QED
    BY <1>15, <2>2, <2>3 DEF n
<1>16. CASE n # 0
  <2>1. n \in Q
    BY <1>1, <1>14, <1>16
  <2> QED
    BY <1>2, <1>16, <2>1 DEF n
<1> QED
  BY <1>15, <1>16

--------------------------------------------------------------------------
(* Trees: every node is a root or has a parent that was there before.     *)
IsForest(ns) ==
  /\ ns \in Seq(NodeType)
  /\ \A n \in DOMAIN ns :
       \/ ns[n].parent = NoNode /\ ns[n].depth = 0
       \/ ns[n].parent \in 1..n - 1 /\ ns[n].depth = ns[ns[n].parent].depth + 1

LEMMA TreeIsForest ==
  ASSUME NEW i, NEW ns \in Seq(NodeType), IsTree(i, ns)
  PROVE  IsForest(ns)
BY DEF IsForest, IsTree, IsRootNode, IsChildNode

LEMMA NodeTypes ==
  ASSUME NEW ns \in Seq(NodeType), NEW n \in DOMAIN ns
  PROVE  /\ ns[n] \in NodeType /\ n \in Nat /\ n # NoNode /\ Len(ns) \in Nat /\ n <= Len(ns)
         /\ DOMAIN ns = 1..Len(ns)
         /\ ns[n].location \in Location /\ ns[n].parent \in Nat /\ ns[n].transition \in Nat
         /\ ns[n].depth \in Nat /\ ns[n].initialSet \in SUBSET Point
         /\ ns[n].lower \in Int /\ ns[n].upper \in Int
         /\ ns[n].flowpipe \in Seq(SUBSET Point)
<1> DEFINE NT == NodeType
<1> HIDE DEF NT
<1>1. ns \in Seq(NT)
  BY DEF NT
<1>2. /\ ns[n] \in NT /\ n \in Nat /\ n # 0 /\ Len(ns) \in Nat /\ n <= Len(ns)
      /\ DOMAIN ns = 1..Len(ns)
  BY <1>1
<1>3. ns[n] \in NodeType
  BY <1>2 DEF NT
<1> QED
  BY <1>2, <1>3 DEF NodeType, NoNode

(* The parent of a node is a node, and earlier.                           *)
LEMMA ParentIsEarlier ==
  ASSUME NEW ns, IsForest(ns), NEW n \in DOMAIN ns, ns[n].parent # NoNode
  PROVE  /\ ns[n].parent \in DOMAIN ns /\ ns[n].parent < n
         /\ ns[n].depth = ns[ns[n].parent].depth + 1
<1>1. n \in Nat /\ n <= Len(ns) /\ Len(ns) \in Nat /\ DOMAIN ns = 1..Len(ns)
  BY NodeTypes DEF IsForest
<1>2. ns[n].parent \in 1..n - 1 /\ ns[n].depth = ns[ns[n].parent].depth + 1
  BY DEF IsForest
<1> QED
  BY <1>1, <1>2

(* The entry of a path for the jump to n.                                 *)
LastJump(ns, n) ==
  [lower |-> ns[n].lower, upper |-> ns[n].upper, transition |-> ns[n].transition]

LEMMA PathUnfolds ==
  ASSUME NEW i, NEW ns, IsForest(ns), NEW n \in DOMAIN ns
  PROVE  /\ ns[n].parent = NoNode => PathTo(i, ns, n) = << >>
         /\ ns[n].parent # NoNode =>
              PathTo(i, ns, n) = Append(PathTo(i, ns, ns[n].parent), LastJump(ns, n))
<1> DEFINE Value(f, m) == IF ns[m].parent = NoNode THEN << >>
                          ELSE Append(f[ns[m].parent], LastJump(ns, m))
           IsPath(f, m) == f = [k \in 1..m |-> Value(f, k)]
           S == {m \in Nat : m <= Len(ns) => \E f : IsPath(f, m)}
<1>0. \A f, g, m : ns[m].parent = NoNode \/ f[ns[m].parent] = g[ns[m].parent]
                     => Value(f, m) = Value(g, m)
  OBVIOUS
<1>d. DOMAIN ns = 1..Len(ns) /\ Len(ns) \in Nat
  BY NodeTypes DEF IsForest
<1>p. \A m : PathTo(i, ns, m) = (CHOOSE f : f = [k \in DOMAIN ns |-> Value(f, k)])[m]
  BY DEF PathTo, R!Path, R!Root, NoNode, LastJump
<1>v. \A f, m : /\ ns[m].parent = NoNode => Value(f, m) = << >>
                /\ ns[m].parent # NoNode => Value(f, m) = Append(f[ns[m].parent], LastJump(ns, m))
  OBVIOUS
<1> HIDE DEF Value
<1>1. 0 \in S
  <2> DEFINE f == [k \in 1..0 |-> Value(<< >>, k)]
  <2>1. f = [k \in 1..0 |-> Value(f, k)]
    OBVIOUS
  <2> HIDE DEF f
  <2> QED
    BY <2>1
<1>2. ASSUME NEW m \in Nat, m \in S PROVE m + 1 \in S
  <2> SUFFICES ASSUME m + 1 <= Len(ns)
               PROVE  \E f : IsPath(f, m + 1)
    OBVIOUS
  <2>1. PICK f : f = [k \in 1..m |-> Value(f, k)]
    BY <1>2, <1>d
  <2> DEFINE g == [k \in 1..m + 1 |-> Value(f, k)]
  <2>2. \A k \in 1..m : g[k] = f[k]
    BY <2>1
  <2>3. ASSUME NEW k \in 1..m + 1 PROVE Value(f, k) = Value(g, k)
    <3>1. k \in DOMAIN ns
      BY <1>d
    <3>2. ns[k].parent = NoNode \/ ns[k].parent \in 1..m
      BY <3>1 DEF IsForest
    <3> HIDE DEF g
    <3> QED
      BY <1>0, <2>2, <3>2
  <2>4. g = [k \in 1..m + 1 |-> Value(g, k)]
    BY <2>3
  <2> HIDE DEF g
  <2> QED
    BY <2>4
<1> HIDE DEF S
<1>3. Len(ns) \in S
  BY <1>1, <1>2, <1>d, InductionFromZero
<1>4. \E f : IsPath(f, Len(ns))
  BY <1>3, <1>d DEF S
<1> DEFINE way == CHOOSE f : f = [k \in DOMAIN ns |-> Value(f, k)]
<1>5. way = [k \in DOMAIN ns |-> Value(way, k)]
  <2>1. \E f : f = [k \in DOMAIN ns |-> Value(f, k)]
    BY <1>4, <1>d
  <2> QED
    BY <2>1
<1>6. \A m : PathTo(i, ns, m) = way[m]
  BY <1>p
<1> HIDE DEF way
<1>7. way[n] = Value(way, n)
  BY <1>5
<1> QED
  BY <1>6, <1>7, <1>v

JumpType == [lower : Int, upper : Int, transition : Nat]

(* A path has a jump for every level of the tree.                         *)
LEMMA PathType ==
  ASSUME NEW i, NEW ns, IsForest(ns), NEW n \in DOMAIN ns
  PROVE  PathTo(i, ns, n) \in Seq(JumpType) /\ Len(PathTo(i, ns, n)) = ns[n].depth
<1> DEFINE IsTyped(m) == PathTo(i, ns, m) \in Seq(JumpType) /\ Len(PathTo(i, ns, m)) = ns[m].depth
           T == {m \in DOMAIN ns : ~IsTyped(m)}
<1> SUFFICES ASSUME T # {}
             PROVE  FALSE
  OBVIOUS
<1>1. T \in SUBSET Nat
  BY NodeTypes DEF IsForest
<1>2. PICK m \in T : \A k \in T : m <= k
  BY <1>1, LeastNumber
<1>3. m \in DOMAIN ns /\ ~IsTyped(m) /\ m \in Nat
  BY <1>1, <1>2
<1>4. CASE ns[m].parent = NoNode
  <2>1. PathTo(i, ns, m) = << >>
    BY <1>3, <1>4, PathUnfolds
  <2>2. ns[m].depth = 0
    BY <1>3, <1>4 DEF IsForest, NoNode
  <2> QED
    BY <1>3, <2>1, <2>2
<1>5. CASE ns[m].parent # NoNode
  <2> DEFINE k == ns[m].parent
  <2>1. k \in DOMAIN ns /\ k < m /\ ns[m].depth = ns[k].depth + 1
    BY <1>3, <1>5, ParentIsEarlier
  <2>2. k \in Nat
    BY <2>1, NodeTypes DEF IsForest
  <2>3. IsTyped(k)
    BY <1>2, <1>3, <2>1, <2>2
  <2>4. LastJump(ns, m) \in JumpType
    BY <1>3, NodeTypes DEF IsForest, LastJump, JumpType
  <2>5. PathTo(i, ns, m) = Append(PathTo(i, ns, k), LastJump(ns, m))
    BY <1>3, <1>5, PathUnfolds
  <2> QED
    BY <1>3, <2>1, <2>3, <2>4, <2>5, Appended
<1> QED
  BY <1>4, <1>5

(* What may change of a tree: nodes are added, and get flowpipes.         *)
SameNode(m, n) ==
  /\ m.location = n.location /\ m.parent = n.parent /\ m.transition = n.transition
  /\ m.depth = n.depth /\ m.initialSet = n.initialSet
  /\ m.lower = n.lower /\ m.upper = n.upper

Extends(ns, ms) == \A n \in DOMAIN ns : n \in DOMAIN ms /\ SameNode(ns[n], ms[n])

LEMMA PathAgrees ==
  ASSUME NEW i, NEW ns, NEW ms, IsForest(ns), IsForest(ms), Extends(ns, ms), NEW n \in DOMAIN ns
  PROVE  PathTo(i, ms, n) = PathTo(i, ns, n)
<1> DEFINE T == {m \in DOMAIN ns : PathTo(i, ms, m) # PathTo(i, ns, m)}
<1> SUFFICES ASSUME T # {}
             PROVE  FALSE
  OBVIOUS
<1>1. T \in SUBSET Nat
  BY NodeTypes DEF IsForest
<1>2. PICK m \in T : \A k \in T : m <= k
  BY <1>1, LeastNumber
<1>3. m \in DOMAIN ns /\ PathTo(i, ms, m) # PathTo(i, ns, m) /\ m \in Nat
  BY <1>1, <1>2
<1>4. m \in DOMAIN ms /\ ms[m].parent = ns[m].parent /\ LastJump(ms, m) = LastJump(ns, m)
  BY <1>3 DEF Extends, SameNode, LastJump
<1>5. CASE ns[m].parent = NoNode
  BY <1>3, <1>4, <1>5, PathUnfolds
<1>6. CASE ns[m].parent # NoNode
  <2> DEFINE k == ns[m].parent
  <2>1. k \in DOMAIN ns /\ k < m
    BY <1>3, <1>6, ParentIsEarlier
  <2>2. k \in Nat
    BY <2>1, NodeTypes DEF IsForest
  <2>3. PathTo(i, ms, k) = PathTo(i, ns, k)
    BY <1>2, <1>3, <2>1, <2>2
  <2>4. PathTo(i, ns, m) = Append(PathTo(i, ns, k), LastJump(ns, m))
    BY <1>3, <1>6, PathUnfolds
  <2>5. PathTo(i, ms, m) = Append(PathTo(i, ms, k), LastJump(ms, m))
    BY <1>4, <1>6, PathUnfolds
  <2> QED
    BY <1>3, <1>4, <2>3, <2>4, <2>5
<1> QED
  BY <1>5, <1>6

LEMMA AboveUnfolds ==
  ASSUME NEW i, NEW ns, IsForest(ns), NEW n \in DOMAIN ns
  PROVE  /\ ns[n].parent = NoNode => Above(i, ns, n) = {n}
         /\ ns[n].parent # NoNode =>
              Above(i, ns, n) = {n} \cup Above(i, ns, ns[n].parent)
<1> DEFINE Value(f, m) == IF ns[m].parent = NoNode THEN {m}
                          ELSE {m} \cup f[ns[m].parent]
           IsUp(f, m) == f = [k \in 1..m |-> Value(f, k)]
           S == {m \in Nat : m <= Len(ns) => \E f : IsUp(f, m)}
<1>0. \A f, g, m : ns[m].parent = NoNode \/ f[ns[m].parent] = g[ns[m].parent]
                     => Value(f, m) = Value(g, m)
  OBVIOUS
<1>d. DOMAIN ns = 1..Len(ns) /\ Len(ns) \in Nat
  BY NodeTypes DEF IsForest
<1>p. \A m : Above(i, ns, m) = (CHOOSE f : f = [k \in DOMAIN ns |-> Value(f, k)])[m]
  BY DEF Above, R!AncestorsOrSelf, R!Root, NoNode
<1>v. \A f, m : /\ ns[m].parent = NoNode => Value(f, m) = {m}
                /\ ns[m].parent # NoNode => Value(f, m) = {m} \cup f[ns[m].parent]
  OBVIOUS
<1> HIDE DEF Value
<1>1. 0 \in S
  <2> DEFINE f == [k \in 1..0 |-> Value(<< >>, k)]
  <2>1. f = [k \in 1..0 |-> Value(f, k)]
    OBVIOUS
  <2> HIDE DEF f
  <2> QED
    BY <2>1
<1>2. ASSUME NEW m \in Nat, m \in S PROVE m + 1 \in S
  <2> SUFFICES ASSUME m + 1 <= Len(ns)
               PROVE  \E f : IsUp(f, m + 1)
    OBVIOUS
  <2>1. PICK f : f = [k \in 1..m |-> Value(f, k)]
    BY <1>2, <1>d
  <2> DEFINE g == [k \in 1..m + 1 |-> Value(f, k)]
  <2>2. \A k \in 1..m : g[k] = f[k]
    BY <2>1
  <2>3. ASSUME NEW k \in 1..m + 1 PROVE Value(f, k) = Value(g, k)
    <3>1. k \in DOMAIN ns
      BY <1>d
    <3>2. ns[k].parent = NoNode \/ ns[k].parent \in 1..m
      BY <3>1 DEF IsForest
    <3> HIDE DEF g
    <3> QED
      BY <1>0, <2>2, <3>2
  <2>4. g = [k \in 1..m + 1 |-> Value(g, k)]
    BY <2>3
  <2> HIDE DEF g
  <2> QED
    BY <2>4
<1> HIDE DEF S
<1>3. Len(ns) \in S
  BY <1>1, <1>2, <1>d, InductionFromZero
<1>4. \E f : IsUp(f, Len(ns))
  BY <1>3, <1>d DEF S
<1> DEFINE up == CHOOSE f : f = [k \in DOMAIN ns |-> Value(f, k)]
<1>5. up = [k \in DOMAIN ns |-> Value(up, k)]
  <2>1. \E f : f = [k \in DOMAIN ns |-> Value(f, k)]
    BY <1>4, <1>d
  <2> QED
    BY <2>1
<1>6. \A m : Above(i, ns, m) = up[m]
  BY <1>p
<1> HIDE DEF up
<1>7. up[n] = Value(up, n)
  BY <1>5
<1> QED
  BY <1>6, <1>7, <1>v

(* Every node is below exactly one root.                                  *)
LEMMA RootAbove ==
  ASSUME NEW i, NEW ns, IsForest(ns), NEW n \in DOMAIN ns
  PROVE  \E a \in DOMAIN ns : /\ a \in Above(i, ns, n) /\ ns[a].parent = NoNode
                             /\ \A b \in Above(i, ns, n) : ns[b].parent = NoNode => b = a
<1> DEFINE IsRootOf(a, m) == /\ a \in Above(i, ns, m) /\ ns[a].parent = NoNode
                             /\ \A b \in Above(i, ns, m) : ns[b].parent = NoNode => b = a
           T == {m \in DOMAIN ns : \A a \in DOMAIN ns : ~IsRootOf(a, m)}
<1> SUFFICES ASSUME T # {}
             PROVE  FALSE
  OBVIOUS
<1>1. T \in SUBSET Nat
  BY NodeTypes DEF IsForest
<1>2. PICK m \in T : \A k \in T : m <= k
  BY <1>1, LeastNumber
<1>3. m \in DOMAIN ns /\ m \in Nat /\ \A a \in DOMAIN ns : ~IsRootOf(a, m)
  BY <1>1, <1>2
<1>4. CASE ns[m].parent = NoNode
  <2>1. Above(i, ns, m) = {m}
    BY <1>3, <1>4, AboveUnfolds
  <2>2. IsRootOf(m, m)
    BY <1>4, <2>1
  <2> QED
    BY <1>3, <2>2
<1>5. CASE ns[m].parent # NoNode
  <2> DEFINE k == ns[m].parent
  <2>1. k \in DOMAIN ns /\ k < m
    BY <1>3, <1>5, ParentIsEarlier
  <2>2. k \in Nat
    BY <2>1, NodeTypes DEF IsForest
  <2>3. k \notin T
    BY <1>2, <1>3, <2>1, <2>2
  <2>4. PICK a \in DOMAIN ns : IsRootOf(a, k)
    <3> HIDE DEF IsRootOf
    <3> QED
      BY <2>1, <2>3
  <2>5. Above(i, ns, m) = {m} \cup Above(i, ns, k)
    BY <1>3, <1>5, AboveUnfolds
  <2>6. IsRootOf(a, m)
    BY <1>5, <2>4, <2>5
  <2> QED
    BY <1>3, <2>6
<1> QED
  BY <1>4, <1>5

LEMMA AboveAgrees ==
  ASSUME NEW i, NEW ns, NEW ms, IsForest(ns), IsForest(ms), Extends(ns, ms), NEW n \in DOMAIN ns
  PROVE  Above(i, ms, n) = Above(i, ns, n) /\ Above(i, ns, n) \subseteq DOMAIN ns
<1> DEFINE Agrees(m) == Above(i, ms, m) = Above(i, ns, m) /\ Above(i, ns, m) \subseteq DOMAIN ns
           T == {m \in DOMAIN ns : ~Agrees(m)}
<1> SUFFICES ASSUME T # {}
             PROVE  FALSE
  OBVIOUS
<1>1. T \in SUBSET Nat
  BY NodeTypes DEF IsForest
<1>2. PICK m \in T : \A k \in T : m <= k
  BY <1>1, LeastNumber
<1>3. m \in DOMAIN ns /\ ~Agrees(m) /\ m \in Nat
  BY <1>1, <1>2
<1>4. m \in DOMAIN ms /\ ms[m].parent = ns[m].parent
  BY <1>3 DEF Extends, SameNode
<1>5. CASE ns[m].parent = NoNode
  <2>1. Above(i, ms, m) = {m} /\ Above(i, ns, m) = {m}
    BY <1>3, <1>4, <1>5, AboveUnfolds
  <2> QED
    BY <1>3, <2>1
<1>6. CASE ns[m].parent # NoNode
  <2> DEFINE k == ns[m].parent
  <2>1. k \in DOMAIN ns /\ k < m
    BY <1>3, <1>6, ParentIsEarlier
  <2>2. k \in Nat
    BY <2>1, NodeTypes DEF IsForest
  <2>3. Agrees(k)
    BY <1>2, <1>3, <2>1, <2>2
  <2>4. Above(i, ns, m) = {m} \cup Above(i, ns, k)
    BY <1>3, <1>6, AboveUnfolds
  <2>5. Above(i, ms, m) = {m} \cup Above(i, ms, k)
    BY <1>4, <1>6, AboveUnfolds
  <2> QED
    BY <1>3, <2>3, <2>4, <2>5
<1> QED
  BY <1>5, <1>6

(* Where a tree starts is the same for a node and its parent, and stays.  *)
LEMMA StartAgrees ==
  ASSUME NEW i, NEW ns, NEW ms, IsForest(ns), IsForest(ms), Extends(ns, ms), NEW n \in DOMAIN ns,
         NEW l
  PROVE  StartsIn(i, ms, n, l) <=> StartsIn(i, ns, n, l)
<1>1. Above(i, ms, n) = Above(i, ns, n) /\ Above(i, ns, n) \subseteq DOMAIN ns
  BY AboveAgrees
<1>2. \A a \in Above(i, ns, n) : ms[a].parent = ns[a].parent /\ ms[a].location = ns[a].location
  BY <1>1 DEF Extends, SameNode
<1> QED
  BY <1>1, <1>2 DEF StartsIn

LEMMA StartOfChild ==
  ASSUME NEW i, NEW ns, IsForest(ns), NEW n \in DOMAIN ns, ns[n].parent # NoNode, NEW l,
         StartsIn(i, ns, ns[n].parent, l)
  PROVE  StartsIn(i, ns, n, l)
<1>1. Above(i, ns, n) = {n} \cup Above(i, ns, ns[n].parent)
  BY AboveUnfolds
<1> QED
  BY <1>1 DEF StartsIn

LEMMA StartOfRoot ==
  ASSUME NEW i, NEW ns, IsForest(ns), NEW n \in DOMAIN ns, ns[n].parent = NoNode
  PROVE  StartsIn(i, ns, n, ns[n].location)
<1>1. Above(i, ns, n) = {n}
  BY AboveUnfolds
<1> QED
  BY <1>1 DEF StartsIn

LEMMA RootOfNode ==
  ASSUME NEW i, IsForest(nodes[i]), NEW n \in DOMAIN nodes[i]
  PROVE  /\ RootOf(i, n) \in DOMAIN nodes[i] /\ nodes[i][RootOf(i, n)].parent = NoNode
         /\ \A l : StartsIn(i, nodes[i], n, l) => nodes[i][RootOf(i, n)].location = l
<1>1. PICK a \in DOMAIN nodes[i] :
        /\ a \in Above(i, nodes[i], n) /\ nodes[i][a].parent = NoNode
        /\ \A b \in Above(i, nodes[i], n) : nodes[i][b].parent = NoNode => b = a
  BY RootAbove
<1>2. RootOf(i, n) = CHOOSE r \in Above(i, nodes[i], n) : nodes[i][r].parent = NoNode
  BY DEF RootOf, Above, NoNode
<1>3. RootOf(i, n) \in Above(i, nodes[i], n) /\ nodes[i][RootOf(i, n)].parent = NoNode
  BY <1>1, <1>2
<1>4. RootOf(i, n) = a
  BY <1>1, <1>3
<1> QED
  BY <1>1, <1>4 DEF StartsIn

LEMMA CoversAgrees ==
  ASSUME NEW i, NEW ns, NEW ms, IsForest(ns), IsForest(ms), Extends(ns, ms), NEW n \in DOMAIN ns,
         NEW r
  PROVE  Covers(i, ms, n, r) <=> Covers(i, ns, n, r)
<1>1. n \in DOMAIN ms /\ SameNode(ns[n], ms[n])
  BY DEF Extends
<1>2. StartsIn(i, ms, n, r[1].location) <=> StartsIn(i, ns, n, r[1].location)
  BY StartAgrees
<1>3. PathTo(i, ms, n) = PathTo(i, ns, n)
  BY PathAgrees
<1>4. Includes(ms[n], r[ms[n].depth + 1]) <=> Includes(ns[n], r[ns[n].depth + 1])
  BY <1>1 DEF SameNode, Includes
<1>5. ms[n].depth = ns[n].depth
  BY <1>1 DEF SameNode
<1> QED
  BY <1>2, <1>3, <1>4, <1>5 DEF Covers

(* Trees grow by roots and children.                                      *)
LEMMA TreeGrows ==
  ASSUME NEW i, NEW ns \in Seq(NodeType), NEW ms \in Seq(NodeType), IsTree(i, ns), Extends(ns, ms),
         \A m \in DOMAIN ms : m \notin DOMAIN ns => IsRootNode(i, ms[m]) \/ IsChildNode(ms, m)
  PROVE  IsTree(i, ms)
<1> SUFFICES ASSUME NEW m \in DOMAIN ns
             PROVE  IsRootNode(i, ms[m]) \/ IsChildNode(ms, m)
  BY DEF IsTree
<1>1. SameNode(ns[m], ms[m])
  BY DEF Extends
<1>2. CASE IsRootNode(i, ns[m])
  BY <1>1, <1>2 DEF IsRootNode, SameNode
<1>3. CASE IsChildNode(ns, m)
  <2>1. ns[m].parent \in 1..m - 1
    BY <1>3 DEF IsChildNode
  <2>2. ns[m].parent \in DOMAIN ns
    BY <2>1, NodeTypes
  <2>3. SameNode(ns[ns[m].parent], ms[ns[m].parent])
    BY <2>2 DEF Extends
  <2> QED
    BY <1>1, <1>3, <2>3 DEF IsChildNode, SameNode
<1> QED
  BY <1>2, <1>3 DEF IsTree

LEMMA FlowpipeStored ==
  ASSUME NEW ns \in Seq(NodeType), NEW n \in DOMAIN ns, NEW fp \in Seq(SUBSET Point)
  PROVE  /\ [ns EXCEPT ![n].flowpipe = fp] \in Seq(NodeType)
         /\ DOMAIN [ns EXCEPT ![n].flowpipe = fp] = DOMAIN ns
         /\ Len([ns EXCEPT ![n].flowpipe = fp]) = Len(ns)
         /\ Extends(ns, [ns EXCEPT ![n].flowpipe = fp])
         /\ [ns EXCEPT ![n].flowpipe = fp][n].flowpipe = fp
         /\ \A m \in DOMAIN ns : m # n => [ns EXCEPT ![n].flowpipe = fp][m] = ns[m]
<1> DEFINE node == [ns[n] EXCEPT !.flowpipe = fp]
           ms == [ns EXCEPT ![n].flowpipe = fp]
<1>1. ns[n] \in NodeType
  BY NodeTypes
<1>2. node \in NodeType /\ SameNode(ns[n], node) /\ node.flowpipe = fp
  BY <1>1 DEF NodeType, SameNode
<1>3. ms = [ns EXCEPT ![n] = node]
  OBVIOUS
<1> HIDE DEF node, ms
<1>4. ms \in Seq(NodeType) /\ DOMAIN ms = DOMAIN ns /\ Len(ms) = Len(ns) /\ ms[n] = node
      /\ \A m \in DOMAIN ns : m # n => ms[m] = ns[m]
  <2> DEFINE NT == NodeType
  <2> HIDE DEF NT
  <2>1. ns \in Seq(NT) /\ node \in NT
    BY <1>2 DEF NT
  <2>2. ms \in Seq(NT) /\ DOMAIN ms = DOMAIN ns /\ Len(ms) = Len(ns) /\ ms[n] = node
        /\ \A m \in DOMAIN ns : m # n => ms[m] = ns[m]
    BY <1>3, <2>1
  <2> QED
    BY <2>2 DEF NT
<1>5. Extends(ns, ms)
  BY <1>2, <1>4 DEF Extends, SameNode
<1> QED
  BY <1>2, <1>4, <1>5 DEF ms

IsNewChild(ns, n, node) ==
  /\ node.parent = n /\ node.depth = ns[n].depth + 1
  /\ node.transition \in DOMAIN ha.transition
  /\ node.location = ha.transition[node.transition].target
  /\ node.flowpipe = << >>

LEMMA ChildrenAdded ==
  ASSUME NEW i, NEW ns \in Seq(NodeType), IsTree(i, ns), NEW n \in DOMAIN ns,
         NEW cs \in Seq(NodeType), \A k \in DOMAIN cs : IsNewChild(ns, n, cs[k])
  PROVE  /\ ns \o cs \in Seq(NodeType) /\ IsTree(i, ns \o cs) /\ Extends(ns, ns \o cs)
<1> DEFINE ms == ns \o cs
<1>1. ms \in Seq(NodeType)
      /\ (\A m \in DOMAIN ns : m \in DOMAIN ms /\ ms[m] = ns[m])
      /\ (\A k \in DOMAIN cs : Len(ns) + k \in DOMAIN ms /\ ms[Len(ns) + k] = cs[k])
      /\ (\A m \in DOMAIN ms : m \in DOMAIN ns \/ \E k \in DOMAIN cs : m = Len(ns) + k)
  BY Concatenated
<1> HIDE DEF ms
<1>2. Extends(ns, ms)
  BY <1>1 DEF Extends, SameNode
<1>3. ASSUME NEW m \in DOMAIN ms, m \notin DOMAIN ns
      PROVE  IsChildNode(ms, m)
  <2>1. PICK k \in DOMAIN cs : m = Len(ns) + k
    BY <1>1, <1>3
  <2>2. ms[m] = cs[k] /\ ms[n] = ns[n]
    BY <1>1, <2>1
  <2>3. IsNewChild(ns, n, cs[k])
    OBVIOUS
  <2>4. n \in Nat /\ n # 0 /\ n <= Len(ns) /\ Len(ns) \in Nat /\ k \in Nat /\ k # 0
    <3>1. n \in Nat /\ n # 0 /\ n <= Len(ns) /\ Len(ns) \in Nat
      BY NodeTypes DEF NoNode
    <3>2. k \in Nat /\ k # 0
      BY NodeTypes DEF NoNode
    <3> QED
      BY <3>1, <3>2
  <2>5. n \in 1..m - 1
    BY <2>1, <2>4
  <2> QED
    BY <2>2, <2>3, <2>5 DEF IsNewChild, IsChildNode
<1>4. IsTree(i, ms)
  BY <1>1, <1>2, <1>3, TreeGrows
<1> QED
  BY <1>1, <1>2, <1>4 DEF ms

LEMMA ExtendsTransitive ==
  ASSUME NEW ns, NEW ms, NEW ks, Extends(ns, ms), Extends(ms, ks)
  PROVE  Extends(ns, ks)
BY DEF Extends, SameNode

(* The node that NewNode makes.                                           *)
LEMMA NewNodeIs ==
  ASSUME TypeInv, NEW i \in Levels, NEW n \in DOMAIN nodes[i], NEW t \in DOMAIN ha.transition,
         NEW S \in SUBSET Point, NEW timings, timings.lower \in Int, timings.upper \in Int
  PROVE  /\ NewNode(i, n, t, S, timings) \in NodeType
         /\ IsNewChild(nodes[i], n, NewNode(i, n, t, S, timings))
         /\ NewNode(i, n, t, S, timings).transition = t
         /\ NewNode(i, n, t, S, timings).initialSet = S
         /\ NewNode(i, n, t, S, timings).lower = timings.lower
         /\ NewNode(i, n, t, S, timings).upper = timings.upper
<1> DEFINE node == NewNode(i, n, t, S, timings)
           target == ha.transition[t].target
           depth == nodes[i][n].depth + 1
           lo == timings.lower
           up == timings.upper
<1>2. nodes[i] \in Seq(NodeType)
  BY DEF TypeInv, TypeOK
<1>3. target \in Location /\ depth \in Nat /\ n \in Nat /\ t \in Nat
  <2>1. target \in Location /\ t \in Nat
    BY TransitionTypes DEF TypeInv
  <2>2. nodes[i][n].depth \in Nat /\ n \in Nat
    BY <1>2, NodeTypes
  <2> QED
    BY <2>1, <2>2
<1>4. node = [location |-> target, parent |-> n, transition |-> t, depth |-> depth,
              initialSet |-> S, lower |-> lo, upper |-> up, flowpipe |-> << >>]
  BY DEF NewNode, Fresh, R!ChildNode
<1> HIDE DEF target, depth, lo, up, node
<1>5. lo \in Int /\ up \in Int
  BY DEF lo, up
<1>6. node \in NodeType
  BY <1>3, <1>4, <1>5 DEF NodeType
<1>7. IsNewChild(nodes[i], n, node)
  BY <1>4 DEF IsNewChild, target, depth
<1> QED
  BY <1>4, <1>6, <1>7 DEF node, lo, up

--------------------------------------------------------------------------
(* Roots.                                                                 *)
LEMMA RootNodeIs ==
  ASSUME ha \in Automata, strategy \in Strategies, NEW i \in Levels, NEW l, \E k \in DOMAIN ha.initial : ha.initial[k].loc = l
  PROVE  /\ RootNode(i, l) \in NodeType /\ IsRootNode(i, RootNode(i, l))
         /\ RootNode(i, l).location = l /\ RootNode(i, l).flowpipe = << >>
<1> DEFINE k == CHOOSE k \in DOMAIN ha.initial : ha.initial[k].loc = l
           o == strategy[i].over
           S == o[ha.initial[k].set]
           root == RootNode(i, l)
<1>1. k \in DOMAIN ha.initial /\ ha.initial[k].loc = l
  OBVIOUS
<1>2. root = Fresh(R(o)!MakeRoots(ha)[k])
  BY DEF RootNode
<1> HIDE DEF k
<1>3. R(o)!MakeRoots(ha)[k] =
        [location |-> ha.initial[k].loc, parent |-> 0, transition |-> 0, depth |-> 0,
         initialSet |-> o[ha.initial[k].set], lower |-> 0, upper |-> 0]
  BY <1>1 DEF R!MakeRoots, R!Root
<1>4. l \in Location /\ S \in SUBSET Point
  <2>1. ha.initial[k].loc \in Location /\ ha.initial[k].set \in SUBSET Point
    BY <1>1, AutomatonTypes
  <2>2. IsRepresentation(o)
    BY StrategyTypes DEF Levels, Top
  <2> QED
    BY <1>1, <2>1, <2>2 DEF IsRepresentation
<1>5. root = [location |-> l, parent |-> 0, transition |-> 0, depth |-> 0, initialSet |-> S,
              lower |-> 0, upper |-> 0, flowpipe |-> << >>]
  BY <1>1, <1>2, <1>3 DEF Fresh
<1>6. root.initialSet = strategy[i].over[ha.initial[k].set]
  BY <1>5
<1> HIDE DEF S, root, o
<1>7. root \in NodeType
  BY <1>4, <1>5 DEF NodeType
<1>8. IsRootNode(i, root)
  BY <1>1, <1>5, <1>6 DEF IsRootNode, NoNode
<1> QED
  BY <1>5, <1>7, <1>8 DEF root

LEMMA WithRootIs ==
  ASSUME TypeInv, NEW i \in Levels, IsTree(i, nodes[i]), NEW l,
         \E k \in DOMAIN ha.initial : ha.initial[k].loc = l
  PROVE  /\ WithRoot(i, l) \in Seq(NodeType) /\ IsTree(i, WithRoot(i, l))
         /\ Extends(nodes[i], WithRoot(i, l))
         /\ \A n \in DOMAIN nodes[i] : WithRoot(i, l)[n] = nodes[i][n]
         /\ \A n \in DOMAIN WithRoot(i, l) : n \notin DOMAIN nodes[i] =>
              n = Len(nodes[i]) + 1 /\ WithRoot(i, l)[n] = RootNode(i, l)
         /\ \E r \in DOMAIN WithRoot(i, l) :
              WithRoot(i, l)[r].parent = NoNode /\ WithRoot(i, l)[r].location = l
<1> DEFINE ns == nodes[i]
           ms == WithRoot(i, l)
<1>1. ns \in Seq(NodeType)
  BY DEF TypeInv, TypeOK
<1>2. CASE \E r \in R(strategy[i].over)!Roots(nodes[i]) : nodes[i][r].location = l
  <2>1. ms = ns
    BY <1>2 DEF WithRoot
  <2>2. \E r \in DOMAIN ns : ns[r].parent = NoNode /\ ns[r].location = l
    BY <1>2 DEF R!Roots, R!Root, NoNode
  <2>3. Extends(ns, ns)
    BY DEF Extends, SameNode
  <2> QED
    BY <1>1, <2>1, <2>2, <2>3
<1>3. CASE ~\E r \in R(strategy[i].over)!Roots(nodes[i]) : nodes[i][r].location = l
  <2> DEFINE root == RootNode(i, l)
  <2>1. ms = Append(ns, root)
    BY <1>3 DEF WithRoot
  <2>2. root \in NodeType /\ IsRootNode(i, root) /\ root.location = l
    BY RootNodeIs DEF TypeInv
  <2> HIDE DEF root, ms, ns
  <2>3. /\ ms \in Seq(NodeType) /\ DOMAIN ms = DOMAIN ns \cup {Len(ns) + 1}
        /\ \A n \in DOMAIN ns : ms[n] = ns[n]
        /\ ms[Len(ns) + 1] = root
    BY <1>1, <2>1, <2>2, Appended
  <2>4. Extends(ns, ms)
    BY <2>3 DEF Extends, SameNode
  <2>5. IsTree(i, ns)
    BY DEF ns
  <2>6. IsTree(i, ms)
    BY <1>1, <2>2, <2>3, <2>4, <2>5, TreeGrows
  <2>7. root.parent = NoNode
    BY <2>2 DEF IsRootNode
  <2> QED
    BY <2>2, <2>3, <2>4, <2>6, <2>7 DEF ms, ns, root
<1> QED
  BY <1>2, <1>3

(* A root includes every visit that a run may start with in its location. *)
LEMMA RootIncludesFirst ==
  ASSUME TypeInv, NEW i \in Levels, NEW node, IsRootNode(i, node), NEW v, IsFirst(v),
         node.location = v.location
  PROVE  Includes(node, v)
<1>1. PICK k \in DOMAIN ha.initial :
        node.location = ha.initial[k].loc /\ node.initialSet = strategy[i].over[ha.initial[k].set]
  BY DEF IsRootNode
<1>2. PICK j \in DOMAIN ha.initial : v.location = ha.initial[j].loc /\ v.entry \in ha.initial[j].set
  BY DEF IsFirst
<1>3. j = k
  BY <1>1, <1>2, InitialLocationsAssumption DEF TypeInv
<1>4. ha.initial[k].set \in SUBSET Point
  BY AutomatonTypes DEF TypeInv
<1>5. IsRepresentation(strategy[i].over)
  BY LevelTypes
<1>6. v.entry \in node.initialSet
  BY <1>1, <1>2, <1>3, <1>4, <1>5 DEF IsRepresentation
<1> QED
  BY <1>6 DEF Includes, IsRootNode, IsFirst

--------------------------------------------------------------------------
(* Jump successors of the base level.                                     *)
(* The successor of some segments of a flowpipe.                          *)
Guarded(o, t, fp, B) == {R(o)!Intersect(fp[k], ha.transition[t].guard) : k \in B}

Jumped(o, t, SS) ==
  R(o)!Intersect(R(o)!Transform(R(o)!Unite(SS), ha.transition[t].reset),
                 ha.invariant[ha.transition[t].target])

IncludesGuarded(SS, t, fp, B) ==
  /\ SS \in SUBSET SUBSET Point
  /\ \A k \in B : \E G \in SS : fp[k] \cap ha.transition[t].guard \subseteq G

LEMMA GuardedIncludes ==
  ASSUME NEW o, IsRepresentation(o), NEW t, NEW fp \in Seq(SUBSET Point), NEW B, B \subseteq DOMAIN fp
  PROVE  IncludesGuarded(Guarded(o, t, fp, B), t, fp, B)
<1> DEFINE g == ha.transition[t].guard
<1> HIDE DEF g
<1>1. \A k \in B : /\ R(o)!Intersect(fp[k], g) \in SUBSET Point
                   /\ fp[k] \cap g \subseteq R(o)!Intersect(fp[k], g)
  <2> TAKE k \in B
  <2>1. fp[k] \in SUBSET Point
    OBVIOUS
  <2> QED
    BY <2>1, IntersectIncludes
<1>2. Guarded(o, t, fp, B) = {R(o)!Intersect(fp[k], g) : k \in B}
  BY DEF Guarded, g
<1>3. Guarded(o, t, fp, B) \in SUBSET SUBSET Point
  BY <1>1, <1>2
<1>4. \A k \in B : \E G \in Guarded(o, t, fp, B) : fp[k] \cap g \subseteq G
  BY <1>1, <1>2
<1> QED
  BY <1>3, <1>4 DEF g, IncludesGuarded

LEMMA JumpedIncludes ==
  ASSUME NEW o, IsRepresentation(o), TypeInv, NEW t \in DOMAIN ha.transition,
         NEW SS \in SUBSET SUBSET Point
  PROVE  /\ Jumped(o, t, SS) \in SUBSET Point
         /\ \A G \in SS : \A x \in G :
              ha.transition[t].reset[x] \in ha.invariant[ha.transition[t].target]
                => ha.transition[t].reset[x] \in Jumped(o, t, SS)
<1> DEFINE f == ha.transition[t].reset
           inv == ha.invariant[ha.transition[t].target]
           U == R(o)!Unite(SS)
           T == R(o)!Transform(U, f)
<1>1. f \in [Point -> Point]
  BY TransitionTypes DEF TypeInv
<1>2. Jumped(o, t, SS) = R(o)!Intersect(T, inv)
  BY DEF Jumped
<1>3. U \in SUBSET Point /\ \A G \in SS : G \subseteq U
  BY UniteIncludes
<1> HIDE DEF f, inv, U
<1>4. T \in SUBSET Point /\ \A x \in U : f[x] \in T
  BY <1>1, <1>3, TransformIncludes
<1> HIDE DEF T
<1>5. R(o)!Intersect(T, inv) \in SUBSET Point /\ T \cap inv \subseteq R(o)!Intersect(T, inv)
  BY <1>4, IntersectIncludes
<1>6. \A G \in SS : \A x \in G : f[x] \in inv => f[x] \in Jumped(o, t, SS)
  BY <1>2, <1>3, <1>4, <1>5
<1>7. Jumped(o, t, SS) \in SUBSET Point
  BY <1>2, <1>5
<1> QED
  BY <1>6, <1>7 DEF f, inv

LEMMA SuccessorIncludes ==
  ASSUME NEW o, IsRepresentation(o), TypeInv, NEW t \in DOMAIN ha.transition,
         NEW fp \in Seq(SUBSET Point), NEW B, B \subseteq DOMAIN fp
  PROVE  /\ Jumped(o, t, Guarded(o, t, fp, B)) \in SUBSET Point
         /\ \A k \in B : \A x \in fp[k] \cap ha.transition[t].guard :
              ha.transition[t].reset[x] \in ha.invariant[ha.transition[t].target]
                => ha.transition[t].reset[x] \in Jumped(o, t, Guarded(o, t, fp, B))
<1>0. IncludesGuarded(Guarded(o, t, fp, B), t, fp, B)
  BY GuardedIncludes
<1>1. /\ Guarded(o, t, fp, B) \in SUBSET SUBSET Point
      /\ \A k \in B : \E G \in Guarded(o, t, fp, B) : fp[k] \cap ha.transition[t].guard \subseteq G
  BY <1>0 DEF IncludesGuarded
<1>2. /\ Jumped(o, t, Guarded(o, t, fp, B)) \in SUBSET Point
      /\ \A G \in Guarded(o, t, fp, B) : \A x \in G :
              ha.transition[t].reset[x] \in ha.invariant[ha.transition[t].target]
                => ha.transition[t].reset[x] \in Jumped(o, t, Guarded(o, t, fp, B))
  BY <1>1, JumpedIncludes
<1> QED
  BY <1>1, <1>2

LEMMA CardinalityOfInstance ==
  ASSUME NEW o, NEW S
  PROVE  R(o)!Cardinality(S) = Cardinality(S)
BY DEF R!Cardinality, Cardinality

(* Enabled segments of a finite flowpipe, and blocks of at least one.     *)
LEMMA EnabledAreFinite ==
  ASSUME NEW o, NEW A, NEW t, NEW fp \in Seq(SUBSET Point)
  PROVE  /\ R(o)!EnabledSegments(A, t, fp) \subseteq DOMAIN fp
         /\ \A X : X \subseteq DOMAIN fp => IsFiniteSet(X) /\ Cardinality(X) \in Nat
         /\ \A X : X \subseteq DOMAIN fp /\ X # {} => Cardinality(X) \in Nat \ {0}
<1>1. Len(fp) \in Int /\ DOMAIN fp = 1..Len(fp)
  OBVIOUS
<1>2. IsFiniteSet(1..Len(fp))
  BY <1>1, FS_Interval
<1>3. \A X : X \subseteq DOMAIN fp => IsFiniteSet(X) /\ Cardinality(X) \in Nat
  BY <1>1, <1>2, FS_Subset, FS_CardinalityType
<1>4. \A X : X \subseteq DOMAIN fp /\ X # {} => Cardinality(X) \in Nat \ {0}
  BY <1>3, FS_EmptySet
<1> QED
  BY <1>3, <1>4 DEF R!EnabledSegments

LEMMA BlockSizeIsPositive ==
  ASSUME TypeInv, NEW i \in Levels, NEW o, NEW t \in DOMAIN ha.transition, NEW n \in Nat \ {0}
  PROVE  R(o)!BlockSize(ha, t, strategy[i], n) \in Nat \ {0}
<1> DEFINE size == R(o)!BlockSize(ha, t, strategy[i], n)
           c == strategy[i].clustering
           b == ha.transition[t].clusterBound
<1>1. c \in Int
  BY LevelTypes
<1>2. b \in Nat /\ (ha.transition[t].aggregation = "clustering" => b > 0)
  <2>1. ha.transition[t] \in TransitionType /\ IsAutomaton(ha)
    BY AutomatonTypes DEF TypeInv
  <2> QED
    BY <2>1 DEF TransitionType, IsAutomaton
<1>3. size = IF strategy[i].aggregation = "AGG"
             THEN IF c > 0 THEN (n + c) \div c ELSE n
             ELSE IF strategy[i].aggregation = "MODEL" /\ ha.transition[t].aggregation = "clustering"
                  THEN (1 + b) \div b
                  ELSE 1
  BY DEF R!BlockSize
<1>4. \A d \in Nat, m \in Nat \ {0} : d > 0 => (m + d) \div d \in Nat \ {0}
  <2> SUFFICES ASSUME NEW d \in Nat, NEW m \in Nat \ {0}, d > 0
               PROVE  (m + d) \div d \in Nat \ {0}
    OBVIOUS
  <2>1. m + d \in Nat /\ d \in Nat \ {0} /\ d * 1 <= m + d
    OBVIOUS
  <2>2. (m + d) \div d \in Nat
    BY <2>1, Division
  <2>3. 1 <= (m + d) \div d
    BY <2>1, DivisionBound
  <2> QED
    BY <2>2, <2>3
<1> HIDE DEF size, c, b
<1>5. c > 0 => (n + c) \div c \in Nat \ {0}
  BY <1>1, <1>4
<1>6. b > 0 => (1 + b) \div b \in Nat \ {0}
  BY <1>2, <1>4
<1>7. size \in Nat \ {0}
  BY <1>2, <1>3, <1>5, <1>6
<1> QED
  BY <1>7 DEF size

LEMMA BlockBounds ==
  ASSUME NEW o, NEW A, NEW t, NEW p, NEW fp \in Seq(SUBSET Point), NEW b
  PROVE  /\ R(o)!BlockFirst(A, t, p, fp, b) \in Int /\ R(o)!BlockLast(A, t, p, fp, b) \in Int
         /\ \A k \in DOMAIN fp : k \in R(o)!Block(A, t, p, fp, b) =>
              /\ R(o)!BlockFirst(A, t, p, fp, b) <= k - 1
              /\ k - 1 <= R(o)!BlockLast(A, t, p, fp, b)
<1> DEFINE B == R(o)!Block(A, t, p, fp, b)
           below == {i \in DOMAIN fp : \A m \in B : i < m}
           above == {i \in DOMAIN fp : \A m \in B : i > m}
<1>1. Len(fp) \in Int /\ DOMAIN fp = 1..Len(fp)
  OBVIOUS
<1>2. /\ R(o)!BlockFirst(A, t, p, fp, b) = Cardinality(below)
      /\ R(o)!BlockLast(A, t, p, fp, b) = Len(fp) - Cardinality(above) - 1
  BY CardinalityOfInstance DEF R!BlockFirst, R!BlockLast
<1> HIDE DEF B
<1>3. Cardinality(below) \in Nat /\ Cardinality(above) \in Nat
  <2>1. below \subseteq DOMAIN fp /\ above \subseteq DOMAIN fp
    OBVIOUS
  <2> HIDE DEF below, above
  <2> QED
    BY <2>1, EnabledAreFinite
<1>4. ASSUME NEW k \in DOMAIN fp, k \in B
      PROVE  Cardinality(below) <= k - 1 /\ Cardinality(above) <= Len(fp) - k
  <2>1. k \in Int /\ 1 <= k /\ k <= Len(fp) /\ k + 1 \in Int
    BY <1>1
  <2>2. below \subseteq 1..k - 1 /\ above \subseteq k + 1..Len(fp)
    BY <1>1, <1>4
  <2>3. IsFiniteSet(1..k - 1) /\ Cardinality(1..k - 1) = k - 1
    <3>1. /\ IsFiniteSet(1..k - 1)
          /\ Cardinality(1..k - 1) = IF 1 > k - 1 THEN 0 ELSE k - 1 - 1 + 1
      <4>1. 1 \in Int /\ k - 1 \in Int
        BY <2>1
      <4> QED
        BY <4>1, FS_Interval
    <3> QED
      BY <2>1, <3>1
  <2>4. IsFiniteSet(k + 1..Len(fp)) /\ Cardinality(k + 1..Len(fp)) = Len(fp) - k
    <3>1. /\ IsFiniteSet(k + 1..Len(fp))
          /\ Cardinality(k + 1..Len(fp)) = IF k + 1 > Len(fp) THEN 0 ELSE Len(fp) - (k + 1) + 1
      BY <1>1, <2>1, FS_Interval
    <3> QED
      BY <1>1, <2>1, <3>1
  <2> HIDE DEF below, above
  <2> QED
    BY <2>2, <2>3, <2>4, FS_Subset
<1> HIDE DEF below, above
<1>5. \A k \in DOMAIN fp : k \in Int
  BY <1>1
<1> QED
  BY <1>1, <1>2, <1>3, <1>4, <1>5 DEF B

(* What a node needs of its children: new nodes, one for every jump from  *)
(* its flowpipe, of which it includes the valuation and the time.         *)
IsJump(t, fp, k, x) ==
  /\ k \in DOMAIN fp /\ x \in fp[k] \cap ha.transition[t].guard
  /\ ha.transition[t].reset[x] \in ha.invariant[ha.transition[t].target]

ServesJump(i, n, t, k, x, c) ==
  /\ c.transition = t /\ ha.transition[t].reset[x] \in c.initialSet
  /\ c.lower <= nodes[i][n].lower + (k - 1) * strategy[i].timeStepFactor
  /\ nodes[i][n].upper + k * strategy[i].timeStepFactor <= c.upper

AreChildren(i, n, fp, T, cs) ==
  /\ cs \in Seq(NodeType)
  /\ \A j \in DOMAIN cs : IsNewChild(nodes[i], n, cs[j]) /\ cs[j].transition \in T
  /\ \A t \in T : \A k, x : IsJump(t, fp, k, x) =>
       \E j \in DOMAIN cs : ServesJump(i, n, t, k, x, cs[j])

LEMMA ScalingIsMonotone ==
  ASSUME NEW a \in Int, NEW b \in Int, a <= b, NEW f \in Nat
  PROVE  a * f <= b * f
<1> DEFINE S == {n \in Nat : a * n <= b * n}
<1>1. 0 \in S
  OBVIOUS
<1>2. ASSUME NEW n \in Nat, n \in S PROVE n + 1 \in S
  <2>1. a * n \in Int /\ b * n \in Int /\ a * n <= b * n
    BY <1>2
  <2>2. a * (n + 1) = a * n + a /\ b * (n + 1) = b * n + b
    OBVIOUS
  <2> QED
    BY <2>1, <2>2
<1> HIDE DEF S
<1>3. f \in S
  BY <1>1, <1>2, InductionFromZero
<1> QED
  BY <1>3 DEF S

(* The child for a block of segments.                                     *)
BlockNode(i, n, t, fp, B, first, last) ==
  NewNode(i, n, t, Jumped(strategy[i].over, t, Guarded(strategy[i].over, t, fp, B)),
          Timings(i, n, first, last))

IsWithin(B, first, last) ==
  first \in Int /\ last \in Int /\ \A k \in B : first <= k - 1 /\ k <= last

ServesBlock(i, n, t, fp, B, c) ==
  /\ c \in NodeType /\ IsNewChild(nodes[i], n, c) /\ c.transition = t
  /\ \A k \in B : \A x : IsJump(t, fp, k, x) => ServesJump(i, n, t, k, x, c)

LEMMA ChildServes ==
  ASSUME TypeInv, NEW i \in Levels, NEW n \in DOMAIN nodes[i], NEW t \in DOMAIN ha.transition,
         NEW fp \in Seq(SUBSET Point), NEW B, B \subseteq DOMAIN fp,
         NEW first, NEW last, IsWithin(B, first, last)
  PROVE  ServesBlock(i, n, t, fp, B, BlockNode(i, n, t, fp, B, first, last))
<1> DEFINE o == strategy[i].over
           f == strategy[i].timeStepFactor
           S == Jumped(o, t, Guarded(o, t, fp, B))
           ts == Timings(i, n, first, last)
           lo == nodes[i][n].lower
           up == nodes[i][n].upper
           c == BlockNode(i, n, t, fp, B, first, last)
<1>0. first \in Int /\ last \in Int /\ \A k \in B : first <= k - 1 /\ k <= last
  BY DEF IsWithin
<1>1. IsRepresentation(o) /\ f \in Nat \ {0}
  BY LevelTypes
<1>2. nodes[i] \in Seq(NodeType)
  BY DEF TypeInv, TypeOK
<1>3. lo \in Int /\ up \in Int
  BY <1>2, NodeTypes
<1>4. /\ S \in SUBSET Point
      /\ \A k \in B : \A x \in fp[k] \cap ha.transition[t].guard :
           ha.transition[t].reset[x] \in ha.invariant[ha.transition[t].target]
             => ha.transition[t].reset[x] \in S
  BY <1>1, SuccessorIncludes
<1>5. ts.lower = lo + first * f /\ ts.upper = up + last * f
  BY DEF Timings
<1>6. c = NewNode(i, n, t, S, ts)
  BY DEF BlockNode
<1> HIDE DEF S, ts, lo, up, f, o, c
<1>7. ts.lower \in Int /\ ts.upper \in Int
  BY <1>0, <1>1, <1>3, <1>5
<1>8. /\ c \in NodeType /\ IsNewChild(nodes[i], n, c) /\ c.transition = t
      /\ c.initialSet = S /\ c.lower = ts.lower /\ c.upper = ts.upper
  BY <1>6, <1>7, <1>4, NewNodeIs
<1>9. ASSUME NEW k \in B, NEW x, IsJump(t, fp, k, x)
      PROVE  ServesJump(i, n, t, k, x, c)
  <2>1. k \in Int /\ first <= k - 1 /\ k <= last
    BY <1>0
  <2>2. k - 1 \in Int /\ f \in Nat
    BY <1>1, <2>1
  <2>3. first * f <= (k - 1) * f /\ k * f <= last * f
    BY <1>0, <2>1, <2>2, ScalingIsMonotone
  <2>4. first * f \in Int /\ (k - 1) * f \in Int /\ k * f \in Int /\ last * f \in Int
    BY <1>0, <2>1, <2>2
  <2>5. c.lower <= lo + (k - 1) * f /\ up + k * f <= c.upper
    BY <1>3, <1>5, <1>8, <2>3, <2>4
  <2>6. ha.transition[t].reset[x] \in c.initialSet
    BY <1>4, <1>8, <1>9 DEF IsJump
  <2> QED
    BY <1>8, <2>5, <2>6 DEF ServesJump, lo, up, f
<1> QED
  BY <1>8, <1>9 DEF ServesBlock, c

LEMMA BaseChildrenAre ==
  ASSUME TypeInv, NEW n \in DOMAIN nodes[1], NEW fp \in Seq(SUBSET Point)
  PROVE  AreChildren(1, n, fp, TransitionsFrom(ha, nodes[1][n].location), BaseChildren(n, fp))
<1> DEFINE W == strategy[1]
           o == W.over
           l == nodes[1][n].location
           D == DOMAIN ha.transition
           K(t) == R(o)!EnabledSegments(ha, t, fp)
           blockOf(t, k) == R(o)!BlockOf(ha, t, W, fp, k)
           block(t, b) == R(o)!Block(ha, t, W, fp, b)
           set(t, b) == R(o)!SuccessorSet(ha, t, W, fp, b)
           found == R(o)!NonEmptyJumpSuccessors(ha, l, W, fp)
           before == {p \in Successor \X Successor : R(o)!Before(p[1], p[2])}
           child(j) == NewNode(1, n, j.transition, set(j.transition, j.block),
                         Timings(1, n, R(o)!BlockFirst(ha, j.transition, W, fp, j.block),
                                       R(o)!BlockLast(ha, j.transition, W, fp, j.block) + 1))
           sorted == InOrder(found, before)
           cs == [k \in DOMAIN sorted |-> child(sorted[k])]
<1>1. 1 \in Levels /\ IsRepresentation(o)
  BY LevelTypes
<1>2. BaseChildren(n, fp) = cs
  BY DEF BaseChildren
<1>3. \A t \in D : t \in Nat
  BY TransitionTypes DEF TypeInv
<1>4. \A t \in D : \A k \in K(t) : blockOf(t, k) \in Nat
  <2> SUFFICES ASSUME NEW t \in D, NEW k \in K(t)
               PROVE  blockOf(t, k) \in Nat
    OBVIOUS
  <2> DEFINE rank == Cardinality({j \in K(t) : j < k})
             size == R(o)!BlockSize(ha, t, W, Cardinality(K(t)))
  <2>1. blockOf(t, k) = rank \div size
    BY CardinalityOfInstance DEF R!BlockOf, R!Rank
  <2>2. rank \in Nat /\ Cardinality(K(t)) \in Nat \ {0}
    <3> DEFINE X == K(t)
               Y == {j \in X : j < k}
    <3>1. X \subseteq DOMAIN fp /\ X # {} /\ Y \subseteq DOMAIN fp
      BY EnabledAreFinite
    <3> HIDE DEF X, Y
    <3>2. Cardinality(X) \in Nat \ {0} /\ Cardinality(Y) \in Nat
      BY <3>1, EnabledAreFinite
    <3> QED
      BY <3>2 DEF X, Y
  <2>3. size \in Nat \ {0}
    BY <1>1, <2>2, BlockSizeIsPositive
  <2> HIDE DEF rank, size
  <2>4. rank \div size \in Nat
    BY <2>2, <2>3, Division
  <2> QED
    BY <2>1, <2>4
<1>5. \A t, b : set(t, b) = Jumped(o, t, Guarded(o, t, fp, block(t, b)))
  BY DEF R!SuccessorSet, Jumped, Guarded
<1>6. \A t, b, k : k \in block(t, b) <=> k \in K(t) /\ blockOf(t, k) = b
  BY DEF R!Block
<1>7. \A j : j \in found <=>
        /\ set(j.transition, j.block) # {}
        /\ \E t \in D : \E k \in K(t) :
             /\ ha.transition[t].source = l
             /\ j = [transition |-> t, block |-> blockOf(t, k)]
  BY DEF R!NonEmptyJumpSuccessors, R!JumpSuccessors, R!TransitionsFrom
<1>8. \A t : K(t) \subseteq DOMAIN fp
  BY EnabledAreFinite
<1>e. \A t \in D : \A k \in DOMAIN fp : \A x : IsJump(t, fp, k, x) => k \in K(t)
  <2> SUFFICES ASSUME NEW t \in D, NEW k \in DOMAIN fp, NEW x, IsJump(t, fp, k, x)
               PROVE  k \in K(t)
    OBVIOUS
  <2>1. fp[k] \cap ha.transition[t].guard # {} /\ fp[k] \in SUBSET Point
    BY DEF IsJump
  <2>2. R(o)!Intersect(fp[k], ha.transition[t].guard) # {}
    BY <1>1, <2>1, IntersectIncludes
  <2> QED
    BY <2>2 DEF R!EnabledSegments
<1>f. \A t, b : /\ R(o)!BlockFirst(ha, t, W, fp, b) \in Int /\ R(o)!BlockLast(ha, t, W, fp, b) \in Int
                /\ \A k \in DOMAIN fp : k \in block(t, b) =>
                     /\ R(o)!BlockFirst(ha, t, W, fp, b) <= k - 1
                     /\ k - 1 <= R(o)!BlockLast(ha, t, W, fp, b)
  BY BlockBounds
<1> HIDE DEF K, blockOf, block, set, found
<1>9. \A j \in found : /\ j.transition \in D /\ ha.transition[j.transition].source = l
                       /\ j.transition \in Nat /\ j.block \in Nat /\ j \in Successor
                       /\ j = [transition |-> j.transition, block |-> j.block]
  <2> SUFFICES ASSUME NEW j \in found
               PROVE  /\ j.transition \in D /\ ha.transition[j.transition].source = l
                      /\ j.transition \in Nat /\ j.block \in Nat /\ j \in Successor
                      /\ j = [transition |-> j.transition, block |-> j.block]
    OBVIOUS
  <2>0. PICK t \in D : \E k \in K(t) :
          ha.transition[t].source = l /\ j = [transition |-> t, block |-> blockOf(t, k)]
    BY <1>7
  <2>1. PICK k \in K(t) :
          ha.transition[t].source = l /\ j = [transition |-> t, block |-> blockOf(t, k)]
    BY <2>0
  <2>2. blockOf(t, k) \in Nat /\ t \in Nat
    BY <1>3, <1>4
  <2> QED
    BY <2>1, <2>2 DEF Successor
<1>10. IsFiniteSet(found)
  <2> DEFINE P == D \X DOMAIN fp
             g == [p \in P |-> [transition |-> p[1], block |-> blockOf(p[1], p[2])]]
             T == {g[p] : p \in P}
  <2>1. IsFiniteSet(D) /\ IsFiniteSet(DOMAIN fp)
    <3>1. ha.transition \in Seq(TransitionType)
      BY AutomatonTypes DEF TypeInv
    <3>2. D = 1..Len(ha.transition) /\ Len(ha.transition) \in Int
      BY <3>1
    <3>3. IsFiniteSet(D)
      BY <3>2, FS_Interval
    <3> QED
      BY <3>3, EnabledAreFinite
  <2>2. IsFiniteSet(P)
    BY <2>1, FS_Product
  <2>3. g \in Surjection(P, T)
    BY DEF Surjection
  <2>4. IsFiniteSet(T)
    <3> HIDE DEF g, T, P
    <3> QED
      BY <2>2, <2>3, FS_Surjection
  <2>5. ASSUME NEW j \in found PROVE j \in T
    <3>0. PICK t \in D : \E k \in K(t) : j = [transition |-> t, block |-> blockOf(t, k)]
      BY <1>7
    <3>1. PICK k \in K(t) : j = [transition |-> t, block |-> blockOf(t, k)]
      BY <3>0
    <3>2. <<t, k>> \in P
      BY <1>8
    <3>3. g[<<t, k>>] = j
      BY <3>1, <3>2
    <3> QED
      BY <3>2, <3>3
  <2>6. found \in SUBSET T
    BY <2>5
  <2> HIDE DEF T
  <2> QED
    BY <2>4, <2>6, FS_Subset
<1>11. IsOrder(found, before)
  <2>1. \A i, j \in found : <<i, j>> \in before <=>
          \/ i.transition < j.transition
          \/ i.transition = j.transition /\ i.block < j.block
    BY <1>9 DEF R!Before
  <2> HIDE DEF before
  <2>2. \A i \in found : <<i, i>> \notin before
    BY <1>9, <2>1
  <2>3. \A i, j \in found : i # j => <<i, j>> \in before \/ <<j, i>> \in before
    <3> SUFFICES ASSUME NEW i \in found, NEW j \in found, i # j
                 PROVE  <<i, j>> \in before \/ <<j, i>> \in before
      OBVIOUS
    <3>1. i.transition # j.transition \/ i.block # j.block
      BY <1>9
    <3> QED
      BY <1>9, <2>1, <3>1
  <2>4. \A i, j, k \in found : <<i, j>> \in before /\ <<j, k>> \in before => <<i, k>> \in before
    <3> SUFFICES ASSUME NEW i \in found, NEW j \in found, NEW k \in found,
                        <<i, j>> \in before, <<j, k>> \in before
                 PROVE  <<i, k>> \in before
      OBVIOUS
    <3>1. /\ i.transition \in Nat /\ j.transition \in Nat /\ k.transition \in Nat
          /\ i.block \in Nat /\ j.block \in Nat /\ k.block \in Nat
      BY <1>9
    <3> QED
      BY <2>1, <3>1
  <2> QED
    BY <2>2, <2>3, <2>4 DEF IsOrder
<1>12. sorted \in Seq(found) /\ \A j \in found : \E k \in DOMAIN sorted : sorted[k] = j
  <2> HIDE DEF before
  <2>1. /\ InOrder(found, before) \in Seq(found)
        /\ \A j \in found : \E k \in DOMAIN InOrder(found, before) : InOrder(found, before)[k] = j
    BY <1>10, <1>11, InOrderLists
  <2> QED
    BY <2>1 DEF sorted
<1> HIDE DEF sorted, before
<1>13. ASSUME NEW j \in found
       PROVE  /\ child(j) \in NodeType /\ IsNewChild(nodes[1], n, child(j))
              /\ child(j).transition = j.transition
              /\ \A k \in block(j.transition, j.block) : \A x :
                   IsJump(j.transition, fp, k, x) => ServesJump(1, n, j.transition, k, x, child(j))
  <2> DEFINE t == j.transition
             B == block(t, j.block)
             first == R(o)!BlockFirst(ha, t, W, fp, j.block)
             last == R(o)!BlockLast(ha, t, W, fp, j.block) + 1
             c == child(j)
  <2>1. t \in D
    BY <1>9
  <2>2. B \subseteq DOMAIN fp
    BY <1>6, <1>8
  <2>3. first \in Int /\ last \in Int /\ \A k \in B : first <= k - 1 /\ k <= last
    <3>1. /\ first \in Int /\ last - 1 \in Int /\ last \in Int
          /\ \A k \in B : k \in Int /\ first <= k - 1 /\ k - 1 <= last - 1
      BY <1>f, <2>2
    <3> HIDE DEF first, last, B
    <3> QED
      BY <3>1
  <2>4. c = BlockNode(1, n, t, fp, B, first, last)
    BY <1>5 DEF BlockNode
  <2> HIDE DEF c, first, last, B
  <2>5. IsWithin(B, first, last)
    BY <2>3 DEF IsWithin
  <2>6. ServesBlock(1, n, t, fp, B, c)
    BY <1>1, <2>1, <2>2, <2>4, <2>5, ChildServes
  <2> QED
    BY <2>6 DEF ServesBlock, c, B
<1> HIDE DEF child
<1>14. cs \in Seq(NodeType) /\ DOMAIN cs = DOMAIN sorted /\ \A k \in DOMAIN sorted : cs[k] = child(sorted[k])
  <2>1. DOMAIN sorted = 1..Len(sorted) /\ Len(sorted) \in Nat /\ \A k \in DOMAIN sorted : sorted[k] \in found
    BY <1>12
  <2>2. \A k \in DOMAIN sorted : child(sorted[k]) \in NodeType
    BY <1>13, <2>1
  <2> QED
    BY <2>1, <2>2
<1> HIDE DEF cs
<1>15. ASSUME NEW k \in DOMAIN cs
       PROVE  IsNewChild(nodes[1], n, cs[k]) /\ cs[k].transition \in TransitionsFrom(ha, l)
  <2>1. sorted[k] \in found /\ cs[k] = child(sorted[k])
    BY <1>12, <1>14
  <2> QED
    BY <1>9, <1>13, <2>1 DEF TransitionsFrom
<1>16. ASSUME NEW t \in TransitionsFrom(ha, l), NEW k, NEW x, IsJump(t, fp, k, x)
       PROVE  \E j \in DOMAIN cs : ServesJump(1, n, t, k, x, cs[j])
  <2> DEFINE b == blockOf(t, k)
             j == [transition |-> t, block |-> b]
  <2>1. t \in D /\ ha.transition[t].source = l
    BY DEF TransitionsFrom
  <2>2. k \in K(t) /\ k \in DOMAIN fp
    BY <1>e, <1>16, <2>1 DEF IsJump
  <2>3. k \in block(t, b)
    BY <1>6, <2>2
  <2>4. set(t, b) # {}
    <3>1. block(t, b) \subseteq DOMAIN fp
      BY <1>6, <1>8
    <3>2. ha.transition[t].reset[x] \in set(t, b)
      BY <1>1, <1>5, <1>16, <2>1, <2>3, <3>1, SuccessorIncludes DEF IsJump
    <3> QED
      BY <3>2
  <2>5. j \in found
    BY <1>7, <2>1, <2>2, <2>4
  <2>6. PICK m \in DOMAIN sorted : sorted[m] = j
    BY <1>12, <2>5
  <2>7. j.transition = t /\ j.block = b
    OBVIOUS
  <2> HIDE DEF j, b
  <2>8. ServesJump(1, n, t, k, x, child(j))
    BY <1>13, <1>16, <2>3, <2>5, <2>7
  <2> QED
    BY <1>14, <2>6, <2>8
<1> QED
  BY <1>2, <1>14, <1>15, <1>16 DEF AreChildren

(* The blocks of a refinement partition the enabled segments: those with  *)
(* the same first one.                                                    *)
(* Successors of a refinement level stem from a block of segments each.   *)
IsBlock(i, fp, c) ==
  /\ c.initialSet # {}
  /\ \E B : /\ B \subseteq DOMAIN fp
            /\ c.initialSet =
                 Jumped(strategy[i].over, c.transition, Guarded(strategy[i].over, c.transition, fp, B))

AreBlocks(i, fp, cs) == \A j \in DOMAIN cs : IsBlock(i, fp, cs[j])

LEMMA BlockNodeIs ==
  ASSUME TypeInv, NEW i \in Levels, NEW n \in DOMAIN nodes[i], NEW t \in DOMAIN ha.transition,
         NEW fp \in Seq(SUBSET Point), NEW B, B \subseteq DOMAIN fp, NEW first \in Int, NEW last \in Int
  PROVE  LET c == BlockNode(i, n, t, fp, B, first, last)
         IN  /\ c.transition = t
             /\ c.initialSet = Jumped(strategy[i].over, t, Guarded(strategy[i].over, t, fp, B))
<1> DEFINE o == strategy[i].over
           S == Jumped(o, t, Guarded(o, t, fp, B))
           timings == Timings(i, n, first, last)
<1>1. IsRepresentation(o)
  BY LevelTypes
<1> HIDE DEF o
<1>2. S \in SUBSET Point
  BY <1>1, SuccessorIncludes
<1>3. timings.lower \in Int /\ timings.upper \in Int
  <2> DEFINE lo == nodes[i][n].lower
             up == nodes[i][n].upper
             f == strategy[i].timeStepFactor
  <2>1. lo \in Int /\ up \in Int /\ f \in Int
    <3>1. nodes[i] \in Seq(NodeType)
      BY DEF TypeInv, TypeOK
    <3> QED
      BY <3>1, NodeTypes, LevelTypes
  <2>2. timings.lower = lo + first * f /\ timings.upper = up + last * f
    BY DEF Timings
  <2> HIDE DEF timings, lo, up, f
  <2>3. first * f \in Int /\ last * f \in Int
    BY <2>1
  <2> QED
    BY <2>1, <2>2, <2>3
<1> HIDE DEF S, timings
<1>4. /\ NewNode(i, n, t, S, timings).transition = t
      /\ NewNode(i, n, t, S, timings).initialSet = S
  BY <1>2, <1>3, NewNodeIs
<1> QED
  BY <1>4 DEF BlockNode, S, timings, o

LEMMA RefinedSuccessorsAre ==
  ASSUME TypeInv, NEW i \in Levels, NEW n \in DOMAIN nodes[i], NEW t \in DOMAIN ha.transition,
         NEW fp \in Seq(SUBSET Point)
  PROVE  /\ AreChildren(i, n, fp, {t}, RefinedSuccessors(i, n, t, fp))
         /\ AreBlocks(i, fp, RefinedSuccessors(i, n, t, fp))
<1> DEFINE W == strategy[i]
           o == W.over
           K == R(o)!EnabledSegments(ha, t, fp)
           size == R(o)!BlockSize(ha, t, W, Len(fp))
           first[k \in DOMAIN fp] ==
             IF k - 1 \in K /\ k - first[k - 1] < size THEN first[k - 1] ELSE k
           parts == {{k \in K : first[k] = f} : f \in {first[k] : k \in K}}
           blocks == {b \in parts : BlockSet(i, t, fp, b) # {}}
           low(b) == CHOOSE k \in b : \A j \in b : k <= j
           high(b) == CHOOSE k \in b : \A j \in b : j <= k
           child(b) == NewNode(i, n, t, BlockSet(i, t, fp, b), Timings(i, n, low(b) - 1, high(b) + 1))
           before == {p \in (SUBSET Nat) \X (SUBSET Nat) : low(p[1]) < low(p[2])}
           sorted == InOrder(blocks, before)
           cs == [k \in DOMAIN sorted |-> child(sorted[k])]
<1>1. RefinedSuccessors(i, n, t, fp) = cs
  BY DEF RefinedSuccessors
<1>2. IsRepresentation(o)
  BY LevelTypes
<1>3. K \subseteq DOMAIN fp /\ Len(fp) \in Int /\ DOMAIN fp = 1..Len(fp) /\ IsFiniteSet(K)
  BY EnabledAreFinite
<1>4. \A k \in DOMAIN fp : \A x : IsJump(t, fp, k, x) => k \in K
  <2> SUFFICES ASSUME NEW k \in DOMAIN fp, NEW x, IsJump(t, fp, k, x)
               PROVE  k \in K
    OBVIOUS
  <2>1. fp[k] \cap ha.transition[t].guard # {} /\ fp[k] \in SUBSET Point
    BY DEF IsJump
  <2>2. R(o)!Intersect(fp[k], ha.transition[t].guard) # {}
    BY <1>2, <2>1, IntersectIncludes
  <2> QED
    BY <2>2 DEF R!EnabledSegments
<1> HIDE DEF K, first
<1>5. \A b : b \in blocks <=>
        /\ BlockSet(i, t, fp, b) # {}
        /\ \E m \in K : b = {k \in K : first[k] = first[m]}
  OBVIOUS
<1>6. \A b : BlockSet(i, t, fp, b) = Jumped(o, t, Guarded(o, t, fp, b))
  BY DEF BlockSet, Jumped, Guarded
<1> HIDE DEF blocks
<1>7. ASSUME NEW b \in blocks
      PROVE  /\ b \in SUBSET K /\ b \in SUBSET Nat /\ b # {}
             /\ low(b) \in b /\ high(b) \in b /\ low(b) \in Int /\ high(b) \in Int
             /\ \A k \in b : low(b) <= k /\ k <= high(b)
  <2>1. PICK m \in K : b = {k \in K : first[k] = first[m]}
    BY <1>5
  <2>2. b \in SUBSET K /\ b \in SUBSET (Nat \ {0}) /\ m \in b
    BY <1>3, <2>1
  <2>b. b \in SUBSET Int /\ b # {} /\ 0 \in Int /\ Len(fp) \in Int
        /\ (\A k \in b : 0 <= k) /\ (\A k \in b : k <= Len(fp))
    BY <1>3, <2>2
  <2> HIDE DEF low, high
  <2>3. \E k \in b : \A j \in b : k <= j
    BY <2>b, LeastExists
  <2>4. \E k \in b : \A j \in b : j <= k
    BY <2>b, GreatestExists
  <2>5. low(b) \in b /\ (\A j \in b : low(b) <= j)
    BY <2>3 DEF low
  <2>6. high(b) \in b /\ (\A j \in b : j <= high(b))
    BY <2>4 DEF high
  <2>7. \A k \in b : low(b) <= k /\ k <= high(b)
    BY <2>5, <2>6
  <2>8. b \in SUBSET K /\ b \in SUBSET Nat /\ b # {}
    BY <2>2
  <2> QED
    BY <2>b, <2>5, <2>6, <2>7, <2>8
<1> HIDE DEF low, high
<1>8. \A a, b \in blocks : low(a) = low(b) => a = b
  <2> SUFFICES ASSUME NEW a \in blocks, NEW b \in blocks, low(a) = low(b)
               PROVE  a = b
    OBVIOUS
  <2>1. low(a) \in a /\ low(a) \in b
    BY <1>7
  <2>2. PICK m \in K : a = {k \in K : first[k] = first[m]}
    BY <1>5
  <2>3. PICK q \in K : b = {k \in K : first[k] = first[q]}
    BY <1>5
  <2>4. first[m] = first[q]
    BY <2>1, <2>2, <2>3
  <2> QED
    BY <2>2, <2>3, <2>4
<1>9. IsFiniteSet(blocks)
  <2>1. IsFiniteSet(SUBSET K)
    BY <1>3, FS_SUBSET
  <2>2. blocks \in SUBSET SUBSET K
    BY <1>7
  <2> QED
    BY <2>1, <2>2, FS_Subset
<1>10. IsOrder(blocks, before)
  <2>1. \A a, b \in blocks : <<a, b>> \in before <=> low(a) < low(b)
    BY <1>7
  <2> HIDE DEF before
  <2> QED
    BY <1>7, <1>8, <2>1 DEF IsOrder
<1>11. sorted \in Seq(blocks) /\ \A b \in blocks : \E k \in DOMAIN sorted : sorted[k] = b
  <2> HIDE DEF before
  <2>1. /\ InOrder(blocks, before) \in Seq(blocks)
        /\ \A j \in blocks : \E k \in DOMAIN InOrder(blocks, before) : InOrder(blocks, before)[k] = j
    BY <1>9, <1>10, InOrderLists
  <2> QED
    BY <2>1 DEF sorted
<1> HIDE DEF sorted, before
<1>12. ASSUME NEW b \in blocks
       PROVE  ServesBlock(i, n, t, fp, b, child(b)) /\ IsBlock(i, fp, child(b))
  <2> DEFINE lo == low(b) - 1
             hi == high(b) + 1
             c == child(b)
  <2>1. b \subseteq DOMAIN fp
    BY <1>3, <1>7
  <2>2. IsWithin(b, lo, hi)
    <3>1. /\ low(b) \in Int /\ high(b) \in Int
          /\ \A k \in b : k \in Int /\ low(b) <= k /\ k <= high(b)
      BY <1>7
    <3> QED
      BY <3>1 DEF IsWithin
  <2>3. c = BlockNode(i, n, t, fp, b, lo, hi)
    BY <1>6 DEF BlockNode
  <2> HIDE DEF c, lo, hi
  <2>4. ServesBlock(i, n, t, fp, b, c)
    BY <2>1, <2>2, <2>3, ChildServes
  <2>5. c.transition = t /\ c.initialSet = Jumped(o, t, Guarded(o, t, fp, b))
    BY <2>1, <2>2, <2>3, BlockNodeIs DEF IsWithin
  <2>6. BlockSet(i, t, fp, b) # {}
    BY <1>5
  <2>7. IsBlock(i, fp, c)
    <3> HIDE DEF o
    <3>1. c.initialSet # {} /\ b \subseteq DOMAIN fp
      BY <1>6, <2>1, <2>5, <2>6
    <3> QED
      BY <2>5, <3>1 DEF IsBlock, o
  <2> QED
    BY <2>4, <2>7 DEF c
<1> HIDE DEF child
<1>13. cs \in Seq(NodeType) /\ DOMAIN cs = DOMAIN sorted /\ \A k \in DOMAIN sorted : cs[k] = child(sorted[k])
  <2>1. DOMAIN sorted = 1..Len(sorted) /\ Len(sorted) \in Nat /\ \A k \in DOMAIN sorted : sorted[k] \in blocks
    BY <1>11
  <2>2. \A k \in DOMAIN sorted : child(sorted[k]) \in NodeType
    BY <1>12, <2>1 DEF ServesBlock
  <2> QED
    BY <2>1, <2>2
<1> HIDE DEF cs
<1>14. ASSUME NEW k \in DOMAIN cs
       PROVE  IsNewChild(nodes[i], n, cs[k]) /\ cs[k].transition \in {t}
  <2>1. sorted[k] \in blocks /\ cs[k] = child(sorted[k])
    BY <1>11, <1>13
  <2> QED
    BY <1>12, <2>1 DEF ServesBlock
<1>15. ASSUME NEW k, NEW x, IsJump(t, fp, k, x)
       PROVE  \E j \in DOMAIN cs : ServesJump(i, n, t, k, x, cs[j])
  <2> DEFINE b == {j \in K : first[j] = first[k]}
  <2>1. k \in K /\ k \in DOMAIN fp
    BY <1>4, <1>15 DEF IsJump
  <2>2. k \in b /\ b \subseteq DOMAIN fp
    BY <1>3, <2>1
  <2>3. BlockSet(i, t, fp, b) # {}
    <3> HIDE DEF b
    <3>1. ha.transition[t].reset[x] \in Jumped(o, t, Guarded(o, t, fp, b))
      BY <1>2, <1>15, <2>2, SuccessorIncludes DEF IsJump
    <3> QED
      BY <1>6, <3>1
  <2>4. b \in blocks
    BY <1>5, <2>1, <2>3
  <2> HIDE DEF b
  <2>5. PICK m \in DOMAIN sorted : sorted[m] = b
    BY <1>11, <2>4
  <2>6. ServesJump(i, n, t, k, x, child(b))
    BY <1>12, <1>15, <2>2, <2>4 DEF ServesBlock
  <2> QED
    BY <1>13, <2>5, <2>6
<1>16. ASSUME NEW k \in DOMAIN cs
       PROVE  IsBlock(i, fp, cs[k])
  <2>1. sorted[k] \in blocks /\ cs[k] = child(sorted[k])
    BY <1>11, <1>13
  <2> QED
    BY <1>12, <2>1
<1> QED
  BY <1>1, <1>13, <1>14, <1>15, <1>16 DEF AreChildren, AreBlocks

--------------------------------------------------------------------------
(* Visits along a trace: their types, and times in order.                 *)
LEMMA TraceTypes ==
  ASSUME NEW r, IsTrace(r), NEW k \in DOMAIN r
  PROVE  /\ k \in Nat /\ 1 <= k /\ k <= Len(r) /\ Len(r) \in Nat /\ DOMAIN r = 1..Len(r)
         /\ Len(r) <= jumpDepth + 1 /\ 1 \in DOMAIN r
         /\ r[k] \in VisitType /\ IsVisit(r[k])
         /\ r[k].location \in Location /\ r[k].entry \in Point /\ r[k].first \in Point
         /\ r[k].steps \in Nat /\ r[k].transition \in Nat
         /\ r[k].earliest \in Int /\ r[k].latest \in Int
<1>1. r \in Seq(VisitType) /\ Len(r) \in 1..jumpDepth + 1 /\ IsVisit(r[k])
  BY DEF IsTrace
<1>2. r[k] \in VisitType /\ jumpDepth \in Nat
  BY <1>1, BoundsAssumption
<1>3. /\ r[k].location \in Location /\ r[k].entry \in Point /\ r[k].first \in Point
      /\ r[k].steps \in Nat /\ r[k].transition \in Nat
      /\ r[k].earliest \in Int /\ r[k].latest \in Int
  BY <1>2 DEF VisitType
<1> QED
  BY <1>1, <1>2, <1>3

LEMMA TraceTimes ==
  ASSUME NEW r, IsTrace(r), NEW k \in DOMAIN r
  PROVE  r[k].earliest <= r[k].latest
<1> DEFINE T == {j \in DOMAIN r : ~(r[j].earliest <= r[j].latest)}
<1> SUFFICES ASSUME T # {}
             PROVE  FALSE
  OBVIOUS
<1>1. T \in SUBSET Nat
  BY TraceTypes
<1>2. PICK m \in T : \A j \in T : m <= j
  BY <1>1, LeastNumber
<1>3. m \in DOMAIN r /\ m \in Nat /\ 1 <= m /\ m <= Len(r) /\ ~(r[m].earliest <= r[m].latest)
  BY TraceTypes
<1>4. m # 1
  BY <1>3 DEF IsTrace, IsFirst
<1>5. m - 1 \in DOMAIN r /\ m \in 2..Len(r) /\ m - 1 < m
  BY <1>3, <1>4, TraceTypes
<1>6. m - 1 \notin T
  BY <1>1, <1>2, <1>3, <1>5
<1>7. r[m - 1].earliest <= r[m - 1].latest
  BY <1>5, <1>6
<1>8. /\ r[m].earliest = r[m - 1].earliest + r[m - 1].steps
      /\ r[m].latest = r[m - 1].latest + r[m - 1].steps + 1
  BY <1>5 DEF IsTrace, Follows
<1>9. /\ r[m - 1].steps \in Nat /\ r[m - 1].earliest \in Int /\ r[m - 1].latest \in Int
  BY <1>5, TraceTypes
<1> QED
  BY <1>3, <1>7, <1>8, <1>9

(* A child that includes the next visit of a run that its parent is on.   *)
LEMMA ChildCovers ==
  ASSUME NEW i, NEW ns, IsForest(ns), NEW m \in DOMAIN ns, NEW n \in DOMAIN ns,
         n # NoNode, ns[m].parent = n, NEW r, IsTrace(r), Covers(i, ns, n, r),
         NEW d, d = ns[n].depth, d + 2 \in DOMAIN r,
         Includes(ns[m], r[d + 2]), r[d + 2].transition = ns[m].transition
  PROVE  Covers(i, ns, m, r)
<1>1. ns[m].parent # NoNode /\ ns[m].depth = d + 1 /\ d \in Nat
  BY ParentIsEarlier, NodeTypes DEF IsForest
<1>2. StartsIn(i, ns, m, r[1].location)
  BY <1>1, StartOfChild DEF Covers
<1> DEFINE p == PathTo(i, ns, n)
           e == LastJump(ns, m)
           q == PathTo(i, ns, m)
<1>3. q = Append(p, e) /\ p \in Seq(JumpType) /\ Len(p) = d
  BY <1>1, PathUnfolds, PathType
<1>4. PathMatches(p, r)
  BY DEF Covers
<1>5. /\ e.transition = r[d + 2].transition
      /\ e.lower <= r[d + 2].earliest /\ r[d + 2].latest <= e.upper
  BY DEF LastJump, Includes
<1>6. e \in JumpType
  BY NodeTypes DEF LastJump, JumpType, IsForest
<1> HIDE DEF p, q, e
<1>7. PathMatches(q, r)
  <2>1. /\ DOMAIN q = DOMAIN p \cup {d + 1}
        /\ (\A j \in DOMAIN p : q[j] = p[j])
        /\ q[d + 1] = e
    BY <1>3, <1>6, Appended
  <2>2. (d + 1) + 1 = d + 2
    BY <1>1
  <2> QED
    BY <1>4, <1>5, <2>1, <2>2 DEF PathMatches
<1>8. ns[m].depth + 1 = d + 2
  BY <1>1
<1> QED
  BY <1>2, <1>7, <1>8 DEF Covers, q

(* New nodes behind a node whose flowpipe follows the run.                *)
IsExpansion(i, ns, n, fp, cs, ms) ==
  /\ ms \in Seq(NodeType) /\ IsTree(i, ms) /\ IsForest(ms) /\ Extends(ns, ms)
  /\ Len(ms) = Len(ns) + Len(cs)
  /\ \A m \in DOMAIN ns : /\ m \in DOMAIN ms
                         /\ ms[m].flowpipe = IF m = n THEN fp ELSE ns[m].flowpipe
  /\ \A k \in DOMAIN cs : Len(ns) + k \in DOMAIN ms /\ ms[Len(ns) + k] = cs[k]
  /\ \A m \in DOMAIN ms : m \in DOMAIN ns \/ \E k \in DOMAIN cs : m = Len(ns) + k

LEMMA NodesExpanded ==
  ASSUME NEW i, NEW ns \in Seq(NodeType), IsTree(i, ns), NEW n \in DOMAIN ns,
         NEW fp \in Seq(SUBSET Point), NEW cs \in Seq(NodeType),
         \A k \in DOMAIN cs : IsNewChild(ns, n, cs[k])
  PROVE  IsExpansion(i, ns, n, fp, cs, [ns EXCEPT ![n].flowpipe = fp] \o cs)
<1> DEFINE ks == [ns EXCEPT ![n].flowpipe = fp]
           ms == ks \o cs
<1>1. /\ ks \in Seq(NodeType) /\ DOMAIN ks = DOMAIN ns /\ Len(ks) = Len(ns) /\ Extends(ns, ks)
      /\ ks[n].flowpipe = fp /\ \A m \in DOMAIN ns : m # n => ks[m] = ns[m]
  <2>1. ks \in Seq(NodeType) /\ Extends(ns, ks)
    BY FlowpipeStored
  <2>3. ks[n].flowpipe = fp
    BY FlowpipeStored
  <2>4. DOMAIN ks = DOMAIN ns
    BY FlowpipeStored
  <2>5. Len(ks) = Len(ns)
    BY FlowpipeStored
  <2>2. \A m \in DOMAIN ns : m # n => ks[m] = ns[m]
    BY FlowpipeStored
  <2> HIDE DEF ks
  <2> QED
    BY <2>1, <2>2, <2>3, <2>4, <2>5
<1> HIDE DEF ks
<1>2. IsTree(i, ks)
  BY <1>1, TreeGrows
<1>3. \A k \in DOMAIN cs : IsNewChild(ks, n, cs[k])
  BY <1>1 DEF IsNewChild, Extends, SameNode
<1>4. ms \in Seq(NodeType) /\ IsTree(i, ms) /\ Extends(ks, ms)
  BY <1>1, <1>2, <1>3, ChildrenAdded
<1>5. /\ Len(ms) = Len(ks) + Len(cs)
      /\ (\A m \in DOMAIN ks : m \in DOMAIN ms /\ ms[m] = ks[m])
      /\ (\A k \in DOMAIN cs : Len(ks) + k \in DOMAIN ms /\ ms[Len(ks) + k] = cs[k])
      /\ (\A m \in DOMAIN ms : m \in DOMAIN ks \/ \E k \in DOMAIN cs : m = Len(ks) + k)
  <2>1. ks \in Seq(NodeType) /\ cs \in Seq(NodeType)
    BY <1>1
  <2>2. Len(ms) = Len(ks) + Len(cs)
    BY <2>1, Concatenated
  <2>3. \A m \in DOMAIN ks : m \in DOMAIN ms /\ ms[m] = ks[m]
    BY <2>1, Concatenated
  <2>4. \A k \in DOMAIN cs : Len(ks) + k \in DOMAIN ms /\ ms[Len(ks) + k] = cs[k]
    BY <2>1, Concatenated
  <2>5. \A m \in DOMAIN ms : m \in DOMAIN ks \/ \E k \in DOMAIN cs : m = Len(ks) + k
    BY <2>1, Concatenated
  <2> QED
    BY <2>2, <2>3, <2>4, <2>5
<1> HIDE DEF ms
<1>6. Extends(ns, ms) /\ IsForest(ms)
  BY <1>1, <1>4, ExtendsTransitive, TreeIsForest
<1>7. \A m \in DOMAIN ns : /\ m \in DOMAIN ms
                          /\ ms[m].flowpipe = IF m = n THEN fp ELSE ns[m].flowpipe
  BY <1>1, <1>5
<1>8. IsExpansion(i, ns, n, fp, cs, ms)
  BY <1>1, <1>4, <1>5, <1>6, <1>7 DEF IsExpansion
<1> QED
  BY <1>8 DEF ms, ks

LEMMA ExpansionCovers ==
  ASSUME TypeInv, NEW i \in Levels, NEW n \in DOMAIN nodes[i], IsForest(nodes[i]),
         NEW r, IsTrace(r), Covers(i, nodes[i], n, r),
         NEW d, d = nodes[i][n].depth, d + 2 \in DOMAIN r,
         NEW fp, IsFlowpipeOf(i, nodes[i][n].location, nodes[i][n].initialSet, fp),
         ~MeetsBadStates(i, nodes[i][n].location, fp),
         NEW T, r[d + 2].transition \in T, NEW cs, AreChildren(i, n, fp, T, cs),
         T \subseteq DOMAIN ha.transition,
         NEW ms, IsExpansion(i, nodes[i], n, fp, cs, ms)
  PROVE  \E k \in DOMAIN cs : /\ Covers(i, ms, Len(nodes[i]) + k, r)
                              /\ cs[k].transition = r[d + 2].transition
<1> DEFINE v == r[d + 1]
           u == r[d + 2]
           t == u.transition
           x == Position(v, v.steps)
           f == strategy[i].timeStepFactor
           k == v.steps \div f + 1
           node == nodes[i][n]
<1>1. /\ node \in NodeType /\ d \in Nat /\ n # NoNode /\ n \in Nat
      /\ node.initialSet \in SUBSET Point /\ node.lower \in Int /\ node.upper \in Int
  BY NodeTypes DEF IsForest
<1>2. d + 1 \in DOMAIN r /\ Includes(node, v)
  BY DEF Covers
<1>3. /\ v \in VisitType /\ IsVisit(v) /\ v.steps \in Nat
      /\ v.earliest \in Int /\ v.latest \in Int /\ u.earliest \in Int /\ u.latest \in Int
  BY <1>2, TraceTypes
<1>4. Follows(v, u) /\ IsVisit(u)
  <2>1. d + 2 \in 2..Len(r) /\ (d + 2) - 1 = d + 1
    BY <1>1, TraceTypes
  <2>2. \A j \in 2..Len(r) : Follows(r[j - 1], r[j])
    BY DEF IsTrace
  <2>3. Follows(r[(d + 2) - 1], r[d + 2])
    BY <2>1, <2>2
  <2> QED
    BY <2>1, <2>3, TraceTypes
<1>5. f \in Nat \ {0}
  BY LevelTypes
<1>6. k \in DOMAIN fp /\ x \in fp[k]
  <2>1. v.entry \in node.initialSet /\ v.location = node.location
    BY <1>2 DEF Includes
  <2>2. \A s \in 0..v.steps :
           LET j == s \div strategy[i].timeStepFactor + 1
           IN  j \in 1..Len(fp) /\ Position(v, s) \in fp[j]
    BY <1>1, <1>3, <2>1, VisitIsCovered
  <2>3. v.steps \in 0..v.steps
    BY <1>3
  <2>4. fp \in Seq(SUBSET Point)
    BY DEF IsFlowpipeOf
  <2> HIDE DEF v, u, x
  <2> QED
    BY <2>2, <2>3, <2>4 DEF x
<1>7. /\ t \in DOMAIN ha.transition /\ u.location = ha.transition[t].target
      /\ x \in ha.transition[t].guard /\ u.entry = ha.transition[t].reset[x]
      /\ u.earliest = v.earliest + v.steps /\ u.latest = v.latest + v.steps + 1
  BY <1>4 DEF Follows
<1>8. u.entry \in ha.invariant[u.location]
  BY <1>4 DEF IsVisit, Enters
<1> HIDE DEF v, u, x, t, k, f
<1>9. IsJump(t, fp, k, x)
  BY <1>6, <1>7, <1>8 DEF IsJump
<1>10. PICK j \in DOMAIN cs : ServesJump(i, n, t, k, x, cs[j])
  BY <1>9 DEF AreChildren, t, u
<1> DEFINE m == Len(nodes[i]) + j
<1>11. m \in DOMAIN ms /\ ms[m] = cs[j] /\ IsNewChild(nodes[i], n, cs[j])
  BY DEF IsExpansion, AreChildren
<1>12. Includes(cs[j], u)
  <2>1. cs[j].location = ha.transition[t].target
    BY <1>10, <1>11 DEF IsNewChild, ServesJump
  <2>2. u.entry \in cs[j].initialSet
    BY <1>7, <1>10 DEF ServesJump
  <2>3. cs[j].lower <= node.lower + (k - 1) * f /\ node.upper + k * f <= cs[j].upper
    BY <1>10 DEF ServesJump, f
  <2>4. node.lower <= v.earliest /\ v.latest <= node.upper
    BY <1>2 DEF Includes
  <2>5. /\ k \in Int /\ k - 1 = v.steps \div f
        /\ f * (v.steps \div f) <= v.steps /\ v.steps + 1 <= f * ((v.steps \div f) + 1)
    <3> DEFINE s == v.steps
               q == s \div f
    <3>1. s \in Nat /\ k = q + 1
      BY <1>3 DEF k
    <3>2. q \in Nat /\ f * q <= s /\ s + 1 <= f * (q + 1)
      BY <1>5, <3>1, Division
    <3> HIDE DEF q
    <3>3. k \in Int /\ k - 1 = q
      BY <3>1, <3>2
    <3> QED
      BY <3>2, <3>3 DEF q
  <2>6. /\ (k - 1) * f <= v.steps /\ v.steps + 1 <= k * f
        /\ (k - 1) * f \in Int /\ k * f \in Int
    BY <1>5, <2>5
  <2>7. cs[j] \in NodeType
    BY DEF AreChildren
  <2>8. cs[j].lower \in Int /\ cs[j].upper \in Int
    BY <2>7 DEF NodeType
  <2>9. cs[j].lower <= u.earliest /\ u.latest <= cs[j].upper
    BY <1>1, <1>3, <1>7, <2>3, <2>4, <2>6, <2>8
  <2> QED
    BY <1>7, <2>1, <2>2, <2>9 DEF Includes
<1>13. Covers(i, ms, n, r) /\ n \in DOMAIN ms /\ d = ms[n].depth
  BY CoversAgrees DEF IsExpansion, Extends, SameNode
<1>14. cs[j].transition = t
  BY <1>10 DEF ServesJump
<1>15. Covers(i, ms, m, r)
  <2>1. IsForest(ms) /\ ms[m].parent = n
    BY <1>11 DEF IsExpansion, IsNewChild
  <2>2. Includes(ms[m], r[d + 2]) /\ r[d + 2].transition = ms[m].transition
    BY <1>11, <1>12, <1>14 DEF u, t
  <2> HIDE DEF m
  <2> QED
    BY <1>1, <1>11, <1>13, <2>1, <2>2, ChildCovers
<1> QED
  BY <1>14, <1>15 DEF t, u

--------------------------------------------------------------------------
(* The levels: what the invariant says of each.                           *)
LEMMA PathIsTyped ==
  ASSUME NEW i, NEW ns \in Seq(NodeType), IsTree(i, ns), NEW n \in DOMAIN ns
  PROVE  PathTo(i, ns, n) \in Seq([lower : Int, upper : Int, transition : DOMAIN ha.transition])
<1> DEFINE E == [lower : Int, upper : Int, transition : DOMAIN ha.transition]
           T == {m \in DOMAIN ns : PathTo(i, ns, m) \notin Seq(E)}
<1> SUFFICES ASSUME T # {}
             PROVE  FALSE
  OBVIOUS
<1>1. T \in SUBSET Nat /\ IsForest(ns)
  BY NodeTypes, TreeIsForest
<1>2. PICK m \in T : \A k \in T : m <= k
  BY <1>1, LeastNumber
<1>3. m \in DOMAIN ns /\ PathTo(i, ns, m) \notin Seq(E) /\ m \in Nat
  BY <1>1, <1>2
<1> HIDE DEF T
<1>4. CASE ns[m].parent = NoNode
  <2>1. PathTo(i, ns, m) = << >>
    BY <1>1, <1>3, <1>4, PathUnfolds
  <2> QED
    BY <1>3, <2>1
<1>5. CASE ns[m].parent # NoNode
  <2> DEFINE a == ns[m].parent
             p == PathTo(i, ns, a)
             e == LastJump(ns, m)
  <2>1. a \in DOMAIN ns /\ a < m /\ a \in Nat
    BY <1>1, <1>3, <1>5, ParentIsEarlier, NodeTypes
  <2>a. a \notin T
    <3> HIDE DEF a
    <3> QED
      BY <1>2, <1>3, <2>1
  <2>2. p \in Seq(E)
    BY <2>1, <2>a DEF T
  <2>3. PathTo(i, ns, m) = Append(p, e)
    BY <1>1, <1>3, <1>5, PathUnfolds
  <2>4. ns[m].transition \in DOMAIN ha.transition
    BY <1>3, <1>5 DEF IsTree, IsRootNode, IsChildNode
  <2>5. e \in E
    BY <1>3, <2>4, NodeTypes DEF LastJump
  <2> HIDE DEF p, e, E
  <2> QED
    BY <1>3, <2>2, <2>3, <2>5
<1> QED
  BY <1>4, <1>5

LEMMA LevelFacts ==
  ASSUME LevelsInv, NEW i \in Levels
  PROVE  /\ i \in Nat /\ 1 <= i /\ i <= Top /\ i \in DOMAIN nodes /\ i \in DOMAIN queue
         /\ nodes[i] \in Seq(NodeType) /\ IsTree(i, nodes[i]) /\ IsForest(nodes[i])
         /\ queue[i] \in Seq(DOMAIN nodes[i])
         /\ level \in Levels /\ level \in Nat
<1>1. TypeInv /\ TypeOK
  BY DEF LevelsInv, TypeInv
<1>2. i \in Nat /\ 1 <= i /\ i <= Top /\ level \in Nat
  BY <1>1, LevelTypes
<1>3. nodes[i] \in Seq(NodeType) /\ queue[i] \in Seq(DOMAIN nodes[i]) /\ level \in Levels
  BY <1>1 DEF TypeOK
<1>4. IsTree(i, nodes[i])
  BY DEF LevelsInv, TreeInv
<1>5. IsForest(nodes[i])
  BY <1>3, <1>4, TreeIsForest
<1> QED
  BY <1>1, <1>2, <1>3, <1>4, <1>5 DEF TypeInv

(* A step at one level adds nodes to its tree and changes its queue.      *)
IsChangedAt(f, g, i, v) ==
  DOMAIN g = DOMAIN f /\ g[i] = v /\ \A j \in DOMAIN f : j # i => g[j] = f[j]

LEMMA LevelStep ==
  ASSUME LevelsInv, UNCHANGED <<ha, strategy, level, path, conflict>>,
         NEW ms \in Seq(NodeType), IsTree(level, ms), Extends(nodes[level], ms),
         IsChangedAt(nodes, nodes', level, ms),
         NEW q \in Seq(DOMAIN ms), IsChangedAt(queue, queue', level, q),
         collected' \in Seq(DOMAIN ms), level = 1 => collected' = << >>,
         \A k \in DOMAIN collected' : ms[collected'[k]].depth = Len(path[level]) + 1,
         verdict' \in {"none", "UNKNOWN"}
  PROVE  LevelsInv'
<1>1. /\ ha' = ha /\ strategy' = strategy /\ level' = level
      /\ path' = path /\ conflict' = conflict /\ Levels' = Levels
  BY DEF Levels, Top
<1>2. /\ level \in Levels /\ DOMAIN nodes = Levels /\ DOMAIN queue = Levels
      /\ DOMAIN path = Levels /\ DOMAIN conflict = Levels
      /\ ha \in Automata /\ strategy \in Strategies
      /\ verdict \in {"none", "SAFE", "UNKNOWN"}
  BY DEF LevelsInv, TypeInv, TypeOK
<1>3. /\ nodes'[level] = ms /\ queue'[level] = q
      /\ DOMAIN nodes' = Levels /\ DOMAIN queue' = Levels
      /\ \A i \in Levels : i # level => nodes'[i] = nodes[i] /\ queue'[i] = queue[i]
  BY <1>2 DEF IsChangedAt
<1>4. DOMAIN nodes[level] \subseteq DOMAIN ms
  BY DEF Extends
<1>5. TypeInv'
  <2>1. ASSUME NEW i \in Levels
        PROVE  /\ nodes'[i] \in Seq(NodeType) /\ queue'[i] \in Seq(DOMAIN nodes'[i])
               /\ conflict'[i] \in DOMAIN nodes'[i] \cup {NoNode}
               /\ path'[i] \in Seq([lower : Int, upper : Int, transition : DOMAIN ha'.transition])
    <3>1. /\ nodes[i] \in Seq(NodeType) /\ queue[i] \in Seq(DOMAIN nodes[i])
          /\ conflict[i] \in DOMAIN nodes[i] \cup {NoNode}
          /\ path[i] \in Seq([lower : Int, upper : Int, transition : DOMAIN ha.transition])
      BY DEF LevelsInv, TypeInv, TypeOK
    <3>2. CASE i = level
      BY <1>1, <1>3, <1>4, <3>1, <3>2
    <3>3. CASE i # level
      BY <1>1, <1>3, <3>1, <3>3
    <3> QED
      BY <3>2, <3>3
  <2>2. level' \in Levels' /\ collected' \in Seq(DOMAIN nodes'[level'])
    BY <1>1, <1>2, <1>3
  <2> QED
    BY <1>1, <1>2, <1>3, <2>1, <2>2 DEF TypeInv, TypeOK
<1>6. TreeInv'
  <2>1. ASSUME NEW i \in Levels
        PROVE  IsTree(i, nodes'[i])
    BY <1>3, LevelFacts
  <2>2. \A i \in Levels : IsTree(i, nodes[i])' <=> IsTree(i, nodes'[i])
    BY <1>1 DEF IsTree, IsRootNode, IsChildNode
  <2> QED
    BY <1>1, <2>1, <2>2 DEF TreeInv
<1>7. ControlInv'
  <2>1. \A i \in Levels : i > level => queue'[i] = << >>
    BY <1>2, <1>3, LevelFacts DEF LevelsInv, ControlInv
  <2>2. ASSUME NEW i \in Levels, i < level
        PROVE  conflict'[i] \in DOMAIN nodes'[i] /\ path'[i + 1] = PathTo(i, nodes'[i], conflict'[i])
    <3>1. i # level
      BY <1>2, <2>2, LevelFacts
    <3> QED
      BY <1>1, <1>3, <2>2, <3>1 DEF LevelsInv, ControlInv
  <2>3. \A i \in Levels : PathTo(i, nodes[i], conflict[i])' = PathTo(i, nodes'[i], conflict'[i])
    BY <1>1 DEF PathTo
  <2> QED
    BY <1>1, <1>3, <2>1, <2>2, <2>3 DEF ControlInv
<1> QED
  BY <1>5, <1>6, <1>7 DEF LevelsInv

(* A conflict starts the refinement at the next level.                    *)
Refined(i, n, fp) == [nodes EXCEPT ![i][n].flowpipe = fp,
                                   ![i + 1] = WithRoot(i + 1, nodes[i][RootOf(i, n)].location)]

LEMMA RootIsInitial ==
  ASSUME LevelsInv, NEW i \in Levels, NEW n \in DOMAIN nodes[i]
  PROVE  /\ RootOf(i, n) \in DOMAIN nodes[i]
         /\ \E k \in DOMAIN ha.initial : ha.initial[k].loc = nodes[i][RootOf(i, n)].location
<1>1. IsTree(i, nodes[i]) /\ IsForest(nodes[i])
  BY LevelFacts
<1>2. RootOf(i, n) \in DOMAIN nodes[i] /\ nodes[i][RootOf(i, n)].parent = NoNode
  BY <1>1, RootOfNode
<1>3. ~IsChildNode(nodes[i], RootOf(i, n))
  BY <1>2 DEF IsChildNode, NoNode
<1>4. IsRootNode(i, nodes[i][RootOf(i, n)])
  BY <1>1, <1>2, <1>3 DEF IsTree
<1> QED
  BY <1>2, <1>4 DEF IsRootNode

Stored(ns, n, fp) == [ns EXCEPT ![n].flowpipe = fp]

LEMMA RefinedNodes ==
  ASSUME LevelsInv, NEW i \in Levels, i + 1 \in Levels, NEW n \in DOMAIN nodes[i],
         NEW fp \in Seq(SUBSET Point)
  PROVE  /\ DOMAIN Refined(i, n, fp) = Levels
         /\ Refined(i, n, fp)[i] = Stored(nodes[i], n, fp)
         /\ Refined(i, n, fp)[i + 1] = WithRoot(i + 1, nodes[i][RootOf(i, n)].location)
         /\ \A j \in Levels : j # i /\ j # i + 1 => Refined(i, n, fp)[j] = nodes[j]
<1>1. DOMAIN nodes = Levels /\ i # i + 1
  BY LevelFacts DEF LevelsInv, TypeInv
<1> QED
  BY <1>1 DEF Refined, Stored

LEMMA RefineStep ==
  ASSUME LevelsInv, level + 1 \in Levels, verdict = "none", queue[level] # << >>,
         NEW fp \in Seq(SUBSET Point), RefineNext(level, Head(queue[level]), fp),
         UNCHANGED <<ha, strategy>>
  PROVE  LevelsInv'
<1> DEFINE i == level
           n == Head(queue[i])
           l == nodes[i][RootOf(i, n)].location
           target == WithRoot(i + 1, l)
           r == CHOOSE r \in R(strategy[i + 1].over)!Roots(target) : target[r].location = l
<1>1. /\ conflict' = [conflict EXCEPT ![i] = n]
      /\ path' = [path EXCEPT ![i + 1] = PathTo(i, nodes[i], n)]
      /\ nodes' = Refined(i, n, fp)
      /\ queue' = [queue EXCEPT ![i] = Tail(@), ![i + 1] = Append(@, r)]
      /\ level' = i + 1 /\ collected' = << >> /\ verdict' = "none"
  BY DEF RefineNext, Refined, PathTo
<1>2. /\ i \in Levels /\ DOMAIN nodes = Levels /\ DOMAIN queue = Levels
      /\ DOMAIN path = Levels /\ DOMAIN conflict = Levels
      /\ ha \in Automata /\ strategy \in Strategies /\ TypeInv
      /\ i \in Nat /\ i # i + 1 /\ ha' = ha /\ strategy' = strategy /\ Levels' = Levels
  <2>1. level \in Levels /\ TypeInv
    BY DEF LevelsInv, TypeInv, TypeOK
  <2>2. i \in Nat
    BY <2>1, LevelTypes
  <2>3. Levels' = Levels
    BY DEF Levels, Top
  <2> QED
    BY <2>1, <2>2, <2>3 DEF TypeInv
<1>3. n \in DOMAIN nodes[i] /\ Tail(queue[i]) \in Seq(DOMAIN nodes[i])
  BY <1>2, LevelFacts, Dequeued
<1>4. \E k \in DOMAIN ha.initial : ha.initial[k].loc = l
  BY <1>2, <1>3, RootIsInitial
<1> HIDE DEF n, l
<1>5. /\ target \in Seq(NodeType) /\ IsTree(i + 1, target) /\ Extends(nodes[i + 1], target)
      /\ \E m \in DOMAIN target : target[m].parent = NoNode /\ target[m].location = l
  <2>1. TypeInv /\ i + 1 \in Levels /\ IsTree(i + 1, nodes[i + 1])
    BY <1>2, LevelFacts
  <2>2. target \in Seq(NodeType) /\ IsTree(i + 1, target) /\ Extends(nodes[i + 1], target)
    BY <1>4, <2>1, WithRootIs
  <2>3. \E m \in DOMAIN target : target[m].parent = NoNode /\ target[m].location = l
    BY <1>4, <2>1, WithRootIs
  <2> QED
    BY <2>2, <2>3
<1>6. r \in DOMAIN target
  <2> HIDE DEF target
  <2> QED
    BY <1>5 DEF R!Roots, R!Root, NoNode
<1> DEFINE ks == Stored(nodes[i], n, fp)
<1>7. ks \in Seq(NodeType) /\ DOMAIN ks = DOMAIN nodes[i] /\ Extends(nodes[i], ks)
  BY <1>2, <1>3, LevelFacts, FlowpipeStored DEF Stored
<1>8. /\ DOMAIN nodes' = Levels /\ nodes'[i] = ks /\ nodes'[i + 1] = target
      /\ \A j \in Levels : j # i /\ j # i + 1 => nodes'[j] = nodes[j]
  <2> DEFINE ns == Refined(i, n, fp)
  <2>1. DOMAIN ns = Levels
    BY <1>2, <1>3, RefinedNodes
  <2>5. ns[i] = ks
    BY <1>2, <1>3, RefinedNodes
  <2>2. ns[i + 1] = target
    BY <1>2, <1>3, RefinedNodes DEF l
  <2>3. \A j \in Levels : j # i /\ j # i + 1 => ns[j] = nodes[j]
    BY <1>2, <1>3, RefinedNodes
  <2>4. nodes' = ns
    BY <1>1
  <2> HIDE DEF ns, ks, target
  <2> QED
    BY <2>1, <2>2, <2>3, <2>4, <2>5
<1> HIDE DEF ks, target, r
<1>9. IsTree(i, ks)
  <2>1. \A m \in DOMAIN ks : m \notin DOMAIN nodes[i] => IsRootNode(i, ks[m]) \/ IsChildNode(ks, m)
    BY <1>7
  <2> QED
    BY <1>2, <1>7, <2>1, LevelFacts, TreeGrows
<1>10. /\ DOMAIN queue' = Levels /\ queue'[i] = Tail(queue[i]) /\ queue'[i + 1] = Append(queue[i + 1], r)
       /\ \A j \in Levels : j # i /\ j # i + 1 => queue'[j] = queue[j]
  BY <1>1, <1>2
<1>11. TypeInv'
  <2> DEFINE E == [lower : Int, upper : Int, transition : DOMAIN ha.transition]
  <2>1. ASSUME NEW j \in Levels
        PROVE  /\ nodes'[j] \in Seq(NodeType) /\ queue'[j] \in Seq(DOMAIN nodes'[j])
               /\ conflict'[j] \in DOMAIN nodes'[j] \cup {NoNode}
               /\ path'[j] \in Seq(E)
    <3>1. /\ nodes[j] \in Seq(NodeType) /\ queue[j] \in Seq(DOMAIN nodes[j])
          /\ conflict[j] \in DOMAIN nodes[j] \cup {NoNode}
          /\ path[j] \in Seq(E)
      BY <1>2 DEF TypeInv, TypeOK
    <3>2. PathTo(i, nodes[i], n) \in Seq(E)
      BY <1>2, <1>3, LevelFacts, PathIsTyped
    <3> HIDE DEF E
    <3>3. CASE j = i
      BY <1>1, <1>2, <1>3, <1>7, <1>8, <1>10, <3>1, <3>3
    <3>4. CASE j = i + 1
      <4>1. DOMAIN nodes[j] \subseteq DOMAIN target
        BY <1>5, <3>4 DEF Extends
      <4>2. queue[j] \in Seq(DOMAIN target)
        BY <3>1, <4>1, SeqLarger
      <4>3. Append(queue[j], r) \in Seq(DOMAIN target)
        BY <1>6, <4>2
      <4> QED
        BY <1>1, <1>2, <1>5, <1>8, <1>10, <3>1, <3>2, <3>4, <4>1, <4>3
    <3>5. CASE j # i /\ j # i + 1
      BY <1>1, <1>2, <1>8, <1>10, <3>1, <3>5
    <3> QED
      BY <3>3, <3>4, <3>5
  <2>2. DOMAIN path' = Levels /\ DOMAIN conflict' = Levels
    BY <1>1, <1>2
  <2>3. collected' \in Seq(DOMAIN nodes'[level'])
    BY <1>1
  <2> QED
    BY <1>1, <1>2, <1>8, <1>10, <2>1, <2>2, <2>3 DEF TypeInv, TypeOK
<1>12. TreeInv'
  <2>1. ASSUME NEW j \in Levels
        PROVE  IsTree(j, nodes'[j])
    BY <1>5, <1>8, <1>9, LevelFacts
  <2>2. \A j \in Levels : IsTree(j, nodes[j])' <=> IsTree(j, nodes'[j])
    BY <1>2 DEF IsTree, IsRootNode, IsChildNode
  <2> QED
    BY <1>2, <2>1, <2>2 DEF TreeInv
<1>13. ControlInv'
  <2>1. \A j \in Levels : j > i + 1 => queue'[j] = << >>
    <3> SUFFICES ASSUME NEW j \in Levels, j > i + 1
                 PROVE  queue'[j] = << >>
      OBVIOUS
    <3>1. j > i /\ j # i /\ j # i + 1
      BY <1>2, LevelFacts
    <3> QED
      BY <1>10, <3>1 DEF LevelsInv, ControlInv
  <2>2. ASSUME NEW j \in Levels, j < i + 1
        PROVE  conflict'[j] \in DOMAIN nodes'[j] /\ path'[j + 1] = PathTo(j, nodes'[j], conflict'[j])
    <3>0. j \in Nat /\ (j < i \/ j = i)
      BY <1>2, <2>2, LevelFacts
    <3>1. CASE j = i
      <4>1. PathTo(i, ks, n) = PathTo(i, nodes[i], n)
        <5>1. IsForest(nodes[i]) /\ IsForest(ks)
          BY <1>2, <1>7, <1>9, LevelFacts, TreeIsForest
        <5> QED
          BY <1>3, <1>7, <5>1, PathAgrees
      <4>2. conflict'[i] = n /\ path'[i + 1] = PathTo(i, nodes[i], n)
        BY <1>1, <1>2
      <4> QED
        BY <1>3, <1>7, <1>8, <3>1, <4>1, <4>2
    <3>2. CASE j < i
      <4>1. j # i /\ j # i + 1 /\ j + 1 # i + 1
        BY <1>2, <3>0, <3>2
      <4>2. conflict'[j] = conflict[j] /\ path'[j + 1] = path[j + 1] /\ nodes'[j] = nodes[j]
        BY <1>1, <1>2, <1>8, <4>1
      <4>3. conflict[j] \in DOMAIN nodes[j] /\ path[j + 1] = PathTo(j, nodes[j], conflict[j])
        BY <3>2 DEF LevelsInv, ControlInv
      <4> QED
        BY <4>2, <4>3
    <3> QED
      BY <3>0, <3>1, <3>2
  <2>3. \A j \in Levels : PathTo(j, nodes[j], conflict[j])' = PathTo(j, nodes'[j], conflict'[j])
    BY <1>2 DEF PathTo
  <2>4. collected' = << >> /\ level' = i + 1 /\ verdict' # "SAFE"
    BY <1>1
  <2> QED
    BY <1>2, <2>1, <2>2, <2>3, <2>4 DEF ControlInv
<1> QED
  BY <1>11, <1>12, <1>13 DEF LevelsInv

(* The nodes that a finished refinement hands back.                       *)
Transferred ==
  [k \in DOMAIN collected |->
     NewNode(level - 1, conflict[level - 1], nodes[level][collected[k]].transition,
             strategy[level - 1].over[nodes[level][collected[k]].initialSet],
             nodes[level][collected[k]])]

IsTransferOf(b, c, source, node) ==
  /\ node \in NodeType /\ IsNewChild(nodes[b], c, node)
  /\ node.transition = source.transition /\ node.location = source.location
  /\ source.initialSet \subseteq node.initialSet
  /\ node.lower = source.lower /\ node.upper = source.upper

LEMMA TransferredAre ==
  ASSUME LevelsInv, level > 1
  PROVE  /\ level - 1 \in Levels /\ conflict[level - 1] \in DOMAIN nodes[level - 1]
         /\ collected \in Seq(DOMAIN nodes[level])
         /\ Transferred \in Seq(NodeType) /\ DOMAIN Transferred = DOMAIN collected
         /\ \A k \in DOMAIN collected :
              IsTransferOf(level - 1, conflict[level - 1], nodes[level][collected[k]], Transferred[k])
<1> DEFINE b == level - 1
           c == conflict[b]
<1>1. /\ level \in Levels /\ collected \in Seq(DOMAIN nodes[level]) /\ TypeInv
      /\ IsTree(level, nodes[level]) /\ nodes[level] \in Seq(NodeType)
  BY LevelFacts DEF LevelsInv, TypeInv, TypeOK
<1>2. b \in Levels /\ b < level /\ level = b + 1
  BY <1>1, LevelTypes
<1>3. c \in DOMAIN nodes[b] /\ path[level] = PathTo(b, nodes[b], c)
  BY <1>1, <1>2 DEF LevelsInv, ControlInv
<1> HIDE DEF c
<1>4. ASSUME NEW k \in DOMAIN collected
      PROVE  IsTransferOf(b, c, nodes[level][collected[k]], Transferred[k])
  <2> DEFINE m == collected[k]
             source == nodes[level][m]
             over == strategy[b].over[source.initialSet]
             node == NewNode(b, c, source.transition, over, source)
  <2>1. m \in DOMAIN nodes[level] /\ source.depth = Len(path[level]) + 1
    BY <1>1 DEF LevelsInv, ControlInv
  <2>2. Len(path[level]) \in Nat
    BY <1>2, <1>3, LevelFacts, PathType
  <2>3. IsChildNode(nodes[level], m)
    BY <1>1, <2>1, <2>2 DEF IsTree, IsRootNode
  <2>4. /\ source.transition \in DOMAIN ha.transition
        /\ source.location = ha.transition[source.transition].target
    BY <2>3 DEF IsChildNode
  <2>5. source.initialSet \in SUBSET Point /\ source.lower \in Int /\ source.upper \in Int
    BY <1>1, <2>1, NodeTypes
  <2>6. over \in SUBSET Point /\ source.initialSet \subseteq over
    <3>1. IsRepresentation(strategy[b].over)
      BY <1>1, <1>2, LevelTypes
    <3> HIDE DEF b, source
    <3> QED
      BY <2>5, <3>1 DEF IsRepresentation
  <2>7. Transferred[k] = node
    BY DEF Transferred, c
  <2> HIDE DEF over, source, m
  <2>8. /\ node \in NodeType /\ IsNewChild(nodes[b], c, node)
        /\ node.transition = source.transition /\ node.initialSet = over
        /\ node.lower = source.lower /\ node.upper = source.upper
    BY <1>1, <1>2, <1>3, <2>4, <2>5, <2>6, NewNodeIs
  <2> HIDE DEF node
  <2>9. node.location = source.location
    BY <2>4, <2>8 DEF IsNewChild
  <2>10. IsTransferOf(b, c, source, node)
    BY <2>6, <2>8, <2>9 DEF IsTransferOf
  <2> QED
    BY <2>7, <2>10 DEF source, m
<1>5. DOMAIN Transferred = DOMAIN collected
  BY DEF Transferred
<1>6. Transferred \in Seq(NodeType)
  <2>1. DOMAIN collected = 1..Len(collected) /\ Len(collected) \in Nat
    BY <1>1
  <2>2. \A k \in DOMAIN collected : Transferred[k] \in NodeType
    BY <1>4 DEF IsTransferOf
  <2>3. Transferred = [k \in 1..Len(collected) |-> Transferred[k]]
    BY <2>1 DEF Transferred
  <2> QED
    BY <2>1, <2>2, <2>3
<1> QED
  BY <1>1, <1>2, <1>3, <1>4, <1>5, <1>6 DEF c

(* The indices of the children that are queued.                           *)
HandedBack ==
  {k \in DOMAIN Transferred :
     \/ level - 1 = 1
     \/ Transferred[k].depth > Len(path[level - 1])
     \/ /\ MatchesPathTransition(path[level - 1], Transferred[k])
        /\ MatchesPathTiming(path[level - 1], Transferred[k])}

QueuedAgain ==
  [k \in DOMAIN Ascending(HandedBack) |-> Len(nodes[level - 1]) + Ascending(HandedBack)[k]]

LEMMA HandedBackAre ==
  ASSUME LevelsInv, level > 1
  PROVE  /\ QueuedAgain \in Seq(Len(nodes[level - 1]) + 1..Len(nodes[level - 1]) + Len(Transferred))
         /\ \A k \in HandedBack :
              \E m \in DOMAIN QueuedAgain : QueuedAgain[m] = Len(nodes[level - 1]) + k
<1> DEFINE S == HandedBack
           a == Ascending(S)
           len == Len(nodes[level - 1])
           N == len + 1..len + Len(Transferred)
<1>1. /\ Transferred \in Seq(NodeType) /\ Len(Transferred) \in Nat
      /\ DOMAIN Transferred = 1..Len(Transferred) /\ level - 1 \in Levels
  BY TransferredAre
<1>2. len \in Nat
  BY <1>1, LevelFacts
<1>3. S \subseteq 1..Len(Transferred)
  BY <1>1 DEF HandedBack
<1>4. S \in SUBSET Nat /\ IsFiniteSet(S)
  <2>1. IsFiniteSet(1..Len(Transferred))
    BY <1>1, FS_Interval
  <2>2. IsFiniteSet(S)
    BY <1>3, <2>1, FS_Subset
  <2>3. S \in SUBSET Nat
    BY <1>1, <1>3
  <2> QED
    BY <2>2, <2>3
<1>5. a \in Seq(S) /\ \A x \in S : \E k \in DOMAIN a : a[k] = x
  <2> HIDE DEF S
  <2> QED
    BY <1>4, AscendingLists
<1> HIDE DEF a, S, len
<1>6. QueuedAgain = [k \in DOMAIN a |-> len + a[k]]
  BY DEF QueuedAgain, a, S, len
<1>7. DOMAIN a = 1..Len(a) /\ Len(a) \in Nat /\ \A k \in DOMAIN a : a[k] \in S
  BY <1>5
<1>8. \A k \in DOMAIN a : len + a[k] \in N
  <2> SUFFICES ASSUME NEW k \in DOMAIN a
               PROVE  len + a[k] \in N
    OBVIOUS
  <2>1. a[k] \in 1..Len(Transferred)
    BY <1>3, <1>7
  <2> QED
    BY <1>1, <1>2, <2>1
<1>9. QueuedAgain \in Seq(N)
  <2> HIDE DEF N
  <2> QED
    BY <1>6, <1>7, <1>8
<1>10. \A k \in S : \E m \in DOMAIN QueuedAgain : QueuedAgain[m] = len + k
  <2>1. \A m \in DOMAIN a : m \in DOMAIN QueuedAgain /\ QueuedAgain[m] = len + a[m]
    BY <1>6
  <2> QED
    BY <1>5, <2>1
<1> QED
  BY <1>9, <1>10 DEF S, len

LEMMA HandBackStep ==
  ASSUME LevelsInv, TransferNodes
  PROVE  /\ LevelsInv' /\ level > 1 /\ verdict = "none" /\ queue[level] = << >>
         /\ level' = level - 1 /\ UNCHANGED <<ha, strategy, path, conflict, verdict>>
         /\ collected' = << >>
         /\ nodes'[level - 1] = nodes[level - 1] \o Transferred
         /\ queue'[level - 1] = queue[level - 1] \o QueuedAgain
         /\ \A i \in Levels : i # level - 1 => nodes'[i] = nodes[i] /\ queue'[i] = queue[i]
<1> DEFINE b == level - 1
           c == conflict[b]
           ms == nodes[b] \o Transferred
           q == queue[b] \o QueuedAgain
<1>1. /\ verdict = "none" /\ level > 1 /\ queue[level] = << >>
      /\ nodes' = [nodes EXCEPT ![b] = @ \o Transferred]
      /\ queue' = [queue EXCEPT ![b] = @ \o QueuedAgain]
      /\ level' = b /\ collected' = << >>
      /\ UNCHANGED <<ha, strategy, path, conflict, verdict>>
  BY DEF TransferNodes, HandBack, RefinementDone, Transferred, QueuedAgain, HandedBack
<1>2. /\ b \in Levels /\ c \in DOMAIN nodes[b]
      /\ Transferred \in Seq(NodeType)
      /\ \A k \in DOMAIN Transferred : IsNewChild(nodes[b], c, Transferred[k])
  BY <1>1, TransferredAre DEF IsTransferOf
<1>3. /\ level \in Levels /\ DOMAIN nodes = Levels /\ DOMAIN queue = Levels
      /\ DOMAIN path = Levels /\ DOMAIN conflict = Levels
      /\ ha \in Automata /\ strategy \in Strategies /\ level \in Nat
  BY <1>2, LevelFacts DEF LevelsInv, TypeInv
<1>4. Levels' = Levels
  BY <1>1 DEF Levels, Top
<1>5. ms \in Seq(NodeType) /\ IsTree(b, ms) /\ Extends(nodes[b], ms)
  BY <1>2, LevelFacts, ChildrenAdded
<1>6. DOMAIN ms = 1..Len(nodes[b]) + Len(Transferred) /\ DOMAIN nodes[b] \subseteq DOMAIN ms
  <2>1. nodes[b] \in Seq(NodeType)
    BY <1>2, LevelFacts
  <2> QED
    BY <1>2, <2>1
<1>7. q \in Seq(DOMAIN ms)
  <2> DEFINE N == Len(nodes[b]) + 1..Len(nodes[b]) + Len(Transferred)
  <2>1. QueuedAgain \in Seq(N)
    BY <1>1, HandedBackAre
  <2>2. Len(nodes[b]) \in Nat /\ Len(Transferred) \in Nat
    BY <1>2, LevelFacts
  <2>3. N \subseteq DOMAIN ms
    BY <1>6, <2>2
  <2> HIDE DEF N, ms
  <2>4. QueuedAgain \in Seq(DOMAIN ms)
    BY <2>1, <2>3, SeqLarger
  <2>5. queue[b] \in Seq(DOMAIN ms)
    BY <1>2, <1>6, LevelFacts, SeqLarger
  <2> QED
    BY <2>4, <2>5
<1> HIDE DEF ms, q
<1>8. /\ DOMAIN nodes' = Levels /\ DOMAIN queue' = Levels
      /\ nodes'[b] = ms /\ queue'[b] = q
      /\ \A i \in Levels : i # b => nodes'[i] = nodes[i] /\ queue'[i] = queue[i]
  BY <1>1, <1>2, <1>3 DEF ms, q
<1>9. TypeInv'
  <2>1. ASSUME NEW i \in Levels
        PROVE  /\ nodes'[i] \in Seq(NodeType) /\ queue'[i] \in Seq(DOMAIN nodes'[i])
               /\ conflict'[i] \in DOMAIN nodes'[i] \cup {NoNode}
               /\ path'[i] \in Seq([lower : Int, upper : Int, transition : DOMAIN ha'.transition])
    <3>1. /\ nodes[i] \in Seq(NodeType) /\ queue[i] \in Seq(DOMAIN nodes[i])
          /\ conflict[i] \in DOMAIN nodes[i] \cup {NoNode}
          /\ path[i] \in Seq([lower : Int, upper : Int, transition : DOMAIN ha.transition])
      BY DEF LevelsInv, TypeInv, TypeOK
    <3>2. CASE i = b
      BY <1>1, <1>5, <1>6, <1>7, <1>8, <3>1, <3>2
    <3>3. CASE i # b
      BY <1>1, <1>8, <3>1, <3>3
    <3> QED
      BY <3>2, <3>3
  <2>2. level' \in Levels' /\ collected' \in Seq(DOMAIN nodes'[level'])
    BY <1>1, <1>2, <1>4
  <2>3. DOMAIN path' = Levels /\ DOMAIN conflict' = Levels /\ verdict' = "none"
    BY <1>1, <1>3
  <2>4. ha' \in Automata /\ strategy' \in Strategies
    BY <1>1, <1>3
  <2> HIDE DEF b
  <2> QED
    BY <1>4, <1>8, <2>1, <2>2, <2>3, <2>4 DEF TypeInv, TypeOK
<1>10. TreeInv'
  <2>1. ASSUME NEW i \in Levels
        PROVE  IsTree(i, nodes'[i])
    BY <1>5, <1>8, LevelFacts
  <2>2. \A i \in Levels : IsTree(i, nodes[i])' <=> IsTree(i, nodes'[i])
    BY <1>1 DEF IsTree, IsRootNode, IsChildNode
  <2> QED
    BY <1>4, <2>1, <2>2 DEF TreeInv
<1>11. ControlInv'
  <2>1. ASSUME NEW i \in Levels, i > b
        PROVE  queue'[i] = << >>
    <3>1. i \in Nat /\ i # b /\ (i = level \/ i > level)
      BY <1>3, <2>1, LevelFacts
    <3> QED
      BY <1>1, <1>8, <3>1 DEF LevelsInv, ControlInv
  <2>2. ASSUME NEW i \in Levels, i < b
        PROVE  conflict'[i] \in DOMAIN nodes'[i] /\ path'[i + 1] = PathTo(i, nodes'[i], conflict'[i])
    <3>1. i # b /\ i < level
      BY <1>3, <2>2, LevelFacts
    <3> QED
      BY <1>1, <1>8, <3>1 DEF LevelsInv, ControlInv
  <2>3. \A i \in Levels : PathTo(i, nodes[i], conflict[i])' = PathTo(i, nodes'[i], conflict'[i])
    BY <1>1 DEF PathTo
  <2> QED
    BY <1>1, <1>4, <2>1, <2>2, <2>3 DEF ControlInv
<1> QED
  BY <1>1, <1>8, <1>9, <1>10, <1>11 DEF LevelsInv, ms, q

--------------------------------------------------------------------------
(* The node that is worked on.                                            *)
LEMMA CurrentFacts ==
  ASSUME LevelsInv, queue[level] # << >>
  PROVE  /\ level \in Levels /\ TypeInv /\ nodes[level] \in Seq(NodeType)
         /\ IsTree(level, nodes[level]) /\ IsForest(nodes[level])
         /\ Head(queue[level]) \in DOMAIN nodes[level]
         /\ Tail(queue[level]) \in Seq(DOMAIN nodes[level])
         /\ current = nodes[level][Head(queue[level])] /\ current \in NodeType
         /\ current.location \in Location /\ current.initialSet \in SUBSET Point
         /\ current.depth \in Nat /\ Len(nodes[level]) \in Nat
         /\ DOMAIN nodes[level] = 1..Len(nodes[level])
         /\ IsFlowpipeOf(level, current.location, current.initialSet,
                         TimeSuccessors(level, current.location, current.initialSet))
         /\ TimeSuccessors(level, current.location, current.initialSet) \in Seq(SUBSET Point)
         /\ currentFlowpipe \in Seq(SUBSET Point)
<1>1. level \in Levels /\ TypeInv
  BY DEF LevelsInv, TypeInv, TypeOK
<1>2. /\ nodes[level] \in Seq(NodeType) /\ queue[level] \in Seq(DOMAIN nodes[level])
      /\ IsTree(level, nodes[level]) /\ IsForest(nodes[level])
  BY <1>1, LevelFacts
<1>3. Head(queue[level]) \in DOMAIN nodes[level] /\ Tail(queue[level]) \in Seq(DOMAIN nodes[level])
  BY <1>2, Dequeued
<1>4. current = nodes[level][Head(queue[level])]
  BY DEF current
<1>5. /\ current \in NodeType /\ current.location \in Location
      /\ current.initialSet \in SUBSET Point /\ current.depth \in Nat
      /\ current.flowpipe \in Seq(SUBSET Point) /\ Len(nodes[level]) \in Nat
      /\ DOMAIN nodes[level] = 1..Len(nodes[level])
  BY <1>2, <1>3, <1>4, NodeTypes
<1>6. IsFlowpipeOf(level, current.location, current.initialSet,
                   TimeSuccessors(level, current.location, current.initialSet))
  BY <1>1, <1>5, TimeSuccessorsAreFlowpipe
<1>7. TimeSuccessors(level, current.location, current.initialSet) \in Seq(SUBSET Point)
  BY <1>6 DEF IsFlowpipeOf
<1>8. currentFlowpipe \in Seq(SUBSET Point)
  BY <1>5, <1>7 DEF currentFlowpipe
<1> QED
  BY <1>1, <1>2, <1>3, <1>4, <1>5, <1>6, <1>7, <1>8

(* The node gets its flowpipe, and children.                              *)
Expands(n, fp, cs, q) ==
  LET N == 1..Len(nodes[level]) + Len(cs)
  IN  /\ UNCHANGED <<ha, strategy, level, path, conflict>>
      /\ n = Head(queue[level]) /\ fp \in Seq(SUBSET Point) /\ cs \in Seq(NodeType)
      /\ \A k \in DOMAIN cs : IsNewChild(nodes[level], n, cs[k])
      /\ nodes' = [nodes EXCEPT ![level] = [@ EXCEPT ![n].flowpipe = fp] \o cs]
      /\ q \in Seq(N) /\ IsChangedAt(queue, queue', level, q)
      /\ collected' \in Seq(N) /\ (level = 1 => collected' = << >>)
      /\ \A k \in DOMAIN collected' :
           \/ /\ collected'[k] \in DOMAIN nodes[level]
              /\ nodes[level][collected'[k]].depth = Len(path[level]) + 1
           \/ \E j \in DOMAIN cs : /\ collected'[k] = Len(nodes[level]) + j
                                   /\ cs[j].depth = Len(path[level]) + 1
      /\ verdict' \in {"none", "UNKNOWN"}

LEMMA ExpandStep ==
  ASSUME LevelsInv, queue[level] # << >>, NEW n, NEW fp, NEW cs, NEW q, Expands(n, fp, cs, q)
  PROVE  /\ LevelsInv'
         /\ IsExpansion(level, nodes[level], n, fp, cs, nodes'[level])
         /\ \A i \in Levels : i # level => nodes'[i] = nodes[i]
<1> DEFINE ns == nodes[level]
           ms == [ns EXCEPT ![n].flowpipe = fp] \o cs
           N == 1..Len(nodes[level]) + Len(cs)
<1>0. /\ UNCHANGED <<ha, strategy, level, path, conflict>>
      /\ n = Head(queue[level]) /\ fp \in Seq(SUBSET Point) /\ cs \in Seq(NodeType)
      /\ \A k \in DOMAIN cs : IsNewChild(nodes[level], n, cs[k])
      /\ nodes' = [nodes EXCEPT ![level] = ms]
      /\ q \in Seq(N) /\ IsChangedAt(queue, queue', level, q)
      /\ collected' \in Seq(N) /\ (level = 1 => collected' = << >>)
      /\ \A k \in DOMAIN collected' :
           \/ /\ collected'[k] \in DOMAIN nodes[level]
              /\ nodes[level][collected'[k]].depth = Len(path[level]) + 1
           \/ \E j \in DOMAIN cs : /\ collected'[k] = Len(nodes[level]) + j
                                   /\ cs[j].depth = Len(path[level]) + 1
      /\ verdict' \in {"none", "UNKNOWN"}
  BY DEF Expands
<1>1. level \in Levels /\ DOMAIN nodes = Levels /\ n \in DOMAIN ns /\ ns \in Seq(NodeType)
      /\ IsTree(level, ns)
  BY <1>0, CurrentFacts DEF TypeInv
<1>2. IsExpansion(level, ns, n, fp, cs, ms)
  BY <1>0, <1>1, NodesExpanded
<1> HIDE DEF ms, N
<1>4. IsChangedAt(nodes, nodes', level, ms)
  BY <1>0, <1>1 DEF IsChangedAt
<1>5. /\ ms \in Seq(NodeType) /\ IsTree(level, ms) /\ Extends(ns, ms) /\ Len(ms) = Len(ns) + Len(cs)
      /\ \A k \in DOMAIN cs : ms[Len(ns) + k] = cs[k]
  BY <1>2 DEF IsExpansion
<1>6. DOMAIN ms = N
  BY <1>5 DEF N
<1>7. \A k \in DOMAIN collected' : ms[collected'[k]].depth = Len(path[level]) + 1
  BY <1>0, <1>5 DEF Extends, SameNode
<1>8. LevelsInv'
  BY <1>0, <1>4, <1>5, <1>6, <1>7, LevelStep
<1>9. nodes'[level] = ms /\ \A i \in Levels : i # level => nodes'[i] = nodes[i]
  BY <1>1, <1>4 DEF IsChangedAt
<1> QED
  BY <1>2, <1>8, <1>9

LEMMA NewIndices ==
  ASSUME NEW S, NEW cs \in Seq(S), NEW len \in Nat
  PROVE  /\ [k \in DOMAIN cs |-> len + k] \in Seq(1..len + Len(cs))
         /\ DOMAIN [k \in DOMAIN cs |-> len + k] = DOMAIN cs
<1>1. DOMAIN cs = 1..Len(cs) /\ Len(cs) \in Nat
  OBVIOUS
<1>2. \A k \in 1..Len(cs) : len + k \in 1..len + Len(cs)
  BY <1>1
<1> QED
  BY <1>1, <1>2

LEMMA QueueIn ==
  ASSUME LevelsInv, queue[level] # << >>, NEW m \in Nat
  PROVE  Tail(queue[level]) \in Seq(1..Len(nodes[level]) + m)
<1>1. DOMAIN nodes[level] \subseteq 1..Len(nodes[level]) + m
  BY CurrentFacts
<1> QED
  BY <1>1, CurrentFacts, SeqLarger

(* The base level.                                                        *)
BaseChildrenOf(n, fp) == IF nodes[1][n].depth = jumpDepth THEN << >> ELSE BaseChildren(n, fp)

BaseFlowpipe(n) == TimeSuccessors(1, nodes[1][n].location, nodes[1][n].initialSet)

BaseStepsTo(n, fp, cs) ==
  /\ LevelsInv'
  /\ level = 1 /\ verdict = "none" /\ queue[1] # << >>
  /\ UNCHANGED <<ha, strategy, level, path, conflict, collected, verdict>>
  /\ ~MeetsBadStates(1, nodes[1][n].location, fp)
  /\ cs \in Seq(NodeType)
  /\ IsExpansion(1, nodes[1], n, fp, cs, nodes'[1])
  /\ queue'[1] = Tail(queue[1]) \o [k \in DOMAIN cs |-> Len(nodes[1]) + k]
  /\ \A i \in Levels : i # 1 => nodes'[i] = nodes[i] /\ queue'[i] = queue[i]

LEMMA ExpandBaseStep ==
  ASSUME LevelsInv, ExpandBaseNode
  PROVE  BaseStepsTo(Head(queue[1]), BaseFlowpipe(Head(queue[1])),
                     BaseChildrenOf(Head(queue[1]), BaseFlowpipe(Head(queue[1]))))
<1> DEFINE n == Head(queue[1])
           node == nodes[1][n]
           fp == BaseFlowpipe(n)
           cs == BaseChildrenOf(n, fp)
<1>1. /\ level = 1 /\ verdict = "none" /\ queue[1] # << >>
      /\ UNCHANGED <<ha, strategy, level, path, conflict, collected, verdict>>
      /\ ~MeetsBadStates(1, node.location, fp)
      /\ nodes' = [nodes EXCEPT ![1] = [@ EXCEPT ![n].flowpipe = fp] \o cs]
      /\ queue' = [queue EXCEPT ![1] = Tail(@) \o [k \in DOMAIN cs |-> Len(nodes[1]) + k]]
  BY DEF ExpandBaseNode, AnalyzingBase, current, BaseChildrenOf, BaseFlowpipe
<1>f. fp = TimeSuccessors(1, node.location, node.initialSet) /\ n = Head(queue[1])
  BY DEF BaseFlowpipe
<1>g. cs = BaseChildrenOf(n, fp)
  OBVIOUS
<1> HIDE DEF cs, fp, n
<1>2. /\ 1 \in Levels /\ TypeInv /\ n \in DOMAIN nodes[1] /\ nodes[1] \in Seq(NodeType)
      /\ fp \in Seq(SUBSET Point) /\ Len(nodes[1]) \in Nat /\ DOMAIN queue = Levels
  BY <1>1, <1>f, CurrentFacts DEF TypeInv
<1>3. cs \in Seq(NodeType) /\ \A k \in DOMAIN cs : IsNewChild(nodes[1], n, cs[k])
  <2>1. CASE node.depth = jumpDepth
    BY <1>g, <2>1 DEF BaseChildrenOf
  <2>2. CASE node.depth # jumpDepth
    <3>1. AreChildren(1, n, fp, TransitionsFrom(ha, node.location), BaseChildren(n, fp))
      BY <1>2, BaseChildrenAre
    <3>2. cs = BaseChildren(n, fp)
      BY <1>g, <2>2 DEF BaseChildrenOf
    <3> QED
      BY <3>1, <3>2 DEF AreChildren
  <2> QED
    BY <2>1, <2>2
<1> DEFINE N == 1..Len(nodes[1]) + Len(cs)
           fresh == [k \in DOMAIN cs |-> Len(nodes[1]) + k]
           q == Tail(queue[1]) \o fresh
<1>4. fresh \in Seq(N)
  BY <1>2, <1>3, NewIndices
<1>5. Len(cs) \in Nat
  BY <1>3
<1>6. Tail(queue[1]) \in Seq(N)
  BY <1>1, <1>5, QueueIn
<1> HIDE DEF N, fresh
<1>7. q \in Seq(N)
  BY <1>4, <1>6
<1> HIDE DEF q
<1>8. queue' = [queue EXCEPT ![1] = q]
  BY <1>1 DEF q, fresh
<1>9. IsChangedAt(queue, queue', level, q)
  BY <1>1, <1>2, <1>8 DEF IsChangedAt
<1>10. collected = << >>
  BY <1>1 DEF LevelsInv, ControlInv
<1>11. /\ LevelsInv' /\ IsExpansion(level, nodes[level], n, fp, cs, nodes'[level])
       /\ \A i \in Levels : i # level => nodes'[i] = nodes[i]
  <2>1. collected' = << >> /\ verdict' = "none"
    BY <1>1, <1>10
  <2>2. nodes' = [nodes EXCEPT ![level] = [@ EXCEPT ![n].flowpipe = fp] \o cs]
    BY <1>1
  <2>3. n = Head(queue[level]) /\ N = 1..Len(nodes[level]) + Len(cs) /\ queue[level] # << >>
    BY <1>1, <1>f DEF N
  <2>4. \A k \in DOMAIN cs : IsNewChild(nodes[level], n, cs[k])
    BY <1>1, <1>3
  <2>5. << >> \in Seq(N) /\ \A k \in DOMAIN << >> : FALSE
    OBVIOUS
  <2>6. Expands(n, fp, cs, q)
    BY <1>1, <1>2, <1>3, <1>7, <1>9, <2>1, <2>2, <2>3, <2>4, <2>5 DEF Expands
  <2> QED
    BY <2>3, <2>6, ExpandStep
<1>12. /\ queue'[1] = Tail(queue[1]) \o [k \in DOMAIN cs |-> Len(nodes[1]) + k]
       /\ \A i \in Levels : i # 1 => queue'[i] = queue[i]
  BY <1>2, <1>8 DEF q, fresh
<1> QED
  BY <1>1, <1>3, <1>11, <1>12 DEF BaseStepsTo, n, fp, cs

(* The refinement levels: the successors by all transitions of a node,    *)
(* and those along the path.                                              *)
AllChildren(i, n, fp) ==
  FlattenSeq([t \in DOMAIN ha.transition |->
                IF ha.transition[t].source = nodes[i][n].location
                THEN RefinedSuccessors(i, n, t, fp) ELSE << >>])

LEMMA AllChildrenAre ==
  ASSUME TypeInv, NEW i \in Levels, NEW n \in DOMAIN nodes[i], NEW fp \in Seq(SUBSET Point)
  PROVE  /\ AreChildren(i, n, fp, TransitionsFrom(ha, nodes[i][n].location), AllChildren(i, n, fp))
         /\ AreBlocks(i, fp, AllChildren(i, n, fp))
<1> DEFINE D == DOMAIN ha.transition
           l == nodes[i][n].location
           T == TransitionsFrom(ha, l)
           seqs == [t \in D |-> IF ha.transition[t].source = l
                                THEN RefinedSuccessors(i, n, t, fp) ELSE << >>]
           cs == FlattenSeq(seqs)
<1>1. \A t \in D : /\ AreChildren(i, n, fp, {t}, RefinedSuccessors(i, n, t, fp))
                   /\ AreBlocks(i, fp, RefinedSuccessors(i, n, t, fp))
  BY RefinedSuccessorsAre
<1>2. D = 1..Len(ha.transition) /\ Len(ha.transition) \in Nat
  <2>1. ha.transition \in Seq(TransitionType)
    BY AutomatonTypes DEF TypeInv
  <2> QED
    BY <2>1
<1>3. /\ \A t \in T : t \in D /\ seqs[t] = RefinedSuccessors(i, n, t, fp)
      /\ \A t \in D : t \notin T => seqs[t] = << >>
      /\ DOMAIN seqs = D
  BY DEF TransitionsFrom
<1> HIDE DEF seqs, T
<1>4. \A t \in D : seqs[t] \in Seq(NodeType)
  <2> SUFFICES ASSUME NEW t \in D
               PROVE  seqs[t] \in Seq(NodeType)
    OBVIOUS
  <2>1. RefinedSuccessors(i, n, t, fp) \in Seq(NodeType)
    BY <1>1 DEF AreChildren
  <2>2. << >> \in Seq(NodeType)
    OBVIOUS
  <2> QED
    BY <1>3, <2>1, <2>2
<1>5. seqs \in Seq(Seq(NodeType)) /\ Len(seqs) = Len(ha.transition)
  <2>1. seqs = [t \in D |-> seqs[t]]
    BY DEF seqs
  <2> DEFINE X == Seq(NodeType)
  <2> HIDE DEF X
  <2>2. seqs \in Seq(X) /\ Len(seqs) = Len(ha.transition)
    BY <1>2, <1>4, <2>1 DEF X
  <2> QED
    BY <2>2 DEF X
<1>6. cs \in Seq(NodeType) /\ Flattens(seqs, cs, Len(seqs))
  BY <1>5, FlattenSeqFlattens
<1> HIDE DEF cs
<1>7. ASSUME NEW m \in DOMAIN cs
      PROVE  IsNewChild(nodes[i], n, cs[m]) /\ cs[m].transition \in T /\ IsBlock(i, fp, cs[m])
  <2>1. PICK t \in 1..Len(seqs) : \E k \in DOMAIN seqs[t] : cs[m] = seqs[t][k]
    BY <1>6 DEF Flattens
  <2>2. PICK k \in DOMAIN seqs[t] : cs[m] = seqs[t][k]
    BY <2>1
  <2>3. t \in T /\ t \in D
    BY <1>2, <1>3, <1>5, <2>2
  <2>4. IsNewChild(nodes[i], n, cs[m]) /\ cs[m].transition \in T
    BY <1>1, <1>3, <2>2, <2>3 DEF AreChildren
  <2> QED
    BY <1>1, <1>3, <2>2, <2>3, <2>4 DEF AreBlocks
<1>8. ASSUME NEW t \in T, NEW k, NEW x, IsJump(t, fp, k, x)
      PROVE  \E m \in DOMAIN cs : ServesJump(i, n, t, k, x, cs[m])
  <2>1. t \in D /\ t \in 1..Len(seqs) /\ AreChildren(i, n, fp, {t}, seqs[t])
    BY <1>1, <1>2, <1>3, <1>5
  <2>2. PICK j \in DOMAIN seqs[t] : ServesJump(i, n, t, k, x, seqs[t][j])
    BY <1>8, <2>1 DEF AreChildren
  <2>3. PICK m \in DOMAIN cs : cs[m] = seqs[t][j]
    BY <1>6, <2>1 DEF Flattens
  <2> QED
    BY <2>2, <2>3
<1> QED
  BY <1>6, <1>7, <1>8 DEF AreChildren, AreBlocks, AllChildren, T, cs, seqs

(* What the steps at a refinement level have in common.                   *)
OnRefinement(n, fp) ==
  /\ level > 1 /\ verdict = "none" /\ queue[level] # << >>
  /\ current.depth <= Len(path[level]) /\ ~HasConflict
  /\ n = Head(queue[level]) /\ fp = currentFlowpipe

StepsTo(n, fp, cs) ==
  /\ LevelsInv'
  /\ UNCHANGED <<ha, strategy, level, path, conflict, verdict>>
  /\ cs \in Seq(NodeType)
  /\ IsExpansion(level, nodes[level], n, fp, cs, nodes'[level])
  /\ \A i \in Levels : i # level => nodes'[i] = nodes[i] /\ queue'[i] = queue[i]

LEMMA RefinementStep ==
  ASSUME LevelsInv, NEW n, NEW fp, OnRefinement(n, fp), NEW cs \in Seq(NodeType),
         \A k \in DOMAIN cs : IsNewChild(nodes[level], n, cs[k]), Expand(cs),
         NEW new \in Seq(1..Len(nodes[level]) + Len(cs)),
         queue' = [queue EXCEPT ![level] = Tail(@) \o new],
         \/ collected' = collected
         \/ /\ current.depth = Len(path[level])
            /\ collected' = collected \o [k \in DOMAIN cs |-> NewIndex(k)],
         UNCHANGED <<ha, strategy, level, path, conflict, verdict>>
  PROVE  StepsTo(n, fp, cs) /\ queue'[level] = Tail(queue[level]) \o new
<1> DEFINE len == Len(nodes[level])
           N == 1..len + Len(cs)
           q == Tail(queue[level]) \o new
           fresh == [k \in DOMAIN cs |-> len + k]
<1>1. /\ queue[level] # << >> /\ level > 1 /\ verdict = "none"
      /\ n = Head(queue[level]) /\ fp = currentFlowpipe
  BY DEF OnRefinement
<1>2. /\ level \in Levels /\ TypeInv /\ n \in DOMAIN nodes[level] /\ nodes[level] \in Seq(NodeType)
      /\ fp \in Seq(SUBSET Point) /\ len \in Nat /\ DOMAIN queue = Levels
      /\ current = nodes[level][n] /\ level \in Nat /\ DOMAIN nodes[level] = 1..len
  BY <1>1, CurrentFacts, LevelFacts DEF TypeInv
<1>3. Len(cs) \in Nat /\ DOMAIN cs = 1..Len(cs)
  OBVIOUS
<1>4. Tail(queue[level]) \in Seq(N)
  BY <1>1, <1>3, QueueIn
<1>5. fresh \in Seq(N) /\ DOMAIN fresh = DOMAIN cs /\ \A k \in DOMAIN cs : fresh[k] = len + k
  BY <1>2, NewIndices
<1>6. new \in Seq(N)
  OBVIOUS
<1>7. /\ collected \in Seq(1..len)
      /\ \A k \in DOMAIN collected : nodes[level][collected[k]].depth = Len(path[level]) + 1
  BY <1>2 DEF TypeInv, TypeOK, LevelsInv, ControlInv
<1>8. collected \in Seq(N)
  <2>1. 1..len \subseteq N
    BY <1>2, <1>3
  <2> HIDE DEF N
  <2> QED
    BY <1>7, <2>1, SeqLarger
<1>9. collected' = collected \/ (current.depth = Len(path[level]) /\ collected' = collected \o fresh)
  BY DEF NewIndex
<1> HIDE DEF N, fresh
<1>10. q \in Seq(N)
  BY <1>4, <1>6
<1>11. IsChangedAt(queue, queue', level, q)
  BY <1>2 DEF IsChangedAt
<1> HIDE DEF q
<1> DEFINE IsBehind(c) ==
             \/ c \in DOMAIN nodes[level] /\ nodes[level][c].depth = Len(path[level]) + 1
             \/ \E j \in DOMAIN cs : c = len + j /\ cs[j].depth = Len(path[level]) + 1
<1>12. ASSUME NEW k \in DOMAIN collected
       PROVE  IsBehind(collected[k])
  <2>1. collected[k] \in 1..len /\ nodes[level][collected[k]].depth = Len(path[level]) + 1
    BY <1>7
  <2> QED
    BY <2>1, <1>2
<1>13. collected' \in Seq(N) /\ \A k \in DOMAIN collected' : IsBehind(collected'[k])
  <2>1. CASE collected' = collected
    BY <1>8, <1>12, <2>1
  <2>2. CASE current.depth = Len(path[level]) /\ collected' = collected \o fresh
    <3>1. \A k \in DOMAIN cs : cs[k].depth = Len(path[level]) + 1
      BY <1>2, <2>2 DEF IsNewChild
    <3>2. \A k \in DOMAIN fresh : IsBehind(fresh[k])
      BY <1>5, <3>1
    <3> HIDE DEF IsBehind
    <3>3. /\ collected' \in Seq(N)
          /\ \A i \in DOMAIN collected : collected'[i] = collected[i]
          /\ \A i \in DOMAIN fresh : collected'[Len(collected) + i] = fresh[i]
          /\ \A i \in DOMAIN collected' :
               i \in DOMAIN collected \/ \E k \in DOMAIN fresh : i = Len(collected) + k
      <4>1. fresh \in Seq(N)
        BY <1>5
      <4>2. /\ collected \o fresh \in Seq(N)
            /\ \A i \in DOMAIN collected : (collected \o fresh)[i] = collected[i]
            /\ \A i \in DOMAIN fresh : (collected \o fresh)[Len(collected) + i] = fresh[i]
            /\ \A i \in DOMAIN (collected \o fresh) :
                 i \in DOMAIN collected \/ \E k \in DOMAIN fresh : i = Len(collected) + k
        BY <1>8, <4>1, Concatenated
      <4> QED
        BY ONLY <2>2, <4>2
    <3> QED
      BY <1>12, <3>2, <3>3
  <2> QED
    BY <1>9, <2>1, <2>2
<1>14. Expands(n, fp, cs, q)
  <2>1. nodes' = [nodes EXCEPT ![level] = [@ EXCEPT ![n].flowpipe = fp] \o cs]
    BY <1>1 DEF Expand
  <2>2. verdict' = "none" /\ level # 1
    BY <1>1, <1>2
  <2> QED
    BY <1>1, <1>2, <1>10, <1>11, <1>13, <2>1, <2>2 DEF Expands, N
<1>15. /\ LevelsInv' /\ IsExpansion(level, nodes[level], n, fp, cs, nodes'[level])
       /\ \A i \in Levels : i # level => nodes'[i] = nodes[i]
  BY <1>1, <1>14, ExpandStep
<1>16. queue'[level] = q /\ \A i \in Levels : i # level => queue'[i] = queue[i]
  BY <1>2, <1>11 DEF IsChangedAt
<1> QED
  BY <1>15, <1>16 DEF StepsTo, q

LEMMA StopStep ==
  ASSUME LevelsInv, StopAtJumpDepth, NEW n, n = Head(queue[level]),
         NEW fp, fp = currentFlowpipe
  PROVE  /\ OnRefinement(n, fp) /\ current.depth = jumpDepth
         /\ StepsTo(n, fp, << >>) /\ collected' = collected
         /\ queue'[level] = Tail(queue[level]) \o << >>
<1>1. /\ OnRefinement(n, fp) /\ current.depth = jumpDepth /\ Expand(<< >>)
      /\ queue' = [queue EXCEPT ![level] = Tail(@)]
      /\ collected' = collected /\ UNCHANGED <<ha, strategy, level, path, conflict, verdict>>
  BY DEF StopAtJumpDepth, OnPath, Refining, OnRefinement
<1>2. Tail(queue[level]) \o << >> = Tail(queue[level])
  <2>1. Tail(queue[level]) \in Seq(DOMAIN nodes[level])
    BY <1>1, CurrentFacts DEF OnRefinement
  <2> QED
    BY <2>1
<1>3. queue' = [queue EXCEPT ![level] = Tail(@) \o << >>]
  BY <1>1, <1>2
<1>4. << >> \in Seq(NodeType) /\ << >> \in Seq(1..Len(nodes[level]) + Len(<< >>))
      /\ \A k \in DOMAIN << >> : IsNewChild(nodes[level], n, << >>[k])
  OBVIOUS
<1> QED
  BY <1>1, <1>3, <1>4, RefinementStep

LEMMA CollectChildrenStep ==
  ASSUME LevelsInv, CollectChildren, NEW n, n = Head(queue[level]),
         NEW fp, fp = currentFlowpipe, NEW cs, cs = AllChildren(level, n, fp)
  PROVE  /\ OnRefinement(n, fp) /\ current.depth = Len(path[level])
         /\ StepsTo(n, fp, cs)
         /\ collected' = collected \o [k \in DOMAIN cs |-> NewIndex(k)]
         /\ queue'[level] = Tail(queue[level]) \o << >>
         /\ AreChildren(level, n, fp, TransitionsFrom(ha, current.location), cs)
<1>1. /\ OnRefinement(n, fp) /\ current.depth = Len(path[level])
      /\ queue' = [queue EXCEPT ![level] = Tail(@)]
      /\ UNCHANGED <<ha, strategy, level, path, conflict, verdict>>
  BY DEF CollectChildren, OnPath, Refining, OnRefinement
<1>0. /\ level \in Levels /\ TypeInv /\ n \in DOMAIN nodes[level] /\ fp \in Seq(SUBSET Point)
      /\ current = nodes[level][n] /\ Tail(queue[level]) \in Seq(DOMAIN nodes[level])
  BY <1>1, CurrentFacts DEF OnRefinement
<1>2. Expand(cs) /\ collected' = collected \o [k \in DOMAIN cs |-> NewIndex(k)]
  BY <1>0 DEF CollectChildren, AllChildren
<1>3. AreChildren(level, n, fp, TransitionsFrom(ha, current.location), cs)
  BY <1>0, AllChildrenAre
<1>4. cs \in Seq(NodeType) /\ \A k \in DOMAIN cs : IsNewChild(nodes[level], n, cs[k])
  BY <1>3 DEF AreChildren
<1>5. Tail(queue[level]) \o << >> = Tail(queue[level])
  BY <1>0
<1>6. queue' = [queue EXCEPT ![level] = Tail(@) \o << >>]
  BY <1>1, <1>5
<1>7. << >> \in Seq(1..Len(nodes[level]) + Len(cs))
  OBVIOUS
<1> QED
  BY <1>1, <1>2, <1>3, <1>4, <1>6, <1>7, RefinementStep

(* The children that follow the path.                                     *)
Existing(n) ==
  {c \in R(strategy[level].over)!Children(nodes[level], n) :
     MatchesPathTransition(path[level], nodes[level][c])}

PathChildren(n, fp) ==
  IF Existing(n) # {} THEN << >>
  ELSE RefinedSuccessors(level, n, path[level][current.depth + 1].transition, fp)

Candidates(n, fp) ==
  IF Existing(n) # {} THEN Existing(n) ELSE {NewIndex(k) : k \in DOMAIN PathChildren(n, fp)}

Followed(n, fp) ==
  {c \in Candidates(n, fp) :
     MatchesPathTiming(path[level], (nodes[level] \o PathChildren(n, fp))[c])}

LEMMA FollowPathStep ==
  ASSUME LevelsInv, FollowPath, NEW n, n = Head(queue[level]),
         NEW fp, fp = currentFlowpipe, NEW cs, cs = PathChildren(n, fp)
  PROVE  /\ OnRefinement(n, fp) /\ current.depth < Len(path[level])
         /\ StepsTo(n, fp, cs) /\ collected' = collected
         /\ queue'[level] = Tail(queue[level]) \o Ascending(Followed(n, fp))
         /\ Ascending(Followed(n, fp)) \in Seq(Followed(n, fp))
         /\ \A c \in Followed(n, fp) :
              \E k \in DOMAIN Ascending(Followed(n, fp)) : Ascending(Followed(n, fp))[k] = c
         /\ Existing(n) = {} =>
              AreChildren(level, n, fp, {path[level][current.depth + 1].transition}, cs)
<1> DEFINE len == Len(nodes[level])
           N == 1..len + Len(cs)
           F == Followed(n, fp)
           t == path[level][current.depth + 1].transition
<1>1. /\ OnRefinement(n, fp) /\ current.depth < Len(path[level])
      /\ UNCHANGED <<ha, strategy, level, path, conflict, collected, verdict>>
      /\ collected' = collected
  BY DEF FollowPath, OnPath, Refining, OnRefinement
<1>0. /\ level \in Levels /\ TypeInv /\ n \in DOMAIN nodes[level] /\ fp \in Seq(SUBSET Point)
      /\ current = nodes[level][n] /\ current.depth \in Nat
      /\ len \in Nat /\ DOMAIN nodes[level] = 1..len
  BY <1>1, CurrentFacts DEF OnRefinement
<1>2. /\ Expand(cs)
      /\ queue' = [queue EXCEPT ![level] = Tail(@) \o Ascending(F)]
  BY <1>0 DEF FollowPath, PathChildren, Candidates, Followed, Existing
<1>3. t \in DOMAIN ha.transition
  <2> DEFINE E == [lower : Int, upper : Int, transition : DOMAIN ha.transition]
             p == path[level]
             k == current.depth + 1
  <2>1. p \in Seq(E)
    BY <1>0 DEF TypeInv, TypeOK
  <2>2. k \in 1..Len(p)
    <3>1. Len(p) \in Nat
      BY <2>1
    <3> QED
      BY <1>0, <1>1, <3>1
  <2> HIDE DEF p, k, E
  <2>3. p[k] \in E
    BY <2>1, <2>2
  <2>4. p[k].transition \in DOMAIN ha.transition
    BY <2>3 DEF E
  <2> QED
    BY <2>4 DEF p, k
<1>4. Existing(n) = {} => AreChildren(level, n, fp, {t}, cs)
  BY <1>0, <1>3, RefinedSuccessorsAre DEF PathChildren
<1>5. cs \in Seq(NodeType) /\ \A k \in DOMAIN cs : IsNewChild(nodes[level], n, cs[k])
  <2>1. CASE Existing(n) = {}
    BY <1>4, <2>1 DEF AreChildren
  <2>2. CASE Existing(n) # {}
    BY <2>2 DEF PathChildren
  <2> QED
    BY <2>1, <2>2
<1>a. len \in Nat /\ Len(cs) \in Nat /\ DOMAIN cs = 1..Len(cs)
  BY <1>0, <1>5
<1>b. Existing(n) \subseteq 1..len
  BY <1>0 DEF Existing, R!Children
<1>c. \A k : NewIndex(k) = len + k
  BY DEF NewIndex
<1> HIDE DEF len
<1>d. N \in SUBSET Nat /\ IsFiniteSet(N) /\ 1..len \subseteq N
  <2> DEFINE m == len + Len(cs)
  <2>1. m \in Nat /\ len <= m
    BY <1>a
  <2> HIDE DEF m
  <2>2. 1..m \in SUBSET Nat /\ IsFiniteSet(1..m) /\ 1..len \subseteq 1..m
    BY <1>a, <2>1, FS_Interval
  <2> QED
    BY <2>2 DEF m
<1>e. \A k \in DOMAIN cs : NewIndex(k) \in N
  BY <1>a, <1>c
<1> HIDE DEF N
<1>6. F \subseteq N
  BY <1>b, <1>d, <1>e DEF Followed, Candidates
<1>7. F \in SUBSET Nat /\ IsFiniteSet(F)
  BY <1>d, <1>6, FS_Subset
<1> HIDE DEF F, t
<1>8. Ascending(F) \in Seq(F) /\ \A x \in F : \E k \in DOMAIN Ascending(F) : Ascending(F)[k] = x
  BY <1>7, AscendingLists
<1>9. Ascending(F) \in Seq(N)
  BY <1>6, <1>8, SeqLarger
<1>10. StepsTo(n, fp, cs) /\ queue'[level] = Tail(queue[level]) \o Ascending(F)
  BY <1>1, <1>2, <1>5, <1>9, RefinementStep DEF N, len
<1> QED
  BY <1>1, <1>4, <1>8, <1>10 DEF F, t

LEMMA RefineBaseStep ==
  ASSUME LevelsInv, RefineBaseConflict, NEW n, n = Head(queue[1]),
         NEW fp, fp = TimeSuccessors(1, nodes[1][n].location, nodes[1][n].initialSet)
  PROVE  /\ level = 1 /\ verdict = "none" /\ queue[1] # << >> /\ fp \in Seq(SUBSET Point)
         /\ RefineNext(1, n, fp) /\ UNCHANGED <<ha, strategy>> /\ LevelsInv'
<1>1. /\ level = 1 /\ verdict = "none" /\ queue[1] # << >>
      /\ RefineNext(1, n, fp) /\ UNCHANGED <<ha, strategy>>
  BY DEF RefineBaseConflict, AnalyzingBase, current
<1>2. TypeInv /\ current = nodes[1][n] /\ fp \in Seq(SUBSET Point)
  BY <1>1, CurrentFacts
<1>3. level + 1 \in Levels
  BY <1>1, <1>2, LevelTypes
<1>4. RefineNext(level, Head(queue[level]), fp) /\ queue[level] # << >>
  BY <1>1
<1> QED
  BY <1>1, <1>2, <1>3, <1>4, RefineStep

LEMMA StopUnknown ==
  ASSUME LevelsInv, RefineConflict, level = Top
  PROVE  LevelsInv' /\ verdict' = "UNKNOWN" /\ UNCHANGED <<ha, strategy>>
<1> DEFINE n == Head(queue[level])
           fp == currentFlowpipe
           ms == [nodes[level] EXCEPT ![n].flowpipe = fp]
           q == Tail(queue[level])
<1>1. /\ queue[level] # << >> /\ level > 1 /\ verdict' = "UNKNOWN"
      /\ nodes' = [nodes EXCEPT ![level] = ms]
      /\ queue' = [queue EXCEPT ![level] = q]
      /\ UNCHANGED <<ha, strategy, level, path, conflict, collected>>
  <2>1. level \in Nat /\ ~(level < Top)
    BY LevelFacts, LevelTypes DEF LevelsInv
  <2> QED
    BY <2>1 DEF RefineConflict, OnPath, Refining
<1>2. /\ level \in Levels /\ TypeInv /\ n \in DOMAIN nodes[level] /\ nodes[level] \in Seq(NodeType)
      /\ fp \in Seq(SUBSET Point) /\ IsTree(level, nodes[level]) /\ level \in Nat
      /\ q \in Seq(DOMAIN nodes[level]) /\ DOMAIN nodes = Levels /\ DOMAIN queue = Levels
  BY <1>1, CurrentFacts, LevelFacts DEF TypeInv
<1>3. ms \in Seq(NodeType) /\ DOMAIN ms = DOMAIN nodes[level]
  BY <1>2, FlowpipeStored
<1>4. Extends(nodes[level], ms)
  BY <1>2, FlowpipeStored
<1> HIDE DEF ms, q, n, fp
<1>5. IsTree(level, ms)
  BY <1>2, <1>3, <1>4, TreeGrows
<1>6. IsChangedAt(nodes, nodes', level, ms) /\ IsChangedAt(queue, queue', level, q)
  BY <1>1, <1>2 DEF IsChangedAt
<1>7. q \in Seq(DOMAIN ms)
  BY <1>2, <1>3
<1>8. /\ collected' = collected /\ collected \in Seq(DOMAIN ms)
      /\ \A k \in DOMAIN collected : ms[collected[k]].depth = Len(path[level]) + 1
  <2>1. /\ collected \in Seq(DOMAIN nodes[level])
        /\ \A k \in DOMAIN collected : nodes[level][collected[k]].depth = Len(path[level]) + 1
    BY <1>2 DEF LevelsInv, ControlInv, TypeInv, TypeOK
  <2>2. \A k \in DOMAIN collected : collected[k] \in DOMAIN nodes[level]
    BY <2>1
  <2> QED
    BY <1>1, <1>3, <1>4, <2>1, <2>2 DEF Extends, SameNode
<1>9. UNCHANGED <<ha, strategy, level, path, conflict>> /\ level # 1
  BY <1>1, <1>2
<1> QED
  BY <1>1, <1>3, <1>4, <1>5, <1>6, <1>7, <1>8, <1>9, LevelStep

LEMMA RefineConflictStep ==
  ASSUME LevelsInv, RefineConflict
  PROVE  LevelsInv'
<1>1. /\ level > 1 /\ verdict = "none" /\ queue[level] # << >> /\ UNCHANGED <<ha, strategy>>
      /\ level < Top => RefineNext(level, Head(queue[level]), currentFlowpipe)
  BY DEF RefineConflict, OnPath, Refining
<1>2. level \in Nat /\ level \in 1..Top /\ Levels = 1..Top /\ Top \in Nat /\ currentFlowpipe \in Seq(SUBSET Point)
  BY <1>1, CurrentFacts, LevelTypes
<1>3. CASE level < Top
  <2>1. level + 1 \in Levels
    BY <1>2, <1>3
  <2> QED
    BY <1>1, <1>2, <1>3, <2>1, RefineStep
<1>4. CASE level = Top
  BY <1>4, StopUnknown
<1> QED
  BY <1>2, <1>3, <1>4

LEMMA CollectNodeStep ==
  ASSUME LevelsInv, CollectNode, NEW n, n = Head(queue[level])
  PROVE  /\ LevelsInv' /\ level > 1 /\ verdict = "none" /\ queue[level] # << >>
         /\ UNCHANGED <<ha, strategy, level, nodes, path, conflict, verdict>>
         /\ collected' = Append(collected, n) /\ queue'[level] = Tail(queue[level])
         /\ \A i \in Levels : i # level => queue'[i] = queue[i]
<1> DEFINE q == Tail(queue[level])
           ms == nodes[level]
<1>1. /\ queue[level] # << >> /\ level > 1 /\ verdict = "none"
      /\ queue' = [queue EXCEPT ![level] = q]
      /\ collected' = Append(collected, n)
      /\ UNCHANGED <<ha, strategy, level, nodes, path, conflict, verdict>>
      /\ current.depth = Len(path[level]) + 1
  BY DEF CollectNode, Refining
<1>2. /\ level \in Levels /\ TypeInv /\ n \in DOMAIN ms /\ ms \in Seq(NodeType)
      /\ IsTree(level, ms) /\ level \in Nat /\ current = ms[n]
      /\ q \in Seq(DOMAIN ms) /\ DOMAIN nodes = Levels /\ DOMAIN queue = Levels
  BY <1>1, CurrentFacts, LevelFacts DEF TypeInv
<1>3. IsChangedAt(nodes, nodes', level, ms) /\ IsChangedAt(queue, queue', level, q)
  BY <1>1, <1>2 DEF IsChangedAt
<1>4. /\ collected \in Seq(DOMAIN ms)
      /\ \A k \in DOMAIN collected : ms[collected[k]].depth = Len(path[level]) + 1
  BY <1>2 DEF LevelsInv, ControlInv, TypeInv, TypeOK
<1>5. Extends(nodes[level], ms)
  BY DEF Extends, SameNode
<1> HIDE DEF ms, q
<1>6. /\ collected' \in Seq(DOMAIN ms)
      /\ \A k \in DOMAIN collected' : ms[collected'[k]].depth = Len(path[level]) + 1
  <2>1. /\ collected' \in Seq(DOMAIN ms)
        /\ DOMAIN collected' = DOMAIN collected \cup {Len(collected) + 1}
        /\ (\A i \in DOMAIN collected : collected'[i] = collected[i])
        /\ collected'[Len(collected) + 1] = n
    BY <1>1, <1>2, <1>4, Appended
  <2> QED
    BY <1>1, <1>2, <1>4, <2>1
<1>7. UNCHANGED <<ha, strategy, level, path, conflict>> /\ level # 1 /\ verdict' = "none"
  BY <1>1, <1>2
<1>8. LevelsInv'
  BY <1>1, <1>2, <1>3, <1>5, <1>6, <1>7, LevelStep
<1> QED
  BY <1>1, <1>2, <1>3, <1>8 DEF IsChangedAt, q

LEMMA ReportSafeStep ==
  ASSUME LevelsInv, ReportSafe
  PROVE  LevelsInv'
<1>1. /\ level = 1 /\ queue[1] = << >> /\ verdict' = "SAFE"
      /\ UNCHANGED <<ha, strategy, level, nodes, queue, path, conflict, collected>>
  BY DEF ReportSafe
<1>2. TypeInv'
  BY <1>1 DEF LevelsInv, TypeInv, TypeOK, Levels, Top
<1>3. TreeInv'
  BY <1>1 DEF LevelsInv, TreeInv, IsTree, IsRootNode, IsChildNode, Levels, Top
<1>4. ControlInv'
  BY <1>1 DEF LevelsInv, ControlInv, PathTo, Levels, Top
<1> QED
  BY <1>2, <1>3, <1>4 DEF LevelsInv

LEMMA LevelsUnchanged ==
  ASSUME LevelsInv, UNCHANGED cegarVars
  PROVE  LevelsInv'
<1>1. UNCHANGED <<ha, strategy, level, nodes, queue, path, conflict, collected, verdict>>
  BY DEF cegarVars
<1>2. TypeInv'
  BY <1>1 DEF LevelsInv, TypeInv, TypeOK, Levels, Top
<1>3. TreeInv'
  BY <1>1 DEF LevelsInv, TreeInv, IsTree, IsRootNode, IsChildNode, Levels, Top
<1>4. ControlInv'
  BY <1>1 DEF LevelsInv, ControlInv, PathTo, Levels, Top
<1> QED
  BY <1>2, <1>3, <1>4 DEF LevelsInv

LEMMA LevelsNext ==
  ASSUME LevelsInv, [Next]_<<cegarVars, run>>
  PROVE  LevelsInv'
<1>1. CASE RefineBaseConflict
  BY <1>1, RefineBaseStep
<1>2. CASE ExpandBaseNode
  BY <1>2, ExpandBaseStep DEF BaseStepsTo
<1>3. CASE ReportSafe
  BY <1>3, ReportSafeStep
<1>4. CASE CollectNode
  BY <1>4, CollectNodeStep
<1>5. CASE RefineConflict
  BY <1>5, RefineConflictStep
<1>6. CASE StopAtJumpDepth
  BY <1>6, StopStep DEF StepsTo
<1>7. CASE CollectChildren
  BY <1>7, CollectChildrenStep DEF StepsTo
<1>8. CASE FollowPath
  BY <1>8, FollowPathStep DEF StepsTo
<1>9. CASE TransferNodes
  BY <1>9, HandBackStep
<1>10. CASE UNCHANGED cegarVars
  BY <1>10, LevelsUnchanged
<1> QED
  BY <1>1, <1>2, <1>3, <1>4, <1>5, <1>6, <1>7, <1>8, <1>9, <1>10
  DEF Next, Analyze, RunStarts, RunElapses, RunJumps, cegarVars

LEMMA LevelsInit ==
  ASSUME Init
  PROVE  LevelsInv
<1>1. /\ ha \in Automata /\ strategy \in Strategies /\ level = 1
      /\ nodes = [i \in Levels |-> IF i = 1 THEN [k \in DOMAIN ha.initial |-> RootNode(1, ha.initial[k].loc)]
                                   ELSE << >>]
      /\ queue = [i \in Levels |-> IF i = 1 THEN [k \in DOMAIN ha.initial |-> k] ELSE << >>]
      /\ path = [i \in Levels |-> << >>]
      /\ conflict = [i \in Levels |-> NoNode]
      /\ collected = << >> /\ verdict = "none"
  BY DEF Init
<1>2. Top \in Nat /\ Top > 1 /\ Levels = 1..Top /\ 1 \in Levels
  BY <1>1, StrategyTypes DEF Top, Levels
<1> DEFINE D == DOMAIN ha.initial
           roots == [k \in D |-> RootNode(1, ha.initial[k].loc)]
<1>3. D = 1..Len(ha.initial) /\ Len(ha.initial) \in Nat
  <2>1. ha.initial \in Seq([loc : Location, set : SUBSET Point])
    BY <1>1, AutomatonTypes DEF AutomatonType
  <2> QED
    BY <2>1
<1>4. \A k \in D : RootNode(1, ha.initial[k].loc) \in NodeType /\ IsRootNode(1, RootNode(1, ha.initial[k].loc))
  BY <1>1, <1>2, RootNodeIs
<1> HIDE DEF D
<1>5. roots \in Seq(NodeType) /\ DOMAIN roots = D /\ \A k \in D : IsRootNode(1, roots[k])
  BY <1>3, <1>4
<1> HIDE DEF roots
<1>6. /\ nodes[1] = roots /\ queue[1] = [k \in D |-> k]
      /\ \A i \in Levels : i # 1 => nodes[i] = << >> /\ queue[i] = << >>
      /\ DOMAIN nodes = Levels /\ DOMAIN queue = Levels
      /\ DOMAIN path = Levels /\ DOMAIN conflict = Levels
      /\ \A i \in Levels : path[i] = << >> /\ conflict[i] = NoNode
  BY <1>1, <1>2 DEF roots, D
<1>7. [k \in D |-> k] \in Seq(D)
  BY <1>3
<1>8. TypeInv
  <2>1. ASSUME NEW i \in Levels
        PROVE  /\ nodes[i] \in Seq(NodeType) /\ queue[i] \in Seq(DOMAIN nodes[i])
               /\ conflict[i] \in DOMAIN nodes[i] \cup {NoNode}
               /\ path[i] \in Seq([lower : Int, upper : Int, transition : DOMAIN ha.transition])
    <3> DEFINE E == [lower : Int, upper : Int, transition : DOMAIN ha.transition]
               X == NodeType
    <3> HIDE DEF E, X
    <3>0. /\ << >> \in Seq(E) /\ << >> \in Seq(X) /\ << >> \in Seq(DOMAIN << >>)
          /\ path[i] = << >> /\ conflict[i] = NoNode /\ roots \in Seq(X)
      BY <1>5, <1>6 DEF X
    <3>1. CASE i = 1
      <4>1. nodes[i] = roots /\ queue[i] \in Seq(DOMAIN roots)
        BY <1>5, <1>6, <1>7, <3>1
      <4> QED
        BY <3>0, <4>1 DEF E, X
    <3>2. CASE i # 1
      <4>1. nodes[i] = << >> /\ queue[i] = << >>
        BY <1>6, <3>2
      <4> QED
        BY <3>0, <4>1 DEF E, X
    <3> QED
      BY <3>1, <3>2
  <2>2. collected \in Seq(DOMAIN nodes[level])
    BY <1>1
  <2> QED
    BY <1>1, <1>2, <1>6, <2>1, <2>2 DEF TypeInv, TypeOK
<1>9. TreeInv
  <2>1. ASSUME NEW i \in Levels PROVE IsTree(i, nodes[i])
    <3>1. CASE i = 1
      BY <1>5, <1>6, <3>1 DEF IsTree
    <3>2. CASE i # 1
      BY <1>6, <3>2 DEF IsTree
    <3> QED
      BY <3>1, <3>2
  <2> QED
    BY <2>1 DEF TreeInv
<1>10. ControlInv
  <2>1. \A i \in Levels : ~(i < level) /\ (i > level => i # 1)
    BY <1>1, <1>2
  <2> QED
    BY <1>1, <1>6, <2>1 DEF ControlInv
<1> QED
  BY <1>8, <1>9, <1>10 DEF LevelsInv

(* The levels, their trees, queues and paths fit together in every state. *)
LEMMA LevelsInvariance == Spec => []LevelsInv
<1>1. Init => LevelsInv
  BY LevelsInit
<1>2. LevelsInv /\ [Next]_<<cegarVars, run>> => LevelsInv'
  BY LevelsNext
<1> QED
  BY <1>1, <1>2, PTL DEF Spec

(* Queues, conflict nodes and collected nodes always refer to nodes of    *)
(* their level, and a path takes transitions of the automaton.            *)
THEOREM CEGARTypes == Spec => []TypeOK
<1>1. LevelsInv => TypeOK
  BY DEF LevelsInv, TypeInv
<1> QED
  BY <1>1, LevelsInvariance, PTL

(* The assertion of setRefinement, for any number of levels: a refinement *)
(* starts at a level whose queue is empty.                                *)
THEOREM RefinementsStartEmpty == Spec => RefinementStartsEmpty
<1>1. ASSUME LevelsInv, LevelsInv', level' > level, Levels' = Levels
      PROVE  queue[level'] = << >>
  <2>1. level' \in Levels'
    BY <1>1 DEF LevelsInv, TypeInv, TypeOK
  <2> QED
    BY <1>1, <2>1 DEF LevelsInv, ControlInv
<1>2. [Next]_<<cegarVars, run>> => Levels' = Levels
  BY DEF Levels, Top, Next, Analyze, RefineBaseConflict, ExpandBaseNode, ReportSafe, CollectNode,
         RefineConflict, StopAtJumpDepth, CollectChildren, FollowPath, TransferNodes, HandBack,
         RunStarts, RunElapses, RunJumps, cegarVars
<1>3. LevelsInv /\ LevelsInv' /\ [Next]_<<cegarVars, run>>
        => [level' > level => queue[level'] = << >>]_<<cegarVars, run>>
  BY <1>1, <1>2
<1> QED
  BY <1>3, LevelsInvariance, PTL DEF Spec, RefinementStartsEmpty

--------------------------------------------------------------------------
(* Soundness of two levels.  What is said of a tree and a run does not    *)
(* change while the automaton and the strategy do not.                    *)
QueuedIn(i, ns, q, r) == \E j \in DOMAIN q : Covers(i, ns, q[j], r)

IsPending(l, n1, n2, q1, q2, c, cs, r) ==
  \/ QueuedIn(1, n1, q1, r)
  \/ l = 2 /\ Covers(1, n1, c, r) /\ (QueuedIn(2, n2, q2, r) \/ QueuedIn(2, n2, cs, r))

LEMMA PendingIs ==
  ASSUME NEW r
  PROVE  IsQueued(1, r) \/ IsRefined(r) <=>
           IsPending(level, nodes[1], nodes[2], queue[1], queue[2], conflict[1], collected, r)
BY DEF IsQueued, IsRefined, IsCollected, IsPending, QueuedIn

LEMMA SameTraces ==
  ASSUME ha' = ha, strategy' = strategy, NEW r
  PROVE  /\ IsTrace(r)' <=> IsTrace(r)
         /\ IsSafe(r[Len(r)])' <=> IsSafe(r[Len(r)])
<1>1. \A v : IsVisit(v)' <=> IsVisit(v)
  BY DEF IsVisit, Position
<1>2. \A v : IsFirst(v)' <=> IsFirst(v)
  BY DEF IsFirst
<1>3. \A u, v : Follows(u, v)' <=> Follows(u, v)
  BY DEF Follows, Position
<1>4. IsSafe(r[Len(r)])' <=> IsSafe(r[Len(r)])
  BY DEF IsSafe, Position
<1> QED
  BY <1>1, <1>2, <1>3, <1>4 DEF IsTrace

LEMMA SameCovers ==
  ASSUME ha' = ha, strategy' = strategy, NEW i, NEW ns, NEW n, NEW r
  PROVE  Covers(i, ns, n, r)' <=> Covers(i, ns, n, r)
BY DEF Covers, Includes, StartsIn, PathMatches, PathTo, Above

LEMMA PendingPrimed ==
  ASSUME ha' = ha, strategy' = strategy, NEW r
  PROVE  (IsQueued(1, r) \/ IsRefined(r))' <=>
           IsPending(level', nodes'[1], nodes'[2], queue'[1], queue'[2], conflict'[1], collected', r)
<1>1. \A j : Covers(1, nodes[1], queue[1][j], r)' <=> Covers(1, nodes'[1], queue'[1][j], r)
  BY DEF Covers, Includes, StartsIn, PathMatches, PathTo, Above
<1>2. \A j : Covers(2, nodes[2], queue[2][j], r)' <=> Covers(2, nodes'[2], queue'[2][j], r)
  BY DEF Covers, Includes, StartsIn, PathMatches, PathTo, Above
<1>3. \A j : Covers(2, nodes[2], collected[j], r)' <=> Covers(2, nodes'[2], collected'[j], r)
  BY DEF Covers, Includes, StartsIn, PathMatches, PathTo, Above
<1>4. Covers(1, nodes[1], conflict[1], r)' <=> Covers(1, nodes'[1], conflict'[1], r)
  BY DEF Covers, Includes, StartsIn, PathMatches, PathTo, Above
<1> QED
  BY <1>1, <1>2, <1>3, <1>4 DEF IsQueued, IsRefined, IsCollected, IsPending, QueuedIn

LEMMA SameTimeSuccessors ==
  ASSUME ha' = ha, strategy' = strategy, NEW i, NEW l, NEW S
  PROVE  TimeSuccessors(i, l, S)' = TimeSuccessors(i, l, S)
BY DEF TimeSuccessors, AtLevel, IsBad

LEMMA StillQueued ==
  ASSUME NEW i, NEW ns, NEW ms, IsForest(ns), IsForest(ms), Extends(ns, ms), NEW r,
         NEW q \in Seq(DOMAIN ns), QueuedIn(i, ns, q, r), NEW S, NEW new \in Seq(S)
  PROVE  /\ QueuedIn(i, ms, q \o new, r)
         /\ Covers(i, ns, Head(q), r) \/ QueuedIn(i, ms, Tail(q) \o new, r)
<1>1. PICK j \in DOMAIN q : Covers(i, ns, q[j], r)
  BY DEF QueuedIn
<1>2. q[j] \in DOMAIN ns /\ q # << >>
  OBVIOUS
<1>3. Covers(i, ms, q[j], r)
  BY <1>1, <1>2, CoversAgrees
<1> DEFINE X == DOMAIN ns \cup S
<1>4. q \in Seq(X) /\ new \in Seq(X) /\ Tail(q) \in Seq(X)
  <2>1. q \in Seq(X) /\ new \in Seq(X)
    BY SeqLarger
  <2> HIDE DEF X
  <2> QED
    BY <1>2, <2>1, Dequeued
<1> HIDE DEF X
<1>5. QueuedIn(i, ms, q \o new, r)
  <2>1. j \in DOMAIN (q \o new) /\ (q \o new)[j] = q[j]
    BY <1>4, Concatenated
  <2> QED
    BY <1>3, <2>1 DEF QueuedIn
<1>6. CASE j = 1
  BY <1>1, <1>2, <1>5, <1>6, Dequeued
<1>7. CASE j # 1
  <2>1. PICK k \in DOMAIN Tail(q) : Tail(q)[k] = q[j]
    BY <1>2, <1>7, Dequeued
  <2>2. k \in DOMAIN (Tail(q) \o new) /\ (Tail(q) \o new)[k] = q[j]
    BY <1>4, <2>1, Concatenated
  <2> QED
    BY <1>3, <1>5, <2>2 DEF QueuedIn
<1> QED
  BY <1>6, <1>7

LEMMA NowQueued ==
  ASSUME NEW i, NEW ms, NEW r, NEW S, NEW q \in Seq(S), NEW U, NEW new \in Seq(U),
         QueuedIn(i, ms, new, r)
  PROVE  QueuedIn(i, ms, q \o new, r)
<1>1. PICK j \in DOMAIN new : Covers(i, ms, new[j], r)
  BY DEF QueuedIn
<1>2. q \in Seq(S \cup U) /\ new \in Seq(S \cup U)
  BY SeqLarger
<1>3. Len(q) + j \in DOMAIN (q \o new) /\ (q \o new)[Len(q) + j] = new[j]
  BY <1>2, Concatenated
<1> QED
  BY <1>1, <1>3 DEF QueuedIn

(* A run that ends at a node whose flowpipe is good has been safe there.  *)
LEMMA EndsSafely ==
  ASSUME LevelsInv, ha.localFalse = {}, NEW i \in Levels, NEW n \in DOMAIN nodes[i],
         NEW fp, IsFlowpipeOf(i, nodes[i][n].location, nodes[i][n].initialSet, fp),
         ~MeetsBadStates(i, nodes[i][n].location, fp),
         NEW r, IsTrace(r), Covers(i, nodes[i], n, r), nodes[i][n].depth + 2 \notin DOMAIN r
  PROVE  IsSafe(r[Len(r)])
<1> DEFINE d == nodes[i][n].depth
           v == r[d + 1]
<1>1. /\ TypeInv /\ nodes[i] \in Seq(NodeType) /\ d \in Nat /\ nodes[i][n].initialSet \in SUBSET Point
  BY LevelFacts, NodeTypes DEF LevelsInv
<1>2. d + 1 \in DOMAIN r /\ Includes(nodes[i][n], v)
  BY DEF Covers
<1>3. v \in VisitType /\ IsVisit(v) /\ DOMAIN r = 1..Len(r) /\ Len(r) \in Nat
  BY <1>2, TraceTypes
<1>4. Len(r) = d + 1
  BY <1>1, <1>2, <1>3
<1>5. v.location = nodes[i][n].location /\ v.entry \in nodes[i][n].initialSet
  BY <1>2 DEF Includes
<1> HIDE DEF v, d
<1>6. IsSafe(v)
  BY <1>1, <1>3, <1>5, VisitIsSafe
<1> QED
  BY <1>4, <1>6 DEF v, d

(* The next jump of a run leaves the location of a node that it is on.    *)
LEMMA NextJump ==
  ASSUME LevelsInv, NEW i \in Levels, NEW n \in DOMAIN nodes[i],
         NEW r, IsTrace(r), Covers(i, nodes[i], n, r),
         NEW d, d = nodes[i][n].depth, d + 2 \in DOMAIN r
  PROVE  /\ r[d + 2].transition \in TransitionsFrom(ha, nodes[i][n].location)
         /\ TransitionsFrom(ha, nodes[i][n].location) \subseteq DOMAIN ha.transition
         /\ d < jumpDepth
<1>1. d \in Nat /\ jumpDepth \in Nat
  BY LevelFacts, NodeTypes, BoundsAssumption
<1>2. d + 2 \in Nat /\ d + 2 <= Len(r) /\ Len(r) <= jumpDepth + 1 /\ Len(r) \in Nat
  BY TraceTypes
<1>3. d + 2 \in 2..Len(r) /\ (d + 2) - 1 = d + 1
  BY <1>1, <1>2
<1>4. Follows(r[d + 1], r[d + 2])
  <2>1. Follows(r[(d + 2) - 1], r[d + 2])
    BY <1>3 DEF IsTrace
  <2> QED
    BY <1>3, <2>1
<1>5. r[d + 1].location = nodes[i][n].location
  BY DEF Covers, Includes
<1>6. d < jumpDepth
  BY <1>1, <1>2
<1>7. r[d + 2].transition \in TransitionsFrom(ha, nodes[i][n].location)
  BY <1>4, <1>5 DEF Follows
<1> QED
  BY <1>6, <1>7 DEF TransitionsFrom

TwoLevelInv == CoverInv /\ KeptInv /\ ChildrenInv

(* A run is pending, or has been found safe.                              *)
IsAccounted(r) == IsSafe(r[Len(r)]) \/ IsQueued(1, r) \/ IsRefined(r)

LEMMA TwoLevelsAre ==
  ASSUME LevelsInv, HasTwoLevels
  PROVE  /\ Top = 2 /\ Levels = 1..2 /\ 1 \in Levels /\ 2 \in Levels /\ 1 # 2
         /\ ha.localFalse = {} /\ level \in {1, 2} /\ TypeInv
         /\ \A i \in Levels : i = 1 \/ i = 2
BY LevelFacts DEF LevelsInv, HasTwoLevels, Levels

(* The base level.                                                        *)
LEMMA CoverExpandBase ==
  ASSUME LevelsInv, HasTwoLevels, CoverInv, ExpandBaseNode
  PROVE  CoverInv'
<1> DEFINE n == Head(queue[1])
           node == nodes[1][n]
           fp == BaseFlowpipe(n)
           cs == BaseChildrenOf(n, fp)
           new == [k \in DOMAIN cs |-> Len(nodes[1]) + k]
           ms == nodes'[1]
<1>1. /\ LevelsInv' /\ level = 1 /\ verdict = "none" /\ queue[1] # << >>
      /\ UNCHANGED <<ha, strategy, level, path, conflict, collected, verdict>>
      /\ ~MeetsBadStates(1, node.location, fp)
      /\ cs \in Seq(NodeType)
      /\ IsExpansion(1, nodes[1], n, fp, cs, ms)
      /\ queue'[1] = Tail(queue[1]) \o new
  <2>1. BaseStepsTo(n, fp, cs)
    BY ExpandBaseStep
  <2> QED
    BY <2>1 DEF BaseStepsTo
<1>2. /\ 1 \in Levels /\ TypeInv /\ ha.localFalse = {}
  BY TwoLevelsAre
<1>3. /\ n \in DOMAIN nodes[1] /\ nodes[1] \in Seq(NodeType) /\ IsForest(nodes[1])
      /\ IsFlowpipeOf(1, node.location, node.initialSet, fp) /\ fp \in Seq(SUBSET Point)
      /\ queue[1] \in Seq(DOMAIN nodes[1]) /\ Len(nodes[1]) \in Nat
  BY <1>1, <1>2, CurrentFacts, LevelFacts DEF current, BaseFlowpipe
<1>4. IsForest(ms) /\ Extends(nodes[1], ms)
  BY <1>1 DEF IsExpansion
<1> HIDE DEF n, node, fp, cs, ms
<1>5. new \in Seq(1..Len(nodes[1]) + Len(cs)) /\ \A k \in DOMAIN cs : k \in DOMAIN new /\ new[k] = Len(nodes[1]) + k
  BY <1>1, <1>3, NewIndices
<1> HIDE DEF new
<1>6. ASSUME NEW r, IsTrace(r)
      PROVE  IsSafe(r[Len(r)]) \/ QueuedIn(1, ms, queue'[1], r)
  <2>1. IsAccounted(r) /\ ~IsRefined(r)
    BY <1>1, <1>6 DEF CoverInv, IsAccounted, IsRefined
  <2>2. CASE IsSafe(r[Len(r)])
    BY <2>2
  <2>3. CASE IsQueued(1, r)
    <3>1. QueuedIn(1, nodes[1], queue[1], r)
      BY <2>3 DEF IsQueued, QueuedIn
    <3>2. Covers(1, nodes[1], n, r) \/ QueuedIn(1, ms, Tail(queue[1]) \o new, r)
      BY <1>3, <1>4, <1>5, <3>1, StillQueued DEF n
    <3>3. CASE Covers(1, nodes[1], n, r)
      <4> DEFINE d == node.depth
      <4>1. CASE d + 2 \notin DOMAIN r
        BY <1>1, <1>2, <1>3, <1>6, <3>3, <4>1, EndsSafely DEF node
      <4>2. CASE d + 2 \in DOMAIN r
        <5> DEFINE T == TransitionsFrom(ha, node.location)
        <5>1. /\ r[d + 2].transition \in T /\ T \subseteq DOMAIN ha.transition /\ d < jumpDepth
          BY <1>2, <1>3, <1>6, <3>3, <4>2, NextJump DEF node
        <5>2. cs = BaseChildren(n, fp)
          <6>1. d # jumpDepth
            BY <1>3, <5>1, NodeTypes, BoundsAssumption DEF node
          <6> QED
            BY <6>1 DEF cs, BaseChildrenOf, node
        <5>3. AreChildren(1, n, fp, T, cs)
          BY <1>2, <1>3, <5>2, BaseChildrenAre DEF node
        <5> HIDE DEF T
        <5>4. PICK k \in DOMAIN cs : Covers(1, ms, Len(nodes[1]) + k, r)
          BY <1>1, <1>2, <1>3, <1>6, <3>3, <4>2, <5>1, <5>3, ExpansionCovers DEF node
        <5>5. QueuedIn(1, ms, new, r)
          BY <1>5, <5>4 DEF QueuedIn
        <5>6. Tail(queue[1]) \in Seq(1..Len(nodes[1]) + Len(cs))
          <6>1. Len(cs) \in Nat /\ queue[level] # << >> /\ level = 1
            BY <1>1
          <6>2. Tail(queue[level]) \in Seq(1..Len(nodes[level]) + Len(cs))
            BY <6>1, QueueIn
          <6> QED
            BY <6>1, <6>2
        <5> QED
          BY <1>1, <1>5, <5>5, <5>6, NowQueued
      <4> QED
        BY <4>1, <4>2
    <3> QED
      BY <1>1, <3>2, <3>3
  <2> QED
    BY <2>1, <2>2, <2>3 DEF IsAccounted
<1>7. \A r : IsTrace(r) => IsSafe(r[Len(r)])
        \/ IsPending(level', nodes'[1], nodes'[2], queue'[1], queue'[2], conflict'[1], collected', r)
  BY <1>6 DEF IsPending, ms
<1>8. ha' = ha /\ strategy' = strategy /\ verdict' = "none"
  BY <1>1
<1> QED
  BY <1>7, <1>8, SameTraces, PendingPrimed DEF CoverInv

LEMMA CoverReportSafe ==
  ASSUME LevelsInv, CoverInv, ReportSafe
  PROVE  CoverInv'
<1>1. /\ level = 1 /\ queue[1] = << >> /\ verdict = "none" /\ verdict' = "SAFE"
      /\ ha' = ha /\ strategy' = strategy
  BY DEF ReportSafe
<1>2. \A r : IsTrace(r) => IsSafe(r[Len(r)])
  BY <1>1 DEF CoverInv, IsQueued, IsRefined
<1> QED
  BY <1>1, <1>2, SameTraces DEF CoverInv

(* The root that the refinement starts at is on the run.                  *)
LEMMA RootCovers ==
  ASSUME TypeInv, NEW i \in Levels, NEW ns \in Seq(NodeType), IsTree(i, ns), NEW n \in DOMAIN ns,
         ns[n].parent = NoNode, NEW r, IsTrace(r), ns[n].location = r[1].location
  PROVE  Covers(i, ns, n, r)
<1>1. IsForest(ns) /\ 1 \in DOMAIN r /\ IsFirst(r[1])
  <2>1. r \in Seq(VisitType) /\ Len(r) \in 1..jumpDepth + 1 /\ IsFirst(r[1])
    BY DEF IsTrace
  <2>2. jumpDepth \in Nat
    BY BoundsAssumption
  <2> QED
    BY <2>1, <2>2, TreeIsForest
<1>2. IsRootNode(i, ns[n]) /\ ns[n].depth = 0
  <2>1. ~IsChildNode(ns, n)
    BY DEF IsChildNode, NoNode
  <2> QED
    BY <2>1 DEF IsTree, IsRootNode
<1>3. Includes(ns[n], r[1])
  BY <1>1, <1>2, RootIncludesFirst
<1>4. StartsIn(i, ns, n, r[1].location)
  BY <1>1, StartOfRoot
<1>5. PathMatches(PathTo(i, ns, n), r)
  <2>1. PathTo(i, ns, n) = << >>
    BY <1>1, PathUnfolds
  <2> QED
    BY <2>1 DEF PathMatches
<1>6. ns[n].depth + 1 = 1
  BY <1>2
<1> QED
  BY <1>1, <1>3, <1>4, <1>5, <1>6 DEF Covers

HasRootAt(ns, l) == \E r \in DOMAIN ns : ns[r].parent = NoNode /\ ns[r].location = l

LEMMA WithRootHas ==
  ASSUME TypeInv, NEW i \in Levels, IsTree(i, nodes[i]), NEW l,
         \E k \in DOMAIN ha.initial : ha.initial[k].loc = l
  PROVE  HasRootAt(WithRoot(i, l), l)
BY WithRootIs DEF HasRootAt

LEMMA CoverRefineBase ==
  ASSUME LevelsInv, HasTwoLevels, CoverInv, RefineBaseConflict
  PROVE  CoverInv'
<1> DEFINE n == Head(queue[1])
           fp == TimeSuccessors(1, nodes[1][n].location, nodes[1][n].initialSet)
           l == nodes[1][RootOf(1, n)].location
           target == WithRoot(2, l)
           m == CHOOSE r \in R(strategy[2].over)!Roots(target) : target[r].location = l
<1>1. /\ level = 1 /\ verdict = "none" /\ queue[1] # << >> /\ fp \in Seq(SUBSET Point)
      /\ RefineNext(1, n, fp) /\ ha' = ha /\ strategy' = strategy
  BY RefineBaseStep
<1>2. /\ 1 \in Levels /\ 2 \in Levels /\ TypeInv /\ DOMAIN nodes = Levels /\ DOMAIN queue = Levels
      /\ 1 + 1 = 2 /\ 1 # 2 /\ DOMAIN conflict = Levels
  BY TwoLevelsAre DEF TypeInv
<1>3. /\ conflict' = [conflict EXCEPT ![1] = n] /\ nodes' = Refined(1, n, fp)
      /\ queue' = [queue EXCEPT ![1] = Tail(@), ![2] = Append(@, m)]
      /\ level' = 2 /\ verdict' = "none"
  BY <1>1, <1>2 DEF RefineNext, Refined
<1>4. /\ n \in DOMAIN nodes[1] /\ nodes[1] \in Seq(NodeType) /\ IsForest(nodes[1]) /\ IsTree(1, nodes[1])
      /\ queue[1] \in Seq(DOMAIN nodes[1]) /\ nodes[2] \in Seq(NodeType) /\ IsTree(2, nodes[2])
      /\ queue[2] = << >>
  <2>1. queue[2] = << >>
    BY <1>1, <1>2 DEF LevelsInv, ControlInv
  <2> QED
    BY <1>1, <1>2, <2>1, CurrentFacts, LevelFacts
<1>5. \E k \in DOMAIN ha.initial : ha.initial[k].loc = l
  BY <1>2, <1>4, RootIsInitial
<1> HIDE DEF fp
<1>6. /\ nodes'[1] = Stored(nodes[1], n, fp) /\ nodes'[2] = target
  <2>1. Refined(1, n, fp)[1] = Stored(nodes[1], n, fp)
    BY <1>1, <1>2, <1>4, RefinedNodes
  <2>2. Refined(1, n, fp)[1 + 1] = WithRoot(1 + 1, l)
    BY <1>1, <1>2, <1>4, RefinedNodes
  <2> HIDE DEF l, n
  <2> QED
    BY <1>2, <1>3, <2>1, <2>2
<1>7. \A l2 : StartsIn(1, nodes[1], n, l2) => l = l2
  BY <1>4, RootOfNode
<1> HIDE DEF l, n
<1>8. /\ target \in Seq(NodeType) /\ IsTree(2, target)
      /\ \E r \in DOMAIN target : target[r].parent = NoNode /\ target[r].location = l
  <2>1. target \in Seq(NodeType) /\ IsTree(2, target)
    BY <1>2, <1>4, <1>5, WithRootIs
  <2>2. HasRootAt(target, l)
    BY <1>2, <1>4, <1>5, WithRootHas
  <2> QED
    BY <2>1, <2>2 DEF HasRootAt
<1>9. m \in DOMAIN target /\ target[m].parent = NoNode /\ target[m].location = l
  <2> HIDE DEF target
  <2> QED
    BY <1>8 DEF R!Roots, R!Root, NoNode
<1> HIDE DEF target, m
<1>10. queue'[1] = Tail(queue[1]) /\ queue'[2] = << m >> /\ conflict'[1] = n
  BY <1>2, <1>3, <1>4
<1> DEFINE ms == Stored(nodes[1], n, fp)
<1>11. IsForest(ms) /\ Extends(nodes[1], ms)
  <2>1. ms \in Seq(NodeType) /\ DOMAIN ms = DOMAIN nodes[1] /\ Extends(nodes[1], ms)
    BY <1>1, <1>4, FlowpipeStored DEF Stored
  <2> HIDE DEF ms
  <2>2. IsTree(1, ms)
    BY <1>4, <2>1, TreeGrows
  <2> QED
    BY <2>1, <2>2, TreeIsForest
<1> HIDE DEF ms
<1>12. ASSUME NEW r, IsTrace(r)
       PROVE  \/ IsSafe(r[Len(r)])
              \/ QueuedIn(1, nodes'[1], queue'[1], r)
              \/ Covers(1, nodes'[1], n, r) /\ QueuedIn(2, nodes'[2], queue'[2], r)
  <2>1. CASE IsSafe(r[Len(r)])
    BY <2>1
  <2>2. CASE IsQueued(1, r)
    <3>1. QueuedIn(1, nodes[1], queue[1], r)
      BY <2>2 DEF IsQueued, QueuedIn
    <3>2. Covers(1, nodes[1], n, r) \/ QueuedIn(1, ms, Tail(queue[1]) \o << >>, r)
      <4>1. << >> \in Seq({})
        OBVIOUS
      <4> QED
        BY <1>4, <1>11, <3>1, <4>1, StillQueued DEF n
    <3>3. CASE Covers(1, nodes[1], n, r)
      <4>1. StartsIn(1, nodes[1], n, r[1].location)
        BY <3>3 DEF Covers
      <4>2. Covers(2, target, m, r)
        BY <1>2, <1>7, <1>8, <1>9, <1>12, <4>1, RootCovers
      <4>3. Covers(1, ms, n, r)
        BY <1>4, <1>11, <3>3, CoversAgrees
      <4>4. 1 \in DOMAIN << m >> /\ << m >>[1] = m
        OBVIOUS
      <4> QED
        BY <1>6, <1>10, <4>2, <4>3, <4>4 DEF QueuedIn, ms
    <3>4. CASE QueuedIn(1, ms, Tail(queue[1]) \o << >>, r)
      <4>1. Tail(queue[1]) \o << >> = Tail(queue[1])
        <5>1. Tail(queue[1]) \in Seq(DOMAIN nodes[1])
          BY <1>1, <1>4, Dequeued
        <5> QED
          BY <5>1
      <4> QED
        BY <1>6, <1>10, <3>4, <4>1 DEF ms
    <3> QED
      BY <3>2, <3>3, <3>4
  <2>3. IsSafe(r[Len(r)]) \/ IsQueued(1, r)
    BY <1>1, <1>12 DEF CoverInv, IsRefined
  <2> QED
    BY <2>1, <2>2, <2>3
<1>13. \A r : IsTrace(r) => IsSafe(r[Len(r)])
        \/ IsPending(level', nodes'[1], nodes'[2], queue'[1], queue'[2], conflict'[1], collected', r)
  BY <1>3, <1>10, <1>12 DEF IsPending
<1> QED
  BY <1>1, <1>3, <1>13, SameTraces, PendingPrimed DEF CoverInv

LEMMA CoverCollectNode ==
  ASSUME LevelsInv, HasTwoLevels, CoverInv, CollectNode
  PROVE  CoverInv'
<1> DEFINE n == Head(queue[2])
<1>1. /\ level > 1 /\ verdict = "none" /\ queue[level] # << >>
      /\ UNCHANGED <<ha, strategy, level, nodes, path, conflict, verdict>>
      /\ collected' = Append(collected, Head(queue[level])) /\ queue'[level] = Tail(queue[level])
      /\ \A i \in Levels : i # level => queue'[i] = queue[i]
  BY CollectNodeStep
<1>2. level = 2 /\ 1 \in Levels /\ 2 \in Levels /\ 1 # 2 /\ TypeInv
  BY <1>1, TwoLevelsAre
<1>3. /\ nodes[2] \in Seq(NodeType) /\ IsForest(nodes[2]) /\ queue[2] \in Seq(DOMAIN nodes[2])
      /\ collected \in Seq(DOMAIN nodes[2]) /\ n \in DOMAIN nodes[2] /\ queue[2] # << >>
  BY <1>1, <1>2, LevelFacts, CurrentFacts DEF TypeInv, TypeOK
<1>4. queue'[1] = queue[1] /\ queue'[2] = Tail(queue[2]) /\ collected' = Append(collected, n)
  BY <1>1, <1>2
<1> HIDE DEF n
<1>5. ASSUME NEW r, IsPending(2, nodes[1], nodes[2], queue[1], queue[2], conflict[1], collected, r)
      PROVE  IsPending(2, nodes[1], nodes[2], queue'[1], queue'[2], conflict[1], collected', r)
  <2>1. CASE QueuedIn(2, nodes[2], queue[2], r)
    <3>1. Extends(nodes[2], nodes[2]) /\ << >> \in Seq({})
      BY DEF Extends, SameNode
    <3>2. Covers(2, nodes[2], n, r) \/ QueuedIn(2, nodes[2], Tail(queue[2]) \o << >>, r)
      BY <1>3, <2>1, <3>1, StillQueued DEF n
    <3>3. Tail(queue[2]) \o << >> = Tail(queue[2])
      <4>1. Tail(queue[2]) \in Seq(DOMAIN nodes[2])
        BY <1>3, Dequeued
      <4> QED
        BY <4>1
    <3>4. Covers(2, nodes[2], n, r) => QueuedIn(2, nodes[2], collected', r)
      <4>1. Len(collected) + 1 \in DOMAIN collected' /\ collected'[Len(collected) + 1] = n
        BY <1>3, <1>4, Appended
      <4> QED
        BY <4>1 DEF QueuedIn
    <3> QED
      BY <1>4, <1>5, <3>2, <3>3, <3>4 DEF IsPending
  <2>2. CASE QueuedIn(2, nodes[2], collected, r)
    <3>1. DOMAIN collected \subseteq DOMAIN collected' /\ \A j \in DOMAIN collected : collected'[j] = collected[j]
      BY <1>3, <1>4, Appended
    <3>2. QueuedIn(2, nodes[2], collected', r)
      BY <2>2, <3>1 DEF QueuedIn
    <3> QED
      BY <1>4, <1>5, <3>2 DEF IsPending
  <2>3. CASE QueuedIn(1, nodes[1], queue[1], r)
    BY <1>4, <2>3 DEF IsPending
  <2> QED
    BY <1>5, <2>1, <2>2, <2>3 DEF IsPending
<1>6. \A r : IsTrace(r) => IsSafe(r[Len(r)])
        \/ IsPending(2, nodes[1], nodes[2], queue[1], queue[2], conflict[1], collected, r)
  BY <1>1, <1>2, PendingIs DEF CoverInv
<1>7. \A r : IsTrace(r) => IsSafe(r[Len(r)])
        \/ IsPending(level', nodes'[1], nodes'[2], queue'[1], queue'[2], conflict'[1], collected', r)
  BY <1>1, <1>2, <1>5, <1>6
<1>8. ha' = ha /\ strategy' = strategy /\ verdict' = "none"
  BY <1>1
<1> QED
  BY <1>7, <1>8, SameTraces, PendingPrimed DEF CoverInv
(* The flowpipe that is used at the last level: the one of its node, and  *)
(* without bad states, also if it has been there before.                  *)
LEMMA GoodFlowpipe ==
  ASSUME LevelsInv, HasTwoLevels, KeptInv, NEW n, NEW fp, OnRefinement(n, fp)
  PROVE  /\ level = 2 /\ verdict = "none" /\ queue[2] # << >> /\ n = Head(queue[2])
         /\ n \in DOMAIN nodes[2] /\ current = nodes[2][n]
         /\ fp = TimeSuccessors(2, nodes[2][n].location, nodes[2][n].initialSet)
         /\ IsFlowpipeOf(2, nodes[2][n].location, nodes[2][n].initialSet, fp)
         /\ ~MeetsBadStates(2, nodes[2][n].location, fp)
<1>1. level > 1 /\ verdict = "none" /\ queue[level] # << >> /\ n = Head(queue[level])
      /\ fp = currentFlowpipe /\ ~HasConflict
  BY DEF OnRefinement
<1>2. level = 2 /\ Top = 2
  BY <1>1, TwoLevelsAre
<1>3. /\ n \in DOMAIN nodes[2] /\ current = nodes[2][n]
      /\ IsFlowpipeOf(2, nodes[2][n].location, nodes[2][n].initialSet,
                      TimeSuccessors(2, nodes[2][n].location, nodes[2][n].initialSet))
  <2>1. /\ n \in DOMAIN nodes[level] /\ current = nodes[level][n]
        /\ IsFlowpipeOf(level, current.location, current.initialSet,
                        TimeSuccessors(level, current.location, current.initialSet))
    BY <1>1, CurrentFacts
  <2> QED
    BY <1>2, <2>1
<1>4. /\ fp = TimeSuccessors(2, nodes[2][n].location, nodes[2][n].initialSet)
      /\ ~MeetsBadStates(2, nodes[2][n].location, fp)
  <2>1. CASE nodes[2][n].flowpipe # << >>
    <3>1. fp = nodes[2][n].flowpipe
      BY <1>1, <1>2, <1>3, <2>1 DEF currentFlowpipe
    <3> QED
      BY <1>1, <1>2, <1>3, <2>1, <3>1 DEF KeptInv
  <2>2. CASE nodes[2][n].flowpipe = << >>
    <3>1. fp = TimeSuccessors(2, nodes[2][n].location, nodes[2][n].initialSet)
      BY <1>1, <1>2, <1>3, <2>2 DEF currentFlowpipe
    <3> QED
      BY <1>1, <1>2, <1>3, <2>2, <3>1 DEF HasConflict
  <2> QED
    BY <2>1, <2>2
<1> QED
  BY <1>1, <1>2, <1>3, <1>4

(* What is taken from the queue of the refinement is replaced.            *)
Replaces(n, new, more) ==
  \A r : IsTrace(r) /\ Covers(1, nodes[1], conflict[1], r) /\ Covers(2, nodes[2], n, r) =>
    \/ IsSafe(r[Len(r)])
    \/ QueuedIn(2, nodes'[2], new, r)
    \/ QueuedIn(2, nodes'[2], more, r)

LEMMA CoverRefinement ==
  ASSUME LevelsInv, HasTwoLevels, CoverInv, verdict = "none", level = 2, queue[2] # << >>,
         NEW n, n = Head(queue[2]), NEW fp, NEW cs, StepsTo(n, fp, cs),
         NEW S, NEW new \in Seq(S), queue'[2] = Tail(queue[2]) \o new,
         NEW U, NEW more \in Seq(U), collected' = collected \o more,
         Replaces(n, new, more)
  PROVE  CoverInv'
<1>1. /\ UNCHANGED <<ha, strategy, level, path, conflict, verdict>>
      /\ IsExpansion(level, nodes[level], n, fp, cs, nodes'[level])
      /\ \A i \in Levels : i # level => nodes'[i] = nodes[i] /\ queue'[i] = queue[i]
  BY DEF StepsTo
<1>2. 1 \in Levels /\ 2 \in Levels /\ 1 # 2 /\ TypeInv
  BY TwoLevelsAre
<1>3. /\ IsForest(nodes[2]) /\ queue[2] \in Seq(DOMAIN nodes[2]) /\ collected \in Seq(DOMAIN nodes[2])
  BY <1>2, LevelFacts DEF TypeInv, TypeOK
<1>4. IsForest(nodes'[2]) /\ Extends(nodes[2], nodes'[2])
  BY <1>1 DEF IsExpansion
<1>5. nodes'[1] = nodes[1] /\ queue'[1] = queue[1]
  BY <1>1, <1>2
<1>6. ASSUME NEW r, IsTrace(r),
             IsPending(2, nodes[1], nodes[2], queue[1], queue[2], conflict[1], collected, r)
      PROVE  \/ IsSafe(r[Len(r)])
             \/ IsPending(2, nodes[1], nodes'[2], queue[1], queue'[2], conflict[1], collected', r)
  <2>1. CASE QueuedIn(1, nodes[1], queue[1], r)
    BY <2>1 DEF IsPending
  <2>2. CASE Covers(1, nodes[1], conflict[1], r) /\ QueuedIn(2, nodes[2], collected, r)
    <3>1. QueuedIn(2, nodes'[2], collected', r)
      BY <1>3, <1>4, <2>2, StillQueued
    <3> QED
      BY <2>2, <3>1 DEF IsPending
  <2>3. CASE Covers(1, nodes[1], conflict[1], r) /\ QueuedIn(2, nodes[2], queue[2], r)
    <3>1. Covers(2, nodes[2], n, r) \/ QueuedIn(2, nodes'[2], queue'[2], r)
      BY <1>3, <1>4, <2>3, StillQueued
    <3>2. CASE QueuedIn(2, nodes'[2], queue'[2], r)
      BY <2>3, <3>2 DEF IsPending
    <3>3. CASE Covers(2, nodes[2], n, r)
      <4>1. \/ IsSafe(r[Len(r)]) \/ QueuedIn(2, nodes'[2], new, r)
            \/ QueuedIn(2, nodes'[2], more, r)
        BY <1>6, <2>3, <3>3 DEF Replaces
      <4>2. CASE QueuedIn(2, nodes'[2], new, r)
        <5>1. Tail(queue[2]) \in Seq(DOMAIN nodes[2])
          BY <1>3, Dequeued
        <5>2. QueuedIn(2, nodes'[2], queue'[2], r)
          BY <4>2, <5>1, NowQueued
        <5> QED
          BY <2>3, <5>2 DEF IsPending
      <4>3. CASE QueuedIn(2, nodes'[2], more, r)
        <5>1. QueuedIn(2, nodes'[2], collected', r)
          BY <1>3, <4>3, NowQueued
        <5> QED
          BY <2>3, <5>1 DEF IsPending
      <4> QED
        BY <4>1, <4>2, <4>3
    <3> QED
      BY <3>1, <3>2, <3>3
  <2> QED
    BY <1>6, <2>1, <2>2, <2>3 DEF IsPending
<1>7. \A r : IsTrace(r) => IsSafe(r[Len(r)])
        \/ IsPending(2, nodes[1], nodes[2], queue[1], queue[2], conflict[1], collected, r)
  BY PendingIs DEF CoverInv
<1>8. \A r : IsTrace(r) => IsSafe(r[Len(r)])
        \/ IsPending(level', nodes'[1], nodes'[2], queue'[1], queue'[2], conflict'[1], collected', r)
  BY <1>1, <1>5, <1>6, <1>7
<1>9. ha' = ha /\ strategy' = strategy /\ verdict' = "none"
  BY <1>1
<1> QED
  BY <1>8, <1>9, SameTraces, PendingPrimed DEF CoverInv

LEMMA CoverStop ==
  ASSUME LevelsInv, HasTwoLevels, CoverInv, KeptInv, StopAtJumpDepth
  PROVE  CoverInv'
<1> DEFINE n == Head(queue[level])
           fp == currentFlowpipe
<1>1. /\ OnRefinement(n, fp) /\ current.depth = jumpDepth
      /\ StepsTo(n, fp, << >>) /\ collected' = collected
      /\ queue'[level] = Tail(queue[level]) \o << >>
  BY StopStep
<1> HIDE DEF n, fp
<1>2. /\ level = 2 /\ verdict = "none" /\ queue[2] # << >> /\ n = Head(queue[2])
      /\ n \in DOMAIN nodes[2] /\ current = nodes[2][n]
      /\ IsFlowpipeOf(2, nodes[2][n].location, nodes[2][n].initialSet, fp)
      /\ ~MeetsBadStates(2, nodes[2][n].location, fp)
  BY <1>1, GoodFlowpipe
<1>3. 2 \in Levels /\ ha.localFalse = {} /\ TypeInv
  BY TwoLevelsAre
<1>4. Replaces(n, << >>, << >>)
  <2>1. SUFFICES ASSUME NEW r, IsTrace(r), Covers(2, nodes[2], n, r)
                 PROVE  IsSafe(r[Len(r)])
    BY DEF Replaces
  <2>2. nodes[2][n].depth + 2 \notin DOMAIN r
    <3>1. 1 \in DOMAIN r
      BY <2>1 DEF Covers, IsTrace
    <3>2. DOMAIN r = 1..Len(r) /\ Len(r) \in Nat /\ Len(r) <= jumpDepth + 1
      <4>1. Len(r) \in 1..jumpDepth + 1 /\ r \in Seq(VisitType)
        BY <2>1 DEF IsTrace
      <4> QED
        BY <4>1, BoundsAssumption
    <3> QED
      BY <1>1, <1>2, <3>2, BoundsAssumption
  <2> QED
    BY <1>2, <1>3, <2>1, <2>2, EndsSafely
<1>5. collected' = collected \o << >> /\ << >> \in Seq({})
  BY <1>1, <1>2, <1>3 DEF TypeInv, TypeOK
<1>6. queue'[2] = Tail(queue[2]) \o << >>
  BY <1>1, <1>2
<1> QED
  BY <1>1, <1>2, <1>4, <1>5, <1>6, CoverRefinement

LEMMA CoverCollectChildren ==
  ASSUME LevelsInv, HasTwoLevels, CoverInv, KeptInv, CollectChildren
  PROVE  CoverInv'
<1> DEFINE n == Head(queue[level])
           fp == currentFlowpipe
           cs == AllChildren(level, n, fp)
           more == [k \in DOMAIN cs |-> NewIndex(k)]
<1>1. /\ OnRefinement(n, fp) /\ StepsTo(n, fp, cs)
      /\ collected' = collected \o more
      /\ queue'[level] = Tail(queue[level]) \o << >>
      /\ AreChildren(level, n, fp, TransitionsFrom(ha, current.location), cs)
  BY CollectChildrenStep
<1> HIDE DEF n, fp, cs
<1>2. /\ level = 2 /\ verdict = "none" /\ queue[2] # << >> /\ n = Head(queue[2])
      /\ n \in DOMAIN nodes[2] /\ current = nodes[2][n]
      /\ IsFlowpipeOf(2, nodes[2][n].location, nodes[2][n].initialSet, fp)
      /\ ~MeetsBadStates(2, nodes[2][n].location, fp)
  BY <1>1, GoodFlowpipe
<1>3. 2 \in Levels /\ ha.localFalse = {} /\ TypeInv
  BY TwoLevelsAre
<1>4. nodes[2] \in Seq(NodeType) /\ IsForest(nodes[2]) /\ nodes[2][n].depth \in Nat
  <2>1. nodes[2] \in Seq(NodeType) /\ IsForest(nodes[2])
    BY <1>3, LevelFacts
  <2> QED
    BY <1>2, <2>1, NodeTypes
<1>5. /\ cs \in Seq(NodeType) /\ IsExpansion(2, nodes[2], n, fp, cs, nodes'[2])
      /\ AreChildren(2, n, fp, TransitionsFrom(ha, nodes[2][n].location), cs)
  BY <1>1, <1>2 DEF StepsTo
<1>6. DOMAIN more = DOMAIN cs /\ \A k \in DOMAIN cs : more[k] = Len(nodes[2]) + k
  BY <1>2 DEF NewIndex
<1>7. more \in Seq(1..Len(nodes[2]) + Len(cs))
  <2>1. Len(nodes[2]) \in Nat
    BY <1>4
  <2>2. [k \in DOMAIN cs |-> Len(nodes[2]) + k] \in Seq(1..Len(nodes[2]) + Len(cs))
    BY <1>5, <2>1, NewIndices
  <2> QED
    BY <1>2, <2>2 DEF NewIndex
<1> HIDE DEF more
<1>8. Replaces(n, << >>, more)
  <2>1. SUFFICES ASSUME NEW r, IsTrace(r), Covers(2, nodes[2], n, r)
                 PROVE  IsSafe(r[Len(r)]) \/ QueuedIn(2, nodes'[2], more, r)
    BY DEF Replaces
  <2> DEFINE d == nodes[2][n].depth
  <2>2. CASE d + 2 \notin DOMAIN r
    BY <1>2, <1>3, <2>1, <2>2, EndsSafely
  <2>3. CASE d + 2 \in DOMAIN r
    <3>1. /\ r[d + 2].transition \in TransitionsFrom(ha, nodes[2][n].location)
          /\ TransitionsFrom(ha, nodes[2][n].location) \subseteq DOMAIN ha.transition
      BY <1>2, <1>3, <2>1, <2>3, NextJump
    <3>2. \E k \in DOMAIN cs : Covers(2, nodes'[2], Len(nodes[2]) + k, r)
      BY <1>2, <1>3, <1>4, <1>5, <2>1, <2>3, <3>1, ExpansionCovers
    <3> QED
      BY <1>6, <3>2 DEF QueuedIn
  <2> QED
    BY <2>2, <2>3
<1>9. queue'[2] = Tail(queue[2]) \o << >> /\ << >> \in Seq({})
  BY <1>1, <1>2
<1> QED
  BY <1>1, <1>2, <1>7, <1>8, <1>9, CoverRefinement

(* A node before the end of the path: a run that takes the path has its   *)
(* next visit in a child there, which is followed.                        *)
LEMMA PathFollowed ==
  ASSUME LevelsInv, HasTwoLevels, level = 2, NEW r, IsTrace(r),
         Covers(1, nodes[1], conflict[1], r), NEW d \in Nat, d < Len(path[2])
  PROVE  /\ d + 1 \in DOMAIN path[2] /\ d + 2 \in DOMAIN r
         /\ path[2][d + 1].transition = r[d + 2].transition
         /\ path[2][d + 1].transition \in DOMAIN ha.transition
         /\ path[2][d + 1].lower \in Int /\ path[2][d + 1].upper \in Int
         /\ path[2][d + 1].lower <= r[d + 2].earliest
         /\ r[d + 2].latest <= path[2][d + 1].upper
<1> DEFINE E == [lower : Int, upper : Int, transition : DOMAIN ha.transition]
           p == path[2]
           k == d + 1
<1>1. 1 \in Levels /\ 2 \in Levels /\ TypeInv
  BY TwoLevelsAre
<1>2. p \in Seq(E)
  BY <1>1 DEF TypeInv, TypeOK
<1>3. PathMatches(p, r)
  <2>1. path[1 + 1] = PathTo(1, nodes[1], conflict[1])
    BY <1>1 DEF LevelsInv, ControlInv
  <2> QED
    BY <2>1 DEF Covers
<1>4. k \in DOMAIN p /\ k + 1 = d + 2
  BY <1>2
<1> HIDE DEF p, k, E
<1>5. p[k] \in E
  BY <1>2, <1>4
<1>6. p[k].lower \in Int /\ p[k].upper \in Int /\ p[k].transition \in DOMAIN ha.transition
  BY <1>5 DEF E
<1>7. /\ k + 1 \in DOMAIN r /\ p[k].transition = r[k + 1].transition
      /\ p[k].lower <= r[k + 1].earliest /\ r[k + 1].latest <= p[k].upper
  BY <1>3, <1>4 DEF PathMatches
<1>8. /\ k \in DOMAIN p /\ d + 2 \in DOMAIN r /\ p[k].transition = r[d + 2].transition
      /\ p[k].lower <= r[d + 2].earliest /\ r[d + 2].latest <= p[k].upper
  BY <1>4, <1>7
<1> QED
  BY <1>6, <1>8 DEF p, k

LEMMA IncludedFits ==
  ASSUME NEW r, IsTrace(r), NEW k \in DOMAIN r, NEW node \in NodeType, Includes(node, r[k]),
         NEW p, NEW d, node.depth = d, p[d].lower \in Int, p[d].upper \in Int,
         p[d].lower <= r[k].earliest, r[k].latest <= p[d].upper
  PROVE  MatchesPathTiming(p, node)
<1>1. r[k].earliest \in Int /\ r[k].latest \in Int /\ r[k].earliest <= r[k].latest
  BY TraceTypes, TraceTimes
<1>2. node.lower \in Int /\ node.upper \in Int
  BY DEF NodeType
<1>3. node.lower <= r[k].earliest /\ r[k].latest <= node.upper
  BY DEF Includes
<1>4. node.lower <= p[d].upper /\ p[d].lower <= node.upper
  BY <1>1, <1>2, <1>3
<1> QED
  BY <1>4 DEF MatchesPathTiming

(* The last jump to a node on a run is the one of the run.                *)
LEMMA CoveredJump ==
  ASSUME NEW i, NEW ns, IsForest(ns), NEW c \in DOMAIN ns, ns[c].parent # NoNode,
         NEW r, Covers(i, ns, c, r), NEW d \in Nat, ns[c].depth = d + 1
  PROVE  d + 2 \in DOMAIN r /\ ns[c].transition = r[d + 2].transition /\ Includes(ns[c], r[d + 2])
<1> DEFINE p == PathTo(i, ns, c)
           q == PathTo(i, ns, ns[c].parent)
<1>1. ns[c].parent \in DOMAIN ns /\ ns[ns[c].parent].depth = d
  <2>1. /\ ns[c].parent \in DOMAIN ns /\ ns[c].depth = ns[ns[c].parent].depth + 1
        /\ ns \in Seq(NodeType)
    BY ParentIsEarlier DEF IsForest
  <2>2. ns[ns[c].parent].depth \in Nat
    BY <2>1, NodeTypes
  <2> QED
    BY <2>1, <2>2
<1>2. p = Append(q, LastJump(ns, c))
  BY PathUnfolds
<1>3. q \in Seq(JumpType) /\ Len(q) = d
  BY <1>1, PathType
<1>4. PathMatches(p, r) /\ Includes(ns[c], r[d + 1 + 1])
  BY DEF Covers
<1>5. d + 1 + 1 = d + 2
  OBVIOUS
<1> HIDE DEF p, q
<1>6. d + 1 \in DOMAIN p /\ p[d + 1] = LastJump(ns, c)
  BY <1>2, <1>3
<1>7. d + 1 + 1 \in DOMAIN r /\ p[d + 1].transition = r[d + 1 + 1].transition
  BY <1>4, <1>6 DEF PathMatches
<1>8. p[d + 1].transition = ns[c].transition
  BY <1>6 DEF LastJump
<1> QED
  BY <1>4, <1>5, <1>7, <1>8

(* The tree has children for the next transition already.                 *)
LEMMA ExistingCovers ==
  ASSUME LevelsInv, HasTwoLevels, ChildrenInv, verdict = "none", level = 2, NEW r, IsTrace(r),
         Covers(1, nodes[1], conflict[1], r), NEW n \in DOMAIN nodes[2], Covers(2, nodes[2], n, r),
         NEW d, d = nodes[2][n].depth, d < Len(path[2]), Existing(n) # {}
  PROVE  \E c \in Existing(n) : Covers(2, nodes[2], c, r) /\ MatchesPathTiming(path[2], nodes[2][c])
<1> DEFINE p == path[2]
           ns == nodes[2]
<1>1. /\ 2 \in Levels /\ TypeInv /\ ns \in Seq(NodeType) /\ IsForest(ns) /\ IsTree(2, ns) /\ Top = 2
  BY TwoLevelsAre, LevelFacts
<1>2. d \in Nat /\ n # NoNode
  BY <1>1, NodeTypes
<1> DEFINE t == p[d + 1].transition
<1>3. /\ d + 1 \in DOMAIN p /\ d + 2 \in DOMAIN r
      /\ t = r[d + 2].transition /\ t \in DOMAIN ha.transition
      /\ p[d + 1].lower \in Int /\ p[d + 1].upper \in Int
      /\ p[d + 1].lower <= r[d + 2].earliest /\ r[d + 2].latest <= p[d + 1].upper
  BY <1>2, PathFollowed
<1>4. \A c : c \in Existing(n) <=>
        c \in DOMAIN ns /\ ns[c].parent = n /\ ns[c].transition = p[ns[c].depth].transition
  BY DEF Existing, R!Children, MatchesPathTransition
<1>5. ASSUME NEW c \in DOMAIN ns, ns[c].parent = n
      PROVE  ns[c].depth = d + 1 /\ ns[c].parent # NoNode
  BY <1>1, <1>2, <1>5, ParentIsEarlier
<1>6. HasChildFor(ns, n, t)
  <2>1. PICK c : c \in Existing(n)
    OBVIOUS
  <2>2. c \in DOMAIN ns /\ ns[c].parent = n /\ ns[c].transition = p[ns[c].depth].transition
    BY <1>4, <2>1
  <2>3. ns[c].transition = t
    BY <1>5, <2>2
  <2> HIDE DEF t, ns
  <2> QED
    BY <2>2, <2>3 DEF HasChildFor, Below, R!Children
<1>7. HasAllFor(ns, n, t)
  BY <1>1, <1>3, <1>6 DEF ChildrenInv
<1>8. PICK c \in Below(ns, n) : Covers(2, ns, c, r)
  <2>1. JumpsBy(ns[n].depth, r, t)
    BY <1>3 DEF JumpsBy
  <2> HIDE DEF t, ns
  <2>2. Covers(Top, ns, n, r)
    BY <1>1 DEF ns
  <2> QED
    BY <1>1, <1>7, <2>1, <2>2 DEF HasAllFor
<1>9. c \in DOMAIN ns /\ ns[c].parent = n
  BY <1>8 DEF Below, R!Children
<1>10. ns[c].depth = d + 1 /\ ns[c].parent # NoNode
  BY <1>5, <1>9
<1>11. ns[c].transition = r[d + 2].transition /\ Includes(ns[c], r[d + 2])
  <2> HIDE DEF ns
  <2>1. d + 2 \in DOMAIN r /\ ns[c].transition = r[d + 2].transition /\ Includes(ns[c], r[d + 2])
    BY <1>1, <1>2, <1>8, <1>9, <1>10, CoveredJump
  <2> QED
    BY <2>1
<1>12. c \in Existing(n)
  BY <1>3, <1>4, <1>9, <1>10, <1>11
<1>13. ns[c] \in NodeType
  BY <1>1, <1>9
<1>14. MatchesPathTiming(p, ns[c])
  BY <1>3, <1>10, <1>11, <1>13, IncludedFits
<1> QED
  BY <1>8, <1>12, <1>14

(* ExpansionCovers with its hypotheses by name.                           *)
IsGoodAt(i, n, fp) ==
  /\ IsFlowpipeOf(i, nodes[i][n].location, nodes[i][n].initialSet, fp)
  /\ ~MeetsBadStates(i, nodes[i][n].location, fp)
GoesOn(i, n, r, d) ==
  IsTrace(r) /\ Covers(i, nodes[i], n, r) /\ d = nodes[i][n].depth /\ d + 2 \in DOMAIN r
HasNext(i, n, fp, cs, T, t) ==
  t \in T /\ T \subseteq DOMAIN ha.transition /\ AreChildren(i, n, fp, T, cs)
IsCoveredBehind(ns, cs, ms, r) == \E k \in DOMAIN cs : Covers(2, ms, Len(ns) + k, r)

LEMMA NextCovers ==
  ASSUME TypeInv, 2 \in Levels, NEW n \in DOMAIN nodes[2], IsForest(nodes[2]),
         NEW r, NEW d, GoesOn(2, n, r, d), NEW fp, IsGoodAt(2, n, fp),
         NEW cs, NEW T, HasNext(2, n, fp, cs, T, r[d + 2].transition),
         NEW ms, IsExpansion(2, nodes[2], n, fp, cs, ms)
  PROVE  IsCoveredBehind(nodes[2], cs, ms, r)
<1>1. /\ IsTrace(r) /\ Covers(2, nodes[2], n, r) /\ d = nodes[2][n].depth /\ d + 2 \in DOMAIN r
      /\ IsFlowpipeOf(2, nodes[2][n].location, nodes[2][n].initialSet, fp)
      /\ ~MeetsBadStates(2, nodes[2][n].location, fp)
  BY DEF GoesOn, IsGoodAt
<1>2. r[d + 2].transition \in T /\ AreChildren(2, n, fp, T, cs) /\ T \subseteq DOMAIN ha.transition
  BY DEF HasNext
<1>3. \E k \in DOMAIN cs : Covers(2, ms, Len(nodes[2]) + k, r)
  BY <1>1, <1>2, ExpansionCovers
<1> QED
  BY <1>3 DEF IsCoveredBehind

LEMMA CoverFollowPath ==
  ASSUME LevelsInv, HasTwoLevels, CoverInv, KeptInv, ChildrenInv, FollowPath
  PROVE  CoverInv'
<1> DEFINE n == Head(queue[level])
           fp == currentFlowpipe
           cs == PathChildren(n, fp)
           new == Ascending(Followed(n, fp))
           t == path[level][current.depth + 1].transition
<1>1. /\ OnRefinement(n, fp) /\ current.depth < Len(path[level])
      /\ StepsTo(n, fp, cs) /\ collected' = collected
      /\ queue'[level] = Tail(queue[level]) \o new
      /\ new \in Seq(Followed(n, fp))
      /\ \A c \in Followed(n, fp) : \E k \in DOMAIN new : new[k] = c
      /\ Existing(n) = {} => AreChildren(level, n, fp, {t}, cs)
  BY FollowPathStep
<1>2. Existing(n) # {} => cs = << >>
  BY DEF PathChildren
<1>3. \A c : c \in Followed(n, fp) <=>
        c \in Candidates(n, fp) /\ MatchesPathTiming(path[level], (nodes[level] \o cs)[c])
  BY DEF Followed
<1>4. /\ Existing(n) # {} => Candidates(n, fp) = Existing(n)
      /\ Existing(n) = {} => Candidates(n, fp) = {NewIndex(k) : k \in DOMAIN cs}
  BY DEF Candidates
<1> HIDE DEF n, fp, cs, new, t
<1>5. /\ level = 2 /\ verdict = "none" /\ queue[2] # << >> /\ n = Head(queue[2])
      /\ n \in DOMAIN nodes[2] /\ current = nodes[2][n]
      /\ IsFlowpipeOf(2, nodes[2][n].location, nodes[2][n].initialSet, fp)
      /\ ~MeetsBadStates(2, nodes[2][n].location, fp)
  BY <1>1, GoodFlowpipe
<1> DEFINE d == nodes[2][n].depth
<1>6. 2 \in Levels /\ TypeInv
  BY TwoLevelsAre
<1>7. nodes[2] \in Seq(NodeType) /\ IsForest(nodes[2]) /\ d \in Nat
  <2>1. nodes[2] \in Seq(NodeType) /\ IsForest(nodes[2])
    BY <1>6, LevelFacts
  <2> QED
    BY <1>5, <2>1, NodeTypes
<1>8. cs \in Seq(NodeType) /\ IsExpansion(2, nodes[2], n, fp, cs, nodes'[2])
  BY <1>1, <1>5 DEF StepsTo
<1>9. IsForest(nodes'[2]) /\ Extends(nodes[2], nodes'[2])
  BY <1>8 DEF IsExpansion
<1>10. d < Len(path[2]) /\ t = path[2][d + 1].transition
  BY <1>1, <1>5 DEF t
<1>11. ASSUME NEW r, IsTrace(r), Covers(1, nodes[1], conflict[1], r), Covers(2, nodes[2], n, r)
       PROVE  \E c \in Followed(n, fp) : Covers(2, nodes'[2], c, r)
  <2>1. CASE Existing(n) # {}
    <3>1. PICK c \in Existing(n) : Covers(2, nodes[2], c, r) /\ MatchesPathTiming(path[2], nodes[2][c])
      BY <1>5, <1>10, <1>11, <2>1, ExistingCovers
    <3>2. c \in DOMAIN nodes[2]
      BY <1>5, <3>1 DEF Existing, R!Children
    <3>3. nodes[2] \o cs = nodes[2]
      BY <1>2, <1>7, <2>1
    <3>4. c \in Followed(n, fp)
      BY <1>3, <1>4, <1>5, <2>1, <3>1, <3>3
    <3>5. Covers(2, nodes'[2], c, r)
      BY <1>7, <1>9, <3>1, <3>2, CoversAgrees
    <3> QED
      BY <3>4, <3>5
  <2>2. CASE Existing(n) = {}
    <3>1. /\ d + 1 \in DOMAIN path[2] /\ d + 2 \in DOMAIN r
          /\ t = r[d + 2].transition /\ t \in DOMAIN ha.transition
          /\ path[2][d + 1].lower \in Int /\ path[2][d + 1].upper \in Int
          /\ path[2][d + 1].lower <= r[d + 2].earliest
          /\ r[d + 2].latest <= path[2][d + 1].upper
      BY <1>5, <1>7, <1>10, <1>11, PathFollowed
    <3>2. AreChildren(2, n, fp, {t}, cs) /\ {t} \subseteq DOMAIN ha.transition
          /\ r[d + 2].transition \in {t}
      BY <1>1, <1>5, <2>2, <3>1
    <3>a. IsCoveredBehind(nodes[2], cs, nodes'[2], r)
      <4>1. GoesOn(2, n, r, d) /\ IsGoodAt(2, n, fp) /\ HasNext(2, n, fp, cs, {t}, r[d + 2].transition)
        BY <1>5, <1>11, <3>1, <3>2 DEF GoesOn, IsGoodAt, HasNext
      <4> QED
        BY <1>5, <1>6, <1>7, <1>8, <4>1, NextCovers
    <3>3. PICK k \in DOMAIN cs : Covers(2, nodes'[2], Len(nodes[2]) + k, r)
      BY <3>a DEF IsCoveredBehind
    <3>4. NewIndex(k) = Len(nodes[2]) + k
      BY <1>5 DEF NewIndex
    <3>5. cs[k] \in NodeType /\ cs[k].depth = d + 1
      BY <1>8, <3>2, <3>3 DEF AreChildren, IsNewChild
    <3>6. (nodes[2] \o cs)[Len(nodes[2]) + k] = cs[k]
      BY <1>7, <1>8, <3>3, Concatenated
    <3>7. nodes'[2][Len(nodes[2]) + k] = cs[k]
      BY <1>8, <3>3 DEF IsExpansion
    <3>8. Includes(cs[k], r[d + 2])
      <4>1. Includes(cs[k], r[d + 1 + 1])
        BY <3>3, <3>5, <3>7 DEF Covers
      <4>2. d + 1 + 1 = d + 2
        BY <1>7
      <4> QED
        BY <4>1, <4>2
    <3>9. MatchesPathTiming(path[2], cs[k])
      BY <1>11, <3>1, <3>5, <3>8, IncludedFits
    <3>10. NewIndex(k) \in Followed(n, fp)
      BY <1>3, <1>4, <1>5, <2>2, <3>3, <3>4, <3>6, <3>9
    <3> QED
      BY <3>3, <3>4, <3>10
  <2> QED
    BY <2>1, <2>2
<1>12. Replaces(n, new, << >>)
  <2>1. SUFFICES ASSUME NEW r, IsTrace(r), Covers(1, nodes[1], conflict[1], r),
                        Covers(2, nodes[2], n, r)
                 PROVE  QueuedIn(2, nodes'[2], new, r)
    BY DEF Replaces
  <2>2. PICK c \in Followed(n, fp) : Covers(2, nodes'[2], c, r)
    BY <1>11, <2>1
  <2>3. PICK k \in DOMAIN new : new[k] = c
    BY <1>1, <2>2
  <2> QED
    BY <2>2, <2>3 DEF QueuedIn
<1>13. collected' = collected \o << >> /\ << >> \in Seq({})
  BY <1>1, <1>5, <1>6 DEF TypeInv, TypeOK
<1>14. queue'[2] = Tail(queue[2]) \o new
  BY <1>1, <1>5
<1> QED
  BY <1>1, <1>5, <1>12, <1>13, <1>14, CoverRefinement

(* What is handed back includes what has been collected.                  *)
LEMMA TransferCovers ==
  ASSUME LevelsInv, HasTwoLevels, level = 2, NEW ms, ms = nodes[1] \o Transferred,
         IsForest(ms), Extends(nodes[1], ms), NEW r, IsTrace(r),
         Covers(1, nodes[1], conflict[1], r), NEW j \in DOMAIN collected,
         Covers(2, nodes[2], collected[j], r)
  PROVE  Covers(1, ms, Len(nodes[1]) + j, r)
<1> DEFINE n == conflict[1]
           c == collected[j]
           d == nodes[1][n].depth
           m == Len(nodes[1]) + j
<1>1. /\ 1 \in Levels /\ 2 \in Levels /\ TypeInv /\ level - 1 = 1 /\ level > 1
  BY TwoLevelsAre
<1>2. /\ n \in DOMAIN nodes[1] /\ collected \in Seq(DOMAIN nodes[2]) /\ Transferred \in Seq(NodeType)
      /\ DOMAIN Transferred = DOMAIN collected
      /\ IsTransferOf(1, n, nodes[2][c], Transferred[j])
  <2>1. /\ conflict[level - 1] \in DOMAIN nodes[level - 1] /\ collected \in Seq(DOMAIN nodes[level])
        /\ Transferred \in Seq(NodeType) /\ DOMAIN Transferred = DOMAIN collected
        /\ IsTransferOf(level - 1, conflict[level - 1], nodes[level][collected[j]], Transferred[j])
    BY <1>1, TransferredAre
  <2> QED
    BY <1>1, <2>1
<1>3. /\ nodes[1] \in Seq(NodeType) /\ nodes[2] \in Seq(NodeType)
      /\ IsForest(nodes[1]) /\ IsForest(nodes[2])
  BY <1>1, LevelFacts
<1>4. d \in Nat /\ n # NoNode
  BY <1>2, <1>3, NodeTypes
<1>5. c \in DOMAIN nodes[2] /\ nodes[2][c] \in NodeType
  BY <1>2, <1>3
<1>6. nodes[2][c].depth = d + 1
  <2>1. nodes[level][collected[j]].depth = Len(path[level]) + 1
    BY <1>1 DEF LevelsInv, ControlInv
  <2>2. path[1 + 1] = PathTo(1, nodes[1], n)
    BY <1>1 DEF LevelsInv, ControlInv
  <2>3. Len(PathTo(1, nodes[1], n)) = d
    BY <1>2, <1>3, PathType
  <2>4. 1 + 1 = 2
    OBVIOUS
  <2> QED
    BY <2>1, <2>2, <2>3, <2>4
<1>7. nodes[2][c].parent # NoNode
  <2> DEFINE ns == nodes[2]
  <2> HIDE DEF ns, c, d
  <2>1. IsForest(ns) /\ c \in DOMAIN ns /\ ns[c].depth = d + 1
    BY <1>3, <1>5, <1>6 DEF ns
  <2>2. ns[c].parent = NoNode => ns[c].depth = 0
    BY <2>1 DEF IsForest, NoNode
  <2>3. ns[c].parent # NoNode
    BY <1>4, <2>1, <2>2
  <2> QED
    BY <2>3 DEF ns
<1> HIDE DEF c, n, d
<1>8. /\ d + 2 \in DOMAIN r /\ nodes[2][c].transition = r[d + 2].transition
      /\ Includes(nodes[2][c], r[d + 2])
  <2>1. Covers(2, nodes[2], c, r)
    BY DEF c
  <2> QED
    BY <1>3, <1>4, <1>5, <1>6, <1>7, <2>1, CoveredJump
<1>9. m \in DOMAIN ms /\ ms[m] = Transferred[j]
  <2> DEFINE cs == Transferred
             ns == nodes[1]
  <2>1. j \in DOMAIN cs /\ cs \in Seq(NodeType) /\ ns \in Seq(NodeType)
    BY <1>2, <1>3
  <2> HIDE DEF cs, ns
  <2>2. Len(ns) + j \in DOMAIN (ns \o cs) /\ (ns \o cs)[Len(ns) + j] = cs[j]
    BY <2>1, Concatenated
  <2> QED
    BY <2>2 DEF cs, ns
<1>10. ms[m].parent = n /\ ms[m].transition = r[d + 2].transition
  BY <1>2, <1>8, <1>9 DEF IsTransferOf, IsNewChild
<1>11. Includes(ms[m], r[d + 2])
  BY <1>2, <1>8, <1>9 DEF IsTransferOf, Includes
<1> HIDE DEF m
<1>12. n \in DOMAIN ms /\ ms[n].depth = d
  BY <1>2 DEF Extends, SameNode, d
<1>13. Covers(1, ms, n, r)
  BY <1>2, <1>3, CoversAgrees DEF n
<1>14. Covers(1, ms, m, r)
  BY <1>4, <1>8, <1>9, <1>10, <1>11, <1>12, <1>13, ChildCovers
<1> QED
  BY <1>14 DEF m

LEMMA CoverHandBack ==
  ASSUME LevelsInv, HasTwoLevels, CoverInv, TransferNodes
  PROVE  CoverInv'
<1>1. /\ level > 1 /\ verdict = "none" /\ queue[level] = << >>
      /\ level' = level - 1 /\ UNCHANGED <<ha, strategy, path, conflict, verdict>>
      /\ collected' = << >>
      /\ nodes'[level - 1] = nodes[level - 1] \o Transferred
      /\ queue'[level - 1] = queue[level - 1] \o QueuedAgain
  BY HandBackStep
<1>2. /\ level = 2 /\ 1 \in Levels /\ 2 \in Levels /\ TypeInv /\ level - 1 = 1
  BY <1>1, TwoLevelsAre
<1>3. /\ nodes'[1] = nodes[1] \o Transferred /\ queue'[1] = queue[1] \o QueuedAgain /\ level' = 1
      /\ queue[2] = << >>
  BY <1>1, <1>2
<1>4. /\ nodes[1] \in Seq(NodeType) /\ IsTree(1, nodes[1]) /\ IsForest(nodes[1])
      /\ queue[1] \in Seq(DOMAIN nodes[1])
  BY <1>2, LevelFacts
<1>5. /\ conflict[1] \in DOMAIN nodes[1] /\ Transferred \in Seq(NodeType)
      /\ DOMAIN Transferred = DOMAIN collected
      /\ \A k \in DOMAIN Transferred : IsNewChild(nodes[1], conflict[1], Transferred[k])
  <2>1. /\ conflict[level - 1] \in DOMAIN nodes[level - 1]
        /\ Transferred \in Seq(NodeType) /\ DOMAIN Transferred = DOMAIN collected
        /\ \A k \in DOMAIN collected :
             IsTransferOf(level - 1, conflict[level - 1], nodes[level][collected[k]], Transferred[k])
    BY <1>1, TransferredAre
  <2> QED
    BY <1>2, <2>1 DEF IsTransferOf
<1> DEFINE ms == nodes[1] \o Transferred
<1>6. ms \in Seq(NodeType) /\ IsTree(1, ms) /\ Extends(nodes[1], ms)
  BY <1>4, <1>5, ChildrenAdded
<1>7. IsForest(ms)
  BY <1>6, TreeIsForest
<1>8. /\ QueuedAgain \in Seq(Len(nodes[1]) + 1..Len(nodes[1]) + Len(Transferred))
      /\ \A k \in DOMAIN collected : \E m \in DOMAIN QueuedAgain : QueuedAgain[m] = Len(nodes[1]) + k
  <2>1. /\ QueuedAgain \in Seq(Len(nodes[level - 1]) + 1..Len(nodes[level - 1]) + Len(Transferred))
        /\ \A k \in HandedBack :
              \E m \in DOMAIN QueuedAgain : QueuedAgain[m] = Len(nodes[level - 1]) + k
    BY <1>1, HandedBackAre
  <2>2. HandedBack = DOMAIN collected
    BY <1>2, <1>5 DEF HandedBack
  <2> QED
    BY <1>2, <2>1, <2>2
<1> HIDE DEF ms
<1>9. ASSUME NEW r, IsTrace(r),
             IsPending(2, nodes[1], nodes[2], queue[1], queue[2], conflict[1], collected, r)
      PROVE  QueuedIn(1, ms, queue[1] \o QueuedAgain, r)
  <2>1. CASE QueuedIn(1, nodes[1], queue[1], r)
    BY <1>4, <1>6, <1>7, <1>8, <2>1, StillQueued
  <2>2. CASE Covers(1, nodes[1], conflict[1], r) /\ QueuedIn(2, nodes[2], collected, r)
    <3>1. PICK j \in DOMAIN collected : Covers(2, nodes[2], collected[j], r)
      BY <2>2 DEF QueuedIn
    <3>2. Covers(1, ms, Len(nodes[1]) + j, r)
      <4>1. ms = nodes[1] \o Transferred
        BY DEF ms
      <4> QED
        BY <1>2, <1>6, <1>7, <1>9, <2>2, <3>1, <4>1, TransferCovers
    <3>3. PICK m \in DOMAIN QueuedAgain : QueuedAgain[m] = Len(nodes[1]) + j
      BY <1>8
    <3>4. QueuedIn(1, ms, QueuedAgain, r)
      BY <3>2, <3>3 DEF QueuedIn
    <3> QED
      BY <1>4, <1>8, <3>4, NowQueued
  <2>3. ~QueuedIn(2, nodes[2], queue[2], r)
    BY <1>3 DEF QueuedIn
  <2> QED
    BY <1>9, <2>1, <2>2, <2>3 DEF IsPending
<1>10. \A r : IsTrace(r) => IsSafe(r[Len(r)])
        \/ IsPending(2, nodes[1], nodes[2], queue[1], queue[2], conflict[1], collected, r)
  BY <1>1, <1>2, PendingIs DEF CoverInv
<1>11. \A r : IsTrace(r) => IsSafe(r[Len(r)])
        \/ IsPending(level', nodes'[1], nodes'[2], queue'[1], queue'[2], conflict'[1], collected', r)
  BY <1>3, <1>9, <1>10 DEF IsPending, ms
<1>12. ha' = ha /\ strategy' = strategy /\ verdict' = "none"
  BY <1>1
<1> QED
  BY <1>11, <1>12, SameTraces, PendingPrimed DEF CoverInv

LEMMA CoverRefineConflict ==
  ASSUME LevelsInv, HasTwoLevels, RefineConflict
  PROVE  CoverInv'
<1>1. level = Top
  BY TwoLevelsAre DEF RefineConflict, OnPath, Refining
<1> QED
  BY <1>1, StopUnknown DEF CoverInv

LEMMA CoverUnchanged ==
  ASSUME LevelsInv, HasTwoLevels, CoverInv, UNCHANGED cegarVars
  PROVE  CoverInv'
<1>1. UNCHANGED <<ha, strategy, level, nodes, queue, path, conflict, collected, verdict>>
  BY DEF cegarVars
<1>2. \A r : (IsQueued(1, r) \/ IsRefined(r))' <=> IsQueued(1, r) \/ IsRefined(r)
  BY <1>1, PendingIs, PendingPrimed
<1> QED
  BY <1>1, <1>2, SameTraces DEF CoverInv

--------------------------------------------------------------------------
(* What the tree of the last level keeps: the flowpipes ...               *)
IsKept(l, S, fp) ==
  fp # << >> => fp = TimeSuccessors(2, l, S) /\ ~MeetsBadStates(2, l, fp)
KeptIn(ns) == \A n \in DOMAIN ns : IsKept(ns[n].location, ns[n].initialSet, ns[n].flowpipe)

LEMMA KeptIs ==
  ASSUME Top = 2
  PROVE  KeptInv <=> (verdict = "none" => KeptIn(nodes[2]))
BY DEF KeptInv, KeptIn, IsKept

LEMMA SameKept ==
  ASSUME ha' = ha, strategy' = strategy, NEW l, NEW S, NEW fp
  PROVE  IsKept(l, S, fp)' <=> IsKept(l, S, fp)
<1>1. TimeSuccessors(2, l, S)' = TimeSuccessors(2, l, S)
  BY SameTimeSuccessors
<1>2. MeetsBadStates(2, l, fp)' <=> MeetsBadStates(2, l, fp)
  BY DEF MeetsBadStates, IsBad
<1> QED
  BY <1>1, <1>2 DEF IsKept

LEMMA KeptPrimed ==
  ASSUME ha' = ha, strategy' = strategy, Top = 2, verdict' = "none" => KeptIn(nodes'[2])
  PROVE  KeptInv'
<1>1. Top' = 2
  BY DEF Top
<1>2. CASE verdict' # "none"
  BY <1>2 DEF KeptInv
<1>3. CASE verdict' = "none"
  <2>1. KeptIn(nodes[2])'
    BY <1>3, SameKept DEF KeptIn
  <2>2. ASSUME NEW n \in DOMAIN nodes'[2], nodes'[2][n].flowpipe # << >>
        PROVE  /\ nodes'[2][n].flowpipe =
                    TimeSuccessors(2, nodes[2][n].location, nodes[2][n].initialSet)'
               /\ ~MeetsBadStates(2, nodes[2][n].location, nodes[2][n].flowpipe)'
    BY <2>1, <2>2 DEF KeptIn, IsKept
  <2> QED
    BY <1>1, <2>2 DEF KeptInv
<1> QED
  BY <1>2, <1>3

(* ... and the children.                                                  *)
ChildrenIn(ns) ==
  \A n \in DOMAIN ns : \A t \in DOMAIN ha.transition :
    HasChildFor(ns, n, t) => HasAllFor(ns, n, t)

LEMMA SameChildren ==
  ASSUME ha' = ha, strategy' = strategy, NEW ns
  PROVE  ChildrenIn(ns)' <=> ChildrenIn(ns)
<1>1. Top' = Top
  BY DEF Top
<1>2. \A n : Below(ns, n)' = Below(ns, n)
  BY DEF Below, R!Children
<1>3. \A r : IsTrace(r)' <=> IsTrace(r)
  BY SameTraces
<1>4. \A n : \A r : Covers(Top, ns, n, r)' <=> Covers(Top, ns, n, r)
  BY <1>1, SameCovers
<1>5. \A n : \A t : HasChildFor(ns, n, t)' <=> HasChildFor(ns, n, t)
  BY <1>2 DEF HasChildFor
<1>6. \A n : \A t : HasAllFor(ns, n, t)' <=> HasAllFor(ns, n, t)
  BY <1>2, <1>3, <1>4 DEF HasAllFor, JumpsBy
<1> QED
  BY <1>5, <1>6 DEF ChildrenIn

LEMMA ChildrenPrimed ==
  ASSUME ha' = ha, strategy' = strategy, Top = 2, verdict' = "none" => ChildrenIn(nodes'[2])
  PROVE  ChildrenInv'
<1>1. Top' = 2
  BY DEF Top
<1>2. CASE verdict' # "none"
  BY <1>2 DEF ChildrenInv
<1>3. CASE verdict' = "none"
  <2>1. ChildrenIn(nodes[2])'
    BY <1>3, SameChildren
  <2> QED
    BY <1>1, <2>1 DEF ChildrenInv, ChildrenIn
<1> QED
  BY <1>2, <1>3

LEMMA AllForStays ==
  ASSUME Top = 2, NEW ns, NEW ms, IsForest(ns), IsForest(ms), Extends(ns, ms), NEW n \in DOMAIN ns,
         NEW t, HasAllFor(ns, n, t)
  PROVE  HasAllFor(ms, n, t)
<1>1. SUFFICES ASSUME NEW r, IsTrace(r), Covers(2, ms, n, r), JumpsBy(ms[n].depth, r, t)
               PROVE  \E c \in Below(ms, n) : Covers(2, ms, c, r)
  BY DEF HasAllFor
<1>2. Covers(2, ns, n, r) /\ ms[n].depth = ns[n].depth
  BY <1>1, CoversAgrees DEF Extends, SameNode
<1>3. PICK c \in Below(ns, n) : Covers(2, ns, c, r)
  BY <1>1, <1>2 DEF HasAllFor
<1>4. c \in DOMAIN ns /\ ns[c].parent = n
  BY <1>3 DEF Below, R!Children
<1>5. c \in Below(ms, n)
  BY <1>4 DEF Below, R!Children, Extends, SameNode
<1> QED
  BY <1>3, <1>4, <1>5, CoversAgrees

LEMMA ChildrenStay ==
  ASSUME Top = 2, NEW ns, NEW ms, IsForest(ns), IsForest(ms), Extends(ns, ms), ChildrenIn(ns),
         \A c \in DOMAIN ms : c \notin DOMAIN ns =>
           \/ ms[c].parent = NoNode
           \/ HasAllFor(ms, ms[c].parent, ms[c].transition)
  PROVE  ChildrenIn(ms)
<1>1. SUFFICES ASSUME NEW n \in DOMAIN ms, NEW t \in DOMAIN ha.transition, HasChildFor(ms, n, t)
               PROVE  HasAllFor(ms, n, t)
  BY DEF ChildrenIn
<1>2. PICK c \in DOMAIN ms : ms[c].parent = n /\ ms[c].transition = t
  BY <1>1 DEF HasChildFor, Below, R!Children
<1>3. n # NoNode
  BY NodeTypes DEF IsForest
<1>4. CASE c \in DOMAIN ns
  <2>1. ns[c].parent = n /\ ns[c].transition = t
    BY <1>2, <1>4 DEF Extends, SameNode
  <2>2. n \in DOMAIN ns
    BY <1>3, <1>4, <2>1, ParentIsEarlier
  <2>3. HasChildFor(ns, n, t)
    BY <1>4, <2>1 DEF HasChildFor, Below, R!Children
  <2> QED
    BY <2>2, <2>3, AllForStays DEF ChildrenIn
<1>5. CASE c \notin DOMAIN ns
  BY <1>2, <1>3, <1>5
<1> QED
  BY <1>4, <1>5

(* The steps of the refinement: nodes that are expanded keep both.        *)
LEMMA ExpansionHasAll ==
  ASSUME LevelsInv, HasTwoLevels, NEW n \in DOMAIN nodes[2], NEW fp, IsGoodAt(2, n, fp),
         NEW T, T \subseteq DOMAIN ha.transition, NEW cs, AreChildren(2, n, fp, T, cs),
         NEW ms, IsExpansion(2, nodes[2], n, fp, cs, ms), NEW t \in T
  PROVE  HasAllFor(ms, n, t)
<1>1. /\ 2 \in Levels /\ TypeInv /\ Top = 2 /\ nodes[2] \in Seq(NodeType) /\ IsForest(nodes[2])
  BY TwoLevelsAre, LevelFacts
<1>2. /\ IsForest(ms) /\ Extends(nodes[2], ms) /\ ms[n].depth = nodes[2][n].depth
  BY DEF IsExpansion, Extends, SameNode
<1>3. SUFFICES ASSUME NEW r, IsTrace(r), Covers(2, ms, n, r), JumpsBy(nodes[2][n].depth, r, t)
               PROVE  \E c \in Below(ms, n) : Covers(2, ms, c, r)
  BY <1>1, <1>2 DEF HasAllFor
<1> DEFINE d == nodes[2][n].depth
<1>4. d + 2 \in DOMAIN r /\ r[d + 2].transition = t
  BY <1>3 DEF JumpsBy
<1>5. Covers(2, nodes[2], n, r)
  BY <1>1, <1>2, <1>3, CoversAgrees
<1>7. PICK k \in DOMAIN cs : Covers(2, ms, Len(nodes[2]) + k, r)
  <2>1. GoesOn(2, n, r, d) /\ HasNext(2, n, fp, cs, T, r[d + 2].transition)
    BY <1>3, <1>4, <1>5 DEF GoesOn, HasNext
  <2>2. IsCoveredBehind(nodes[2], cs, ms, r)
    BY <1>1, <2>1, NextCovers
  <2> QED
    BY <2>2 DEF IsCoveredBehind
<1>8. Len(nodes[2]) + k \in DOMAIN ms /\ ms[Len(nodes[2]) + k] = cs[k]
  BY DEF IsExpansion
<1>9. cs[k].parent = n
  BY DEF AreChildren, IsNewChild
<1>10. Len(nodes[2]) + k \in Below(ms, n)
  BY <1>8, <1>9 DEF Below, R!Children
<1> QED
  BY <1>7, <1>10

LEMMA RefinementKeeps ==
  ASSUME LevelsInv, HasTwoLevels, KeptInv, ChildrenInv, NEW n, NEW fp, OnRefinement(n, fp),
         NEW cs, StepsTo(n, fp, cs), NEW T, T \subseteq DOMAIN ha.transition,
         AreChildren(2, n, fp, T, cs)
  PROVE  KeptInv' /\ ChildrenInv'
<1> DEFINE ns == nodes[2]
           ms == nodes'[2]
<1>1. /\ level = 2 /\ verdict = "none" /\ n \in DOMAIN ns
      /\ fp = TimeSuccessors(2, ns[n].location, ns[n].initialSet)
      /\ IsFlowpipeOf(2, ns[n].location, ns[n].initialSet, fp)
      /\ ~MeetsBadStates(2, ns[n].location, fp)
  BY GoodFlowpipe
<1>2. /\ 2 \in Levels /\ Top = 2 /\ ns \in Seq(NodeType) /\ IsForest(ns)
  BY TwoLevelsAre, LevelFacts
<1>3. ha' = ha /\ strategy' = strategy /\ IsExpansion(2, ns, n, fp, cs, ms)
  BY <1>1 DEF StepsTo
<1>4. KeptIn(ns) /\ ChildrenIn(ns)
  BY <1>1, <1>2, KeptIs DEF ChildrenInv, ChildrenIn
<1>5. ASSUME NEW m \in DOMAIN ms, m \notin DOMAIN ns
      PROVE  \E k \in DOMAIN cs : /\ ms[m] = cs[k] /\ cs[k].flowpipe = << >>
                                  /\ cs[k].parent = n /\ cs[k].transition \in T
  <2>1. PICK k \in DOMAIN cs : m = Len(ns) + k /\ ms[Len(ns) + k] = cs[k]
    BY <1>3, <1>5 DEF IsExpansion
  <2> QED
    BY <2>1 DEF AreChildren, IsNewChild
<1>6. ASSUME NEW m \in DOMAIN ns
      PROVE  /\ ms[m].location = ns[m].location /\ ms[m].initialSet = ns[m].initialSet
             /\ ms[m].flowpipe = IF m = n THEN fp ELSE ns[m].flowpipe
  BY <1>3 DEF IsExpansion, Extends, SameNode
<1>7. IsForest(ms) /\ Extends(ns, ms)
  BY <1>3 DEF IsExpansion
<1> HIDE DEF ns, ms
<1>8. KeptIn(ms)
  <2>1. SUFFICES ASSUME NEW m \in DOMAIN ms
                 PROVE  IsKept(ms[m].location, ms[m].initialSet, ms[m].flowpipe)
    BY DEF KeptIn
  <2>2. CASE m \notin DOMAIN ns
    <3>1. ms[m].flowpipe = << >>
      BY <1>5, <2>2
    <3> QED
      BY <3>1 DEF IsKept
  <2>3. CASE m \in DOMAIN ns /\ m = n
    <3>1. /\ ms[m].location = ns[n].location /\ ms[m].initialSet = ns[n].initialSet
          /\ ms[m].flowpipe = fp
      BY <1>6, <2>3
    <3>2. IsKept(ns[n].location, ns[n].initialSet, fp)
      BY <1>1 DEF IsKept, ns
    <3> QED
      BY <3>1, <3>2
  <2>4. CASE m \in DOMAIN ns /\ m # n
    <3>1. /\ ms[m].location = ns[m].location /\ ms[m].initialSet = ns[m].initialSet
          /\ ms[m].flowpipe = ns[m].flowpipe
      BY <1>6, <2>4
    <3>2. IsKept(ns[m].location, ns[m].initialSet, ns[m].flowpipe)
      BY <1>4, <2>4 DEF KeptIn
    <3> QED
      BY <3>1, <3>2
  <2> QED
    BY <2>2, <2>3, <2>4
<1>9. ChildrenIn(ms)
  <2>1. \A t \in T : HasAllFor(ms, n, t)
    <3>1. IsGoodAt(2, n, fp)
      BY <1>1 DEF IsGoodAt, ns
    <3> QED
      BY <1>1, <1>3, <3>1, ExpansionHasAll DEF ns, ms
  <2>2. \A c \in DOMAIN ms : c \notin DOMAIN ns => HasAllFor(ms, ms[c].parent, ms[c].transition)
    BY <1>5, <2>1
  <2> QED
    BY <1>2, <1>4, <1>7, <2>2, ChildrenStay
<1> QED
  BY <1>2, <1>3, <1>8, <1>9, KeptPrimed, ChildrenPrimed DEF ms

LEMMA RootKeeps ==
  ASSUME LevelsInv, HasTwoLevels, KeptInv, ChildrenInv, verdict = "none", NEW l,
         \E k \in DOMAIN ha.initial : ha.initial[k].loc = l,
         ha' = ha, strategy' = strategy, nodes'[2] = WithRoot(2, l)
  PROVE  KeptInv' /\ ChildrenInv'
<1> DEFINE ns == nodes[2]
           ms == WithRoot(2, l)
<1>1. /\ 2 \in Levels /\ Top = 2 /\ ns \in Seq(NodeType) /\ IsTree(2, ns) /\ IsForest(ns) /\ TypeInv
  BY TwoLevelsAre, LevelFacts
<1>2. /\ ms \in Seq(NodeType) /\ IsTree(2, ms) /\ Extends(ns, ms)
      /\ \A n \in DOMAIN ns : ms[n] = ns[n]
      /\ \A n \in DOMAIN ms : n \notin DOMAIN ns => ms[n] = RootNode(2, l)
  BY <1>1, WithRootIs
<1>3. RootNode(2, l).parent = NoNode /\ RootNode(2, l).flowpipe = << >>
  <2>1. IsRootNode(2, RootNode(2, l)) /\ RootNode(2, l).flowpipe = << >>
    BY <1>1, RootNodeIs DEF TypeInv
  <2> QED
    BY <2>1 DEF IsRootNode
<1>4. KeptIn(ns) /\ ChildrenIn(ns)
  BY <1>1, KeptIs DEF ChildrenInv, ChildrenIn
<1>5. IsForest(ms)
  BY <1>2, TreeIsForest
<1> HIDE DEF ns, ms
<1>6. KeptIn(ms)
  <2>1. SUFFICES ASSUME NEW m \in DOMAIN ms
                 PROVE  IsKept(ms[m].location, ms[m].initialSet, ms[m].flowpipe)
    BY DEF KeptIn
  <2>2. CASE m \in DOMAIN ns
    BY <1>2, <1>4, <2>2 DEF KeptIn
  <2>3. CASE m \notin DOMAIN ns
    BY <1>2, <1>3, <2>3 DEF IsKept
  <2> QED
    BY <2>2, <2>3
<1>7. ChildrenIn(ms)
  BY <1>1, <1>2, <1>3, <1>4, <1>5, ChildrenStay
<1> QED
  BY <1>1, <1>6, <1>7, KeptPrimed, ChildrenPrimed DEF ms

(* Steps that leave the tree of the last level alone, or give a verdict.  *)
LEMMA TreeKept ==
  ASSUME HasTwoLevels, KeptInv, ChildrenInv, ha' = ha, strategy' = strategy,
         verdict' = "none" => verdict = "none" /\ nodes'[2] = nodes[2]
  PROVE  KeptInv' /\ ChildrenInv'
<1>1. Top = 2
  BY DEF HasTwoLevels
<1>2. verdict' = "none" => KeptIn(nodes'[2]) /\ ChildrenIn(nodes'[2])
  BY <1>1, KeptIs DEF ChildrenInv, ChildrenIn
<1> QED
  BY <1>1, <1>2, KeptPrimed, ChildrenPrimed

--------------------------------------------------------------------------
(* The run that is observed is the end of a trace, with any number of     *)
(* levels.                                                                *)
EndsIn(r, rn) ==
  LET v == r[Len(r)]
  IN  /\ rn.jumps + 1 = Len(r) /\ rn.location = v.location /\ rn.steps = v.steps
      /\ rn.valuation = Position(v, v.steps)

IsEnd(rn) == rn \in RunType /\ \E r : IsTrace(r) /\ EndsIn(r, rn)

LEMMA RunIs ==
  ASSUME RunInv, run # NoRun
  PROVE  run \in RunType /\ IsEnd(run) /\ verdict = "SAFE"
BY DEF RunInv, IsEnd, EndsIn, IsEndOf

LEMMA RunPrimed ==
  ASSUME ha' = ha, strategy' = strategy, verdict' = "SAFE", IsEnd(run')
  PROVE  RunInv'
<1>1. PICK r : IsTrace(r) /\ EndsIn(r, run')
  BY DEF IsEnd
<1>2. IsTrace(r)'
  BY <1>1, SameTraces
<1>3. IsEndOf(r)'
  BY <1>1 DEF EndsIn, IsEndOf, Position
<1> QED
  BY <1>2, <1>3 DEF RunInv, IsEnd

(* A visit that has just begun, and one that lasts a time step longer.    *)
LEMMA PositionSteps ==
  ASSUME TypeInv, NEW v \in VisitType
  PROVE  /\ Position(v, 0) = v.first
         /\ \A s \in Nat : Position(v, s + 1) = ha.flow[v.location][Position(v, s)]
         /\ \A s \in Nat : Position(v, s) \in Point
<1>1. v.location \in Location /\ v.first \in Point
  BY DEF VisitType
<1>2. ha.flow[v.location] \in [Point -> Point]
  BY <1>1, AutomatonTypes DEF TypeInv
<1>3. Iterate(ha.flow[v.location], 0)[v.first] = v.first
  BY <1>1, <1>2, IterateSteps
<1>4. ASSUME NEW s \in Nat
      PROVE  /\ Iterate(ha.flow[v.location], s + 1)[v.first] =
                  ha.flow[v.location][Iterate(ha.flow[v.location], s)[v.first]]
             /\ Iterate(ha.flow[v.location], s)[v.first] \in Point
  <2> DEFINE f == ha.flow[v.location]
  <2> HIDE DEF f
  <2>1. f \in [Point -> Point]
    BY <1>2 DEF f
  <2>2. Iterate(f, s + 1) = [p \in Point |-> f[Iterate(f, s)[p]]]
    BY <2>1, IterateSteps
  <2>3. Iterate(f, s) \in [Point -> Point]
    BY <2>1, IterateType
  <2>4. Iterate(f, s + 1)[v.first] = f[Iterate(f, s)[v.first]] /\ Iterate(f, s)[v.first] \in Point
    BY <1>1, <2>2, <2>3
  <2> QED
    BY <2>4 DEF f
<1> QED
  BY <1>3, <1>4 DEF Position

Visit(l, p, q, t, early, late) ==
  [location |-> l, entry |-> p, first |-> q, steps |-> 0, transition |-> t,
   earliest |-> early, latest |-> late]

LEMMA VisitBegins ==
  ASSUME TypeInv, NEW l \in Location, NEW p \in Point, NEW q \in Point, Enters(ha, l, p, q),
         NEW t \in Nat, NEW early \in Int, NEW late \in Int
  PROVE  /\ Visit(l, p, q, t, early, late) \in VisitType
         /\ IsVisit(Visit(l, p, q, t, early, late))
         /\ Position(Visit(l, p, q, t, early, late), 0) = q
<1> DEFINE v == Visit(l, p, q, t, early, late)
<1>1. v \in VisitType /\ v.location = l /\ v.entry = p /\ v.first = q /\ v.steps = 0
  BY DEF Visit, VisitType
<1> HIDE DEF v
<1>2. Position(v, 0) = q
  BY <1>1, PositionSteps
<1>3. q \in ha.invariant[l] /\ 0 <= horizon
  BY BoundsAssumption DEF Enters
<1>4. \A s \in 0..v.steps : Position(v, s) \in ha.invariant[v.location]
  <2>1. 0..v.steps = {0}
    BY <1>1
  <2> QED
    BY <1>1, <1>2, <1>3, <2>1
<1>5. IsVisit(v)
  BY <1>1, <1>3, <1>4 DEF IsVisit
<1> QED
  BY <1>1, <1>2, <1>5 DEF v

Longer(v) == [v EXCEPT !.steps = @ + 1]

LEMMA VisitLasts ==
  ASSUME TypeInv, NEW v \in VisitType, IsVisit(v), v.steps + 1 <= horizon,
         ha.flow[v.location][Position(v, v.steps)] \in ha.invariant[v.location]
  PROVE  /\ Longer(v) \in VisitType /\ IsVisit(Longer(v))
         /\ Longer(v).location = v.location /\ Longer(v).entry = v.entry
         /\ Longer(v).transition = v.transition /\ Longer(v).steps = v.steps + 1
         /\ Longer(v).earliest = v.earliest /\ Longer(v).latest = v.latest
         /\ Position(Longer(v), v.steps + 1) = ha.flow[v.location][Position(v, v.steps)]
<1> DEFINE w == Longer(v)
<1>1. /\ w \in VisitType /\ w.location = v.location /\ w.entry = v.entry /\ w.first = v.first
      /\ w.transition = v.transition /\ w.steps = v.steps + 1
      /\ w.earliest = v.earliest /\ w.latest = v.latest /\ v.steps \in Nat
  BY DEF Longer, VisitType
<1> HIDE DEF w
<1>2. \A s : Position(w, s) = Position(v, s)
  BY <1>1 DEF Position
<1>3. Position(w, v.steps + 1) = ha.flow[v.location][Position(v, v.steps)]
  BY <1>1, <1>2, PositionSteps
<1>4. \A s \in 0..w.steps : Position(w, s) \in ha.invariant[w.location]
  <2>1. SUFFICES ASSUME NEW s \in 0..w.steps
                 PROVE  Position(w, s) \in ha.invariant[w.location]
    OBVIOUS
  <2>2. CASE s \in 0..v.steps
    BY <1>1, <1>2, <2>2 DEF IsVisit
  <2>3. CASE s = v.steps + 1
    BY <1>1, <1>3, <2>3
  <2>4. s \in 0..v.steps \/ s = v.steps + 1
    BY <1>1
  <2> QED
    BY <2>2, <2>3, <2>4
<1>5. IsVisit(w)
  BY <1>1, <1>4 DEF IsVisit
<1> QED
  BY <1>1, <1>3, <1>5 DEF w

LEMMA RunBegins ==
  ASSUME TypeInv, Start(ha)
  PROVE  IsEnd(run')
<1>1. PICK k \in DOMAIN ha.initial : \E p \in ha.initial[k].set, q \in Point :
        /\ Enters(ha, ha.initial[k].loc, p, q)
        /\ run' = [location |-> ha.initial[k].loc, valuation |-> q, steps |-> 0, jumps |-> 0,
                   path |-> << >>, earliest |-> 0, latest |-> 0]
  BY DEF Start
<1> DEFINE l == ha.initial[k].loc
<1>2. PICK p \in ha.initial[k].set, q \in Point :
        /\ Enters(ha, l, p, q)
        /\ run' = [location |-> l, valuation |-> q, steps |-> 0, jumps |-> 0,
                   path |-> << >>, earliest |-> 0, latest |-> 0]
  BY <1>1
<1>3. l \in Location /\ p \in Point
  BY <1>2, AutomatonTypes DEF TypeInv
<1> DEFINE v == Visit(l, p, q, 0, 0, 0)
           r == << v >>
<1>4. v \in VisitType /\ IsVisit(v) /\ Position(v, 0) = q
  BY <1>2, <1>3, VisitBegins
<1>5. v.location = l /\ v.entry = p /\ v.steps = 0 /\ v.earliest = 0 /\ v.latest = 0
  BY DEF Visit
<1>6. IsFirst(v)
  BY <1>2, <1>5 DEF IsFirst
<1>7. /\ run' \in RunType /\ run'.location = l /\ run'.valuation = q /\ run'.steps = 0
      /\ run'.jumps = 0
  BY <1>2, <1>3 DEF RunType
<1> HIDE DEF v, l
<1>8. r \in Seq(VisitType) /\ Len(r) = 1 /\ DOMAIN r = {1} /\ r[1] = v
  BY <1>4
<1> HIDE DEF r
<1>9. IsTrace(r)
  <2>1. Len(r) \in 1..jumpDepth + 1
    BY <1>8, BoundsAssumption
  <2>2. 2..Len(r) = {}
    BY <1>8
  <2> QED
    BY <1>4, <1>6, <1>8, <2>1, <2>2 DEF IsTrace
<1>10. EndsIn(r, run')
  BY <1>4, <1>5, <1>7, <1>8 DEF EndsIn
<1> QED
  BY <1>7, <1>9, <1>10 DEF IsEnd

LEMMA RunGoesOn ==
  ASSUME TypeInv, IsEnd(run), Elapse(ha, horizon, 1)
  PROVE  IsEnd(run')
<1>1. PICK r : IsTrace(r) /\ EndsIn(r, run)
  BY DEF IsEnd
<1> DEFINE n == Len(r)
           v == r[n]
           w == Longer(v)
           s == [k \in 1..n |-> IF k = n THEN w ELSE r[k]]
<1>2. r \in Seq(VisitType) /\ n \in 1..jumpDepth + 1 /\ n \in Nat /\ DOMAIN r = 1..n /\ n \in DOMAIN r
  <2>1. r \in Seq(VisitType) /\ n \in 1..jumpDepth + 1
    BY <1>1 DEF IsTrace
  <2> QED
    BY <2>1, BoundsAssumption
<1>3. v \in VisitType /\ IsVisit(v) /\ v.steps \in Nat
  <2>1. v \in VisitType
    BY <1>2
  <2> QED
    BY <1>1, <1>2, <2>1 DEF IsTrace, VisitType
<1>4. /\ run \in RunType /\ run.jumps + 1 = n /\ run.location = v.location /\ run.steps = v.steps
      /\ run.valuation = Position(v, v.steps)
  BY <1>1 DEF IsEnd, EndsIn
<1>5. /\ v.steps + 1 <= horizon
      /\ ha.flow[v.location][Position(v, v.steps)] \in ha.invariant[v.location]
      /\ run' = [run EXCEPT !.valuation = ha.flow[run.location][@], !.steps = @ + 1]
  <2>1. (run.steps + 1) * 1 <= horizon
    BY DEF Elapse
  <2>2. (run.steps + 1) * 1 = run.steps + 1
    BY <1>3, <1>4
  <2> QED
    BY <1>4, <2>1, <2>2 DEF Elapse
<1> HIDE DEF v, n
<1>6. /\ w \in VisitType /\ IsVisit(w)
      /\ w.location = v.location /\ w.entry = v.entry
      /\ w.transition = v.transition /\ w.steps = v.steps + 1
      /\ w.earliest = v.earliest /\ w.latest = v.latest
      /\ Position(w, v.steps + 1) = ha.flow[v.location][Position(v, v.steps)]
  BY <1>3, <1>5, VisitLasts
<1>7. /\ run' \in RunType /\ run'.jumps = run.jumps /\ run'.location = v.location
      /\ run'.steps = v.steps + 1 /\ run'.valuation = Position(w, w.steps)
  <2>1. ha.flow[v.location][Position(v, v.steps)] \in Point
    <3>1. Position(v, v.steps + 1) \in Point
      BY <1>3, PositionSteps
    <3> QED
      BY <1>3, <3>1, PositionSteps
  <2> DEFINE x == ha.flow[v.location][Position(v, v.steps)]
  <2> HIDE DEF w, s
  <2>2. run' = [run EXCEPT !.valuation = x, !.steps = @ + 1]
    BY <1>4, <1>5
  <2>3. x \in Point /\ Position(w, w.steps) = x
    BY <1>6, <2>1
  <2> HIDE DEF x
  <2>4. /\ run' \in RunType /\ run'.jumps = run.jumps /\ run'.location = run.location
        /\ run'.steps = run.steps + 1 /\ run'.valuation = x
    <3>1. /\ run.location \in Location /\ run.steps \in Nat /\ run.jumps \in Nat
          /\ run.path \in Seq(Nat) /\ run.earliest \in Int /\ run.latest \in Int
      BY <1>4 DEF RunType
    <3>2. run' = [location |-> run.location, valuation |-> x, steps |-> run.steps + 1,
                  jumps |-> run.jumps, path |-> run.path, earliest |-> run.earliest,
                  latest |-> run.latest]
      <4> DEFINE z == run.steps + 1
      <4>1. run' = [run EXCEPT !.valuation = x, !.steps = z]
        BY <2>2
      <4> HIDE DEF z
      <4>2. run' = [location |-> run.location, valuation |-> x, steps |-> z,
                    jumps |-> run.jumps, path |-> run.path, earliest |-> run.earliest,
                    latest |-> run.latest]
        BY <1>4, <4>1 DEF RunType
      <4> QED
        BY <4>2 DEF z
    <3> QED
      BY <2>3, <3>1, <3>2 DEF RunType
  <2> QED
    BY <1>4, <2>3, <2>4
<1> HIDE DEF w
<1>8. /\ s \in Seq(VisitType) /\ Len(s) = n /\ DOMAIN s = 1..n /\ s[n] = w
      /\ \A k \in 1..n : k # n => s[k] = r[k]
  <2>1. \A k \in 1..n : s[k] \in VisitType
    BY <1>2, <1>6
  <2> QED
    BY <1>2, <2>1
<1> HIDE DEF s
<1>9. IsTrace(s)
  <2>1. IsFirst(s[1])
    <3>1. IsFirst(r[1]) /\ 1 \in 1..n
      BY <1>1, <1>2 DEF IsTrace
    <3>2. CASE n = 1
      BY <1>6, <1>8, <3>1, <3>2 DEF IsFirst, v
    <3>3. CASE n # 1
      BY <1>8, <3>1, <3>3
    <3> QED
      BY <3>2, <3>3
  <2>2. \A k \in DOMAIN s : IsVisit(s[k])
    BY <1>1, <1>2, <1>6, <1>8 DEF IsTrace
  <2>3. ASSUME NEW k \in 2..Len(s)
        PROVE  Follows(s[k - 1], s[k])
    <3>1. Follows(r[k - 1], r[k]) /\ k - 1 \in 1..n /\ k \in 1..n /\ k - 1 # n
      <4>1. k \in 2..n /\ k - 1 \in 1..n /\ k \in 1..n /\ k - 1 # n
        BY <1>2, <1>8
      <4>2. Follows(r[k - 1], r[k])
        BY <1>1, <4>1 DEF IsTrace, n
      <4> QED
        BY <4>1, <4>2
    <3>2. s[k - 1] = r[k - 1]
      BY <1>8, <3>1
    <3>3. CASE k = n
      BY <1>6, <1>8, <3>1, <3>2, <3>3 DEF Follows, v
    <3>4. CASE k # n
      BY <1>8, <3>1, <3>2, <3>4
    <3> QED
      BY <3>3, <3>4
  <2> QED
    BY <1>2, <1>8, <2>1, <2>2, <2>3 DEF IsTrace
<1>10. EndsIn(s, run')
  BY <1>4, <1>6, <1>7, <1>8 DEF EndsIn
<1> QED
  BY <1>7, <1>9, <1>10 DEF IsEnd

LEMMA RunTakesJump ==
  ASSUME TypeInv, IsEnd(run), Jump(ha, jumpDepth, 1)
  PROVE  IsEnd(run')
<1>1. PICK r : IsTrace(r) /\ EndsIn(r, run)
  BY DEF IsEnd
<1> DEFINE n == Len(r)
           v == r[n]
<1>2. r \in Seq(VisitType) /\ n \in 1..jumpDepth + 1 /\ n \in Nat /\ DOMAIN r = 1..n /\ n \in DOMAIN r
  <2>1. r \in Seq(VisitType) /\ n \in 1..jumpDepth + 1
    BY <1>1 DEF IsTrace
  <2> QED
    BY <2>1, BoundsAssumption
<1>3. v \in VisitType /\ v.steps \in Nat /\ v.earliest \in Int /\ v.latest \in Int
  <2>1. v \in VisitType
    BY <1>2
  <2> QED
    BY <2>1 DEF VisitType
<1>4. /\ run \in RunType /\ run.jumps + 1 = n /\ run.location = v.location /\ run.steps = v.steps
      /\ run.valuation = Position(v, v.steps) /\ run.jumps \in Nat
  BY <1>1 DEF IsEnd, EndsIn, RunType
<1> HIDE DEF v, n
<1>5. PICK t \in TransitionsFrom(ha, run.location), q \in Point :
        LET tr == ha.transition[t]
            p == tr.reset[run.valuation]
        IN  /\ run.valuation \in tr.guard
            /\ Enters(ha, tr.target, p, q)
            /\ run' = [location |-> tr.target, valuation |-> q, steps |-> 0,
                       jumps |-> run.jumps + 1, path |-> Append(run.path, t),
                       earliest |-> run.earliest + run.steps * 1,
                       latest |-> run.latest + (run.steps + 1) * 1]
  BY DEF Jump
<1> DEFINE tr == ha.transition[t]
           p == tr.reset[run.valuation]
<1>6. /\ t \in TransitionsFrom(ha, v.location) /\ t \in DOMAIN ha.transition
      /\ run.valuation \in tr.guard /\ Enters(ha, tr.target, p, q)
  BY <1>4, <1>5 DEF TransitionsFrom
<1>7. tr.target \in Location /\ tr.reset \in [Point -> Point] /\ t \in Nat
  BY <1>6, TransitionTypes DEF TypeInv
<1>8. run.valuation \in Point /\ p \in Point
  <2>1. run.valuation \in Point
    BY <1>4 DEF RunType
  <2> QED
    BY <1>7, <2>1
<1> DEFINE w == Visit(tr.target, p, q, t, v.earliest + v.steps, v.latest + v.steps + 1)
           s == Append(r, w)
<1>9. w \in VisitType /\ IsVisit(w) /\ Position(w, 0) = q
  <2>1. v.earliest + v.steps \in Int /\ v.latest + v.steps + 1 \in Int
    BY <1>3
  <2> QED
    BY <1>6, <1>7, <1>8, <2>1, VisitBegins
<1>10. /\ w.location = tr.target /\ w.entry = p /\ w.steps = 0 /\ w.transition = t
       /\ w.earliest = v.earliest + v.steps /\ w.latest = v.latest + v.steps + 1
  BY DEF Visit
<1>11. Follows(v, w)
  BY <1>4, <1>6, <1>10 DEF Follows
<1>12. /\ run' \in RunType /\ run'.location = tr.target /\ run'.valuation = q /\ run'.steps = 0
       /\ run'.jumps = n
  <2>1. /\ run.path \in Seq(Nat) /\ run.earliest \in Int /\ run.latest \in Int /\ run.steps \in Nat
    BY <1>4 DEF RunType
  <2>2. Append(run.path, t) \in Seq(Nat)
    BY <1>7, <2>1
  <2>3. run.earliest + run.steps * 1 \in Int /\ run.latest + (run.steps + 1) * 1 \in Int
    BY <2>1
  <2> QED
    BY <1>4, <1>5, <1>7, <2>2, <2>3 DEF RunType
<1> HIDE DEF w, p
<1>13. /\ s \in Seq(VisitType) /\ Len(s) = n + 1 /\ DOMAIN s = 1..n + 1 /\ s[n + 1] = w
       /\ \A k \in 1..n : s[k] = r[k]
  <2>1. /\ Append(r, w) \in Seq(VisitType) /\ Len(Append(r, w)) = Len(r) + 1
        /\ \A k \in DOMAIN r : Append(r, w)[k] = r[k]
        /\ Append(r, w)[Len(r) + 1] = w
    BY <1>2, <1>9, Appended
  <2> QED
    BY <1>2, <2>1 DEF n
<1> HIDE DEF s
<1>14. IsTrace(s)
  <2>1. n < jumpDepth + 1
    <3>1. run.jumps < jumpDepth
      BY DEF Jump
    <3> QED
      BY <1>4, <3>1, BoundsAssumption
  <2>2. Len(s) \in 1..jumpDepth + 1
    BY <1>2, <1>13, <2>1, BoundsAssumption
  <2>3. IsFirst(s[1])
    BY <1>1, <1>2, <1>13 DEF IsTrace
  <2>4. \A k \in DOMAIN s : IsVisit(s[k])
    <3>1. SUFFICES ASSUME NEW k \in 1..n + 1 PROVE IsVisit(s[k])
      BY <1>13
    <3>2. k \in 1..n \/ k = n + 1
      BY <1>2
    <3> QED
      BY <1>1, <1>2, <1>9, <1>13, <3>2 DEF IsTrace
  <2>5. ASSUME NEW k \in 2..Len(s)
        PROVE  Follows(s[k - 1], s[k])
    <3>1. CASE k = n + 1
      <4>1. k - 1 = n /\ n \in 1..n
        BY <1>2, <3>1
      <4> QED
        BY <1>11, <1>13, <3>1, <4>1 DEF v
    <3>2. CASE k # n + 1
      <4>1. k \in 2..n /\ k - 1 \in 1..n /\ k \in 1..n
        BY <1>2, <1>13, <3>2
      <4>2. Follows(r[k - 1], r[k])
        BY <1>1, <4>1 DEF IsTrace, n
      <4> QED
        BY <1>13, <4>1, <4>2
    <3> QED
      BY <3>1, <3>2
  <2> QED
    BY <1>13, <2>2, <2>3, <2>4, <2>5 DEF IsTrace
<1>15. EndsIn(s, run')
  BY <1>9, <1>10, <1>12, <1>13 DEF EndsIn
<1> QED
  BY <1>12, <1>14, <1>15 DEF IsEnd

(* Every step of the analysis is one before the verdict.                  *)
LEMMA AnalyzeSteps ==
  ASSUME Analyze
  PROVE  /\ verdict = "none" /\ verdict' \in {"none", "SAFE", "UNKNOWN"}
         /\ ha' = ha /\ strategy' = strategy
BY DEF Analyze, RefineBaseConflict, AnalyzingBase, ExpandBaseNode, ReportSafe, CollectNode,
       RefineConflict, StopAtJumpDepth, CollectChildren, FollowPath, Refining, OnPath,
       TransferNodes, HandBack, RefinementDone, RefineNext

LEMMA NextSteps ==
  ASSUME [Next]_<<cegarVars, run>>
  PROVE  ha' = ha /\ strategy' = strategy
BY AnalyzeSteps DEF Next, RunStarts, RunElapses, RunJumps, cegarVars

LEMMA RunNext ==
  ASSUME LevelsInv, RunInv, [Next]_<<cegarVars, run>>
  PROVE  RunInv'
<1>1. TypeInv /\ ha' = ha /\ strategy' = strategy
  BY NextSteps DEF LevelsInv
<1>2. CASE Analyze /\ UNCHANGED run
  <2>1. run = NoRun
    BY <1>2, AnalyzeSteps DEF RunInv
  <2> QED
    BY <1>2, <2>1 DEF RunInv, NoRun
<1>3. CASE RunStarts
  <2>1. verdict' = "SAFE" /\ Start(ha)
    BY <1>3 DEF RunStarts, cegarVars
  <2> QED
    BY <1>1, <2>1, RunBegins, RunPrimed
<1>4. CASE RunElapses
  <2>1. verdict' = "SAFE" /\ Elapse(ha, horizon, 1) /\ run # NoRun
    BY <1>4 DEF RunElapses, Elapse, cegarVars
  <2>2. IsEnd(run)
    BY <2>1, RunIs
  <2> QED
    BY <1>1, <2>1, <2>2, RunGoesOn, RunPrimed
<1>5. CASE RunJumps
  <2>1. verdict' = "SAFE" /\ Jump(ha, jumpDepth, 1) /\ run # NoRun
    BY <1>5 DEF RunJumps, Jump, cegarVars
  <2>2. IsEnd(run)
    BY <2>1, RunIs
  <2> QED
    BY <1>1, <2>1, <2>2, RunTakesJump, RunPrimed
<1>6. CASE UNCHANGED <<cegarVars, run>>
  <2>1. CASE run = NoRun
    BY <1>6, <2>1 DEF RunInv, NoRun
  <2>2. CASE run # NoRun
    <3>1. IsEnd(run') /\ verdict' = "SAFE"
      BY <1>6, <2>2, RunIs DEF cegarVars
    <3> QED
      BY <1>1, <3>1, RunPrimed
  <2> QED
    BY <2>1, <2>2
<1> QED
  BY <1>2, <1>3, <1>4, <1>5, <1>6 DEF Next

--------------------------------------------------------------------------
(* Two levels lose no run.                                                *)
LEMMA TwoLevelsInit ==
  ASSUME Init, HasTwoLevels
  PROVE  TwoLevelInv
<1>1. LevelsInv
  BY LevelsInit
<1>2. Top = 2 /\ 1 \in Levels /\ 2 \in Levels /\ TypeInv /\ nodes[1] \in Seq(NodeType) /\ IsTree(1, nodes[1])
  BY <1>1, TwoLevelsAre, LevelFacts
<1>3. /\ verdict = "none" /\ nodes[2] = << >>
      /\ nodes[1] = [k \in DOMAIN ha.initial |-> RootNode(1, ha.initial[k].loc)]
      /\ queue[1] = [k \in DOMAIN ha.initial |-> k]
  BY <1>2 DEF Init
<1>4. ASSUME NEW r, IsTrace(r)
      PROVE  IsQueued(1, r)
  <2>1. PICK k \in DOMAIN ha.initial : r[1].location = ha.initial[k].loc
    BY <1>4 DEF IsTrace, IsFirst
  <2> DEFINE l == ha.initial[k].loc
  <2>2. RootNode(1, l).location = l /\ IsRootNode(1, RootNode(1, l))
    BY <1>2, RootNodeIs DEF TypeInv
  <2>3. k \in DOMAIN nodes[1] /\ nodes[1][k] = RootNode(1, l) /\ k \in DOMAIN queue[1] /\ queue[1][k] = k
    BY <1>3
  <2>4. nodes[1][k].parent = NoNode /\ nodes[1][k].location = r[1].location
    BY <2>1, <2>2, <2>3 DEF IsRootNode
  <2>5. Covers(1, nodes[1], k, r)
    BY <1>2, <1>4, <2>3, <2>4, RootCovers
  <2> QED
    BY <2>3, <2>5 DEF IsQueued
<1>5. CoverInv
  BY <1>3, <1>4 DEF CoverInv
<1>6. KeptInv /\ ChildrenInv
  BY <1>2, <1>3 DEF KeptInv, ChildrenInv
<1> QED
  BY <1>5, <1>6 DEF TwoLevelInv

LEMMA KeptRefineBase ==
  ASSUME LevelsInv, HasTwoLevels, KeptInv, ChildrenInv, RefineBaseConflict
  PROVE  KeptInv' /\ ChildrenInv'
<1> DEFINE n == Head(queue[1])
           fp == TimeSuccessors(1, nodes[1][n].location, nodes[1][n].initialSet)
           l == nodes[1][RootOf(1, n)].location
<1>1. /\ level = 1 /\ verdict = "none" /\ queue[1] # << >> /\ fp \in Seq(SUBSET Point)
      /\ RefineNext(1, n, fp) /\ ha' = ha /\ strategy' = strategy
  BY RefineBaseStep
<1>2. 1 \in Levels /\ 2 \in Levels /\ 1 + 1 = 2 /\ n \in DOMAIN nodes[1]
  BY <1>1, TwoLevelsAre, CurrentFacts
<1>3. \E k \in DOMAIN ha.initial : ha.initial[k].loc = l
  BY <1>2, RootIsInitial
<1>4. nodes' = Refined(1, n, fp)
  BY <1>1 DEF RefineNext, Refined
<1> HIDE DEF fp
<1>5. Refined(1, n, fp)[1 + 1] = WithRoot(1 + 1, l)
  BY <1>1, <1>2, RefinedNodes
<1> HIDE DEF l, n
<1>6. nodes'[2] = WithRoot(2, l)
  BY <1>2, <1>4, <1>5
<1> QED
  BY <1>1, <1>3, <1>6, RootKeeps

LEMMA TwoLevelsNext ==
  ASSUME LevelsInv, HasTwoLevels, TwoLevelInv, [Next]_<<cegarVars, run>>
  PROVE  TwoLevelInv'
<1>1. CoverInv /\ KeptInv /\ ChildrenInv /\ ha' = ha /\ strategy' = strategy
  BY NextSteps DEF TwoLevelInv
<1>2. Top = 2 /\ 1 \in Levels /\ 2 \in Levels /\ 1 # 2 /\ level \in {1, 2} /\ TypeInv
  BY TwoLevelsAre
<1>3. CASE RefineBaseConflict
  BY <1>1, <1>3, CoverRefineBase, KeptRefineBase DEF TwoLevelInv
<1>4. CASE ExpandBaseNode
  <2>1. verdict' = verdict /\ nodes'[2] = nodes[2]
    BY <1>2, <1>4, ExpandBaseStep DEF BaseStepsTo
  <2> QED
    BY <1>1, <1>4, <2>1, CoverExpandBase, TreeKept DEF TwoLevelInv
<1>5. CASE ReportSafe
  <2>1. verdict' = "SAFE"
    BY <1>5 DEF ReportSafe
  <2> QED
    BY <1>1, <1>5, <2>1, CoverReportSafe, TreeKept DEF TwoLevelInv
<1>6. CASE CollectNode
  <2>1. verdict' = verdict /\ nodes' = nodes
    BY <1>6 DEF CollectNode
  <2> QED
    BY <1>1, <1>6, <2>1, CoverCollectNode, TreeKept DEF TwoLevelInv
<1>7. CASE RefineConflict
  <2>1. level = Top
    BY <1>2, <1>7 DEF RefineConflict, OnPath, Refining
  <2>2. verdict' = "UNKNOWN"
    BY <1>7, <2>1, StopUnknown
  <2> QED
    BY <1>1, <1>7, <2>2, CoverRefineConflict, TreeKept DEF TwoLevelInv
<1>8. CASE StopAtJumpDepth
  <2> DEFINE n == Head(queue[level])
             fp == currentFlowpipe
  <2>1. OnRefinement(n, fp) /\ StepsTo(n, fp, << >>)
    BY <1>8, StopStep
  <2> HIDE DEF n, fp
  <2>2. AreChildren(2, n, fp, {}, << >>)
    <3>1. << >> \in Seq(NodeType) /\ DOMAIN << >> = {}
      OBVIOUS
    <3> QED
      BY <3>1 DEF AreChildren
  <2> QED
    BY <1>1, <1>8, <2>1, <2>2, CoverStop, RefinementKeeps DEF TwoLevelInv
<1>9. CASE CollectChildren
  <2> DEFINE n == Head(queue[level])
             fp == currentFlowpipe
             cs == AllChildren(level, n, fp)
             T == TransitionsFrom(ha, current.location)
  <2>1. OnRefinement(n, fp) /\ StepsTo(n, fp, cs) /\ AreChildren(level, n, fp, T, cs)
    BY <1>9, CollectChildrenStep
  <2>2. T \subseteq DOMAIN ha.transition
    BY DEF TransitionsFrom
  <2> HIDE DEF n, fp, cs, T
  <2>3. AreChildren(2, n, fp, T, cs)
    BY <1>1, <2>1, GoodFlowpipe
  <2> QED
    BY <1>1, <1>9, <2>1, <2>2, <2>3, CoverCollectChildren, RefinementKeeps DEF TwoLevelInv
<1>10. CASE FollowPath
  <2> DEFINE n == Head(queue[level])
             fp == currentFlowpipe
             cs == PathChildren(n, fp)
             t == path[level][current.depth + 1].transition
  <2>1. /\ OnRefinement(n, fp) /\ StepsTo(n, fp, cs) /\ current.depth < Len(path[level])
        /\ Existing(n) = {} => AreChildren(level, n, fp, {t}, cs)
    BY <1>10, FollowPathStep
  <2>2. Existing(n) # {} => cs = << >>
    BY DEF PathChildren
  <2>3. level = 2 /\ n \in DOMAIN nodes[2] /\ current = nodes[2][n]
    BY <1>1, <2>1, GoodFlowpipe
  <2> HIDE DEF n, fp, cs
  <2>4. t \in DOMAIN ha.transition
    <3> DEFINE E == [lower : Int, upper : Int, transition : DOMAIN ha.transition]
               p == path[2]
               k == current.depth + 1
    <3>1. p \in Seq(E)
      BY <1>2 DEF TypeInv, TypeOK
    <3>2. current.depth \in Nat
      <4>1. nodes[2] \in Seq(NodeType)
        BY <1>2, LevelFacts
      <4> QED
        BY <2>3, <4>1, NodeTypes
    <3>3. k \in DOMAIN p
      BY <2>1, <2>3, <3>1, <3>2
    <3> HIDE DEF p, k, E
    <3>4. p[k] \in E
      BY <3>1, <3>3
    <3>5. p[k].transition \in DOMAIN ha.transition
      BY <3>4 DEF E
    <3> QED
      BY <2>3, <3>5 DEF p, k
  <2> HIDE DEF t
  <2>5. \E T : T \subseteq DOMAIN ha.transition /\ AreChildren(2, n, fp, T, cs)
    <3>1. CASE Existing(n) = {}
      <4>1. {t} \subseteq DOMAIN ha.transition /\ AreChildren(2, n, fp, {t}, cs)
        BY <2>1, <2>3, <2>4, <3>1
      <4> QED
        BY <4>1
    <3>2. CASE Existing(n) # {}
      <4>1. << >> \in Seq(NodeType) /\ DOMAIN << >> = {}
        OBVIOUS
      <4>2. AreChildren(2, n, fp, {}, << >>)
        BY <4>1 DEF AreChildren
      <4> QED
        BY <2>2, <3>2, <4>2
    <3> QED
      BY <3>1, <3>2
  <2> QED
    BY <1>1, <1>10, <2>1, <2>5, CoverFollowPath, RefinementKeeps DEF TwoLevelInv
<1>11. CASE TransferNodes
  <2>1. verdict' = verdict /\ nodes'[2] = nodes[2]
    <3>1. /\ level > 1 /\ UNCHANGED verdict
          /\ \A i \in Levels : i # level - 1 => nodes'[i] = nodes[i]
      BY <1>11, HandBackStep
    <3> QED
      BY <1>2, <3>1
  <2> QED
    BY <1>1, <1>11, <2>1, CoverHandBack, TreeKept DEF TwoLevelInv
<1>12. CASE UNCHANGED cegarVars
  <2>1. verdict' = verdict /\ nodes' = nodes
    BY <1>12 DEF cegarVars
  <2> QED
    BY <1>1, <1>12, <2>1, CoverUnchanged, TreeKept DEF TwoLevelInv
<1> QED
  BY <1>3, <1>4, <1>5, <1>6, <1>7, <1>8, <1>9, <1>10, <1>11, <1>12
  DEF Next, Analyze, RunStarts, RunElapses, RunJumps, cegarVars

LEMMA SoundInvariance == Spec => []SoundInv
<1>1. Init => SoundInv
  BY TwoLevelsInit DEF SoundInv, TwoLevelInv, RunInv, Init
<1>2. ASSUME LevelsInv, SoundInv, [Next]_<<cegarVars, run>>
      PROVE  SoundInv'
  <2>1. HasTwoLevels' => HasTwoLevels
    BY <1>2, NextSteps DEF HasTwoLevels, Top
  <2>2. HasTwoLevels' => TwoLevelInv'
    BY <1>2, <2>1, TwoLevelsNext DEF SoundInv, TwoLevelInv
  <2>3. RunInv'
    BY <1>2, RunNext DEF SoundInv
  <2> QED
    BY <2>2, <2>3 DEF SoundInv, TwoLevelInv
<1>3. LevelsInv /\ SoundInv /\ [Next]_<<cegarVars, run>> => SoundInv'
  BY <1>2
<1> QED
  BY <1>1, <1>3, LevelsInvariance, PTL DEF Spec

(* With two levels a verdict of safety means that no run within the       *)
(* bounds meets a bad state, whatever the representations, time steps and *)
(* aggregation settings of the levels: what a refinement hands back is on *)
(* every run that went through the conflict node it replaces.             *)
THEOREM TwoLevelsAreSound == Spec => [](HasTwoLevels => Soundness)
<1>1. ASSUME SoundInv, HasTwoLevels
      PROVE  Soundness
  <2>1. SUFFICES ASSUME run # NoRun, run.valuation \in BadStates(ha, run.location)
                 PROVE  FALSE
    BY DEF Soundness, RunIsBad
  <2>2. IsEnd(run) /\ verdict = "SAFE" /\ run \in RunType
    BY <1>1, <2>1, RunIs DEF SoundInv
  <2>3. PICK r : IsTrace(r) /\ EndsIn(r, run)
    BY <2>2 DEF IsEnd
  <2>4. IsSafe(r[Len(r)])
    BY <1>1, <2>2, <2>3 DEF SoundInv, CoverInv
  <2> DEFINE v == r[Len(r)]
  <2>5. /\ run.location = v.location /\ run.steps = v.steps
        /\ run.valuation = Position(v, v.steps)
    BY <2>3 DEF EndsIn
  <2>6. run.steps \in Nat
    BY <2>2 DEF RunType
  <2> HIDE DEF v
  <2>7. v.steps \in 0..v.steps
    BY <2>5, <2>6
  <2>8. IsSafe(v)
    BY <2>4 DEF v
  <2> QED
    BY <2>1, <2>5, <2>7, <2>8 DEF IsSafe
<1> QED
  BY <1>1, SoundInvariance, PTL

--------------------------------------------------------------------------
(* The path of a node, jump by jump.                                      *)
LEMMA ChainGrows ==
  ASSUME NEW p \in Seq(JumpType), NEW l, IsChain(p, l), NEW j \in JumpType,
         ha.transition[j.transition].source = EndsAt(p, l)
  PROVE  IsChain(Append(p, j), l) /\ EndsAt(Append(p, j), l) = ha.transition[j.transition].target
<1> DEFINE q == Append(p, j)
<1>1. /\ Len(q) = Len(p) + 1 /\ DOMAIN q = DOMAIN p \cup {Len(p) + 1}
      /\ (\A d \in DOMAIN p : q[d] = p[d]) /\ q[Len(p) + 1] = j
      /\ Len(p) \in Nat /\ DOMAIN p = 1..Len(p)
  <2>1. Len(p) \in Nat /\ DOMAIN p = 1..Len(p)
    OBVIOUS
  <2> QED
    BY <2>1, Appended
<1> HIDE DEF q
<1>2. \A d \in 0..Len(p) : LocationAfter(q, l, d) = LocationAfter(p, l, d)
  <2> TAKE d \in 0..Len(p)
  <2>1. CASE d = 0
    BY <2>1 DEF LocationAfter
  <2>2. CASE d # 0
    <3>1. q[d] = p[d]
      BY <1>1, <2>2
    <3> QED
      BY <2>2, <3>1 DEF LocationAfter
  <2> QED
    BY <2>1, <2>2
<1>3. ASSUME NEW d \in DOMAIN q
      PROVE  ha.transition[q[d].transition].source = LocationAfter(q, l, d - 1)
  <2>1. CASE d \in DOMAIN p
    <3>1. d - 1 \in 0..Len(p) /\ q[d] = p[d]
      BY <1>1, <2>1
    <3> QED
      BY <1>2, <2>1, <3>1 DEF IsChain
  <2>2. CASE d = Len(p) + 1
    <3>1. d - 1 = Len(p) /\ Len(p) \in 0..Len(p) /\ q[d] = j
      BY <1>1, <2>2
    <3> QED
      BY <1>2, <3>1 DEF EndsAt
  <2> QED
    BY <1>1, <2>1, <2>2
<1>4. EndsAt(q, l) = ha.transition[j.transition].target
  <2>1. Len(q) # 0 /\ q[Len(q)] = j
    BY <1>1
  <2> QED
    BY <2>1 DEF EndsAt, LocationAfter
<1> QED
  BY <1>3, <1>4 DEF IsChain, q

LEMMA PathIsChain ==
  ASSUME NEW i, NEW ns \in Seq(NodeType), IsTree(i, ns), HasEdges(ns),
         NEW n \in DOMAIN ns, NEW l, StartsIn(i, ns, n, l)
  PROVE  IsChain(PathTo(i, ns, n), l) /\ EndsAt(PathTo(i, ns, n), l) = ns[n].location
<1> DEFINE Good(k) == /\ IsChain(PathTo(i, ns, k), l)
                      /\ EndsAt(PathTo(i, ns, k), l) = ns[k].location
           T == {k \in DOMAIN ns : StartsIn(i, ns, k, l) /\ ~Good(k)}
<1>1. IsForest(ns)
  BY TreeIsForest
<1>2. T \subseteq Nat
  BY NodeTypes
<1> SUFFICES ASSUME T # {}
             PROVE  FALSE
  OBVIOUS
<1>3. PICK k \in T : \A m \in T : k <= m
  BY <1>2, LeastNumber
<1>4. k \in DOMAIN ns /\ StartsIn(i, ns, k, l)
  BY <1>3
<1>5. CASE ns[k].parent = NoNode
  <2>1. PathTo(i, ns, k) = << >> /\ Above(i, ns, k) = {k}
    BY <1>1, <1>4, <1>5, PathUnfolds, AboveUnfolds
  <2>2. ns[k].location = l
    BY <1>4, <2>1 DEF StartsIn
  <2>3. IsChain(<< >>, l) /\ EndsAt(<< >>, l) = l
    BY DEF IsChain, EndsAt, LocationAfter
  <2>4. Good(k)
    BY <2>1, <2>2, <2>3
  <2> QED
    BY <1>3, <2>4
<1>6. CASE ns[k].parent # NoNode
  <2> DEFINE m == ns[k].parent
             j == LastJump(ns, k)
  <2>1. m \in DOMAIN ns /\ m < k /\ m \in Nat /\ k \in Nat
    BY <1>1, <1>4, <1>6, ParentIsEarlier, NodeTypes
  <2>2. PathTo(i, ns, k) = Append(PathTo(i, ns, m), j)
    BY <1>1, <1>4, <1>6, PathUnfolds
  <2>3. StartsIn(i, ns, m, l)
    <3>1. Above(i, ns, k) = {k} \cup Above(i, ns, m)
      BY <1>1, <1>4, <1>6, AboveUnfolds
    <3> QED
      BY <1>4, <1>6, <3>1 DEF StartsIn
  <2>4. Good(m)
    <3>1. m \notin T
      BY <1>3, <2>1
    <3> HIDE DEF Good, m
    <3> QED
      BY <2>1, <2>3, <3>1
  <2>5. j \in JumpType /\ j.transition = ns[k].transition
    BY <1>4, NodeTypes DEF LastJump, JumpType
  <2>6. /\ ha.transition[j.transition].source = ns[m].location
        /\ ns[k].location = ha.transition[j.transition].target
    <3>1. ~IsRootNode(i, ns[k])
      BY <1>6 DEF IsRootNode
    <3>2. IsChildNode(ns, k)
      BY <1>4, <3>1 DEF IsTree
    <3> QED
      BY <1>4, <1>6, <2>5, <3>2 DEF IsChildNode, HasEdges
  <2>7. PathTo(i, ns, m) \in Seq(JumpType)
    BY <1>1, <2>1, PathType
  <2> HIDE DEF j
  <2>8. Good(k)
    BY <2>2, <2>4, <2>5, <2>6, <2>7, ChainGrows
  <2> QED
    BY <1>3, <2>8
<1> QED
  BY <1>5, <1>6

LEMMA PathStarts ==
  ASSUME NEW i, IsForest(nodes[i]), NEW n \in DOMAIN nodes[i]
  PROVE  StartsIn(i, nodes[i], n, nodes[i][RootOf(i, n)].location)
<1>1. PICK a \in DOMAIN nodes[i] : a \in Above(i, nodes[i], n) /\ nodes[i][a].parent = NoNode
  BY RootAbove
<1>2. StartsIn(i, nodes[i], n, nodes[i][a].location)
  BY <1>1 DEF StartsIn
<1>3. nodes[i][RootOf(i, n)].location = nodes[i][a].location
  BY <1>2, RootOfNode
<1> QED
  BY <1>2, <1>3

--------------------------------------------------------------------------
(* Paths that are chains, and trees whose edges are transitions.          *)
FitAll(p, l, ns, q) == \A j \in DOMAIN q : Fits(p, l, ns[q[j]])

IsOnPath(p, l, node) == Fits(p, l, node) /\ node.depth <= Len(p)

LeadsTo(p, l, target, ns, q) ==
  IsChain(p, l) /\ EndsAt(p, l) = target /\ FitAll(p, l, ns, q)

PathIn(p, target, ns, q, cs, c, isLast) ==
  \E l \in Location :
    /\ LeadsTo(p, l, target, ns, q)
    /\ isLast => FitAll(p, l, ns, cs)
    /\ ~isLast => IsOnPath(p, l, ns[c])

LEMMA PathInvIs ==
  ASSUME LevelsInv
  PROVE  PathInv <=>
           /\ \A i \in Levels : HasEdges(nodes[i])
           /\ \A i \in 2..level :
                PathIn(path[i], nodes[i - 1][conflict[i - 1]].location, nodes[i], queue[i],
                       collected, conflict[i], i = level)
<1>1. level \in Nat
  BY DEF LevelsInv, TypeInv, TypeOK, Levels
<1>2. ASSUME NEW i \in 2..level, NEW l \in Location
      PROVE  IsFollowed(i, l) <=>
               /\ LeadsTo(path[i], l, nodes[i - 1][conflict[i - 1]].location, nodes[i], queue[i])
               /\ i = level => FitAll(path[i], l, nodes[i], collected)
               /\ i # level => IsOnPath(path[i], l, nodes[i][conflict[i]])
  <2>1. i < level <=> i # level
    BY <1>1
  <2> QED
    BY <2>1 DEF IsFollowed, LeadsTo, FitAll, IsOnPath
<1>3. \A i \in 2..level :
        (\E l \in Location : IsFollowed(i, l)) <=>
          PathIn(path[i], nodes[i - 1][conflict[i - 1]].location, nodes[i], queue[i],
                 collected, conflict[i], i = level)
  BY <1>2 DEF PathIn
<1> QED
  BY <1>3 DEF PathInv

LEMMA PathInvPrimed ==
  ASSUME LevelsInv', ha' = ha, strategy' = strategy,
         \A i \in Levels : HasEdges(nodes'[i]),
         \A i \in 2..level' :
           PathIn(path'[i], nodes'[i - 1][conflict'[i - 1]].location, nodes'[i], queue'[i],
                  collected', conflict'[i], i = level')
  PROVE  PathInv'
<1>1. Levels' = Levels
  BY DEF Levels, Top
<1>2. \A i \in Levels : HasEdges(nodes[i])'
  BY DEF HasEdges
<1>3. \A p, l : /\ IsChain(p, l)' <=> IsChain(p, l)
                /\ EndsAt(p, l)' = EndsAt(p, l)
                /\ \A node : Fits(p, l, node)' <=> Fits(p, l, node)
  BY DEF IsChain, EndsAt, LocationAfter, Fits
<1>4. level' \in Nat
  BY DEF LevelsInv, TypeInv, TypeOK, Levels
<1>5. ASSUME NEW i \in 2..level'
      PROVE  \E l \in Location : IsFollowed(i, l)'
  <2>1. PICK l \in Location :
          /\ LeadsTo(path'[i], l, nodes'[i - 1][conflict'[i - 1]].location, nodes'[i], queue'[i])
          /\ i = level' => FitAll(path'[i], l, nodes'[i], collected')
          /\ i # level' => IsOnPath(path'[i], l, nodes'[i][conflict'[i]])
    BY DEF PathIn
  <2>2. i < level' <=> i # level'
    BY <1>4
  <2>3. /\ IsChain(path[i], l)'
        /\ EndsAt(path[i], l)' = nodes'[i - 1][conflict'[i - 1]].location
        /\ \A j \in DOMAIN queue'[i] : Fits(path[i], l, nodes[i][queue[i][j]])'
    BY <1>3, <2>1 DEF LeadsTo, FitAll
  <2>4. i = level' => \A j \in DOMAIN collected' : Fits(path[i], l, nodes[i][collected[j]])'
    BY <1>3, <2>1 DEF FitAll
  <2>5. i < level' => Fits(path[i], l, nodes[i][conflict[i]])'
                      /\ nodes'[i][conflict'[i]].depth <= Len(path'[i])
    BY <1>3, <2>1, <2>2 DEF IsOnPath
  <2>6. IsFollowed(i, l)'
    BY <2>3, <2>4, <2>5 DEF IsFollowed
  <2> QED
    BY <2>6
<1> QED
  BY <1>1, <1>2, <1>5 DEF PathInv

(* Nodes that are the same but for their flowpipes.                       *)
LEMMA FitsSame ==
  ASSUME NEW p, NEW l, NEW m, NEW n, SameNode(m, n)
  PROVE  Fits(p, l, m) <=> Fits(p, l, n)
BY DEF Fits, SameNode

LEMMA FitAllExtends ==
  ASSUME NEW p, NEW l, NEW ns, NEW ms, Extends(ns, ms), NEW q \in Seq(DOMAIN ns), FitAll(p, l, ns, q)
  PROVE  FitAll(p, l, ms, q)
<1>1. ASSUME NEW j \in DOMAIN q
      PROVE  Fits(p, l, ms[q[j]])
  <2>1. q[j] \in DOMAIN ns
    OBVIOUS
  <2>2. SameNode(ns[q[j]], ms[q[j]]) /\ Fits(p, l, ns[q[j]])
    BY <2>1 DEF Extends, FitAll
  <2> QED
    BY <2>2, FitsSame
<1> QED
  BY <1>1 DEF FitAll

LEMMA EdgesExtend ==
  ASSUME NEW i, NEW ns, NEW ms, IsForest(ns), Extends(ns, ms), HasEdges(ns),
         \A m \in DOMAIN ms : m \notin DOMAIN ns /\ ms[m].parent # NoNode =>
           ha.transition[ms[m].transition].source = ms[ms[m].parent].location
  PROVE  HasEdges(ms)
<1>1. ASSUME NEW m \in DOMAIN ms, ms[m].parent # NoNode, m \in DOMAIN ns
      PROVE  ha.transition[ms[m].transition].source = ms[ms[m].parent].location
  <2>1. /\ ms[m].parent = ns[m].parent /\ ms[m].transition = ns[m].transition
    BY <1>1 DEF Extends, SameNode
  <2>2. ns[m].parent \in DOMAIN ns
    BY <1>1, <2>1, ParentIsEarlier
  <2>3. ms[ns[m].parent].location = ns[ns[m].parent].location
    BY <2>2 DEF Extends, SameNode
  <2> QED
    BY <1>1, <2>1, <2>3 DEF HasEdges
<1> QED
  BY <1>1 DEF HasEdges

(* The queue loses its head.                                              *)
LEMMA TailFits ==
  ASSUME NEW S, NEW q \in Seq(S), q # << >>, NEW p, NEW l, NEW ns, FitAll(p, l, ns, q)
  PROVE  FitAll(p, l, ns, Tail(q)) /\ Fits(p, l, ns[Head(q)])
<1>1. /\ Head(q) = q[1] /\ 1 \in DOMAIN q
      /\ \A j \in DOMAIN Tail(q) : \E k \in DOMAIN q : Tail(q)[j] = q[k]
  BY Dequeued
<1> QED
  BY <1>1 DEF FitAll

LEMMA MoreFit ==
  ASSUME NEW S, NEW q \in Seq(S), NEW s \in Seq(S), NEW p, NEW l, NEW ns,
         FitAll(p, l, ns, q), FitAll(p, l, ns, s)
  PROVE  FitAll(p, l, ns, q \o s)
<1>1. ASSUME NEW j \in DOMAIN (q \o s)
      PROVE  \/ \E k \in DOMAIN q : (q \o s)[j] = q[k]
             \/ \E k \in DOMAIN s : (q \o s)[j] = s[k]
  BY Concatenated
<1> QED
  BY <1>1 DEF FitAll

LEMMA SameLevelKeepsPaths ==
  ASSUME LevelsInv, LevelsInv', PathInv, UNCHANGED <<ha, strategy, level, path, conflict>>,
         HasEdges(nodes'[level]),
         \A i \in Levels : i # level => nodes'[i] = nodes[i] /\ queue'[i] = queue[i],
         level > 1 =>
           \A l \in Location :
             /\ IsChain(path[level], l)
             /\ EndsAt(path[level], l) = nodes[level - 1][conflict[level - 1]].location
             /\ FitAll(path[level], l, nodes[level], queue[level])
             /\ FitAll(path[level], l, nodes[level], collected)
             => /\ FitAll(path[level], l, nodes'[level], queue'[level])
                /\ FitAll(path[level], l, nodes'[level], collected')
  PROVE  PathInv'
<1>1. level \in Nat /\ level \in Levels /\ level <= Top /\ Top \in Nat
  <2>1. Top \in Nat
    BY LevelTypes DEF LevelsInv
  <2> QED
    BY <2>1 DEF LevelsInv, TypeInv, TypeOK, Levels
<1>2. /\ \A i \in Levels : HasEdges(nodes[i])
      /\ \A i \in 2..level :
           PathIn(path[i], nodes[i - 1][conflict[i - 1]].location, nodes[i], queue[i],
                  collected, conflict[i], i = level)
  BY PathInvIs
<1>3. \A i \in Levels : HasEdges(nodes'[i])
  BY <1>2
<1>4. ASSUME NEW i \in 2..level'
      PROVE  PathIn(path'[i], nodes'[i - 1][conflict'[i - 1]].location, nodes'[i], queue'[i],
                    collected', conflict'[i], i = level')
  <2>1. i \in 2..level /\ i \in Levels /\ i - 1 \in Levels /\ i - 1 # level
    BY <1>1 DEF Levels
  <2>2. nodes'[i - 1] = nodes[i - 1] /\ path' = path /\ conflict' = conflict /\ level' = level
    BY <2>1
  <2>3. PathIn(path[i], nodes[i - 1][conflict[i - 1]].location, nodes[i], queue[i],
               collected, conflict[i], i = level)
    BY <1>2, <2>1
  <2>4. CASE i # level
    <3>1. nodes'[i] = nodes[i] /\ queue'[i] = queue[i]
      BY <2>1, <2>4
    <3> QED
      BY <2>2, <2>3, <2>4, <3>1 DEF PathIn
  <2>5. CASE i = level
    <3>1. PICK l \in Location :
            /\ LeadsTo(path[i], l, nodes[i - 1][conflict[i - 1]].location, nodes[i], queue[i])
            /\ FitAll(path[i], l, nodes[i], collected)
      BY <2>3, <2>5 DEF PathIn
    <3>2. level > 1
      BY <2>1, <2>5
    <3>3. FitAll(path[i], l, nodes'[i], queue'[i]) /\ FitAll(path[i], l, nodes'[i], collected')
      BY <2>5, <3>1, <3>2 DEF LeadsTo
    <3> QED
      BY <2>2, <2>5, <3>1, <3>3 DEF PathIn, LeadsTo
  <2> QED
    BY <2>4, <2>5
<1> QED
  BY <1>3, <1>4, PathInvPrimed

--------------------------------------------------------------------------
(* Steps within a level.                                                  *)
JumpsFrom(ns, n, cs) ==
  \A k \in DOMAIN cs : /\ IsNewChild(ns, n, cs[k])
                       /\ ha.transition[cs[k].transition].source = ns[n].location

LEMMA ExpansionEdges ==
  ASSUME NEW i, NEW ns, IsForest(ns), HasEdges(ns), NEW n \in DOMAIN ns, NEW fp, NEW cs, NEW ms,
         IsExpansion(i, ns, n, fp, cs, ms), JumpsFrom(ns, n, cs)
  PROVE  HasEdges(ms)
<1>1. Extends(ns, ms)
  BY DEF IsExpansion
<1>2. ASSUME NEW m \in DOMAIN ms, m \notin DOMAIN ns
      PROVE  ha.transition[ms[m].transition].source = ms[ms[m].parent].location
  <2>1. PICK k \in DOMAIN cs : ms[m] = cs[k]
    BY <1>2 DEF IsExpansion
  <2>2. ms[m].parent = n /\ ha.transition[ms[m].transition].source = ns[n].location
    BY <2>1 DEF IsNewChild, JumpsFrom
  <2>3. ms[n].location = ns[n].location
    BY <1>1 DEF Extends, SameNode
  <2> QED
    BY <2>2, <2>3
<1> QED
  BY <1>1, <1>2, EdgesExtend

(* Where a node on the path is.                                           *)
LEMMA NodeOnPath ==
  ASSUME NEW i, NEW ns \in Seq(NodeType), IsTree(i, ns), NEW n \in DOMAIN ns,
         NEW p, Len(p) \in Nat, DOMAIN p = 1..Len(p), NEW l,
         Fits(p, l, ns[n]), ns[n].depth <= Len(p)
  PROVE  ns[n].location = LocationAfter(p, l, ns[n].depth)
<1>1. ns[n].depth \in Nat
  BY NodeTypes
<1>2. CASE ns[n].depth = 0
  BY <1>2 DEF Fits, LocationAfter
<1>3. CASE ns[n].depth # 0
  <2>1. ns[n].depth \in DOMAIN p
    BY <1>1, <1>3
  <2>2. ns[n].transition = p[ns[n].depth].transition
    BY <2>1 DEF Fits
  <2>3. ~IsRootNode(i, ns[n])
    BY <1>3 DEF IsRootNode
  <2>4. ns[n].location = ha.transition[ns[n].transition].target
    BY <2>3 DEF IsTree, IsChildNode
  <2> QED
    BY <1>3, <2>2, <2>4 DEF LocationAfter
<1> QED
  BY <1>2, <1>3

(* The path of a level as a sequence, its queue and what it collects.     *)
LEMMA PathFacts ==
  ASSUME LevelsInv, NEW i \in Levels
  PROVE  /\ path[i] \in Seq(JumpType) /\ Len(path[i]) \in Nat /\ DOMAIN path[i] = 1..Len(path[i])
         /\ collected \in Seq(DOMAIN nodes[level])
         /\ \A k \in DOMAIN path[i] : path[i][k].transition \in DOMAIN ha.transition
<1> DEFINE E == [lower : Int, upper : Int, transition : DOMAIN ha.transition]
<1>1. path[i] \in Seq(E) /\ collected \in Seq(DOMAIN nodes[level]) /\ TypeInv
  BY DEF LevelsInv, TypeInv, TypeOK
<1>2. DOMAIN ha.transition \subseteq Nat
  BY <1>1, TransitionTypes DEF TypeInv
<1>3. E \subseteq JumpType
  BY <1>2 DEF JumpType
<1>4. \A e \in E : e.transition \in DOMAIN ha.transition
  OBVIOUS
<1> HIDE DEF E
<1>5. path[i] \in Seq(JumpType)
  BY <1>1, <1>3, SeqLarger
<1>6. \A k \in DOMAIN path[i] : path[i][k] \in E
  BY <1>1
<1> QED
  BY <1>1, <1>4, <1>5, <1>6

NewFit(p, l, n, ms, new) ==
  IsChain(p, l) /\ Fits(p, l, nodes[level][n]) => FitAll(p, l, ms, new)

LEMMA StepKeepsPaths ==
  ASSUME LevelsInv, PathInv, NEW n, NEW fp, OnRefinement(n, fp), NEW cs, StepsTo(n, fp, cs),
         JumpsFrom(nodes[level], n, cs),
         NEW S, NEW new \in Seq(S), queue'[level] = Tail(queue[level]) \o new,
         NEW more \in Seq(S), collected' = collected \o more,
         \A l : NewFit(path[level], l, n, nodes'[level], new),
         \A l : NewFit(path[level], l, n, nodes'[level], more)
  PROVE  PathInv'
<1> DEFINE ns == nodes[level]
           ms == nodes'[level]
           p == path[level]
<1>1. /\ queue[level] # << >> /\ n = Head(queue[level]) /\ level > 1
  BY DEF OnRefinement
<1>2. /\ level \in Levels /\ n \in DOMAIN ns /\ current = ns[n] /\ IsForest(ns)
      /\ Tail(queue[level]) \in Seq(DOMAIN ns) /\ queue[level] \in Seq(DOMAIN ns)
      /\ collected \in Seq(DOMAIN ns)
  BY <1>1, CurrentFacts, LevelFacts, PathFacts
<1>3. LevelsInv' /\ UNCHANGED <<ha, strategy, level, path, conflict>>
      /\ IsExpansion(level, ns, n, fp, cs, ms)
      /\ \A i \in Levels : i # level => nodes'[i] = nodes[i] /\ queue'[i] = queue[i]
  BY DEF StepsTo
<1>4. HasEdges(ns) /\ Extends(ns, ms)
  BY <1>2, <1>3 DEF PathInv, IsExpansion
<1> HIDE DEF ns, ms, p
<1>5. HasEdges(ms)
  <2>1. JumpsFrom(ns, n, cs)
    BY DEF ns
  <2> QED
    BY <1>2, <1>3, <1>4, <2>1, ExpansionEdges
<1>6. ASSUME NEW l, IsChain(p, l), FitAll(p, l, ns, queue[level]), FitAll(p, l, ns, collected)
      PROVE  FitAll(p, l, ms, queue'[level]) /\ FitAll(p, l, ms, collected')
  <2>1. FitAll(p, l, ns, Tail(queue[level])) /\ Fits(p, l, ns[n])
    BY <1>1, <1>2, <1>6, TailFits
  <2>2. FitAll(p, l, ms, Tail(queue[level])) /\ FitAll(p, l, ms, collected)
    BY <1>2, <1>4, <1>6, <2>1, FitAllExtends
  <2>3. FitAll(p, l, ms, new) /\ FitAll(p, l, ms, more)
    BY <1>6, <2>1 DEF NewFit, p, ns, ms
  <2> DEFINE X == DOMAIN ns \cup S
  <2>4. /\ Tail(queue[level]) \in Seq(X) /\ new \in Seq(X)
        /\ collected \in Seq(X) /\ more \in Seq(X)
    <3>1. DOMAIN ns \subseteq X /\ S \subseteq X
      OBVIOUS
    <3> HIDE DEF X
    <3> QED
      BY <1>2, <3>1, SeqLarger
  <2> HIDE DEF X
  <2> QED
    BY <2>2, <2>3, <2>4, MoreFit
<1> QED
  BY <1>3, <1>5, <1>6, SameLevelKeepsPaths DEF ns, ms, p

LEMMA StopKeepsPaths ==
  ASSUME LevelsInv, PathInv, StopAtJumpDepth
  PROVE  PathInv'
<1> DEFINE n == Head(queue[level])
           fp == currentFlowpipe
<1>1. /\ OnRefinement(n, fp) /\ StepsTo(n, fp, << >>) /\ collected' = collected
      /\ queue'[level] = Tail(queue[level]) \o << >>
  BY StopStep
<1> HIDE DEF n, fp
<1>2. level \in Levels
  BY DEF LevelsInv, TypeInv, TypeOK
<1>3. collected' = collected \o << >>
  BY <1>1, <1>2, PathFacts
<1>4. << >> \in Seq({}) /\ DOMAIN << >> = {}
  OBVIOUS
<1>5. \A l : NewFit(path[level], l, n, nodes'[level], << >>)
  BY <1>4 DEF NewFit, FitAll
<1>6. JumpsFrom(nodes[level], n, << >>)
  BY <1>4 DEF JumpsFrom
<1> QED
  BY <1>1, <1>3, <1>4, <1>5, <1>6, StepKeepsPaths

LEMMA CollectChildrenKeepsPaths ==
  ASSUME LevelsInv, PathInv, CollectChildren
  PROVE  PathInv'
<1> DEFINE n == Head(queue[level])
           fp == currentFlowpipe
           cs == AllChildren(level, n, fp)
           ns == nodes[level]
           ms == nodes'[level]
           p == path[level]
           more == [k \in DOMAIN cs |-> NewIndex(k)]
<1>1. /\ OnRefinement(n, fp) /\ current.depth = Len(p) /\ StepsTo(n, fp, cs)
      /\ collected' = collected \o more
      /\ queue'[level] = Tail(queue[level]) \o << >>
      /\ AreChildren(level, n, fp, TransitionsFrom(ha, current.location), cs)
  BY CollectChildrenStep
<1> HIDE DEF cs
<1>2. /\ level \in Levels /\ n \in DOMAIN ns /\ current = ns[n] /\ ns \in Seq(NodeType)
      /\ IsTree(level, ns) /\ Len(ns) \in Nat /\ current.depth \in Nat
  BY <1>1, CurrentFacts DEF OnRefinement
<1>3. /\ IsExpansion(level, ns, n, fp, cs, ms) /\ cs \in Seq(NodeType)
  BY <1>1 DEF StepsTo
<1>4. Len(p) \in Nat /\ DOMAIN p = 1..Len(p)
  BY <1>2, PathFacts
<1>5. JumpsFrom(nodes[level], n, cs)
  BY <1>1, <1>2 DEF AreChildren, TransitionsFrom, JumpsFrom
<1>6. more \in Seq(1..Len(ns) + Len(cs)) /\ DOMAIN more = DOMAIN cs
  BY <1>2, <1>3, NewIndices DEF NewIndex
<1> HIDE DEF n, fp, ns, ms, p
<1>7. ASSUME NEW l, IsChain(p, l), Fits(p, l, ns[n])
      PROVE  FitAll(p, l, ms, more)
  <2>1. current.location = EndsAt(p, l)
    BY <1>1, <1>2, <1>4, <1>7, NodeOnPath DEF EndsAt
  <2>2. ASSUME NEW k \in DOMAIN more
        PROVE  Fits(p, l, ms[more[k]])
    <3>1. k \in DOMAIN cs /\ more[k] = Len(ns) + k
      BY <1>6 DEF NewIndex, ns
    <3>2. ms[more[k]] = cs[k]
      BY <1>3, <3>1 DEF IsExpansion
    <3>3. cs[k].depth = Len(p) + 1 /\ ha.transition[cs[k].transition].source = EndsAt(p, l)
      BY <1>1, <1>2, <1>5, <2>1, <3>1 DEF IsNewChild, JumpsFrom, ns
    <3>4. cs[k].depth # 0 /\ cs[k].depth \notin DOMAIN p /\ cs[k].depth <= Len(p) + 1
      BY <1>4, <3>3
    <3> QED
      BY <3>2, <3>3, <3>4 DEF Fits
  <2> QED
    BY <2>2 DEF FitAll
<1>8. << >> \in Seq(1..Len(ns) + Len(cs)) /\ DOMAIN << >> = {}
  OBVIOUS
<1>9. /\ \A l : NewFit(path[level], l, n, nodes'[level], << >>)
      /\ \A l : NewFit(path[level], l, n, nodes'[level], more)
  BY <1>7, <1>8 DEF NewFit, FitAll, p, ns, ms
<1> HIDE DEF more
<1> QED
  BY <1>1, <1>5, <1>6, <1>8, <1>9, StepKeepsPaths

(* Along the path the children continue the jumps.                        *)
LEMMA FollowPathJumps ==
  ASSUME LevelsInv, PathInv, FollowPath, NEW n, n = Head(queue[level]),
         NEW fp, fp = currentFlowpipe, NEW cs, cs = PathChildren(n, fp)
  PROVE  JumpsFrom(nodes[level], n, cs)
<1> DEFINE ns == nodes[level]
           p == path[level]
           d == current.depth
<1>1. /\ OnRefinement(n, fp) /\ d < Len(p)
      /\ Existing(n) = {} => AreChildren(level, n, fp, {p[d + 1].transition}, cs)
  BY FollowPathStep
<1>2. /\ level \in Levels /\ level > 1 /\ n \in DOMAIN ns /\ current = ns[n] /\ ns \in Seq(NodeType)
      /\ IsTree(level, ns) /\ d \in Nat /\ queue[level] # << >> /\ queue[level] \in Seq(DOMAIN ns)
  BY <1>1, CurrentFacts, LevelFacts DEF OnRefinement
<1>3. Len(p) \in Nat /\ DOMAIN p = 1..Len(p)
  BY <1>2, PathFacts
<1>4. \A k \in DOMAIN cs : IsNewChild(ns, n, cs[k]) /\ cs[k].transition = p[d + 1].transition
  <2>1. CASE Existing(n) = {}
    BY <1>1, <2>1 DEF AreChildren
  <2>2. CASE Existing(n) # {}
    BY <2>2 DEF PathChildren
  <2> QED
    BY <2>1, <2>2
<1>5. d + 1 \in DOMAIN p /\ (d + 1) - 1 = d
  <2> HIDE DEF d, p
  <2> QED
    BY <1>1, <1>2, <1>3
<1>6. PICK l : IsChain(p, l) /\ Fits(p, l, ns[n])
  <2>1. level \in 2..level
    BY <1>2, LevelFacts
  <2>2. PICK l : IsChain(p, l) /\ FitAll(p, l, ns, queue[level])
    BY <2>1 DEF PathInv, IsFollowed, FitAll
  <2>3. Fits(p, l, ns[n])
    BY <1>2, <2>2, TailFits
  <2> QED
    BY <2>2, <2>3
<1> HIDE DEF p, d, ns
<1>7. ns[n].depth <= Len(p) /\ ns[n].depth = d
  BY <1>1, <1>2, <1>3 DEF d
<1>8. current.location = LocationAfter(p, l, d)
  BY <1>2, <1>3, <1>6, <1>7, NodeOnPath
<1>9. ha.transition[p[d + 1].transition].source = LocationAfter(p, l, d)
  BY <1>5, <1>6 DEF IsChain
<1> QED
  BY <1>2, <1>4, <1>8, <1>9 DEF JumpsFrom, ns

LEMMA FollowPathKeepsPaths ==
  ASSUME LevelsInv, PathInv, FollowPath
  PROVE  PathInv'
<1> DEFINE n == Head(queue[level])
           fp == currentFlowpipe
           cs == PathChildren(n, fp)
           ns == nodes[level]
           ms == nodes'[level]
           p == path[level]
           d == current.depth
           new == Ascending(Followed(n, fp))
<1>1. /\ OnRefinement(n, fp) /\ d < Len(p) /\ StepsTo(n, fp, cs)
      /\ collected' = collected
      /\ queue'[level] = Tail(queue[level]) \o new
      /\ new \in Seq(Followed(n, fp))
      /\ Existing(n) = {} => AreChildren(level, n, fp, {p[d + 1].transition}, cs)
  BY FollowPathStep
<1>2. /\ level \in Levels /\ level > 1 /\ n \in DOMAIN ns /\ current = ns[n] /\ ns \in Seq(NodeType)
      /\ IsTree(level, ns) /\ IsForest(ns) /\ Len(ns) \in Nat /\ d \in Nat
      /\ n = Head(queue[level]) /\ queue[level] # << >> /\ queue[level] \in Seq(DOMAIN ns)
  BY <1>1, CurrentFacts, LevelFacts DEF OnRefinement
<1>3. IsExpansion(level, ns, n, fp, cs, ms) /\ cs \in Seq(NodeType)
  BY <1>1 DEF StepsTo
<1>4. Len(p) \in Nat /\ DOMAIN p = 1..Len(p) /\ collected \in Seq(DOMAIN ns)
  BY <1>2, PathFacts
<1>5. cs # << >> => Existing(n) = {}
  BY DEF PathChildren
<1> HIDE DEF cs
<1>6. \A k \in DOMAIN cs : /\ IsNewChild(ns, n, cs[k])
                           /\ cs[k].transition = p[d + 1].transition
  <2>1. CASE Existing(n) = {}
    BY <1>1, <2>1 DEF AreChildren
  <2>2. CASE Existing(n) # {}
    BY <1>5, <2>2
  <2> QED
    BY <2>1, <2>2
<1>7. d + 1 \in DOMAIN p /\ (d + 1) - 1 = d /\ d + 1 # Len(p) + 1 /\ d + 1 <= Len(p) + 1 /\ d + 1 # 0
  <2> HIDE DEF d, p
  <2> QED
    BY <1>1, <1>2, <1>4
<1>8. ASSUME NEW c \in Followed(n, fp)
      PROVE  ms[c].depth = d + 1 /\ ms[c].transition = p[d + 1].transition
  <2>1. c \in Candidates(n, fp)
    BY DEF Followed
  <2>2. CASE c \in Existing(n)
    <3>1. c \in DOMAIN ns /\ ns[c].parent = n /\ ns[c].transition = p[ns[c].depth].transition
      BY <2>2 DEF Existing, R!Children, MatchesPathTransition
    <3>2. n # NoNode
      BY <1>2, NodeTypes
    <3>3. ns[c].depth = d + 1
      BY <1>2, <3>1, <3>2, ParentIsEarlier
    <3>4. SameNode(ns[c], ms[c])
      BY <1>3, <3>1 DEF IsExpansion, Extends
    <3> QED
      BY <3>1, <3>3, <3>4 DEF SameNode
  <2>3. CASE c \notin Existing(n)
    <3>1. PICK k \in DOMAIN cs : c = Len(ns) + k
      BY <2>1, <2>3 DEF Candidates, NewIndex, cs
    <3>2. ms[c] = cs[k]
      BY <1>3, <3>1 DEF IsExpansion
    <3> QED
      BY <1>2, <1>6, <3>2 DEF IsNewChild
  <2> QED
    BY <2>2, <2>3
<1> HIDE DEF new
<1>9. \A l : FitAll(p, l, ms, new)
  <2>1. \A j \in DOMAIN new : new[j] \in Followed(n, fp)
    BY <1>1
  <2> HIDE DEF p, d, ms
  <2>2. ASSUME NEW l, NEW j \in DOMAIN new
        PROVE  Fits(p, l, ms[new[j]])
    <3>1. ms[new[j]].depth = d + 1 /\ ms[new[j]].transition = p[d + 1].transition
      BY <1>8, <2>1
    <3> QED
      BY <1>7, <3>1 DEF Fits
  <2> QED
    BY <2>2 DEF FitAll
<1>10. JumpsFrom(nodes[level], n, cs)
  BY FollowPathJumps DEF cs
<1>11. << >> \in Seq(Followed(n, fp)) /\ DOMAIN << >> = {}
  OBVIOUS
<1>12. collected' = collected \o << >>
  BY <1>1, <1>4
<1>13. /\ \A l : NewFit(path[level], l, n, nodes'[level], new)
       /\ \A l : NewFit(path[level], l, n, nodes'[level], << >>)
  BY <1>9, <1>11 DEF NewFit, FitAll
<1> HIDE DEF n, fp
<1> QED
  BY <1>1, <1>10, <1>11, <1>12, <1>13, StepKeepsPaths

LEMMA CollectNodeKeepsPaths ==
  ASSUME LevelsInv, PathInv, CollectNode
  PROVE  PathInv'
<1> DEFINE n == Head(queue[level])
           ns == nodes[level]
           p == path[level]
<1>1. /\ LevelsInv' /\ level > 1 /\ queue[level] # << >>
      /\ UNCHANGED <<ha, strategy, level, nodes, path, conflict>>
      /\ collected' = Append(collected, n) /\ queue'[level] = Tail(queue[level])
      /\ \A i \in Levels : i # level => queue'[i] = queue[i]
  BY CollectNodeStep
<1>2. level \in Levels /\ queue[level] \in Seq(DOMAIN ns) /\ n \in DOMAIN ns
  BY <1>1, CurrentFacts, LevelFacts
<1>3. collected \in Seq(DOMAIN ns) /\ HasEdges(ns)
  BY <1>2, PathFacts DEF PathInv
<1> HIDE DEF ns, p
<1>4. ASSUME NEW l, FitAll(p, l, ns, queue[level]), FitAll(p, l, ns, collected)
      PROVE  FitAll(p, l, ns, queue'[level]) /\ FitAll(p, l, ns, collected')
  <2>1. FitAll(p, l, ns, Tail(queue[level])) /\ Fits(p, l, ns[n])
    BY <1>1, <1>2, <1>4, TailFits
  <2> HIDE DEF n
  <2>2. /\ DOMAIN Append(collected, n) = DOMAIN collected \cup {Len(collected) + 1}
        /\ \A i \in DOMAIN collected : Append(collected, n)[i] = collected[i]
        /\ Append(collected, n)[Len(collected) + 1] = n
    BY <1>2, <1>3, Appended
  <2>3. FitAll(p, l, ns, Append(collected, n))
    BY <1>4, <2>1, <2>2 DEF FitAll
  <2> QED
    BY <1>1, <2>1, <2>3
<1> QED
  BY <1>1, <1>3, <1>4, SameLevelKeepsPaths DEF ns, p

LEMMA NothingDoneKeepsPaths ==
  ASSUME LevelsInv, LevelsInv', PathInv,
         UNCHANGED <<ha, strategy, level, nodes, queue, path, conflict, collected>>
  PROVE  PathInv'
<1>1. HasEdges(nodes'[level])
  BY DEF PathInv, LevelsInv, TypeInv, TypeOK
<1> QED
  BY <1>1, SameLevelKeepsPaths

LEMMA ExpandBaseKeepsPaths ==
  ASSUME LevelsInv, PathInv, ExpandBaseNode
  PROVE  PathInv'
<1> DEFINE n == Head(queue[1])
           fp == BaseFlowpipe(n)
           cs == BaseChildrenOf(n, fp)
<1>1. BaseStepsTo(n, fp, cs)
  BY ExpandBaseStep
<1>2. /\ level = 1 /\ queue[1] # << >> /\ LevelsInv'
      /\ UNCHANGED <<ha, strategy, level, path, conflict>>
      /\ IsExpansion(1, nodes[1], n, fp, cs, nodes'[1])
      /\ \A i \in Levels : i # 1 => nodes'[i] = nodes[i] /\ queue'[i] = queue[i]
  BY <1>1 DEF BaseStepsTo
<1>3. 1 \in Levels /\ TypeInv /\ n \in DOMAIN nodes[1] /\ IsForest(nodes[1]) /\ fp \in Seq(SUBSET Point)
  BY <1>2, CurrentFacts DEF BaseFlowpipe, current
<1>4. JumpsFrom(nodes[1], n, cs)
  <2>1. CASE nodes[1][n].depth = jumpDepth
    BY <2>1 DEF BaseChildrenOf, JumpsFrom
  <2>2. CASE nodes[1][n].depth # jumpDepth
    <3> HIDE DEF n, fp
    <3>1. AreChildren(1, n, fp, TransitionsFrom(ha, nodes[1][n].location), cs)
      BY <1>3, <2>2, BaseChildrenAre DEF BaseChildrenOf
    <3> QED
      BY <3>1 DEF AreChildren, TransitionsFrom, JumpsFrom
  <2> QED
    BY <2>1, <2>2
<1> HIDE DEF n, fp, cs
<1>5. HasEdges(nodes[1])
  BY <1>3 DEF PathInv
<1>6. HasEdges(nodes'[1])
  BY <1>2, <1>3, <1>4, <1>5, ExpansionEdges
<1> QED
  BY <1>2, <1>6, SameLevelKeepsPaths

--------------------------------------------------------------------------
(* Steps from a level to the next one and back.                           *)
RefinesTo(i, n, fp, l) ==
  /\ level' = i + 1 /\ collected' = << >>
  /\ conflict'[i] = n /\ \A j \in Levels : j # i => conflict'[j] = conflict[j]
  /\ path'[i + 1] = PathTo(i, nodes[i], n) /\ \A j \in Levels : j # i + 1 => path'[j] = path[j]
  /\ nodes'[i] = Stored(nodes[i], n, fp) /\ nodes'[i + 1] = WithRoot(i + 1, l)
  /\ \A j \in Levels : j # i /\ j # i + 1 => nodes'[j] = nodes[j] /\ queue'[j] = queue[j]
  /\ queue'[i] = Tail(queue[i])
  /\ \E r \in DOMAIN WithRoot(i + 1, l) :
       /\ WithRoot(i + 1, l)[r].parent = NoNode /\ WithRoot(i + 1, l)[r].location = l
       /\ queue'[i + 1] = Append(<< >>, r)

LEMMA RefineFacts ==
  ASSUME LevelsInv, level + 1 \in Levels, queue[level] # << >>, NEW fp \in Seq(SUBSET Point),
         RefineNext(level, Head(queue[level]), fp),
         NEW n, n = Head(queue[level]), NEW l, l = nodes[level][RootOf(level, n)].location
  PROVE  /\ RefinesTo(level, n, fp, l)
         /\ \E k \in DOMAIN ha.initial : ha.initial[k].loc = l
<1> DEFINE i == level
           target == WithRoot(i + 1, l)
           r == CHOOSE r \in R(strategy[i + 1].over)!Roots(target) : target[r].location = l
<1>1. /\ conflict' = [conflict EXCEPT ![i] = n]
      /\ path' = [path EXCEPT ![i + 1] = PathTo(i, nodes[i], n)]
      /\ nodes' = Refined(i, n, fp)
      /\ queue' = [queue EXCEPT ![i] = Tail(@), ![i + 1] = Append(@, r)]
      /\ level' = i + 1 /\ collected' = << >>
  BY DEF RefineNext, Refined, PathTo
<1>2. /\ i \in Levels /\ DOMAIN queue = Levels /\ DOMAIN path = Levels /\ DOMAIN conflict = Levels
      /\ i \in Nat /\ i # i + 1 /\ i + 1 > i /\ TypeInv
  <2>1. i \in Levels /\ TypeInv
    BY DEF LevelsInv, TypeInv, TypeOK
  <2>2. i \in Nat
    BY <2>1, LevelFacts
  <2> QED
    BY <2>1, <2>2 DEF TypeInv
<1>3. n \in DOMAIN nodes[i]
  BY <1>2, LevelFacts, Dequeued
<1>4. \E k \in DOMAIN ha.initial : ha.initial[k].loc = l
  BY <1>2, <1>3, RootIsInitial
<1>5. /\ nodes'[i] = Stored(nodes[i], n, fp) /\ nodes'[i + 1] = target
      /\ \A j \in Levels : j # i /\ j # i + 1 => nodes'[j] = nodes[j]
  <2> DEFINE ns == Refined(i, n, fp)
  <2>1. ns[i] = Stored(nodes[i], n, fp)
    BY <1>2, <1>3, RefinedNodes
  <2>2. ns[i + 1] = target
    BY <1>2, <1>3, RefinedNodes
  <2>3. \A j \in Levels : j # i /\ j # i + 1 => ns[j] = nodes[j]
    BY <1>2, <1>3, RefinedNodes
  <2>4. nodes' = ns
    BY <1>1
  <2> HIDE DEF ns, target
  <2> QED
    BY <2>1, <2>2, <2>3, <2>4
<1>6. \E m \in DOMAIN target : target[m].parent = NoNode /\ target[m].location = l
  <2>1. IsTree(i + 1, nodes[i + 1]) /\ i + 1 \in Levels
    BY <1>2, LevelFacts
  <2> HIDE DEF target, r, i
  <2>2. \E m \in DOMAIN WithRoot(i + 1, l) :
          WithRoot(i + 1, l)[m].parent = NoNode /\ WithRoot(i + 1, l)[m].location = l
    BY <1>2, <1>4, <2>1, WithRootIs
  <2> QED
    BY <2>2 DEF target
<1> HIDE DEF target
<1>7. r \in DOMAIN target /\ target[r].parent = NoNode /\ target[r].location = l
  BY <1>6 DEF R!Roots, R!Root, NoNode
<1>8. queue[i + 1] = << >>
  BY <1>2 DEF LevelsInv, ControlInv
<1> HIDE DEF r
<1>9. /\ queue'[i] = Tail(queue[i]) /\ queue'[i + 1] = Append(<< >>, r)
      /\ \A j \in Levels : j # i /\ j # i + 1 => queue'[j] = queue[j]
      /\ conflict'[i] = n /\ (\A j \in Levels : j # i => conflict'[j] = conflict[j])
      /\ path'[i + 1] = PathTo(i, nodes[i], n) /\ \A j \in Levels : j # i + 1 => path'[j] = path[j]
  BY <1>1, <1>2, <1>8
<1> QED
  BY <1>1, <1>4, <1>5, <1>7, <1>9 DEF RefinesTo, target

(* The location a level starts in fits any path from there.               *)
LEMMA RootFits ==
  ASSUME NEW i, NEW ns \in Seq(NodeType), IsTree(i, ns), NEW r \in DOMAIN ns,
         ns[r].parent = NoNode, NEW p, Len(p) \in Nat, DOMAIN p = 1..Len(p)
  PROVE  Fits(p, ns[r].location, ns[r])
<1>1. ~IsChildNode(ns, r)
  BY NodeTypes DEF IsChildNode, NoNode
<1>2. ns[r].depth = 0
  BY <1>1 DEF IsTree, IsRootNode
<1> QED
  BY <1>2 DEF Fits

LEMMA RefineNextKeepsPaths ==
  ASSUME LevelsInv, LevelsInv', PathInv, UNCHANGED <<ha, strategy>>,
         level + 1 \in Levels, queue[level] # << >>,
         NEW fp \in Seq(SUBSET Point), RefineNext(level, Head(queue[level]), fp),
         level > 1 => current.depth <= Len(path[level])
  PROVE  PathInv'
<1> DEFINE i == level
           n == Head(queue[level])
           l == nodes[i][RootOf(i, n)].location
           ns == nodes[i]
           ms == Stored(ns, n, fp)
           ts == WithRoot(i + 1, l)
           q == PathTo(i, ns, n)
<1>1. RefinesTo(i, n, fp, l) /\ \E k \in DOMAIN ha.initial : ha.initial[k].loc = l
  BY RefineFacts
<1>2. /\ i \in Levels /\ i \in Nat /\ n \in DOMAIN ns /\ ns \in Seq(NodeType) /\ IsTree(i, ns)
      /\ IsForest(ns) /\ queue[i] \in Seq(DOMAIN ns) /\ current = ns[n]
      /\ Tail(queue[i]) \in Seq(DOMAIN ns) /\ collected \in Seq(DOMAIN ns)
      /\ nodes[i + 1] \in Seq(NodeType) /\ IsTree(i + 1, nodes[i + 1]) /\ IsForest(nodes[i + 1])
      /\ TypeInv
  BY CurrentFacts, LevelFacts, PathFacts
<1>3. /\ \A j \in Levels : HasEdges(nodes[j])
      /\ \A j \in 2..level :
           PathIn(path[j], nodes[j - 1][conflict[j - 1]].location, nodes[j], queue[j],
                  collected, conflict[j], j = level)
  BY PathInvIs
<1>4. l \in Location /\ StartsIn(i, ns, n, l)
  <2>1. RootOf(i, n) \in DOMAIN ns
    BY <1>2, RootOfNode
  <2>2. l \in Location
    BY <1>2, <2>1, NodeTypes
  <2> QED
    BY <1>2, <2>2, PathStarts
<1>5. IsChain(q, l) /\ EndsAt(q, l) = ns[n].location
  BY <1>2, <1>3, <1>4, PathIsChain
<1>6. Len(q) \in Nat /\ DOMAIN q = 1..Len(q)
  <2>1. q \in Seq(JumpType)
    BY <1>2, PathType
  <2> HIDE DEF q
  <2> QED
    BY <2>1
<1>7. Extends(ns, ms) /\ DOMAIN ms = DOMAIN ns
  BY <1>2, FlowpipeStored DEF Stored
<1>8. /\ ts \in Seq(NodeType) /\ IsTree(i + 1, ts) /\ Extends(nodes[i + 1], ts)
      /\ \A m \in DOMAIN ts : m \notin DOMAIN nodes[i + 1] => ts[m].parent = NoNode
  <2> HIDE DEF l
  <2>1. /\ ts \in Seq(NodeType) /\ IsTree(i + 1, ts) /\ Extends(nodes[i + 1], ts)
        /\ \A m \in DOMAIN ts : m \notin DOMAIN nodes[i + 1] => ts[m] = RootNode(i + 1, l)
    BY <1>1, <1>2, WithRootIs
  <2>2. RootNode(i + 1, l).parent = NoNode
    <3>1. IsRootNode(i + 1, RootNode(i + 1, l))
      BY <1>1, <1>2, RootNodeIs DEF TypeInv
    <3> QED
      BY <3>1 DEF IsRootNode
  <2> QED
    BY <2>1, <2>2
<1> HIDE DEF ms, ts, q, l, n
<1>9. HasEdges(ms) /\ HasEdges(ts)
  <2>1. HasEdges(ns) /\ HasEdges(nodes[i + 1])
    BY <1>2, <1>3
  <2>2. HasEdges(ms)
    BY <1>2, <1>7, <2>1, EdgesExtend
  <2>3. HasEdges(ts)
    BY <1>2, <1>8, <2>1, EdgesExtend
  <2> QED
    BY <2>2, <2>3
<1>10. /\ level' = i + 1 /\ collected' = << >>
       /\ conflict'[i] = n /\ \A j \in Levels : j # i => conflict'[j] = conflict[j]
       /\ path'[i + 1] = q /\ \A j \in Levels : j # i + 1 => path'[j] = path[j]
       /\ nodes'[i] = ms /\ nodes'[i + 1] = ts
       /\ \A j \in Levels : j # i /\ j # i + 1 => nodes'[j] = nodes[j] /\ queue'[j] = queue[j]
       /\ queue'[i] = Tail(queue[i])
  BY <1>1 DEF RefinesTo, ms, ts, q
<1>11. PICK r \in DOMAIN ts : /\ ts[r].parent = NoNode /\ ts[r].location = l
                              /\ queue'[i + 1] = Append(<< >>, r)
  BY <1>1 DEF RefinesTo, ts
<1>12. \A j \in Levels : HasEdges(nodes'[j])
  <2> TAKE j \in Levels
  <2>1. j = i \/ j = i + 1 \/ nodes'[j] = nodes[j]
    BY <1>10
  <2> QED
    BY <1>3, <1>9, <1>10, <2>1
<1> DEFINE Goal(j) == PathIn(path'[j], nodes'[j - 1][conflict'[j - 1]].location, nodes'[j], queue'[j],
                             collected', conflict'[j], j = level')
<1>13. Goal(i + 1)
  <2>1. (i + 1) - 1 = i /\ nodes'[i][conflict'[i]].location = ns[n].location
    <3>1. SameNode(ns[n], ms[n])
      BY <1>2, <1>7 DEF Extends
    <3> QED
      BY <1>2, <1>10, <3>1 DEF SameNode
  <2>2. FitAll(q, l, ts, Append(<< >>, r)) /\ FitAll(q, l, ts, << >>)
    <3>1. Fits(q, l, ts[r])
      BY <1>6, <1>8, <1>11, RootFits
    <3>2. Append(<< >>, r) = <<r>> /\ DOMAIN <<r>> = {1} /\ DOMAIN << >> = {}
      OBVIOUS
    <3> QED
      BY <3>1, <3>2 DEF FitAll
  <2>3. LeadsTo(q, l, ns[n].location, ts, Append(<< >>, r))
    BY <1>5, <2>2 DEF LeadsTo
  <2>4. PathIn(q, ns[n].location, ts, Append(<< >>, r), << >>, conflict'[i + 1], TRUE)
    BY <1>4, <2>2, <2>3 DEF PathIn
  <2> QED
    BY <1>10, <1>11, <2>1, <2>4
<1>14. ASSUME NEW j \in 2..i
       PROVE  Goal(j)
  <2>1. /\ j \in Levels /\ j - 1 \in Levels /\ j - 1 # i /\ j - 1 # i + 1 /\ j # i + 1
    BY <1>2, LevelTypes
  <2>2. /\ nodes'[j - 1][conflict'[j - 1]].location = nodes[j - 1][conflict[j - 1]].location
        /\ path'[j] = path[j] /\ (j = level') = FALSE
    BY <1>10, <2>1
  <2>3. PathIn(path[j], nodes[j - 1][conflict[j - 1]].location, nodes[j], queue[j],
               collected, conflict[j], j = level)
    BY <1>3
  <2>4. CASE j # i
    <3>1. nodes'[j] = nodes[j] /\ queue'[j] = queue[j] /\ conflict'[j] = conflict[j]
      BY <1>10, <2>1, <2>4
    <3> QED
      BY <2>2, <2>3, <2>4, <3>1 DEF PathIn
  <2>5. CASE j = i
    <3> DEFINE p == path[j]
               end == nodes[j - 1][conflict[j - 1]].location
    <3>1. PICK k \in Location : LeadsTo(p, k, end, ns, queue[j])
      BY <2>3, <2>5 DEF PathIn
    <3>2. level > 1
      BY <2>5
    <3> HIDE DEF p, end
    <3>3. FitAll(p, k, ns, Tail(queue[j])) /\ Fits(p, k, ns[n])
      BY <1>2, <2>5, <3>1, TailFits DEF LeadsTo, n
    <3>4. FitAll(p, k, ms, Tail(queue[j]))
      BY <1>2, <1>7, <2>5, <3>3, FitAllExtends
    <3>5. SameNode(ns[n], ms[n])
      BY <1>2, <1>7 DEF Extends
    <3>6. Fits(p, k, ms[n])
      BY <3>3, <3>5, FitsSame
    <3>7. ms[n].depth <= Len(p)
      BY <1>2, <2>5, <3>2, <3>5 DEF SameNode, p
    <3>8. LeadsTo(p, k, end, ms, Tail(queue[j])) /\ IsOnPath(p, k, ms[n])
      BY <3>1, <3>4, <3>6, <3>7 DEF LeadsTo, IsOnPath
    <3>9. nodes'[j] = ms /\ queue'[j] = Tail(queue[j]) /\ conflict'[j] = n
      BY <1>10, <2>5
    <3> QED
      BY <2>2, <3>8, <3>9 DEF PathIn, p, end
  <2> QED
    BY <2>4, <2>5
<1>15. ASSUME NEW j \in 2..level'
       PROVE  Goal(j)
  <2>1. j \in 2..i \/ j = i + 1
    BY <1>2, <1>10
  <2> HIDE DEF Goal
  <2> QED
    BY <1>13, <1>14, <2>1
<1> QED
  BY <1>12, <1>15, PathInvPrimed

LEMMA RefineBaseKeepsPaths ==
  ASSUME LevelsInv, PathInv, RefineBaseConflict
  PROVE  PathInv'
<1> DEFINE n == Head(queue[1])
           fp == TimeSuccessors(1, nodes[1][n].location, nodes[1][n].initialSet)
<1>1. /\ level = 1 /\ queue[1] # << >> /\ fp \in Seq(SUBSET Point)
      /\ RefineNext(1, n, fp) /\ UNCHANGED <<ha, strategy>> /\ LevelsInv'
  BY RefineBaseStep
<1>2. level + 1 \in Levels
  <2>1. Top \in Nat /\ Top > 1 /\ Levels = 1..Top
    BY LevelTypes DEF LevelsInv
  <2> QED
    BY <1>1, <2>1
<1> HIDE DEF fp
<1> QED
  BY <1>1, <1>2, RefineNextKeepsPaths

LEMMA RefineConflictKeepsPaths ==
  ASSUME LevelsInv, PathInv, RefineConflict
  PROVE  PathInv'
<1> DEFINE n == Head(queue[level])
           fp == currentFlowpipe
           ns == nodes[level]
           ms == Stored(ns, n, fp)
           p == path[level]
<1>1. /\ level > 1 /\ queue[level] # << >> /\ UNCHANGED <<ha, strategy>>
      /\ current.depth <= Len(path[level])
      /\ level < Top => RefineNext(level, n, fp)
      /\ ~(level < Top) => /\ nodes' = [nodes EXCEPT ![level] = ms]
                           /\ queue' = [queue EXCEPT ![level] = Tail(queue[level])]
                           /\ UNCHANGED <<level, path, conflict, collected>>
  BY DEF RefineConflict, OnPath, Refining, Stored
<1>2. /\ level \in Levels /\ level \in 1..Top /\ Levels = 1..Top /\ Top \in Nat /\ LevelsInv'
      /\ fp \in Seq(SUBSET Point) /\ n \in DOMAIN ns /\ ns \in Seq(NodeType) /\ IsForest(ns)
      /\ queue[level] \in Seq(DOMAIN ns) /\ collected \in Seq(DOMAIN ns)
      /\ Tail(queue[level]) \in Seq(DOMAIN ns)
      /\ DOMAIN nodes = Levels /\ DOMAIN queue = Levels
  BY <1>1, CurrentFacts, LevelTypes, LevelFacts, PathFacts, RefineConflictStep DEF TypeInv
<1>3. CASE level < Top
  <2>1. level + 1 \in Levels
    BY <1>2, <1>3
  <2> HIDE DEF fp
  <2> QED
    BY <1>1, <1>2, <1>3, <2>1, RefineNextKeepsPaths
<1>4. CASE ~(level < Top)
  <2>1. Extends(ns, ms) /\ DOMAIN ms = DOMAIN ns
    BY <1>2, FlowpipeStored DEF Stored
  <2>2. HasEdges(ns)
    BY <1>2 DEF PathInv
  <2> HIDE DEF ms, ns, p, n, fp
  <2>3. HasEdges(ms)
    BY <1>2, <2>1, <2>2, EdgesExtend
  <2>4. /\ nodes'[level] = ms /\ queue'[level] = Tail(queue[level])
        /\ \A i \in Levels : i # level => nodes'[i] = nodes[i] /\ queue'[i] = queue[i]
    BY <1>1, <1>2, <1>4
  <2>5. ASSUME NEW l, FitAll(p, l, ns, queue[level]), FitAll(p, l, ns, collected)
        PROVE  FitAll(p, l, ms, Tail(queue[level])) /\ FitAll(p, l, ms, collected)
    <3>1. FitAll(p, l, ns, Tail(queue[level]))
      BY <1>1, <1>2, <2>5, TailFits
    <3> QED
      BY <1>2, <2>1, <2>5, <3>1, FitAllExtends
  <2> QED
    BY <1>1, <1>2, <1>4, <2>3, <2>4, <2>5, SameLevelKeepsPaths DEF ns, p
<1> QED
  BY <1>3, <1>4

LEMMA HandBackKeepsPaths ==
  ASSUME LevelsInv, PathInv, TransferNodes
  PROVE  PathInv'
<1> DEFINE b == level - 1
           c == conflict[b]
           ns == nodes[b]
           cs == Transferred
           ms == ns \o cs
<1>1. /\ LevelsInv' /\ level > 1 /\ level' = b /\ UNCHANGED <<ha, strategy, path, conflict>>
      /\ collected' = << >>
      /\ nodes'[b] = ms /\ queue'[b] = queue[b] \o QueuedAgain
      /\ \A i \in Levels : i # b => nodes'[i] = nodes[i] /\ queue'[i] = queue[i]
  BY HandBackStep
<1>2. /\ b \in Levels /\ c \in DOMAIN ns /\ collected \in Seq(DOMAIN nodes[level])
      /\ cs \in Seq(NodeType) /\ DOMAIN cs = DOMAIN collected
      /\ \A k \in DOMAIN collected : IsTransferOf(b, c, nodes[level][collected[k]], cs[k])
  BY <1>1, TransferredAre
<1>3. /\ level \in Levels /\ level \in Nat /\ b \in Nat /\ ns \in Seq(NodeType) /\ IsTree(b, ns)
      /\ IsForest(ns) /\ queue[b] \in Seq(DOMAIN ns) /\ level \in 2..level
      /\ Len(ns) \in Nat /\ DOMAIN ns = 1..Len(ns) /\ ns[c].depth \in Nat
  BY <1>1, <1>2, LevelFacts, NodeTypes
<1>4. /\ \A j \in Levels : HasEdges(nodes[j])
      /\ \A j \in 2..level :
           PathIn(path[j], nodes[j - 1][conflict[j - 1]].location, nodes[j], queue[j],
                  collected, conflict[j], j = level)
  BY PathInvIs
<1>5. \A k \in DOMAIN cs : ha.transition[cs[k].transition].source = ns[c].location
  <2> DEFINE p == path[level]
  <2>1. PICK l \in Location :
          EndsAt(p, l) = ns[c].location /\ FitAll(p, l, nodes[level], collected)
    BY <1>3, <1>4 DEF PathIn, LeadsTo
  <2>2. \A k \in DOMAIN collected : nodes[level][collected[k]].depth = Len(p) + 1
    BY DEF LevelsInv, ControlInv
  <2> HIDE DEF p
  <2> TAKE k \in DOMAIN cs
  <2>3. ha.transition[nodes[level][collected[k]].transition].source = EndsAt(p, l)
    BY <1>2, <2>1, <2>2 DEF FitAll, Fits
  <2> QED
    BY <1>2, <2>1, <2>3 DEF IsTransferOf
<1>6. \A k \in DOMAIN cs : IsNewChild(ns, c, cs[k])
  BY <1>2 DEF IsTransferOf
<1>7. Extends(ns, ms)
  BY <1>2, <1>3, <1>6, ChildrenAdded
<1>8. /\ \A k \in DOMAIN cs : ms[Len(ns) + k] = cs[k]
      /\ \A m \in DOMAIN ms : m \in DOMAIN ns \/ \E k \in DOMAIN cs : m = Len(ns) + k
  <2>1. ns \in Seq(NodeType) /\ cs \in Seq(NodeType)
    BY <1>2, <1>3
  <2> HIDE DEF ns, cs
  <2>2. /\ \A k \in DOMAIN cs : (ns \o cs)[Len(ns) + k] = cs[k]
        /\ \A m \in DOMAIN (ns \o cs) : m \in DOMAIN ns \/ \E k \in DOMAIN cs : m = Len(ns) + k
    BY <2>1, Concatenated
  <2> QED
    BY <2>2
<1> HIDE DEF ms, cs, ns, c
<1>9. HasEdges(ms)
  <2>1. HasEdges(ns)
    BY <1>2, <1>4 DEF ns
  <2>2. ASSUME NEW m \in DOMAIN ms, m \notin DOMAIN ns
        PROVE  ha.transition[ms[m].transition].source = ms[ms[m].parent].location
    <3>1. PICK k \in DOMAIN cs : ms[m] = cs[k]
      BY <1>8, <2>2
    <3>2. ms[m].parent = c /\ ha.transition[ms[m].transition].source = ns[c].location
      BY <1>5, <1>6, <3>1 DEF IsNewChild
    <3>3. ms[c].location = ns[c].location
      BY <1>2, <1>7 DEF Extends, SameNode
    <3> QED
      BY <3>2, <3>3
  <2> QED
    BY <1>3, <1>7, <2>1, <2>2, EdgesExtend
<1>10. \A j \in Levels : HasEdges(nodes'[j])
  <2> TAKE j \in Levels
  <2>1. j = b \/ nodes'[j] = nodes[j]
    BY <1>1
  <2> QED
    BY <1>1, <1>4, <1>9, <2>1
<1> DEFINE Goal(j) == PathIn(path'[j], nodes'[j - 1][conflict'[j - 1]].location, nodes'[j], queue'[j],
                             collected', conflict'[j], j = level')
<1>11. ASSUME NEW j \in 2..b
       PROVE  Goal(j)
  <2>1. j \in Levels /\ j - 1 \in Levels /\ j - 1 # b /\ j \in 2..level /\ j # level
    BY <1>2, <1>3, LevelTypes DEF LevelsInv
  <2>2. /\ nodes'[j - 1][conflict'[j - 1]].location = nodes[j - 1][conflict[j - 1]].location
        /\ path'[j] = path[j] /\ conflict'[j] = conflict[j] /\ (j = level) = FALSE
    BY <1>1, <2>1
  <2> DEFINE p == path[j]
             end == nodes[j - 1][conflict[j - 1]].location
  <2>3. PICK l \in Location :
          LeadsTo(p, l, end, nodes[j], queue[j]) /\ IsOnPath(p, l, nodes[j][conflict[j]])
    <3>1. PathIn(p, end, nodes[j], queue[j], collected, conflict[j], j = level)
      BY <1>4, <2>1
    <3> HIDE DEF p, end
    <3> QED
      BY <2>1, <3>1 DEF PathIn
  <2>4. Len(p) \in Nat /\ DOMAIN p = 1..Len(p)
    BY <2>1, PathFacts
  <2>5. CASE j # b
    <3>1. nodes'[j] = nodes[j] /\ queue'[j] = queue[j] /\ (j = level') = FALSE
      BY <1>1, <2>1, <2>5
    <3> HIDE DEF p, end
    <3>2. PathIn(p, end, nodes[j], queue[j], collected', conflict[j], FALSE)
      BY <2>3 DEF PathIn
    <3> QED
      BY <2>2, <3>1, <3>2 DEF p, end
  <2>6. CASE j = b
    <3>1. nodes[j] = ns /\ conflict[j] = c /\ level - 1 # 1
      BY <2>6 DEF ns, c
    <3> HIDE DEF p, end, b
    <3>2. FitAll(p, l, ns, queue[j]) /\ Fits(p, l, ns[c]) /\ ns[c].depth <= Len(p)
      BY <2>3, <3>1 DEF LeadsTo, IsOnPath
    <3>3. FitAll(p, l, ms, queue[j])
      BY <1>3, <1>7, <2>6, <3>2, FitAllExtends
    <3>4. ns[c].location = LocationAfter(p, l, ns[c].depth)
      BY <1>2, <1>3, <2>4, <3>2, NodeOnPath
    <3>5. ASSUME NEW k \in HandedBack
          PROVE  Fits(p, l, ms[Len(ns) + k])
      <4>1. cs[k].depth > Len(p) \/ MatchesPathTransition(p, cs[k])
        BY <2>6, <3>1 DEF HandedBack, cs, p, b
      <4>2. k \in DOMAIN cs
        BY DEF HandedBack, cs
      <4>3. /\ cs[k].depth = ns[c].depth + 1
            /\ ha.transition[cs[k].transition].source = ns[c].location
        BY <1>5, <1>6, <4>2 DEF IsNewChild
      <4>4. cs[k].depth \in DOMAIN p => cs[k].transition = p[cs[k].depth].transition
        BY <1>3, <2>4, <4>1, <4>3 DEF MatchesPathTransition
      <4>5. cs[k].depth <= Len(p) + 1 /\ cs[k].depth # 0
        BY <1>3, <2>4, <3>2, <4>3
      <4>6. cs[k].depth = Len(p) + 1 => ha.transition[cs[k].transition].source = EndsAt(p, l)
        <5>1. cs[k].depth = Len(p) + 1 => ns[c].depth = Len(p)
          BY <1>3, <2>4, <4>3
        <5> QED
          BY <3>4, <4>3, <5>1 DEF EndsAt
      <4>7. Fits(p, l, cs[k])
        BY <4>4, <4>5, <4>6 DEF Fits
      <4> QED
        BY <1>8, <4>2, <4>7
    <3>6. FitAll(p, l, ms, QueuedAgain)
      <4>1. Ascending(HandedBack) \in Seq(HandedBack)
        <5>1. HandedBack \subseteq 1..Len(cs) /\ Len(cs) \in Nat
          BY <1>2 DEF HandedBack, cs
        <5>2. IsFiniteSet(1..Len(cs))
          BY <5>1, FS_Interval
        <5>3. IsFiniteSet(HandedBack) /\ HandedBack \in SUBSET Nat
          <6> DEFINE n == Len(cs)
                     H == HandedBack
          <6> HIDE DEF n, H
          <6>1. IsFiniteSet(H)
            BY <5>1, <5>2, FS_Subset DEF n, H
          <6>2. HandedBack \in SUBSET Nat
            BY <5>1
          <6> QED
            BY <6>1, <6>2 DEF H
        <5> DEFINE H == HandedBack
        <5> HIDE DEF H
        <5>4. IsFiniteSet(H) /\ H \in SUBSET Nat
          BY <5>3 DEF H
        <5>5. Ascending(H) \in Seq(H)
          BY <5>4, AscendingLists
        <5> QED
          BY <5>5 DEF H
      <4>2. \A m \in DOMAIN QueuedAgain : \E k \in HandedBack : QueuedAgain[m] = Len(ns) + k
        BY <4>1, <2>6, <3>1 DEF QueuedAgain, b
      <4> QED
        BY <3>5, <4>2 DEF FitAll
    <3>7. FitAll(p, l, ms, queue[j] \o QueuedAgain)
      <4> DEFINE N == DOMAIN ns
                 X == Len(nodes[level - 1]) + 1..Len(nodes[level - 1]) + Len(Transferred)
      <4>1. queue[j] \in Seq(N) /\ QueuedAgain \in Seq(X)
        BY <1>1, <1>3, <2>6, HandedBackAre
      <4>2. N \subseteq N \cup X /\ X \subseteq N \cup X
        OBVIOUS
      <4> HIDE DEF N, X
      <4>3. queue[j] \in Seq(N \cup X) /\ QueuedAgain \in Seq(N \cup X)
        BY <4>1, <4>2, SeqLarger
      <4> QED
        BY <3>3, <3>6, <4>3, MoreFit
    <3>8. FitAll(p, l, ms, << >>)
      BY DEF FitAll
    <3>9. PathIn(p, end, ms, queue[j] \o QueuedAgain, << >>, conflict[j], TRUE)
      BY <2>3, <3>7, <3>8 DEF PathIn, LeadsTo
    <3>10. /\ nodes'[j] = ms /\ queue'[j] = queue[j] \o QueuedAgain /\ (j = level') = TRUE
      BY <1>1, <2>6
    <3> QED
      BY <1>1, <2>2, <3>9, <3>10 DEF p, end
  <2> HIDE DEF Goal
  <2> QED
    BY <2>5, <2>6
<1>12. ASSUME NEW j \in 2..level'
       PROVE  Goal(j)
  <2> HIDE DEF Goal
  <2> QED
    BY <1>1, <1>11
<1> QED
  BY <1>1, <1>10, <1>12, PathInvPrimed

LEMMA PathsInit ==
  ASSUME Init
  PROVE  PathInv
<1>1. LevelsInv /\ level = 1 /\ 1 \in Levels
  <2>1. LevelsInv /\ level = 1
    BY LevelsInit DEF Init
  <2> QED
    BY <2>1 DEF LevelsInv, TypeInv, TypeOK
<1>2. nodes[1] = [k \in DOMAIN ha.initial |-> RootNode(1, ha.initial[k].loc)]
  BY <1>1 DEF Init
<1>3. ASSUME NEW i \in Levels
      PROVE  HasEdges(nodes[i])
  <2>1. CASE i = 1
    <3>1. ASSUME NEW k \in DOMAIN nodes[1]
          PROVE  nodes[1][k].parent = NoNode
      <4>1. nodes[1][k] = RootNode(1, ha.initial[k].loc) /\ k \in DOMAIN ha.initial
        BY <1>2
      <4>2. IsRootNode(1, RootNode(1, ha.initial[k].loc))
        BY <1>1, <4>1, RootNodeIs DEF LevelsInv, TypeInv
      <4> QED
        BY <4>1, <4>2 DEF IsRootNode
    <3> QED
      BY <2>1, <3>1 DEF HasEdges
  <2>2. CASE i # 1
    <3>1. nodes[i] = << >>
      BY <2>2 DEF Init
    <3> QED
      BY <3>1 DEF HasEdges
  <2> QED
    BY <2>1, <2>2
<1>4. 2..level = {}
  BY <1>1
<1> QED
  BY <1>3, <1>4 DEF PathInv

LEMMA PathsNext ==
  ASSUME LevelsInv, PathInv, [Next]_<<cegarVars, run>>
  PROVE  PathInv'
<1>0. LevelsInv'
  BY LevelsNext
<1>1. CASE RefineBaseConflict
  BY <1>1, RefineBaseKeepsPaths
<1>2. CASE ExpandBaseNode
  BY <1>2, ExpandBaseKeepsPaths
<1>3. CASE ReportSafe
  BY <1>0, <1>3, NothingDoneKeepsPaths DEF ReportSafe
<1>4. CASE CollectNode
  BY <1>4, CollectNodeKeepsPaths
<1>5. CASE RefineConflict
  BY <1>5, RefineConflictKeepsPaths
<1>6. CASE StopAtJumpDepth
  BY <1>6, StopKeepsPaths
<1>7. CASE CollectChildren
  BY <1>7, CollectChildrenKeepsPaths
<1>8. CASE FollowPath
  BY <1>8, FollowPathKeepsPaths
<1>9. CASE TransferNodes
  BY <1>9, HandBackKeepsPaths
<1>10. CASE UNCHANGED cegarVars
  BY <1>0, <1>10, NothingDoneKeepsPaths DEF cegarVars
<1> QED
  BY <1>1, <1>2, <1>3, <1>4, <1>5, <1>6, <1>7, <1>8, <1>9, <1>10
  DEF Next, Analyze, RunStarts, RunElapses, RunJumps, cegarVars

(* Every level follows a chain of jumps to the node it refines.           *)
LEMMA PathsInvariance == Spec => []PathInv
<1>1. Init => PathInv
  BY PathsInit
<1>2. LevelsInv /\ PathInv /\ [Next]_<<cegarVars, run>> => PathInv'
  BY PathsNext
<1> QED
  BY <1>1, <1>2, LevelsInvariance, PTL DEF Spec

--------------------------------------------------------------------------
(* The last level, if it is exact.                                        *)
LEMMA ExactOperations ==
  ASSUME NEW o, \A S \in SUBSET Point : o[S] = S
  PROVE  /\ \A S \in SUBSET Point : \A c : R(o)!Intersect(S, c) = S \cap c
         /\ \A S \in SUBSET Point, f \in [Point -> Point] : R(o)!Transform(S, f) = {f[p] : p \in S}
         /\ \A SS \in SUBSET SUBSET Point : R(o)!Unite(SS) = UNION SS
<1>1. ASSUME NEW S \in SUBSET Point, NEW c
      PROVE  R(o)!Intersect(S, c) = S \cap c
  <2>1. S \cap c \in SUBSET Point
    OBVIOUS
  <2> QED
    BY <2>1 DEF R!Intersect
<1>2. ASSUME NEW S \in SUBSET Point, NEW f \in [Point -> Point]
      PROVE  R(o)!Transform(S, f) = {f[p] : p \in S}
  <2>1. {f[p] : p \in S} \in SUBSET Point
    OBVIOUS
  <2> QED
    BY <2>1 DEF R!Transform
<1>3. ASSUME NEW SS \in SUBSET SUBSET Point
      PROVE  R(o)!Unite(SS) = UNION SS
  <2>1. UNION SS \in SUBSET Point
    OBVIOUS
  <2> QED
    BY <2>1 DEF R!Unite
<1> QED
  BY <1>1, <1>2, <1>3

LEMMA LastLevel ==
  ASSUME TypeInv, LastIsExact
  PROVE  /\ Top \in Levels /\ Top > 1 /\ Top \in Nat /\ strategy[Top].timeStepFactor = 1
         /\ \A l \in Location :
              /\ AtLevel(Top).invariant[l] = ha.invariant[l]
              /\ AtLevel(Top).flow[l] = ha.flow[l]
              /\ AtLevel(Top).during[l] \in [Point -> SUBSET Point]
              /\ \A p \in Point : AtLevel(Top).during[l][p] = ha.during[l][p]
<1>1. Top \in Levels /\ Top > 1 /\ Top \in Nat /\ strategy[Top].timeStepFactor = 1
  <2>1. Top \in Nat /\ Top > 1 /\ Levels = 1..Top
    BY LevelTypes
  <2> QED
    BY <2>1 DEF LastIsExact
<1>2. ASSUME NEW l \in Location
      PROVE  /\ AtLevel(Top).invariant[l] = ha.invariant[l]
             /\ AtLevel(Top).flow[l] = ha.flow[l]
             /\ AtLevel(Top).during[l] \in [Point -> SUBSET Point]
             /\ \A p \in Point : AtLevel(Top).during[l][p] = ha.during[l][p]
  <2> DEFINE f == ha.flow[l]
  <2>1. f \in [Point -> Point] /\ \A p \in Point : ha.during[l][p] \in SUBSET Point
    BY AutomatonTypes DEF TypeInv
  <2>2. /\ AtLevel(Top).invariant[l] = ha.invariant[l]
        /\ AtLevel(Top).flow[l] = Iterate(f, 1)
        /\ AtLevel(Top).during[l] \in [Point -> SUBSET Point]
        /\ \A p \in Point : AtLevel(Top).during[l][p] =
             {Iterate(f, k)[q] : k \in 0..0, q \in ha.during[l][p]}
    BY <1>1, AtLevelTypes
  <2> HIDE DEF f
  <2>3. Iterate(f, 0) = [p \in Point |-> p] /\ Iterate(f, 0 + 1) = [p \in Point |-> f[Iterate(f, 0)[p]]]
    BY <2>1, IterateSteps
  <2>4. Iterate(f, 1) = f
    <3>1. \A p \in Point : f[Iterate(f, 0)[p]] = f[p]
      BY <2>3
    <3>2. Iterate(f, 1) = [p \in Point |-> f[p]]
      BY <2>3, <3>1
    <3> QED
      BY <2>1, <3>2
  <2>5. ASSUME NEW p \in Point
        PROVE  AtLevel(Top).during[l][p] = ha.during[l][p]
    <3> DEFINE D == ha.during[l][p]
               T == {Iterate(f, k)[q] : k \in 0..0, q \in D}
    <3>1. D \in SUBSET Point /\ AtLevel(Top).during[l][p] = T
      BY <2>1, <2>2
    <3> HIDE DEF D
    <3>2. \A q \in D : Iterate(f, 0)[q] = q
      BY <2>3, <3>1
    <3>3. \A x : x \in T <=> \E k \in 0..0, q \in D : x = Iterate(f, k)[q]
      OBVIOUS
    <3> HIDE DEF T
    <3>4. \A k : k \in 0..0 <=> k = 0
      OBVIOUS
    <3>5. T = D
      BY <3>2, <3>3, <3>4
    <3> QED
      BY <3>1, <3>5 DEF D
  <2> QED
    BY <2>2, <2>4, <2>5 DEF f
<1> QED
  BY <1>1, <1>2

LEMMA ExactSegments ==
  ASSUME TypeInv, LastIsExact, NEW l \in Location, NEW S \in SUBSET Point
  PROVE  /\ R(strategy[Top].over)!FirstSegment(AtLevel(Top), l, S) =
              ha.invariant[l] \cap UNION {ha.during[l][p] : p \in S}
         /\ R(strategy[Top].over)!NextSegment(AtLevel(Top), l, S) =
              ha.invariant[l] \cap {ha.flow[l][p] : p \in S}
<1> DEFINE o == strategy[Top].over
           A == AtLevel(Top)
           SS == {A.during[l][p] : p \in S}
           image == {ha.flow[l][p] : p \in S}
<1>1. /\ A.invariant[l] = ha.invariant[l] /\ A.flow[l] = ha.flow[l]
      /\ \A p \in Point : A.during[l][p] = ha.during[l][p]
      /\ A.during[l] \in [Point -> SUBSET Point]
  BY LastLevel
<1>2. ha.flow[l] \in [Point -> Point]
  BY AutomatonTypes DEF TypeInv
<1>3. \A T \in SUBSET Point : o[T] = T
  BY DEF LastIsExact
<1> HIDE DEF o, A
<1>4. /\ \A T \in SUBSET Point : \A c : R(o)!Intersect(T, c) = T \cap c
      /\ \A T \in SUBSET Point, f \in [Point -> Point] : R(o)!Transform(T, f) = {f[p] : p \in T}
      /\ \A TT \in SUBSET SUBSET Point : R(o)!Unite(TT) = UNION TT
  BY <1>3, ExactOperations
<1>5. R(o)!FirstSegment(A, l, S) = ha.invariant[l] \cap UNION {ha.during[l][p] : p \in S}
  <2>1. SS \in SUBSET SUBSET Point /\ UNION SS \in SUBSET Point
    BY <1>1
  <2>2. SS = {ha.during[l][p] : p \in S}
    BY <1>1
  <2>3. R(o)!FirstSegment(A, l, S) = R(o)!Intersect(R(o)!Unite(SS), A.invariant[l])
    BY DEF R!FirstSegment
  <2> HIDE DEF SS
  <2>4. R(o)!FirstSegment(A, l, S) = (UNION SS) \cap ha.invariant[l]
    BY <1>1, <1>4, <2>1, <2>3
  <2> QED
    BY <2>2, <2>4
<1>6. R(o)!NextSegment(A, l, S) = ha.invariant[l] \cap image
  <2>1. image \in SUBSET Point
    BY <1>2
  <2>2. R(o)!NextSegment(A, l, S) = R(o)!Intersect(R(o)!Transform(S, A.flow[l]), A.invariant[l])
    BY DEF R!NextSegment
  <2>3. R(o)!Transform(S, A.flow[l]) = image
    BY <1>1, <1>2, <1>4
  <2> HIDE DEF image
  <2> QED
    BY <1>1, <1>4, <2>1, <2>2, <2>3
<1> QED
  BY <1>5, <1>6 DEF o, A

(* Its flowpipes hold what runs observe.                                  *)
LEMMA SegmentsAreObserved ==
  ASSUME TypeInv, LastIsExact, NEW l \in Location, NEW S \in SUBSET Point,
         NEW fp, IsFlowpipeOf(Top, l, S, fp), NEW entered, S \subseteq entered
  PROVE  \A k \in DOMAIN fp : fp[k] \in SUBSET Point /\ fp[k] \subseteq Observed(ha, l, entered, horizon)
<1> DEFINE o == strategy[Top].over
<1>1. horizon \in Nat /\ horizon \div 1 = horizon /\ horizon + 1 \in Nat
  BY LevelTypes
<1>2. strategy[Top].timeStepFactor = 1
  BY DEF LastIsExact
<1>3. /\ fp \in Seq(SUBSET Point) /\ Len(fp) \in 1..horizon + 1
      /\ fp[1] = R(o)!FirstSegment(AtLevel(Top), l, S)
      /\ \A k \in 2..Len(fp) : fp[k] = R(o)!NextSegment(AtLevel(Top), l, fp[k - 1])
  BY <1>1, <1>2 DEF IsFlowpipeOf
<1>4. /\ DOMAIN fp = 1..Len(fp) /\ Len(fp) \in Nat /\ Len(fp) <= horizon + 1
      /\ \A k \in 1..Len(fp) : fp[k] \in SUBSET Point
  BY <1>1, <1>3
<1>5. PICK at : AreObserved(ha, l, entered, horizon, at)
  BY <1>1, ObservedIsDefined
<1>6. /\ Observed(ha, l, entered, horizon) = UNION {at[k] : k \in 0..horizon}
      /\ at[0] = ha.invariant[l] \cap UNION {ha.during[l][p] : p \in entered}
      /\ \A k \in 1..horizon : at[k] = ha.invariant[l] \cap {ha.flow[l][p] : p \in at[k - 1]}
  BY <1>5 DEF AreObserved
<1> HIDE DEF o
<1> DEFINE K == {k \in 1..Len(fp) : fp[k] \subseteq at[k - 1]}
<1>7. 1 \in K
  <2>1. 1 \in 1..Len(fp) /\ 1 - 1 = 0
    BY <1>1, <1>3
  <2>2. fp[1] = ha.invariant[l] \cap UNION {ha.during[l][p] : p \in S}
    BY <1>3, ExactSegments DEF o
  <2>3. fp[1] \subseteq at[0]
    BY <1>6, <2>2
  <2> QED
    BY <2>1, <2>3
<1>8. ASSUME NEW k \in 1..Len(fp) - 1, k \in K
      PROVE  k + 1 \in K
  <2>1. /\ fp[k] \subseteq at[k - 1] /\ k + 1 \in 2..Len(fp) /\ k + 1 \in 1..Len(fp)
        /\ (k + 1) - 1 = k /\ k \in 1..horizon /\ k \in 1..Len(fp)
    BY <1>1, <1>4, <1>8
  <2>2. fp[k] \in SUBSET Point
    BY <1>4, <2>1
  <2>3. fp[k + 1] = R(o)!NextSegment(AtLevel(Top), l, fp[k])
    BY <1>3, <2>1
  <2>4. fp[k + 1] = ha.invariant[l] \cap {ha.flow[l][p] : p \in fp[k]}
    BY <2>2, <2>3, ExactSegments DEF o
  <2>5. fp[k + 1] \subseteq at[k]
    BY <1>6, <2>1, <2>4
  <2> QED
    BY <2>1, <2>5
<1> HIDE DEF K
<1>9. 1..Len(fp) \subseteq K
  <2>1. 1 \in Int /\ Len(fp) \in Int
    BY <1>4
  <2> QED
    BY <1>7, <1>8, <2>1, InductionInInterval
<1>10. ASSUME NEW k \in DOMAIN fp
       PROVE  fp[k] \in SUBSET Point /\ fp[k] \subseteq Observed(ha, l, entered, horizon)
  <2>1. k \in 1..Len(fp) /\ fp[k] \in SUBSET Point /\ fp[k] \subseteq at[k - 1]
    BY <1>4, <1>9 DEF K
  <2>2. k - 1 \in 0..horizon
    BY <1>1, <1>4, <2>1
  <2> QED
    BY <1>6, <2>1, <2>2
<1> QED
  BY <1>10

(* A flowpipe that meets bad states has a bad valuation at its end.       *)
LEMMA ConflictIsBad ==
  ASSUME TypeInv, LastIsExact, NEW l \in Location,
         NEW S \in SUBSET Point, S # {}, S \subseteq ha.invariant[l],
         NEW fp, IsFlowpipeOf(Top, l, S, fp), MeetsBadStates(Top, l, fp)
  PROVE  Len(fp) \in DOMAIN fp /\ fp[Len(fp)] \cap BadStates(ha, l) # {}
<1> DEFINE o == strategy[Top].over
           last == fp[Len(fp)]
<1>1. fp \in Seq(SUBSET Point) /\ Len(fp) \in Nat /\ Len(fp) >= 1
  <2>1. fp \in Seq(SUBSET Point) /\ Len(fp) # 0
    BY LevelTypes DEF IsFlowpipeOf
  <2> QED
    BY <2>1
<1>2. Len(fp) \in DOMAIN fp /\ last \in SUBSET Point
  BY <1>1
<1>3. R(o)!IntersectsBadStates(ha, l, last)
  BY DEF MeetsBadStates, IsBad
<1>4. \A T \in SUBSET Point : o[T] = T
  BY DEF LastIsExact
<1> HIDE DEF o
<1>5. \A T \in SUBSET Point : \A c : R(o)!Intersect(T, c) = T \cap c
  BY <1>4, ExactOperations
<1>6. CASE ha.localBad[l] = Point
  <2>1. Len(fp) = 1
    <3>1. R(o)!IntersectsBadStates(ha, l, fp[1])
      BY <1>3, <1>6 DEF R!IntersectsBadStates
    <3>2. \A k \in 1..Len(fp) - 1 : ~IsBad(Top, l, fp[k])
      BY DEF IsFlowpipeOf
    <3>3. ~(1 \in 1..Len(fp) - 1)
      BY <3>1, <3>2 DEF IsBad, o
    <3> DEFINE n == Len(fp)
    <3>4. n \in Nat /\ n >= 1 /\ ~(1 \in 1..n - 1)
      BY <1>1, <3>3
    <3> HIDE DEF n
    <3>5. n = 1
      BY <3>4
    <3> QED
      BY <3>5 DEF n
  <2>2. last = ha.invariant[l] \cap UNION {ha.during[l][p] : p \in S}
    <3>1. fp[1] = R(o)!FirstSegment(AtLevel(Top), l, S)
      BY DEF IsFlowpipeOf, o
    <3> QED
      BY <2>1, <3>1, ExactSegments DEF o
  <2>3. PICK p \in S : p \in Point
    OBVIOUS
  <2>4. p \in ha.during[l][p]
    BY <2>3, AutomatonTypes DEF TypeInv, IsAutomaton
  <2>5. p \in last
    BY <2>2, <2>4
  <2> QED
    BY <1>2, <1>6, <2>3, <2>5 DEF BadStates
<1>7. CASE ha.localBad[l] # Point
  <2>1. R(o)!Intersect(last, ha.localBad[l]) # {} \/ R(o)!Intersect(last, ha.globalBad) # {}
    BY <1>3, <1>7 DEF R!IntersectsBadStates
  <2> HIDE DEF last
  <2>2. last \cap ha.localBad[l] # {} \/ last \cap ha.globalBad # {}
    BY <1>2, <1>5, <2>1
  <2>3. last \cap BadStates(ha, l) # {}
    BY <2>2 DEF BadStates
  <2> QED
    BY <1>2, <2>3 DEF last
<1> QED
  BY <1>6, <1>7

LEMMA EnteredIsInvariant ==
  ASSUME ha \in Automata, NEW d \in 0..jumpDepth, NEW l \in Location
  PROVE  Entered(ha, horizon, jumpDepth)[d][l] \subseteq ha.invariant[l]
<1>1. jumpDepth \in Nat /\ l \in DOMAIN ha.invariant
  BY AutomatonTypes, BoundsAssumption DEF AutomatonType
<1>2. CASE d = 0
  <2>1. Entered(ha, horizon, jumpDepth)[0] = EnteredFirst(ha)
    BY <1>1, EnteredIsDefined
  <2> QED
    BY <1>1, <1>2, <2>1 DEF EnteredFirst
<1>3. CASE d # 0
  <2>1. d \in 1..jumpDepth
    BY <1>1, <1>3
  <2>2. Entered(ha, horizon, jumpDepth)[d] =
          EnteredNext(ha, horizon, Entered(ha, horizon, jumpDepth)[d - 1])
    BY <1>1, <2>1, EnteredIsDefined
  <2> QED
    BY <1>1, <2>2 DEF EnteredNext
<1> QED
  BY <1>2, <1>3

(* What an unknown verdict rests on.                                      *)
LEMMA ReachedIsBad ==
  ASSUME TypeInv, LastIsExact, NEW node \in NodeType, IsReached(node),
         MeetsBadStates(Top, node.location, TimeSuccessors(Top, node.location, node.initialSet))
  PROVE  CanBeBad(ha, horizon, jumpDepth)
<1> DEFINE l == node.location
           S == node.initialSet
           d == node.depth
           fp == TimeSuccessors(Top, l, S)
           e == Entered(ha, horizon, jumpDepth)[d][l]
<1>1. /\ l \in Location /\ S \in SUBSET Point /\ S # {} /\ S \subseteq e
      /\ d \in Nat /\ d <= jumpDepth /\ jumpDepth \in Nat
  BY BoundsAssumption DEF IsReached, NodeType
<1>2. d \in 0..jumpDepth
  BY <1>1
<1>3. S \subseteq ha.invariant[l]
  <2>1. ha \in Automata
    BY DEF TypeInv
  <2> QED
    BY <1>1, <1>2, <2>1, EnteredIsInvariant
<1>4. IsFlowpipeOf(Top, l, S, fp) /\ MeetsBadStates(Top, l, fp)
  BY <1>1, LastLevel, TimeSuccessorsAreFlowpipe
<1> HIDE DEF fp, l, S, e, d
<1>5. Len(fp) \in DOMAIN fp /\ fp[Len(fp)] \cap BadStates(ha, l) # {}
  BY <1>1, <1>3, <1>4, ConflictIsBad
<1>6. fp[Len(fp)] \subseteq Observed(ha, l, e, horizon)
  BY <1>1, <1>4, <1>5, SegmentsAreObserved
<1>7. Observed(ha, l, e, horizon) \cap BadStates(ha, l) # {}
  BY <1>5, <1>6
<1> QED
  BY <1>1, <1>2, <1>7 DEF CanBeBad, e

(* A block of an exact level holds what the jumps lead to, no more.       *)
IsExact(o) == \A S \in SUBSET Point : o[S] = S

AreJumps(t, fp, B, S) ==
  \A x \in S : /\ x \in ha.invariant[ha.transition[t].target]
               /\ \E k \in B : \E p \in fp[k] \cap ha.transition[t].guard :
                    x = ha.transition[t].reset[p]

LEMMA BlockIsExact ==
  ASSUME TypeInv, NEW o, IsExact(o), NEW t \in DOMAIN ha.transition,
         NEW fp \in Seq(SUBSET Point), NEW B, B \subseteq DOMAIN fp
  PROVE  AreJumps(t, fp, B, Jumped(o, t, Guarded(o, t, fp, B)))
<1> DEFINE g == ha.transition[t].guard
           f == ha.transition[t].reset
           inv == ha.invariant[ha.transition[t].target]
           SS == {fp[k] \cap g : k \in B}
           image == {f[p] : p \in UNION SS}
<1>1. /\ \A S \in SUBSET Point : \A c : R(o)!Intersect(S, c) = S \cap c
      /\ \A S \in SUBSET Point, h \in [Point -> Point] : R(o)!Transform(S, h) = {h[p] : p \in S}
      /\ \A TT \in SUBSET SUBSET Point : R(o)!Unite(TT) = UNION TT
  BY ExactOperations DEF IsExact
<1>2. f \in [Point -> Point]
  BY TransitionTypes DEF TypeInv
<1>3. \A k \in B : fp[k] \in SUBSET Point
  OBVIOUS
<1>4. Jumped(o, t, Guarded(o, t, fp, B)) =
        R(o)!Intersect(R(o)!Transform(R(o)!Unite(Guarded(o, t, fp, B)), f), inv)
  BY DEF Jumped
<1> HIDE DEF f, inv
<1>5. Guarded(o, t, fp, B) = SS
  <2>1. \A k \in B : R(o)!Intersect(fp[k], g) = fp[k] \cap g
    BY <1>1, <1>3
  <2>2. Guarded(o, t, fp, B) = {R(o)!Intersect(fp[k], g) : k \in B}
    BY DEF Guarded
  <2> QED
    BY <2>1, <2>2
<1>6. SS \in SUBSET SUBSET Point
  BY <1>3
<1>7. \A p \in UNION SS : \E k \in B : p \in fp[k] \cap g
  OBVIOUS
<1> HIDE DEF SS, g
<1>8. UNION SS \in SUBSET Point /\ image \in SUBSET Point
  BY <1>2, <1>6
<1>9. Jumped(o, t, Guarded(o, t, fp, B)) = image \cap inv
  <2>1. R(o)!Unite(SS) = UNION SS
    BY <1>1, <1>6
  <2>2. R(o)!Transform(UNION SS, f) = image
    BY <1>1, <1>2, <1>8
  <2> HIDE DEF image
  <2>3. R(o)!Intersect(image, inv) = image \cap inv
    BY <1>1, <1>8
  <2> QED
    BY <1>4, <1>5, <2>1, <2>2, <2>3
<1>10. ASSUME NEW x \in image \cap inv
       PROVE  x \in inv /\ \E k \in B : \E p \in fp[k] \cap g : x = f[p]
  <2>1. PICK p \in UNION SS : x = f[p]
    OBVIOUS
  <2>2. PICK k \in B : p \in fp[k] \cap g
    BY <1>7, <2>1
  <2> QED
    BY <2>1, <2>2
<1> HIDE DEF image
<1> QED
  BY <1>9, <1>10 DEF AreJumps, g, f, inv

LEMMA JumpIsReached ==
  ASSUME TypeInv, LastIsExact, NEW node \in NodeType, IsReached(node), node.depth # jumpDepth,
         NEW fp, IsFlowpipeOf(Top, node.location, node.initialSet, fp),
         NEW c, IsBlock(Top, fp, c), c.transition \in DOMAIN ha.transition,
         ha.transition[c.transition].source = node.location,
         c.location = ha.transition[c.transition].target,
         c.depth = node.depth + 1, c.flowpipe = << >>
  PROVE  IsReached(c)
<1> DEFINE t == c.transition
           tr == ha.transition[t]
           d == node.depth
           l == node.location
           o == strategy[Top].over
           before == Entered(ha, horizon, jumpDepth)[d]
<1>1. /\ d \in Nat /\ l \in Location /\ node.initialSet \in SUBSET Point
      /\ d <= jumpDepth /\ jumpDepth \in Nat /\ node.initialSet \subseteq before[l]
  BY BoundsAssumption DEF IsReached, NodeType
<1>2. d + 1 \in 1..jumpDepth /\ d + 1 <= jumpDepth /\ (d + 1) - 1 = d
  BY <1>1
<1>3. /\ fp \in Seq(SUBSET Point)
      /\ \A k \in DOMAIN fp : fp[k] \subseteq Observed(ha, l, before[l], horizon)
  <2>1. fp \in Seq(SUBSET Point)
    BY DEF IsFlowpipeOf
  <2> HIDE DEF l, before
  <2>2. IsFlowpipeOf(Top, l, node.initialSet, fp)
    BY DEF l
  <2> QED
    BY <1>1, <2>1, <2>2, SegmentsAreObserved
<1>4. PICK B : /\ B \subseteq DOMAIN fp
               /\ c.initialSet = Jumped(o, t, Guarded(o, t, fp, B))
  BY DEF IsBlock
<1>5. IsExact(o)
  BY DEF LastIsExact, IsExact
<1>6. Entered(ha, horizon, jumpDepth)[d + 1] = EnteredNext(ha, horizon, before)
  <2>1. Entered(ha, horizon, jumpDepth)[d + 1] =
          EnteredNext(ha, horizon, Entered(ha, horizon, jumpDepth)[(d + 1) - 1])
    BY <1>1, <1>2, EnteredIsDefined
  <2> QED
    BY <1>2, <2>1
<1>7. tr.target \in Location /\ tr.source = l
  BY TransitionTypes DEF TypeInv
<1> DEFINE images(i) ==
             {ha.transition[i].reset[p] : p \in ha.transition[i].guard \cap
                Observed(ha, ha.transition[i].source, before[ha.transition[i].source], horizon)}
           into == {i \in DOMAIN ha.transition : ha.transition[i].target = tr.target}
<1> HIDE DEF o, before
<1>8. EnteredNext(ha, horizon, before)[tr.target] =
        ha.invariant[tr.target] \cap UNION {images(i) : i \in into}
  <2>1. tr.target \in DOMAIN ha.invariant
    BY <1>7, AutomatonTypes DEF AutomatonType, TypeInv
  <2> QED
    BY <2>1 DEF EnteredNext
<1>9. t \in into
  OBVIOUS
<1>10. \A k \in B : \A p \in fp[k] \cap tr.guard : tr.reset[p] \in images(t)
  BY <1>3, <1>4, <1>7
<1>11. \A x \in c.initialSet :
         x \in ha.invariant[tr.target] /\ \E k \in B : \E p \in fp[k] \cap tr.guard : x = tr.reset[p]
  <2>1. t \in DOMAIN ha.transition
    OBVIOUS
  <2> HIDE DEF t
  <2>2. AreJumps(t, fp, B, Jumped(o, t, Guarded(o, t, fp, B)))
    BY <1>3, <1>4, <1>5, <2>1, BlockIsExact
  <2> QED
    BY <1>4, <2>2 DEF AreJumps
<1> HIDE DEF images, into, tr
<1>12. c.initialSet \subseteq EnteredNext(ha, horizon, before)[tr.target]
  <2>1. ASSUME NEW x \in c.initialSet
        PROVE  x \in ha.invariant[tr.target] /\ x \in images(t)
    BY <1>10, <1>11
  <2> QED
    BY <1>8, <1>9, <2>1
<1>13. c.initialSet # {} /\ c.depth = d + 1 /\ c.location = tr.target
  BY DEF IsBlock, tr
<1>14. c.initialSet \subseteq Entered(ha, horizon, jumpDepth)[c.depth][c.location]
  BY <1>6, <1>12, <1>13
<1> QED
  BY <1>2, <1>13, <1>14 DEF IsReached

--------------------------------------------------------------------------
(* The tree of the last level holds nothing else.                         *)
ReachedIn(ns) == \A n \in DOMAIN ns : IsReached(ns[n])

LEMMA SameReached ==
  ASSUME ha' = ha, strategy' = strategy, NEW node
  PROVE  IsReached(node)' <=> IsReached(node)
<1>1. Top' = Top
  BY DEF Top
<1>2. TimeSuccessors(Top, node.location, node.initialSet)' =
        TimeSuccessors(Top, node.location, node.initialSet)
  BY <1>1, SameTimeSuccessors
<1> QED
  BY <1>2 DEF IsReached

LEMMA ReachedPrimed ==
  ASSUME ha' = ha, strategy' = strategy,
         LastIsExact /\ InitialStatesExist =>
           ReachedIn(nodes'[Top]) /\ (verdict' = "UNKNOWN" => CanBeBad(ha, horizon, jumpDepth))
  PROVE  ReachedInv'
<1>1. Top' = Top
  BY DEF Top
<1>2. (LastIsExact' <=> LastIsExact) /\ (InitialStatesExist' <=> InitialStatesExist)
  BY <1>1 DEF LastIsExact, InitialStatesExist
<1>3. \A ns : ReachedIn(ns)' <=> ReachedIn(ns)
  BY SameReached DEF ReachedIn
<1>4. ReachedIn(nodes'[Top]) => ReachedIn(nodes[Top])'
  BY <1>1, <1>3
<1>5. CanBeBad(ha, horizon, jumpDepth)' <=> CanBeBad(ha, horizon, jumpDepth)
  OBVIOUS
<1> QED
  BY <1>2, <1>4, <1>5 DEF ReachedInv, ReachedIn

LEMMA ReachedIs ==
  ASSUME ReachedInv, LastIsExact, InitialStatesExist
  PROVE  ReachedIn(nodes[Top]) /\ (verdict = "UNKNOWN" => CanBeBad(ha, horizon, jumpDepth))
BY DEF ReachedInv, ReachedIn

LEMMA LastTreeKept ==
  ASSUME ReachedInv, ha' = ha, strategy' = strategy, nodes'[Top] = nodes[Top],
         verdict' = "UNKNOWN" => verdict = "UNKNOWN"
  PROVE  ReachedInv'
BY ReachedIs, ReachedPrimed

LEMMA ReachedAgrees ==
  ASSUME NEW m, NEW n, SameNode(m, n), IsReached(m),
         n.flowpipe \in {<< >>, TimeSuccessors(Top, m.location, m.initialSet)}
  PROVE  IsReached(n)
BY DEF IsReached, SameNode

LEMMA ReachedFlowpipe ==
  ASSUME LevelsInv, level = Top, queue[level] # << >>, IsReached(current)
  PROVE  currentFlowpipe = TimeSuccessors(Top, current.location, current.initialSet)
BY DEF currentFlowpipe, IsReached

LEMMA LastTreeExpanded ==
  ASSUME LevelsInv, ReachedInv, level = Top, NEW n, NEW fp, OnRefinement(n, fp),
         NEW cs, StepsTo(n, fp, cs), AreBlocks(level, fp, cs), JumpsFrom(nodes[level], n, cs),
         current.depth = jumpDepth => cs = << >>
  PROVE  ReachedInv'
<1> DEFINE ns == nodes[Top]
           ms == nodes'[Top]
<1>1. /\ queue[level] # << >> /\ n = Head(queue[level]) /\ fp = currentFlowpipe /\ verdict = "none"
  BY DEF OnRefinement
<1>2. /\ UNCHANGED <<ha, strategy, verdict>> /\ IsExpansion(Top, ns, n, fp, cs, ms)
  BY DEF StepsTo
<1>3. /\ TypeInv /\ n \in DOMAIN ns /\ current = ns[n] /\ ns \in Seq(NodeType) /\ ns[n] \in NodeType
      /\ IsFlowpipeOf(Top, current.location, current.initialSet,
                      TimeSuccessors(Top, current.location, current.initialSet))
  BY <1>1, CurrentFacts
<1> HIDE DEF ns, ms
<1>4. ASSUME LastIsExact, InitialStatesExist
      PROVE  ReachedIn(ms)
  <2>1. ReachedIn(ns)
    BY <1>4, ReachedIs DEF ns
  <2>2. IsReached(ns[n])
    BY <1>3, <2>1 DEF ReachedIn
  <2>3. fp = TimeSuccessors(Top, ns[n].location, ns[n].initialSet)
    BY <1>1, <1>3, <2>2, ReachedFlowpipe
  <2>4. ASSUME NEW m \in DOMAIN ns
        PROVE  IsReached(ms[m])
    <3>1. SameNode(ns[m], ms[m]) /\ ms[m].flowpipe = IF m = n THEN fp ELSE ns[m].flowpipe
      BY <1>2 DEF IsExpansion, Extends
    <3>2. IsReached(ns[m])
      BY <2>1 DEF ReachedIn
    <3>3. ns[m].flowpipe \in {<< >>, TimeSuccessors(Top, ns[m].location, ns[m].initialSet)}
      BY <3>2 DEF IsReached
    <3>4. ms[m].flowpipe \in {<< >>, TimeSuccessors(Top, ns[m].location, ns[m].initialSet)}
      BY <2>3, <3>1, <3>3
    <3> QED
      BY <3>1, <3>2, <3>4, ReachedAgrees
  <2>5. ASSUME NEW k \in DOMAIN cs
        PROVE  IsReached(cs[k])
    <3> DEFINE c == cs[k]
    <3>1. /\ IsNewChild(ns, n, c) /\ ha.transition[c.transition].source = ns[n].location
      BY <1>1 DEF JumpsFrom, ns
    <3>2. IsBlock(Top, fp, c)
      BY DEF AreBlocks
    <3>3. ns[n].depth # jumpDepth
      <4>1. cs # << >>
        OBVIOUS
      <4> QED
        BY <1>3, <4>1
    <3>4. IsFlowpipeOf(Top, ns[n].location, ns[n].initialSet, fp)
      BY <1>3, <2>3
    <3>5. /\ c.transition \in DOMAIN ha.transition /\ c.location = ha.transition[c.transition].target
          /\ c.depth = ns[n].depth + 1 /\ c.flowpipe = << >>
      BY <3>1 DEF IsNewChild
    <3> HIDE DEF c
    <3>6. IsReached(c)
      BY <1>3, <1>4, <2>2, <3>1, <3>2, <3>3, <3>4, <3>5, JumpIsReached
    <3> QED
      BY <3>6 DEF c
  <2>6. \A m \in DOMAIN ms : m \in DOMAIN ns \/ \E k \in DOMAIN cs : ms[m] = cs[k]
    BY <1>2 DEF IsExpansion
  <2> QED
    BY <2>4, <2>5, <2>6 DEF ReachedIn
<1>5. verdict' # "UNKNOWN"
  BY <1>1, <1>2
<1> QED
  BY <1>2, <1>4, <1>5, ReachedPrimed DEF ms

LEMMA StopKeepsReached ==
  ASSUME LevelsInv, ReachedInv, level = Top, StopAtJumpDepth
  PROVE  ReachedInv'
<1> DEFINE n == Head(queue[level])
           fp == currentFlowpipe
<1>1. OnRefinement(n, fp) /\ StepsTo(n, fp, << >>)
  BY StopStep
<1> HIDE DEF n, fp
<1>2. AreBlocks(level, fp, << >>) /\ JumpsFrom(nodes[level], n, << >>)
  BY DEF AreBlocks, JumpsFrom
<1> QED
  BY <1>1, <1>2, LastTreeExpanded

LEMMA CollectChildrenKeepsReached ==
  ASSUME LevelsInv, ReachedInv, level = Top, CollectChildren
  PROVE  ReachedInv'
<1> DEFINE n == Head(queue[level])
           fp == currentFlowpipe
           cs == AllChildren(level, n, fp)
<1>1. /\ OnRefinement(n, fp) /\ StepsTo(n, fp, cs)
      /\ AreChildren(level, n, fp, TransitionsFrom(ha, current.location), cs)
  BY CollectChildrenStep
<1>2. /\ level \in Levels /\ TypeInv /\ n \in DOMAIN nodes[level] /\ current = nodes[level][n]
      /\ fp \in Seq(SUBSET Point)
  BY <1>1, CurrentFacts DEF OnRefinement
<1>3. AreBlocks(level, fp, cs)
  <2> HIDE DEF n, fp
  <2> QED
    BY <1>2, AllChildrenAre
<1>4. current.depth # jumpDepth
  BY DEF CollectChildren
<1> HIDE DEF cs
<1>5. JumpsFrom(nodes[level], n, cs)
  BY <1>1, <1>2 DEF AreChildren, TransitionsFrom, JumpsFrom
<1> HIDE DEF n, fp
<1> QED
  BY <1>1, <1>3, <1>4, <1>5, LastTreeExpanded

LEMMA FollowPathKeepsReached ==
  ASSUME LevelsInv, PathInv, ReachedInv, level = Top, FollowPath
  PROVE  ReachedInv'
<1> DEFINE n == Head(queue[level])
           fp == currentFlowpipe
           cs == PathChildren(n, fp)
           t == path[level][current.depth + 1].transition
<1>1. OnRefinement(n, fp) /\ StepsTo(n, fp, cs) /\ current.depth < Len(path[level])
  BY FollowPathStep
<1>2. /\ level \in Levels /\ TypeInv /\ n \in DOMAIN nodes[level] /\ fp \in Seq(SUBSET Point)
      /\ current.depth \in Nat
  BY <1>1, CurrentFacts DEF OnRefinement
<1>3. JumpsFrom(nodes[level], n, cs)
  BY FollowPathJumps
<1>4. current.depth # jumpDepth
  BY DEF FollowPath
<1>5. t \in DOMAIN ha.transition
  <2>1. /\ Len(path[level]) \in Nat /\ DOMAIN path[level] = 1..Len(path[level])
        /\ \A k \in DOMAIN path[level] : path[level][k].transition \in DOMAIN ha.transition
    BY <1>2, PathFacts
  <2>2. current.depth + 1 \in DOMAIN path[level]
    BY <1>1, <1>2, <2>1
  <2> QED
    BY <2>1, <2>2
<1> HIDE DEF n, fp, t
<1>6. AreBlocks(level, fp, cs)
  <2>1. CASE Existing(n) # {}
    BY <2>1 DEF PathChildren, AreBlocks
  <2>2. CASE Existing(n) = {}
    <3>1. cs = RefinedSuccessors(level, n, t, fp)
      BY <2>2 DEF PathChildren, t
    <3>2. AreBlocks(level, fp, RefinedSuccessors(level, n, t, fp))
      BY <1>2, <1>5, RefinedSuccessorsAre
    <3> QED
      BY <3>1, <3>2
  <2> QED
    BY <2>1, <2>2
<1> HIDE DEF cs
<1> QED
  BY <1>1, <1>3, <1>4, <1>6, LastTreeExpanded

(* A refinement starts at a root, that is entered in the initial states.  *)
LEMMA RootIsReached ==
  ASSUME ha \in Automata, strategy \in Strategies, Top \in Levels, LastIsExact, InitialStatesExist,
         NEW l, \E k \in DOMAIN ha.initial : ha.initial[k].loc = l
  PROVE  IsReached(RootNode(Top, l))
<1> DEFINE node == RootNode(Top, l)
           e == Entered(ha, horizon, jumpDepth)
<1>1. node \in NodeType /\ IsRootNode(Top, node) /\ node.flowpipe = << >>
  BY RootNodeIs
<1> HIDE DEF node
<1>2. PICK k \in DOMAIN ha.initial :
        node.location = ha.initial[k].loc /\ node.initialSet = strategy[Top].over[ha.initial[k].set]
  BY <1>1 DEF IsRootNode
<1>3. /\ ha.initial[k].loc \in Location /\ ha.initial[k].set \in SUBSET Point
      /\ ha.initial[k].set \subseteq ha.invariant[ha.initial[k].loc]
  BY AutomatonTypes
<1>4. node.initialSet = ha.initial[k].set /\ node.initialSet # {}
  BY <1>2, <1>3 DEF LastIsExact, InitialStatesExist
<1>5. jumpDepth \in Nat /\ e[0] = EnteredFirst(ha)
  BY BoundsAssumption, EnteredIsDefined
<1> HIDE DEF e
<1>6. node.initialSet \subseteq EnteredFirst(ha)[node.location]
  <2>1. node.location \in DOMAIN ha.invariant
    BY <1>2, <1>3, AutomatonTypes DEF AutomatonType
  <2> QED
    BY <1>2, <1>3, <1>4, <2>1 DEF EnteredFirst
<1>7. node.depth = 0
  BY <1>1 DEF IsRootNode
<1>8. node.initialSet \subseteq e[node.depth][node.location]
  BY <1>5, <1>6, <1>7
<1>9. IsReached(node)
  BY <1>1, <1>4, <1>5, <1>7, <1>8 DEF IsReached, e
<1> QED
  BY <1>9 DEF node

LEMMA RefineNextKeepsReached ==
  ASSUME LevelsInv, ReachedInv, UNCHANGED <<ha, strategy>>, level + 1 \in Levels,
         queue[level] # << >>, NEW fp \in Seq(SUBSET Point),
         RefineNext(level, Head(queue[level]), fp)
  PROVE  ReachedInv'
<1> DEFINE n == Head(queue[level])
           l == nodes[level][RootOf(level, n)].location
           ns == nodes[Top]
           ms == WithRoot(Top, l)
<1>1. RefinesTo(level, n, fp, l) /\ \E k \in DOMAIN ha.initial : ha.initial[k].loc = l
  BY RefineFacts
<1>2. verdict' = verdict
  BY DEF RefineNext
<1>3. TypeInv /\ Top \in Nat /\ Levels = 1..Top /\ level \in Nat /\ Top \in Levels
  BY LevelTypes, LevelFacts DEF LevelsInv
<1>4. CASE level + 1 # Top
  <2>1. Top # level
    BY <1>3
  <2>2. nodes'[Top] = nodes[Top]
    BY <1>1, <1>3, <1>4, <2>1 DEF RefinesTo
  <2> QED
    BY <1>2, <2>2, LastTreeKept
<1>5. CASE level + 1 = Top
  <2> HIDE DEF l, n
  <2>1. nodes'[Top] = ms
    BY <1>1, <1>5 DEF RefinesTo
  <2>2. IsTree(Top, ns)
    BY <1>3, LevelFacts
  <2>3. /\ \A m \in DOMAIN ns : ms[m] = ns[m]
        /\ \A m \in DOMAIN ms : m \notin DOMAIN ns => ms[m] = RootNode(Top, l)
    BY <1>1, <1>3, <2>2, WithRootIs
  <2> HIDE DEF ms, ns
  <2>4. ASSUME LastIsExact, InitialStatesExist
        PROVE  ReachedIn(ms) /\ (verdict = "UNKNOWN" => CanBeBad(ha, horizon, jumpDepth))
    <3>1. ReachedIn(ns) /\ (verdict = "UNKNOWN" => CanBeBad(ha, horizon, jumpDepth))
      BY <2>4, ReachedIs DEF ns
    <3>2. IsReached(RootNode(Top, l))
      BY <1>1, <1>3, <2>4, RootIsReached DEF TypeInv
    <3> QED
      BY <2>3, <3>1, <3>2 DEF ReachedIn
  <2> QED
    BY <1>2, <2>1, <2>4, ReachedPrimed
<1> QED
  BY <1>4, <1>5

LEMMA RefineBaseKeepsReached ==
  ASSUME LevelsInv, ReachedInv, RefineBaseConflict
  PROVE  ReachedInv'
<1> DEFINE n == Head(queue[1])
           fp == TimeSuccessors(1, nodes[1][n].location, nodes[1][n].initialSet)
<1>1. /\ level = 1 /\ queue[1] # << >> /\ fp \in Seq(SUBSET Point)
      /\ RefineNext(1, n, fp) /\ UNCHANGED <<ha, strategy>>
  BY RefineBaseStep
<1>2. level + 1 \in Levels
  <2>1. Top \in Nat /\ Top > 1 /\ Levels = 1..Top
    BY LevelTypes DEF LevelsInv
  <2> QED
    BY <1>1, <2>1
<1> HIDE DEF fp
<1> QED
  BY <1>1, <1>2, RefineNextKeepsReached

LEMMA RefineConflictKeepsReached ==
  ASSUME LevelsInv, ReachedInv, RefineConflict
  PROVE  ReachedInv'
<1> DEFINE n == Head(queue[level])
           fp == currentFlowpipe
           ns == nodes[level]
           ms == Stored(ns, n, fp)
<1>1. /\ queue[level] # << >> /\ UNCHANGED <<ha, strategy>>
      /\ HasConflict
      /\ level < Top => RefineNext(level, n, fp)
      /\ ~(level < Top) => nodes' = [nodes EXCEPT ![level] = ms]
  BY DEF RefineConflict, OnPath, Refining, Stored
<1>2. /\ level \in Levels /\ level \in 1..Top /\ Levels = 1..Top /\ Top \in Nat /\ TypeInv
      /\ fp \in Seq(SUBSET Point) /\ n \in DOMAIN ns /\ ns \in Seq(NodeType) /\ ns[n] \in NodeType
      /\ current = ns[n] /\ DOMAIN nodes = Levels
  BY <1>1, CurrentFacts, LevelTypes, LevelFacts DEF TypeInv
<1>3. CASE level < Top
  <2>1. level + 1 \in Levels
    BY <1>2, <1>3
  <2> HIDE DEF fp
  <2> QED
    BY <1>1, <1>2, <1>3, <2>1, RefineNextKeepsReached
<1>4. CASE ~(level < Top)
  <2>1. level = Top
    BY <1>2, <1>4
  <2>2. nodes'[Top] = ms
    BY <1>1, <1>2, <1>4, <2>1
  <2>3. fp = TimeSuccessors(Top, ns[n].location, ns[n].initialSet) /\ MeetsBadStates(Top, ns[n].location, fp)
    BY <1>1, <1>2, <2>1 DEF HasConflict, currentFlowpipe
  <2>4. /\ DOMAIN ms = DOMAIN ns /\ Extends(ns, ms) /\ ms[n].flowpipe = fp
        /\ \A m \in DOMAIN ns : m # n => ms[m] = ns[m]
    <3> HIDE DEF n, fp, ns
    <3>1. /\ DOMAIN [ns EXCEPT ![n].flowpipe = fp] = DOMAIN ns
          /\ Extends(ns, [ns EXCEPT ![n].flowpipe = fp])
          /\ [ns EXCEPT ![n].flowpipe = fp][n].flowpipe = fp
          /\ \A m \in DOMAIN ns : m # n => [ns EXCEPT ![n].flowpipe = fp][m] = ns[m]
      BY <1>2, FlowpipeStored
    <3> QED
      BY <3>1 DEF Stored
  <2> HIDE DEF fp, n, ms
  <2>5. ASSUME LastIsExact, InitialStatesExist
        PROVE  ReachedIn(ms) /\ CanBeBad(ha, horizon, jumpDepth)
    <3>1. ReachedIn(ns)
      BY <2>1, <2>5, ReachedIs
    <3> HIDE DEF ns
    <3>2. IsReached(ns[n])
      BY <1>2, <3>1 DEF ReachedIn
    <3>3. CanBeBad(ha, horizon, jumpDepth)
      BY <1>2, <2>3, <2>5, <3>2, ReachedIsBad
    <3>4. SameNode(ns[n], ms[n])
      BY <1>2, <2>4 DEF Extends
    <3>5. IsReached(ms[n])
      BY <2>3, <2>4, <3>2, <3>4, ReachedAgrees
    <3>6. ReachedIn(ms)
      BY <2>4, <3>1, <3>5 DEF ReachedIn
    <3> QED
      BY <3>3, <3>6
  <2> QED
    BY <1>1, <2>2, <2>5, ReachedPrimed
<1> QED
  BY <1>3, <1>4

LEMMA ReachedNext ==
  ASSUME LevelsInv, PathInv, ReachedInv, [Next]_<<cegarVars, run>>
  PROVE  ReachedInv'
<1>1. Top \in Nat /\ Top > 1 /\ Levels = 1..Top /\ Top \in Levels /\ level \in Nat
      /\ level \in 1..Top
  BY LevelTypes, LevelFacts DEF LevelsInv
<1>2. CASE RefineBaseConflict
  BY <1>2, RefineBaseKeepsReached
<1>3. CASE ExpandBaseNode
  <2>1. /\ level = 1 /\ UNCHANGED <<ha, strategy, verdict>>
        /\ \A i \in Levels : i # 1 => nodes'[i] = nodes[i]
    BY <1>3, ExpandBaseStep DEF BaseStepsTo
  <2> QED
    BY <1>1, <2>1, LastTreeKept
<1>4. CASE ReportSafe
  BY <1>4, LastTreeKept DEF ReportSafe
<1>5. CASE CollectNode
  BY <1>5, LastTreeKept DEF CollectNode
<1>6. CASE RefineConflict
  BY <1>6, RefineConflictKeepsReached
<1>7. ASSUME StopAtJumpDepth \/ CollectChildren \/ FollowPath
      PROVE  ReachedInv'
  <2>1. CASE level = Top
    BY <1>7, <2>1, StopKeepsReached, CollectChildrenKeepsReached, FollowPathKeepsReached
  <2>2. CASE level # Top
    <3>1. /\ UNCHANGED <<ha, strategy, verdict>> /\ \A i \in Levels : i # level => nodes'[i] = nodes[i]
      BY <1>7, StopStep, CollectChildrenStep, FollowPathStep DEF StepsTo
    <3> QED
      BY <1>1, <2>2, <3>1, LastTreeKept
  <2> QED
    BY <2>1, <2>2
<1>8. CASE TransferNodes
  <2>1. /\ UNCHANGED <<ha, strategy, verdict>>
        /\ \A i \in Levels : i # level - 1 => nodes'[i] = nodes[i]
    BY <1>8, HandBackStep
  <2>2. Top # level - 1
    BY <1>1
  <2> QED
    BY <1>1, <2>1, <2>2, LastTreeKept
<1>9. CASE UNCHANGED cegarVars
  BY <1>9, LastTreeKept DEF cegarVars
<1> QED
  BY <1>2, <1>3, <1>4, <1>5, <1>6, <1>7, <1>8, <1>9
  DEF Next, Analyze, RunStarts, RunElapses, RunJumps, cegarVars

LEMMA ReachedInit ==
  ASSUME Init
  PROVE  ReachedInv
<1>1. LevelsInv
  BY LevelsInit
<1>2. Top \in Levels /\ Top > 1 /\ Top \in Nat
  BY <1>1, LevelTypes DEF LevelsInv
<1>3. nodes[Top] = << >> /\ verdict = "none"
  BY <1>2 DEF Init
<1> QED
  BY <1>3 DEF ReachedInv

(* If the last level is exact, all it has in its tree is reached by runs.  *)
LEMMA ReachedInvariance == Spec => []ReachedInv
<1>1. Init => ReachedInv
  BY ReachedInit
<1>2. LevelsInv /\ PathInv /\ ReachedInv /\ [Next]_<<cegarVars, run>> => ReachedInv'
  BY ReachedNext
<1> QED
  BY <1>1, <1>2, LevelsInvariance, PathsInvariance, PTL DEF Spec

(* No conflict is spurious: with an exact last level, whatever the levels  *)
(* before it are, CEGARAnalyzer::run only gives an unknown verdict if a    *)
(* run of the automaton within the bounds meets a bad state.               *)
THEOREM UnknownVerdictsAreReal ==
  Spec => [](LastIsExact /\ InitialStatesExist => UnknownIsReal)
<1>1. ReachedInv => (LastIsExact /\ InitialStatesExist => UnknownIsReal)
  BY DEF ReachedInv, UnknownIsReal
<1> QED
  BY <1>1, ReachedInvariance, PTL
=============================================================================
