------------------------- MODULE RectangularProofs -------------------------
(***************************************************************************)
(* Proofs about the rectangular and the singular analyzer, for every       *)
(* automaton, every setting and every representation: what the operations  *)
(* of the workers compute, which facts about a node last while the tree    *)
(* grows, that every step of each analyzer preserves its invariant, that   *)
(* the tree of one analyzer is found in that of the other, and the         *)
(* theorems that follow.                                                   *)
(***************************************************************************)
EXTENDS RectangularInvariant, FiniteSetTheorems, Induction

LEMMA AutomatonTypes ==
  ASSUME NEW A \in Automata
  PROVE  /\ A.flow \in [Location -> [Point -> SUBSET Point]]
         /\ A.invariant \in [Location -> SUBSET Point]
         /\ A.localBad \in [Location -> SUBSET Point]
         /\ A.globalBad \in SUBSET Point
         /\ A.initial \in Seq([loc : Location, set : SUBSET Point])
         /\ A.transition \in Seq(TransitionType)
BY AutomataAssumption DEF RectangularAutomatonType

LEMMA TransitionTypes ==
  ASSUME NEW A \in Automata, NEW t \in DOMAIN A.transition
  PROVE  /\ A.transition[t].source \in Location
         /\ A.transition[t].target \in Location
         /\ A.transition[t].guard \in SUBSET Point
         /\ A.transition[t].reset \in [Point -> SUBSET Point]
<1>1. A.transition[t] \in TransitionType
  BY AutomatonTypes
<1> QED
  BY <1>1 DEF TransitionType

LEMMA SettingTypes ==
  ASSUME NEW P \in Parameters
  PROVE  P.horizon \in Int /\ P.jumpDepth \in Nat
BY ParametersAssumption DEF ParameterType

LEMMA OverContains ==
  ASSUME NEW S \in SUBSET Point
  PROVE  Over[S] \in SUBSET Point /\ S \subseteq Over[S]
BY OverAssumption

LEMMA IntersectContains ==
  ASSUME NEW S \in SUBSET Point, NEW C
  PROVE  /\ Intersect(S, C) \in SUBSET Point
         /\ S \cap C \subseteq Intersect(S, C)
BY OverContains, S \cap C \in SUBSET Point DEF Intersect

LEMMA IntersectOfNothing ==
  ASSUME NEW C
  PROVE  Intersect({}, C) = {}
BY OverAssumption, {} \cap C = {} DEF Intersect

--------------------------------------------------------------------------
(* What a set can reach.                                                  *)

LEMMA ReachedIsMonotone ==
  ASSUME NEW A, NEW l, NEW S, NEW T, S \subseteq T, NEW h
  PROVE  Reached(A, l, S, h) \subseteq Reached(A, l, T, h)
<1>1. Within(A, l, S, h) \subseteq Within(A, l, T, h)
  <2> SUFFICES ASSUME NEW q \in Within(A, l, S, h)
               PROVE  q \in Within(A, l, T, h)
    OBVIOUS
  <2>1. PICK k \in 0..h : \E path \in [0..k -> Point] :
          path[0] \in S /\ (\A i \in 1..k : path[i] \in A.flow[l][path[i - 1]]) /\ path[k] = q
    BY DEF Within
  <2> QED
    BY <2>1 DEF Within
<1>2. Ever(A, l, S) \subseteq Ever(A, l, T)
  BY DEF Ever
<1> QED
  BY <1>1, <1>2 DEF Reached

LEMMA ReachedIsPoints ==
  ASSUME NEW A, NEW l, NEW S, NEW h
  PROVE  Reached(A, l, S, h) \in SUBSET Point
BY DEF Reached, Within, Ever

(* Nothing is reached from nothing.                                       *)
LEMMA ReachedFromNothing ==
  ASSUME NEW A, NEW l, NEW h
  PROVE  Reached(A, l, {}, h) = {}
<1>1. Within(A, l, {}, h) = {}
  BY DEF Within
<1>2. Image({}, A.flow[l]) = {}
  BY DEF Image
<1>3. Ever(A, l, {}) = {}
  BY <1>2 DEF Ever
<1> QED
  BY <1>1, <1>3 DEF Reached

(* A run of no steps.                                                     *)
LEMMA ReachedAtOnce ==
  ASSUME NEW A, NEW l, NEW S \in SUBSET Point, NEW h \in Int
  PROVE  S \subseteq Reached(A, l, S, h)
<1> SUFFICES ASSUME NEW p \in S
             PROVE  p \in Reached(A, l, S, h)
  OBVIOUS
<1>1. CASE h < 0
  BY <1>1 DEF Reached, Ever
<1>2. CASE ~(h < 0)
  <2> DEFINE path == [i \in 0..0 |-> p]
  <2>1. 0 \in 0..h /\ 1..0 = {} /\ 0 \in 0..0
    BY <1>2
  <2>2. path \in [0..0 -> Point] /\ path[0] = p
    BY <2>1
  <2>3. \A i \in 1..0 : path[i] \in A.flow[l][path[i - 1]]
    BY <2>1
  <2> HIDE DEF path
  <2>4. p \in Within(A, l, S, h)
    BY <2>1, <2>2, <2>3 DEF Within
  <2> QED
    BY <1>2, <2>4 DEF Reached
<1> QED
  BY <1>1, <1>2

(* A run goes on by one step.                                             *)
LEMMA WithinOneMore ==
  ASSUME NEW A, NEW l, NEW S, NEW h \in Nat,
         NEW p \in Within(A, l, S, h), NEW q \in Point, q \in A.flow[l][p]
  PROVE  q \in Within(A, l, S, h + 1)
<1>1. PICK k \in 0..h : \E path \in [0..k -> Point] :
        path[0] \in S /\ (\A i \in 1..k : path[i] \in A.flow[l][path[i - 1]]) /\ path[k] = p
  BY DEF Within
<1>2. PICK path \in [0..k -> Point] :
        path[0] \in S /\ (\A i \in 1..k : path[i] \in A.flow[l][path[i - 1]]) /\ path[k] = p
  BY <1>1
<1> DEFINE longer == [i \in 0..(k + 1) |-> IF i <= k THEN path[i] ELSE q]
<1>3. k \in Nat /\ k + 1 \in 0..(h + 1)
  OBVIOUS
<1>4. longer \in [0..(k + 1) -> Point]
  <2> SUFFICES ASSUME NEW i \in 0..(k + 1)
               PROVE  (IF i <= k THEN path[i] ELSE q) \in Point
    OBVIOUS
  <2>1. CASE i <= k
    <3>1. i \in 0..k
      BY <2>1, <1>3
    <3> QED
      BY <3>1, <2>1
  <2> QED
    BY <2>1
<1>5. longer[0] = path[0] /\ longer[k + 1] = q
  BY <1>3
<1>6. \A i \in 1..(k + 1) : longer[i] \in A.flow[l][longer[i - 1]]
  <2> SUFFICES ASSUME NEW i \in 1..(k + 1)
               PROVE  longer[i] \in A.flow[l][longer[i - 1]]
    OBVIOUS
  <2>1. i \in 0..(k + 1) /\ i - 1 \in 0..(k + 1) /\ i - 1 <= k
    BY <1>3
  <2>2. longer[i - 1] = path[i - 1]
    BY <2>1
  <2>3. CASE i <= k
    <3>1. longer[i] = path[i] /\ i \in 1..k
      BY <2>1, <2>3, <1>3
    <3> HIDE DEF longer
    <3> QED
      BY <3>1, <2>2, <1>2
  <2>4. CASE ~(i <= k)
    <3>1. longer[i] = q /\ i - 1 = k
      BY <2>1, <2>4, <1>3
    <3> HIDE DEF longer
    <3> QED
      BY <3>1, <2>2, <1>2
  <2> QED
    BY <2>3, <2>4
<1> HIDE DEF longer
<1>7. longer[0] \in S
  BY <1>5, <1>2
<1> QED
  BY <1>3, <1>4, <1>5, <1>6, <1>7 DEF Within

LEMMA EverOneMore ==
  ASSUME NEW A, NEW l, NEW S,
         NEW p \in Ever(A, l, S), NEW q \in Point, q \in A.flow[l][p]
  PROVE  q \in Ever(A, l, S)
<1> SUFFICES ASSUME NEW T \in SUBSET Point, S \subseteq T, Image(T, A.flow[l]) \subseteq T
             PROVE  q \in T
  BY DEF Ever
<1>1. p \in T
  BY DEF Ever
<1>2. q \in Image(T, A.flow[l])
  BY <1>1 DEF Image
<1> QED
  BY <1>2

LEMMA WithinLonger ==
  ASSUME NEW A, NEW l, NEW S, NEW h \in Nat, NEW g \in Nat, h <= g
  PROVE  Within(A, l, S, h) \subseteq Within(A, l, S, g)
<1> SUFFICES ASSUME NEW q \in Within(A, l, S, h)
             PROVE  q \in Within(A, l, S, g)
  OBVIOUS
<1>1. PICK k \in 0..h : \E path \in [0..k -> Point] :
        path[0] \in S /\ (\A i \in 1..k : path[i] \in A.flow[l][path[i - 1]]) /\ path[k] = q
  BY DEF Within
<1>2. k \in 0..g
  OBVIOUS
<1> QED
  BY <1>1, <1>2 DEF Within

--------------------------------------------------------------------------
(* The time evolution.                                                    *)

TimeSuccessorSet(A, l, S, h) ==
  Intersect(TimeElapse(A, l, Intersect(S, A.invariant[l]), h), A.invariant[l])

LEMMA TimeSuccessorsAreVisited ==
  ASSUME NEW A \in Automata, NEW P \in Parameters, NEW l \in Location, NEW S \in SUBSET Point
  PROVE  /\ TimeSuccessorSet(A, l, S, P.horizon) \in SUBSET Point
         /\ Visited(A, P, l, S) \subseteq TimeSuccessorSet(A, l, S, P.horizon)
         /\ Intersect(S, A.invariant[l]) = {} => Visited(A, P, l, S) = {}
<1> DEFINE I == A.invariant[l]
           segment == Intersect(S, I)
           reached == Reached(A, l, segment, P.horizon)
<1>1. segment \in SUBSET Point /\ S \cap I \subseteq segment
  BY IntersectContains
<1>2. reached \in SUBSET Point
  BY ReachedIsPoints
<1>3. Over[reached] \in SUBSET Point /\ reached \subseteq Over[reached]
  BY <1>2, OverContains
<1>4. /\ Intersect(Over[reached], I) \in SUBSET Point
      /\ Over[reached] \cap I \subseteq Intersect(Over[reached], I)
  BY <1>3, IntersectContains
<1>5. Reached(A, l, S \cap I, P.horizon) \subseteq reached
  BY <1>1, ReachedIsMonotone
<1>6. TimeSuccessorSet(A, l, S, P.horizon) = Intersect(Over[reached], I)
  BY DEF TimeSuccessorSet, TimeElapse
<1>7. Visited(A, P, l, S) = Reached(A, l, S \cap I, P.horizon) \cap I
  BY DEF Visited
<1>8. segment = {} => Visited(A, P, l, S) = {}
  BY <1>5, <1>7, ReachedFromNothing
<1> QED
  BY <1>3, <1>4, <1>5, <1>6, <1>7, <1>8

(* Every bad state is found, unless the global condition has no           *)
(* constraints.                                                           *)
LEMMA RectangularBadStates ==
  ASSUME NEW A \in Automata, NEW l \in Location, NEW S \in SUBSET Point,
         A.globalBad # Point, RectangularIntersectBadStates(A, l, S) = {}
  PROVE  S \cap BadStates(A, l) = {}
<1>1. Intersect(S, A.localBad[l]) = {} /\ Intersect(S, A.globalBad) = {}
  BY DEF RectangularIntersectBadStates
<1>2. S \cap A.localBad[l] = {} /\ S \cap A.globalBad = {}
  BY <1>1, IntersectContains
<1> QED
  BY <1>2 DEF BadStates

(* Every bad state is found, unless the local condition is false.         *)
LEMMA LtiBadStates ==
  ASSUME NEW A \in Automata, NEW l \in Location, NEW S \in SUBSET Point,
         A.localFalse = {}, ~LtiIntersectsBadStates(A, l, S)
  PROVE  S \cap BadStates(A, l) = {}
<1>1. Intersect(S, A.localBad[l]) = {} /\ Intersect(S, A.globalBad) = {}
  BY DEF LtiIntersectsBadStates
<1>2. S \cap A.localBad[l] = {} /\ S \cap A.globalBad = {}
  BY <1>1, IntersectContains
<1> QED
  BY <1>2 DEF BadStates

LEMMA BadIntersectionType ==
  ASSUME NEW A \in Automata, NEW l \in Location, NEW S \in SUBSET Point
  PROVE  RectangularIntersectBadStates(A, l, S) \in SUBSET Point
BY IntersectContains DEF RectangularIntersectBadStates

(* What computeTimeSuccessors promises, whatever it is of the two.        *)
IsTimeResult(A, P, l, S, isSound, computed) ==
  /\ computed.states \in Seq(SUBSET Point)
  /\ Len(computed.states) <= 1
  /\ computed.safe \in BOOLEAN
  /\ computed.safe => \A p \in Visited(A, P, l, S) : InFlowpipe(computed.states, p)
  /\ isSound /\ computed.safe => IsSafeAt(A, l, computed.states)

LEMMA OneState ==
  ASSUME NEW S \in SUBSET Point
  PROVE  /\ <<S>> \in Seq(SUBSET Point) /\ Len(<<S>>) = 1
         /\ \A p \in S : InFlowpipe(<<S>>, p)
         /\ \A A, l : S \cap BadStates(A, l) = {} => IsSafeAt(A, l, <<S>>)
<1>1. <<S>> \in Seq(SUBSET Point) /\ Len(<<S>>) = 1 /\ DOMAIN <<S>> = 1..1 /\ <<S>>[1] = S
  OBVIOUS
<1>2. \A p \in S : InFlowpipe(<<S>>, p)
  BY <1>1 DEF InFlowpipe
<1>3. \A A, l : S \cap BadStates(A, l) = {} => IsSafeAt(A, l, <<S>>)
  BY <1>1 DEF IsSafeAt
<1> QED
  BY <1>1, <1>2, <1>3

LEMMA NoState ==
  /\ << >> \in Seq(SUBSET Point) /\ Len(<< >>) = 0 /\ DOMAIN << >> = {}
  /\ \A A, l : IsSafeAt(A, l, << >>)
BY DEF IsSafeAt

LEMMA RectangularTimeSuccessors ==
  ASSUME NEW A \in Automata, NEW P \in Parameters, NEW l \in Location, NEW S \in SUBSET Point
  PROVE  IsTimeResult(A, P, l, S, A.globalBad # Point, TimeSuccessors(A, l, S, P.horizon))
<1> DEFINE segment == Intersect(S, A.invariant[l])
           bad == RectangularIntersectBadStates(A, l, segment)
           successors == TimeSuccessorSet(A, l, S, P.horizon)
           computed == TimeSuccessors(A, l, S, P.horizon)
<1>0. A.invariant[l] \in SUBSET Point
  BY AutomatonTypes
<1>1. segment \in SUBSET Point /\ successors \in SUBSET Point
  <2>1. segment \in SUBSET Point
    BY <1>0, IntersectContains
  <2>2. TimeSuccessorSet(A, l, S, P.horizon) \in SUBSET Point
    BY TimeSuccessorsAreVisited
  <2> QED
    BY <2>1, <2>2
<1>2. bad \in SUBSET Point
  BY <1>1, BadIntersectionType
<1>3. computed = IF segment = {} THEN [states |-> << >>, safe |-> TRUE]
                 ELSE IF bad # {} THEN [states |-> <<bad>>, safe |-> FALSE]
                 ELSE [states |-> <<successors>>,
                       safe |-> RectangularIntersectBadStates(A, l, successors) = {}]
  BY DEF TimeSuccessors, TimeSuccessorSet
<1>4. /\ Visited(A, P, l, S) \subseteq successors
      /\ segment = {} => Visited(A, P, l, S) = {}
  BY TimeSuccessorsAreVisited
<1> HIDE DEF segment, bad, successors, computed
<1>5. CASE segment = {}
  <2>1. computed.states = << >> /\ computed.safe = TRUE
    BY <1>3, <1>5
  <2>2. computed.states \in Seq(SUBSET Point) /\ Len(computed.states) <= 1
    BY <2>1, NoState
  <2>3. computed.safe \in BOOLEAN
    BY <2>1
  <2>4. \A p \in Visited(A, P, l, S) : InFlowpipe(computed.states, p)
    BY <1>4, <1>5
  <2>5. IsSafeAt(A, l, computed.states)
    BY <2>1, NoState
  <2> QED
    BY <2>2, <2>3, <2>4, <2>5 DEF IsTimeResult, computed
<1>6. CASE segment # {} /\ bad # {}
  <2>1. computed.states = <<bad>> /\ computed.safe = FALSE
    BY <1>3, <1>6
  <2>2. computed.states \in Seq(SUBSET Point) /\ Len(computed.states) <= 1
    BY <2>1, <1>2, OneState
  <2> QED
    BY <2>1, <2>2 DEF IsTimeResult, computed
<1>7. CASE segment # {} /\ bad = {}
  <2>1. /\ computed.states = <<successors>>
        /\ computed.safe = (RectangularIntersectBadStates(A, l, successors) = {})
    BY <1>3, <1>7
  <2>3. \A p \in Visited(A, P, l, S) : InFlowpipe(computed.states, p)
    BY <2>1, <1>1, <1>4, OneState
  <2>4. ASSUME A.globalBad # Point, computed.safe
        PROVE  IsSafeAt(A, l, computed.states)
    <3>1. successors \cap BadStates(A, l) = {}
      BY <2>1, <2>4, <1>1, RectangularBadStates
    <3> QED
      BY <3>1, <2>1, <1>1, OneState
  <2> QED
    BY <2>1, <2>3, <2>4, <1>1, OneState DEF IsTimeResult, computed
<1> QED
  BY <1>5, <1>6, <1>7

LEMMA SingularTimeSuccessors ==
  ASSUME NEW A \in Automata, NEW P \in Parameters, NEW l \in Location, NEW S \in SUBSET Point
  PROVE  IsTimeResult(A, P, l, S, A.localFalse = {}, Singular!TimeSuccessors(A, l, S, P.horizon))
<1> DEFINE segment == Intersect(S, A.invariant[l])
           successors == TimeSuccessorSet(A, l, S, P.horizon)
           computed == Singular!TimeSuccessors(A, l, S, P.horizon)
<1>0. A.invariant[l] \in SUBSET Point
  BY AutomatonTypes
<1>1. segment \in SUBSET Point /\ successors \in SUBSET Point
  <2>1. segment \in SUBSET Point
    BY <1>0, IntersectContains
  <2>2. TimeSuccessorSet(A, l, S, P.horizon) \in SUBSET Point
    BY TimeSuccessorsAreVisited
  <2> QED
    BY <2>1, <2>2
<1>2. \A T : Singular!LtiIntersectsBadStates(A, l, T) = LtiIntersectsBadStates(A, l, T)
  BY DEF LtiIntersectsBadStates, Singular!LtiIntersectsBadStates, Intersect, Singular!Intersect
<1>3. computed = IF segment = {} THEN [states |-> << >>, safe |-> TRUE]
                 ELSE IF LtiIntersectsBadStates(A, l, segment) THEN [states |-> << >>, safe |-> FALSE]
                 ELSE IF successors = {} THEN [states |-> << >>, safe |-> TRUE]
                 ELSE [states |-> <<successors>>, safe |-> ~LtiIntersectsBadStates(A, l, successors)]
  BY <1>2 DEF Singular!TimeSuccessors, TimeSuccessorSet, Intersect, Singular!Intersect,
     TimeElapse, Singular!TimeElapse, Reached, Singular!Reached, Within, Singular!Within,
     Ever, Singular!Ever, Image, Singular!Image
<1>4. /\ Visited(A, P, l, S) \subseteq successors
      /\ segment = {} => Visited(A, P, l, S) = {}
  BY TimeSuccessorsAreVisited
<1> HIDE DEF segment, successors, computed
<1>5. CASE segment = {} \/ (~LtiIntersectsBadStates(A, l, segment) /\ successors = {})
  <2>1. computed.states = << >> /\ computed.safe = TRUE
    BY <1>3, <1>5
  <2>2. Visited(A, P, l, S) = {}
    BY <1>4, <1>5
  <2>3. computed.states \in Seq(SUBSET Point) /\ Len(computed.states) <= 1
    BY <2>1, NoState
  <2>4. computed.safe \in BOOLEAN /\ IsSafeAt(A, l, computed.states)
    BY <2>1, NoState
  <2> QED
    BY <2>2, <2>3, <2>4 DEF IsTimeResult, computed
<1>6. CASE segment # {} /\ LtiIntersectsBadStates(A, l, segment)
  <2>1. computed.states = << >> /\ computed.safe = FALSE
    BY <1>3, <1>6
  <2>2. computed.states \in Seq(SUBSET Point) /\ Len(computed.states) <= 1
    BY <2>1, NoState
  <2> QED
    BY <2>1, <2>2 DEF IsTimeResult, computed
<1>7. CASE segment # {} /\ ~LtiIntersectsBadStates(A, l, segment) /\ successors # {}
  <2>1. /\ computed.states = <<successors>>
        /\ computed.safe = ~LtiIntersectsBadStates(A, l, successors)
    BY <1>3, <1>7
  <2>2. LtiIntersectsBadStates(A, l, successors) \in BOOLEAN
    BY DEF LtiIntersectsBadStates
  <2>3. \A p \in Visited(A, P, l, S) : InFlowpipe(computed.states, p)
    BY <2>1, <1>1, <1>4, OneState
  <2>4. ASSUME A.localFalse = {}, computed.safe
        PROVE  IsSafeAt(A, l, computed.states)
    <3>1. successors \cap BadStates(A, l) = {}
      BY <2>1, <2>4, <1>1, LtiBadStates
    <3> QED
      BY <3>1, <2>1, <1>1, OneState
  <2> QED
    BY <2>1, <2>2, <2>3, <2>4, <1>1, OneState DEF IsTimeResult, computed
<1> QED
  BY <1>5, <1>6, <1>7
--------------------------------------------------------------------------
(* The jumps.                                                             *)

LEMMA FollowsTypes ==
  ASSUME NEW A \in Automata, NEW l, NEW p \in Point, NEW t, NEW q, Follows(A, l, p, t, q)
  PROVE  /\ t \in DOMAIN A.transition /\ t \in TransitionsFrom(A, l)
         /\ p \in A.transition[t].guard /\ q \in A.transition[t].reset[p]
         /\ q \in A.invariant[A.transition[t].target]
         /\ q \in Point
<1>1. /\ t \in DOMAIN A.transition /\ t \in TransitionsFrom(A, l)
      /\ p \in A.transition[t].guard /\ q \in A.transition[t].reset[p]
      /\ q \in A.invariant[A.transition[t].target]
  BY DEF Follows, TransitionsFrom
<1>2. A.transition[t].reset[p] \in SUBSET Point
  BY <1>1, TransitionTypes
<1> QED
  BY <1>1, <1>2

LEMMA ApplyJumpContains ==
  ASSUME NEW A \in Automata, NEW t \in DOMAIN A.transition, NEW S \in SUBSET Point
  PROVE  /\ ApplyJump(A, t, S) \in SUBSET Point
         /\ \A p \in S : \A q \in A.transition[t].reset[p] :
              q \in A.invariant[A.transition[t].target] => q \in ApplyJump(A, t, S)
<1> DEFINE I == A.invariant[A.transition[t].target]
           image == Image(S, A.transition[t].reset)
<1>1. \A p \in S : A.transition[t].reset[p] \in SUBSET Point
  BY TransitionTypes
<1>2. image \in SUBSET Point /\ \A p \in S : A.transition[t].reset[p] \subseteq image
  BY <1>1 DEF Image
<1> HIDE DEF image
<1>3. Over[image] \in SUBSET Point /\ image \subseteq Over[image]
  BY <1>2, OverContains
<1>4. /\ Intersect(Over[image], I) \in SUBSET Point
      /\ Over[image] \cap I \subseteq Intersect(Over[image], I)
  BY <1>3, IntersectContains
<1>5. ApplyJump(A, t, S) = Intersect(Over[image], I)
  BY DEF ApplyJump, image
<1> QED
  BY <1>2, <1>3, <1>4, <1>5

(* The successors computed from a state of the flowpipe.                  *)
Successor(A, fp, k, t) == ApplyJump(A, t, Intersect(fp[k], A.transition[t].guard))

LEMMA SuccessorContains ==
  ASSUME NEW A \in Automata, NEW t \in DOMAIN A.transition,
         NEW fp \in Seq(SUBSET Point), NEW k \in DOMAIN fp
  PROVE  /\ Successor(A, fp, k, t) \in SUBSET Point
         /\ \A l, q : \A p \in fp[k] : Follows(A, l, p, t, q) =>
              q \in Successor(A, fp, k, t) /\ p \in Intersect(fp[k], A.transition[t].guard)
<1>1. fp[k] \in SUBSET Point
  OBVIOUS
<1> DEFINE enabled == Intersect(fp[k], A.transition[t].guard)
<1>2. enabled \in SUBSET Point /\ fp[k] \cap A.transition[t].guard \subseteq enabled
  BY <1>1, IntersectContains
<1>3. Successor(A, fp, k, t) = ApplyJump(A, t, enabled)
  BY DEF Successor
<1> HIDE DEF enabled
<1>4. ASSUME NEW l, NEW q, NEW p \in fp[k], Follows(A, l, p, t, q)
      PROVE  q \in Successor(A, fp, k, t) /\ p \in enabled
  <2>1. /\ p \in A.transition[t].guard /\ q \in A.transition[t].reset[p]
        /\ q \in A.invariant[A.transition[t].target]
    BY <1>4 DEF Follows
  <2>2. p \in enabled
    BY <2>1, <1>2, <1>4
  <2> QED
    BY <2>1, <2>2, <1>2, <1>3, ApplyJumpContains
<1>5. ApplyJump(A, t, enabled) \in SUBSET Point
  BY <1>2, ApplyJumpContains
<1> QED
  BY <1>3, <1>4, <1>5 DEF enabled

LEMMA RectangularJumpSuccessors ==
  ASSUME NEW A \in Automata, NEW l, NEW fp \in Seq(SUBSET Point)
  PROVE  LET sets == JumpSuccessorSets(A, l, fp)
         IN  /\ DOMAIN sets \subseteq (DOMAIN A.transition) \X (DOMAIN fp)
             /\ \A s \in DOMAIN sets : sets[s] \in (SUBSET Point) \ {{}}
             /\ \A p, t, q : InFlowpipe(fp, p) /\ Follows(A, l, p, t, q) =>
                  \E s \in DOMAIN sets : s[1] = t /\ q \in sets[s]
<1> DEFINE sets == JumpSuccessorSets(A, l, fp)
           jumps == {s \in TransitionsFrom(A, l) \X (DOMAIN fp) : JumpImage(A, fp, s) # {}}
<1>1. sets = [s \in jumps |-> JumpImage(A, fp, s)]
  BY DEF JumpSuccessorSets
<1>2. \A s : JumpImage(A, fp, s) = Successor(A, fp, s[2], s[1])
  BY DEF JumpImage, Successor
<1>3. jumps \subseteq (DOMAIN A.transition) \X (DOMAIN fp)
  BY DEF TransitionsFrom
<1>4. \A s \in jumps : s[1] \in DOMAIN A.transition /\ s[2] \in DOMAIN fp
  BY <1>3
<1>5. \A s \in jumps : JumpImage(A, fp, s) \in (SUBSET Point) \ {{}}
  <2> SUFFICES ASSUME NEW s \in jumps
               PROVE  JumpImage(A, fp, s) \in (SUBSET Point) \ {{}}
    OBVIOUS
  <2>1. Successor(A, fp, s[2], s[1]) \in SUBSET Point
    BY <1>4, SuccessorContains
  <2> QED
    BY <2>1, <1>2
<1>6. ASSUME NEW p, NEW t, NEW q, InFlowpipe(fp, p), Follows(A, l, p, t, q)
      PROVE  \E s \in jumps : s[1] = t /\ q \in JumpImage(A, fp, s)
  <2>1. PICK k \in DOMAIN fp : p \in fp[k]
    BY <1>6 DEF InFlowpipe
  <2>2. p \in Point
    BY <2>1
  <2>3. t \in TransitionsFrom(A, l) /\ t \in DOMAIN A.transition
    BY <1>6, <2>2, FollowsTypes
  <2>4. q \in Successor(A, fp, k, t)
    BY <1>6, <2>1, <2>3, SuccessorContains
  <2>5. q \in JumpImage(A, fp, <<t, k>>)
    BY <2>4, <1>2
  <2>6. <<t, k>> \in jumps
    BY <2>1, <2>3, <2>5
  <2> QED
    BY <2>5, <2>6
<1> HIDE DEF jumps
<1>7. DOMAIN sets = jumps /\ \A s \in jumps : sets[s] = JumpImage(A, fp, s)
  BY <1>1
<1> HIDE DEF sets
<1>8. \A p, t, q : InFlowpipe(fp, p) /\ Follows(A, l, p, t, q) =>
        \E s \in DOMAIN sets : s[1] = t /\ q \in sets[s]
  BY <1>6, <1>7
<1> QED
  BY <1>3, <1>5, <1>7, <1>8 DEF sets

(* The last state that enables a transition is the only one.              *)
LEMMA SingularJumpSuccessors ==
  ASSUME NEW A \in Automata, NEW l, NEW fp \in Seq(SUBSET Point), Len(fp) <= 1
  PROVE  LET sets == Singular!JumpSuccessorSets(A, l, fp)
         IN  /\ DOMAIN sets \subseteq DOMAIN A.transition
             /\ \A t \in DOMAIN sets : sets[t] \in (SUBSET Point) \ {{}}
             /\ \A p, t, q : InFlowpipe(fp, p) /\ Follows(A, l, p, t, q) =>
                  t \in DOMAIN sets /\ q \in sets[t]
<1> DEFINE sets == Singular!JumpSuccessorSets(A, l, fp)
           enabling(t) == {k \in DOMAIN fp : Intersect(fp[k], A.transition[t].guard) # {}}
           last(t) == CHOOSE k \in enabling(t) : \A j \in enabling(t) : j <= k
           enabled == {t \in TransitionsFrom(A, l) : enabling(t) # {}}
           image == [t \in enabled |-> Successor(A, fp, last(t), t)]
           jumps == {t \in DOMAIN image : image[t] # {}}
<1>1. sets = [t \in jumps |-> image[t]]
  BY DEF Singular!JumpSuccessorSets, Singular!TransitionsFrom, TransitionsFrom, Successor,
     Singular!ApplyJump, ApplyJump, Singular!Intersect, Intersect, Singular!Image, Image
<1>2. \A k \in DOMAIN fp : k = 1
  OBVIOUS
<1>3. \A t \in enabled : last(t) = 1 /\ 1 \in DOMAIN fp /\ t \in DOMAIN A.transition
  <2> SUFFICES ASSUME NEW t \in enabled
               PROVE  last(t) = 1 /\ 1 \in DOMAIN fp /\ t \in DOMAIN A.transition
    OBVIOUS
  <2>1. enabling(t) # {} /\ enabling(t) \subseteq DOMAIN fp
    OBVIOUS
  <2>2. enabling(t) = {1}
    BY <2>1, <1>2
  <2> HIDE DEF enabling
  <2>3. last(t) = 1
    BY <2>2
  <2> QED
    BY <2>1, <2>2, <2>3 DEF TransitionsFrom
<1> HIDE DEF last, enabling
<1>4. DOMAIN image = enabled /\ \A t \in enabled : image[t] = Successor(A, fp, 1, t)
  BY <1>3
<1>5. \A t \in enabled : image[t] \in SUBSET Point
  BY <1>3, <1>4, SuccessorContains
<1>6. ASSUME NEW p, NEW t, NEW q, InFlowpipe(fp, p), Follows(A, l, p, t, q)
      PROVE  t \in enabled /\ q \in image[t]
  <2>1. PICK k \in DOMAIN fp : p \in fp[k]
    BY <1>6 DEF InFlowpipe
  <2>2. k = 1 /\ p \in Point
    BY <2>1, <1>2
  <2>3. t \in TransitionsFrom(A, l) /\ t \in DOMAIN A.transition
    BY <1>6, <2>2, FollowsTypes
  <2>4. q \in Successor(A, fp, k, t) /\ p \in Intersect(fp[k], A.transition[t].guard)
    BY <1>6, <2>1, <2>3, SuccessorContains
  <2>5. t \in enabled
    BY <2>1, <2>3, <2>4 DEF enabling
  <2> QED
    BY <2>2, <2>4, <2>5, <1>4
<1> HIDE DEF image, enabled
<1>7. DOMAIN sets = jumps /\ \A t \in jumps : sets[t] = image[t]
  BY <1>1
<1>8. jumps \subseteq enabled /\ \A t \in enabled : image[t] # {} => t \in jumps
  BY <1>4
<1>9. \A t \in jumps : image[t] # {}
  OBVIOUS
<1> HIDE DEF sets, jumps
<1>10. \A p, t, q : InFlowpipe(fp, p) /\ Follows(A, l, p, t, q) =>
         t \in DOMAIN sets /\ q \in sets[t]
  BY <1>6, <1>7, <1>8
<1>11. DOMAIN sets \subseteq DOMAIN A.transition
  BY <1>3, <1>7, <1>8
<1>12. \A t \in DOMAIN sets : sets[t] \in (SUBSET Point) \ {{}}
  BY <1>5, <1>7, <1>8, <1>9
<1> QED
  BY <1>10, <1>11, <1>12 DEF sets
--------------------------------------------------------------------------
(* The tree only grows: nodes are added, and states to their flowpipes.   *)

Grows(old, new) ==
  \A n \in DOMAIN old :
    /\ n \in DOMAIN new
    /\ new[n].parent = old[n].parent /\ new[n].transition = old[n].transition
    /\ new[n].location = old[n].location
    /\ new[n].depth = old[n].depth
    /\ new[n].initialSet = old[n].initialSet
    /\ \A p : InFlowpipe(old[n].flowpipe, p) => InFlowpipe(new[n].flowpipe, p)

LEMMA GrownTree ==
  ASSUME NEW A, NEW P, NEW old, NEW new, Grows(old, new), NEW n \in DOMAIN old
  PROVE  /\ VisitedAt(A, P, new, n) = VisitedAt(A, P, old, n)
         /\ Jumps(A, P, new, n) = Jumps(A, P, old, n)
         /\ IsCovered(A, P, old, n) => IsCovered(A, P, new, n)
         /\ \A t, q : HasChild(A, old, n, t, q) => HasChild(A, new, n, t, q)
         /\ Done(A, P, old, n) => Done(A, P, new, n)
<1>1. VisitedAt(A, P, new, n) = VisitedAt(A, P, old, n)
  BY DEF VisitedAt, Grows
<1>2. new[n].location = old[n].location /\ new[n].depth = old[n].depth
  BY DEF Grows
<1>3. Jumps(A, P, new, n) = Jumps(A, P, old, n)
  BY <1>1, <1>2 DEF Jumps
<1>4. IsCovered(A, P, old, n) => IsCovered(A, P, new, n)
  BY <1>1 DEF IsCovered, Grows
<1>5. \A t, q : HasChild(A, old, n, t, q) => HasChild(A, new, n, t, q)
  BY <1>2 DEF HasChild, Grows
<1>6. IsExpanded(A, P, old, n) => IsExpanded(A, P, new, n)
  BY <1>2, <1>3, <1>5 DEF IsExpanded
<1> QED
  BY <1>1, <1>3, <1>4, <1>5, <1>6 DEF Done

LEMMA GrownRoots ==
  ASSUME NEW A, NEW old, NEW new, Grows(old, new), HasRoots(A, old)
  PROVE  HasRoots(A, new)
BY DEF HasRoots, Grows

LEMMA SameTree ==
  ASSUME NEW tree
  PROVE  Grows(tree, tree)
BY DEF Grows

LEMMA NodeTypes ==
  ASSUME NEW tree \in Seq(NodeType), NEW n \in DOMAIN tree
  PROVE  /\ tree[n].parent \in Nat /\ tree[n].transition \in Nat
         /\ tree[n].location \in Location /\ tree[n].depth \in Nat
         /\ tree[n].initialSet \in SUBSET Point
         /\ tree[n].flowpipe \in Seq(SUBSET Point)
<1>1. tree[n] \in NodeType
  OBVIOUS
<1> QED
  BY <1>1 DEF NodeType

LEMMA AppendFacts ==
  ASSUME NEW T, NEW s \in Seq(T), NEW e
  PROVE  /\ Len(Append(s, e)) = Len(s) + 1
         /\ DOMAIN Append(s, e) = 1..Len(s) + 1
         /\ DOMAIN s = 1..Len(s) /\ Len(s) \in Nat
         /\ Len(s) + 1 \in DOMAIN Append(s, e)
         /\ Append(s, e)[Len(s) + 1] = e
         /\ \A i \in DOMAIN s : i \in DOMAIN Append(s, e) /\ Append(s, e)[i] = s[i]
         /\ \A i \in DOMAIN Append(s, e) : i \in DOMAIN s \/ i = Len(s) + 1
OBVIOUS

LEMMA ConcatFacts ==
  ASSUME NEW T, NEW s \in Seq(T), NEW e \in Seq(T)
  PROVE  /\ s \o e \in Seq(T)
         /\ \A p : InFlowpipe(s, p) \/ InFlowpipe(e, p) => InFlowpipe(s \o e, p)
         /\ \A A, l : IsSafeAt(A, l, s) /\ IsSafeAt(A, l, e) => IsSafeAt(A, l, s \o e)
<1>1. s \o e \in Seq(T) /\ Len(s \o e) = Len(s) + Len(e) /\ Len(s) \in Nat /\ Len(e) \in Nat
  OBVIOUS
<1>2. DOMAIN s = 1..Len(s) /\ DOMAIN e = 1..Len(e) /\ DOMAIN (s \o e) = 1..Len(s) + Len(e)
  BY <1>1
<1>3. \A k \in DOMAIN s : k \in DOMAIN (s \o e) /\ (s \o e)[k] = s[k]
  BY <1>1, <1>2
<1>4. \A k \in DOMAIN e : Len(s) + k \in DOMAIN (s \o e) /\ (s \o e)[Len(s) + k] = e[k]
  BY <1>1, <1>2
<1>5. \A k \in DOMAIN (s \o e) :
        \/ k \in DOMAIN s /\ (s \o e)[k] = s[k]
        \/ k - Len(s) \in DOMAIN e /\ (s \o e)[k] = e[k - Len(s)]
  BY <1>1, <1>2
<1>6. \A p : InFlowpipe(s, p) \/ InFlowpipe(e, p) => InFlowpipe(s \o e, p)
  BY <1>3, <1>4 DEF InFlowpipe
<1>7. \A A, l : IsSafeAt(A, l, s) /\ IsSafeAt(A, l, e) => IsSafeAt(A, l, s \o e)
  BY <1>5 DEF IsSafeAt
<1>8. s \o e \in Seq(T)
  BY <1>1
<1> QED
  BY <1>6, <1>7, <1>8

LEMMA RootsAreNodes ==
  ASSUME NEW A \in Automata
  PROVE  /\ Roots(A) \in Seq(NodeType)
         /\ HasRoots(A, Roots(A)) /\ ParentsFirst(Roots(A))
         /\ \A n \in DOMAIN Roots(A) : Roots(A)[n].flowpipe = << >>
<1> DEFINE root(i) == [parent |-> 0, transition |-> 0, location |-> A.initial[i].loc, depth |-> 0,
                       initialSet |-> A.initial[i].set, flowpipe |-> << >>]
<1>1. Len(A.initial) \in Nat /\ DOMAIN A.initial = 1..Len(A.initial)
  BY AutomatonTypes
<1>2. \A i \in DOMAIN A.initial : A.initial[i] \in [loc : Location, set : SUBSET Point]
  <2> DEFINE InitialState == [loc : Location, set : SUBSET Point]
  <2>1. A.initial \in Seq(InitialState)
    BY AutomatonTypes
  <2> HIDE DEF InitialState
  <2>2. \A i \in DOMAIN A.initial : A.initial[i] \in InitialState
    BY <2>1
  <2> QED
    BY <2>2 DEF InitialState
<1>3. \A i \in DOMAIN A.initial : root(i) \in NodeType
  <2> SUFFICES ASSUME NEW i \in DOMAIN A.initial
               PROVE  root(i) \in NodeType
    OBVIOUS
  <2>1. A.initial[i].loc \in Location /\ A.initial[i].set \in SUBSET Point
    BY <1>2
  <2>2. << >> \in Seq(SUBSET Point)
    OBVIOUS
  <2> QED
    BY <2>1, <2>2 DEF NodeType
<1>4. Roots(A) = [i \in 1..Len(A.initial) |-> root(i)]
  BY <1>1 DEF Roots
<1>5. \A i \in DOMAIN A.initial : /\ root(i).parent = 0
                                 /\ root(i).location = A.initial[i].loc /\ root(i).depth = 0
                                 /\ root(i).initialSet = A.initial[i].set
                                 /\ root(i).flowpipe = << >>
  OBVIOUS
<1> HIDE DEF root
<1>6. Roots(A) \in Seq(NodeType)
  BY <1>1, <1>3, <1>4
<1>7. DOMAIN Roots(A) = DOMAIN A.initial /\ \A i \in DOMAIN A.initial : Roots(A)[i] = root(i)
  BY <1>1, <1>4
<1>8. ParentsFirst(Roots(A))
  BY <1>1, <1>5, <1>7 DEF ParentsFirst
<1> QED
  BY <1>5, <1>6, <1>7, <1>8 DEF HasRoots

LEMMA ChildIsNode ==
  ASSUME NEW A \in Automata, NEW tree \in Seq(NodeType), NEW n \in DOMAIN tree,
         NEW t \in DOMAIN A.transition, NEW S \in SUBSET Point
  PROVE  LET child == Child(A, tree, n, t, S)
             new == Append(tree, child)
         IN  /\ new \in Seq(NodeType)
             /\ Grows(tree, new)
             /\ \A q \in S : HasChild(A, new, n, t, q)
             /\ ParentsFirst(tree) => ParentsFirst(new)
             /\ IsSafe(A, tree) => IsSafe(A, new)
<1> DEFINE child == Child(A, tree, n, t, S)
           new == Append(tree, child)
<1>1. n \in Nat /\ t \in Nat
  <2>1. A.transition \in Seq(TransitionType)
    BY AutomatonTypes
  <2> QED
    BY <2>1
<1>2. /\ child.parent = n /\ child.transition = t
      /\ child.location = A.transition[t].target /\ child.depth = tree[n].depth + 1
      /\ child.initialSet = S /\ child.flowpipe = << >>
  BY DEF Child
<1>3. child \in NodeType
  <2>1. tree[n].depth + 1 \in Nat /\ A.transition[t].target \in Location
    BY NodeTypes, TransitionTypes
  <2>2. << >> \in Seq(SUBSET Point)
    OBVIOUS
  <2> QED
    BY <1>1, <2>1, <2>2 DEF Child, NodeType
<1> HIDE DEF child
<1>4. new \in Seq(NodeType)
  BY <1>3
<1>5. /\ \A i \in DOMAIN tree : i \in DOMAIN new /\ new[i] = tree[i]
      /\ Len(tree) + 1 \in DOMAIN new /\ new[Len(tree) + 1] = child
      /\ \A i \in DOMAIN new : i \in DOMAIN tree \/ i = Len(tree) + 1
  BY AppendFacts
<1> HIDE DEF new
<1>6. Grows(tree, new)
  BY <1>5 DEF Grows
<1>7. \A q \in S : HasChild(A, new, n, t, q)
  BY <1>2, <1>5 DEF HasChild
<1>8. IsSafeAt(A, child.location, child.flowpipe)
  BY <1>2, NoState
<1>9. IsSafe(A, tree) => IsSafe(A, new)
  BY <1>5, <1>8 DEF IsSafe
<1>10. ParentsFirst(tree) => ParentsFirst(new)
  <2>1. n \in 0..Len(tree) + 1 - 1
    OBVIOUS
  <2> QED
    BY <2>1, <1>2, <1>5 DEF ParentsFirst
<1> QED
  BY <1>4, <1>6, <1>7, <1>9, <1>10 DEF new, child

(* A flowpipe becomes longer.                                             *)
LongerAt(tree, n, fp) == [tree EXCEPT ![n].flowpipe = fp]

LEMMA LongerFlowpipe ==
  ASSUME NEW A, NEW tree \in Seq(NodeType), NEW n \in DOMAIN tree,
         NEW fp \in Seq(SUBSET Point),
         \A p : InFlowpipe(tree[n].flowpipe, p) => InFlowpipe(fp, p)
  PROVE  LET new == LongerAt(tree, n, fp)
         IN  /\ new \in Seq(NodeType) /\ DOMAIN new = DOMAIN tree
             /\ Grows(tree, new)
             /\ ParentsFirst(tree) => ParentsFirst(new)
             /\ new[n].flowpipe = fp
             /\ IsSafe(A, tree) /\ IsSafeAt(A, tree[n].location, fp) => IsSafe(A, new)
<1> DEFINE new == LongerAt(tree, n, fp)
           node == [tree[n] EXCEPT !.flowpipe = fp]
<1>1. tree[n] \in NodeType
  OBVIOUS
<1>2. /\ node \in NodeType /\ node.parent = tree[n].parent /\ node.transition = tree[n].transition
      /\ node.location = tree[n].location /\ node.depth = tree[n].depth
      /\ node.initialSet = tree[n].initialSet /\ node.flowpipe = fp
  BY <1>1 DEF NodeType
<1>3. new = [tree EXCEPT ![n] = node]
  BY DEF LongerAt
<1> HIDE DEF node
<1>4. /\ DOMAIN new = DOMAIN tree /\ new[n] = node
      /\ \A m \in DOMAIN tree : m # n => new[m] = tree[m]
  BY <1>3
<1>5. new \in Seq(NodeType)
  BY <1>2, <1>3
<1> HIDE DEF new
<1>6. Grows(tree, new)
  <2> SUFFICES ASSUME NEW m \in DOMAIN tree
               PROVE  /\ m \in DOMAIN new
                      /\ new[m].parent = tree[m].parent /\ new[m].transition = tree[m].transition
                      /\ new[m].location = tree[m].location
                      /\ new[m].depth = tree[m].depth
                      /\ new[m].initialSet = tree[m].initialSet
                      /\ \A p : InFlowpipe(tree[m].flowpipe, p) => InFlowpipe(new[m].flowpipe, p)
    BY DEF Grows
  <2>1. CASE m = n
    BY <2>1, <1>2, <1>4
  <2>2. CASE m # n
    BY <2>2, <1>4
  <2> QED
    BY <2>1, <2>2
<1>7. IsSafe(A, tree) /\ IsSafeAt(A, tree[n].location, fp) => IsSafe(A, new)
  BY <1>2, <1>4 DEF IsSafe
<1>8. ParentsFirst(tree) => ParentsFirst(new)
  BY <1>2, <1>4 DEF ParentsFirst
<1> QED
  BY <1>2, <1>4, <1>5, <1>6, <1>7, <1>8 DEF new

--------------------------------------------------------------------------
(* Each step of the rectangular analyzer preserves RectangularInv.        *)

LEMMA HeadOrTail ==
  ASSUME NEW T, NEW queue \in Seq(T), queue # << >>
  PROVE  /\ Head(queue) \in T /\ Tail(queue) \in Seq(T)
         /\ \A n : Queued(queue, n) => n = Head(queue) \/ Queued(Tail(queue), n)
<1>1. Len(queue) \in Nat /\ Len(queue) > 0 /\ DOMAIN queue = 1..Len(queue)
  OBVIOUS
<1>2. Head(queue) = queue[1] /\ Head(queue) \in T /\ Tail(queue) \in Seq(T)
  BY <1>1
<1>3. Len(Tail(queue)) = Len(queue) - 1 /\ DOMAIN Tail(queue) = 1..Len(queue) - 1
  BY <1>1
<1>4. \A i \in 1..Len(queue) - 1 : Tail(queue)[i] = queue[i + 1]
  BY <1>1
<1>5. ASSUME NEW i \in DOMAIN queue, i # 1
      PROVE  i - 1 \in DOMAIN Tail(queue) /\ Tail(queue)[i - 1] = queue[i]
  BY <1>1, <1>3, <1>4, <1>5
<1> QED
  BY <1>2, <1>5 DEF Queued

LEMMA AppendQueued ==
  ASSUME NEW T, NEW queue \in Seq(T), NEW e
  PROVE  \A n : Queued(queue, n) \/ n = e => Queued(Append(queue, e), n)
BY AppendFacts DEF Queued

LEMMA Typed ==
  ASSUME TypeOK
  PROVE  /\ ha \in Automata /\ par \in Parameters /\ par.jumpDepth \in Nat
         /\ nodes \in Seq(NodeType) /\ flowpipe \in Seq(SUBSET Point)
         /\ \A n \in DOMAIN nodes :
              /\ nodes[n].location \in Location /\ nodes[n].depth \in Nat
              /\ nodes[n].initialSet \in SUBSET Point
              /\ nodes[n].flowpipe \in Seq(SUBSET Point)
BY NodeTypes, SettingTypes DEF TypeOK

LEMMA RectangularStart ==
  ASSUME Init
  PROVE  RectangularInv
<1>1. ha \in Automata /\ par \in Parameters /\ nodes \in {Roots(ha), << >>}
  BY DEF Init
<1>2. nodes \in Seq(NodeType) /\ ParentsFirst(nodes)
      /\ \A n \in DOMAIN nodes : nodes[n].flowpipe = << >>
  <2>1. << >> \in Seq(NodeType) /\ DOMAIN << >> = {}
    OBVIOUS
  <2>2. ParentsFirst(<< >>)
    BY <2>1 DEF ParentsFirst
  <2> QED
    BY <1>1, <2>1, <2>2, RootsAreNodes
<1>3. TypeOK
  BY <1>1, <1>2 DEF Init, TypeOK, NoSuccessors
<1>4. ControlInv /\ TreeInv /\ WorkerInv
  BY DEF Init, ControlInv, TreeInv, WorkerInv, BusyPcs
<1>5. IsSafe(ha, nodes)
  BY <1>2, NoState DEF IsSafe
<1> QED
  BY <1>2, <1>3, <1>4, <1>5 DEF RectangularInv

LEMMA RectangularStutter ==
  ASSUME RectangularInv, UNCHANGED <<inputs, rectangularVars>>
  PROVE  RectangularInv'
<1>1. /\ ha' = ha /\ par' = par /\ nodes' = nodes /\ workQueue' = workQueue /\ task' = task
      /\ flowpipe' = flowpipe /\ jumpSuccessors' = jumpSuccessors /\ flowpipes' = flowpipes
      /\ pending' = pending /\ safe' = safe /\ pc' = pc /\ result' = result
  BY DEF inputs, rectangularVars, worker
<1>2. TypeOK'
  BY <1>1 DEF RectangularInv, TypeOK
<1>3. ControlInv' /\ TreeInv' /\ WorkerInv'
  BY <1>1 DEF RectangularInv, ControlInv, TreeInv, WorkerInv
<1> QED
  BY <1>1, <1>2, <1>3 DEF RectangularInv, SoundConfiguration

LEMMA InitializeQueueKeepsInv ==
  ASSUME RectangularInv, InitializeQueue
  PROVE  RectangularInv'
<1>1. TypeOK /\ ControlInv /\ pc = "start" /\ pc' = "dequeue"
  BY DEF RectangularInv, InitializeQueue
<1>2. /\ ha' = ha /\ par' = par /\ task' = task /\ flowpipe' = flowpipe
      /\ jumpSuccessors' = jumpSuccessors /\ flowpipes' = flowpipes
      /\ pending' = pending /\ safe' = safe /\ result' = result
  BY DEF InitializeQueue, inputs, worker
<1>3. nodes' = Roots(ha)
  BY <1>1 DEF InitializeQueue, ControlInv
<1>4. /\ nodes' \in Seq(NodeType) /\ HasRoots(ha, nodes') /\ ParentsFirst(nodes')
      /\ \A n \in DOMAIN nodes' : nodes'[n].flowpipe = << >>
  BY <1>1, <1>3, Typed, RootsAreNodes
<1>5. workQueue' = [i \in DOMAIN nodes' |-> i]
  BY DEF InitializeQueue, Indices
<1>6. workQueue' \in Seq(DOMAIN nodes') /\ \A n \in DOMAIN nodes' : Queued(workQueue', n)
  <2>1. DOMAIN nodes' = 1..Len(nodes') /\ Len(nodes') \in Nat
    BY <1>4
  <2>2. workQueue' \in Seq(DOMAIN nodes')
    BY <2>1, <1>5
  <2> QED
    BY <2>2, <1>5 DEF Queued
<1>7. task' \in {0} \cup DOMAIN nodes'
  <2>1. nodes = << >> \/ nodes = nodes'
    BY <1>1, <1>3 DEF ControlInv
  <2>2. nodes = << >> => DOMAIN nodes = {}
    OBVIOUS
  <2> QED
    BY <2>1, <2>2, <1>1, <1>2 DEF TypeOK
<1>8. TypeOK'
  BY <1>1, <1>2, <1>4, <1>6, <1>7 DEF TypeOK
<1>9. ControlInv' /\ TreeInv' /\ WorkerInv'
  BY <1>1, <1>2, <1>4, <1>6 DEF ControlInv, TreeInv, WorkerInv, BusyPcs
<1>10. IsSafe(ha, nodes')
  BY <1>4, NoState DEF IsSafe
<1> QED
  BY <1>2, <1>4, <1>8, <1>9, <1>10 DEF RectangularInv

LEMMA DequeueKeepsInv ==
  ASSUME RectangularInv, Dequeue
  PROVE  RectangularInv'
<1>1. TypeOK /\ ControlInv /\ TreeInv /\ pc = "dequeue" /\ pc' = "time" /\ workQueue # << >>
  BY DEF RectangularInv, Dequeue
<1>2. /\ ha' = ha /\ par' = par /\ nodes' = nodes /\ flowpipes' = flowpipes
      /\ pending' = pending /\ safe' = safe /\ result' = result
      /\ flowpipe' = << >> /\ jumpSuccessors' = NoSuccessors
  BY DEF Dequeue, inputs
<1>3. task' = Head(workQueue) /\ workQueue' = Tail(workQueue)
  BY DEF Dequeue
<1>4. /\ task' \in DOMAIN nodes /\ workQueue' \in Seq(DOMAIN nodes)
      /\ \A n : Queued(workQueue, n) => n = task' \/ Queued(workQueue', n)
  BY <1>1, <1>3, HeadOrTail DEF TypeOK
<1>5. pending = {} /\ result = "none" /\ safe
  BY <1>1 DEF ControlInv, TypeOK
<1>6. TypeOK'
  BY <1>1, <1>2, <1>4, <1>5 DEF TypeOK, NoSuccessors
<1>7. ControlInv' /\ WorkerInv'
  BY <1>1, <1>2, <1>4, <1>5 DEF ControlInv, WorkerInv, BusyPcs
<1>8. TreeInv'
  BY <1>1, <1>2, <1>4 DEF TreeInv, BusyPcs
<1> QED
  BY <1>2, <1>6, <1>7, <1>8 DEF RectangularInv, SoundConfiguration
LEMMA ComputeTimeSuccessorsKeepsInv ==
  ASSUME RectangularInv, ComputeTimeSuccessors
  PROVE  RectangularInv'
<1> DEFINE l == nodes[task].location
           S == nodes[task].initialSet
           computed == TimeSuccessors(ha, l, S, par.horizon)
           longer == nodes[task].flowpipe \o computed.states
<1>1. TypeOK /\ ControlInv /\ TreeInv /\ pc = "time" /\ task \in DOMAIN nodes
  BY DEF RectangularInv, ControlInv, ComputeTimeSuccessors, BusyPcs
<1>2. /\ ha' = ha /\ par' = par /\ workQueue' = workQueue /\ task' = task
      /\ jumpSuccessors' = jumpSuccessors /\ flowpipes' = flowpipes
      /\ pending' = pending /\ result' = result
  BY DEF ComputeTimeSuccessors, inputs
<1>3. /\ flowpipe' = flowpipe \o computed.states
      /\ nodes' = LongerAt(nodes, task, longer)
      /\ safe' = computed.safe
      /\ pc' = IF safe' /\ nodes[task].depth < par.jumpDepth THEN "jumps" ELSE "store"
  BY DEF ComputeTimeSuccessors, current, LongerAt
<1>4. flowpipe = << >> /\ jumpSuccessors = NoSuccessors /\ safe /\ pending = {} /\ result = "none"
  BY <1>1 DEF ControlInv, TypeOK
<1>5. IsTimeResult(ha, par, l, S, ha.globalBad # Point, computed)
  BY <1>1, Typed, RectangularTimeSuccessors
<1> HIDE DEF computed
<1>6. /\ flowpipe' = computed.states /\ flowpipe' \in Seq(SUBSET Point) /\ safe' \in BOOLEAN
      /\ safe' => \A p \in Visited(ha, par, l, S) : InFlowpipe(flowpipe', p)
      /\ ha.globalBad # Point /\ safe' => IsSafeAt(ha, l, flowpipe')
  BY <1>3, <1>4, <1>5 DEF IsTimeResult
<1>7. /\ longer \in Seq(SUBSET Point)
      /\ \A p : InFlowpipe(nodes[task].flowpipe, p) \/ InFlowpipe(flowpipe', p) => InFlowpipe(longer, p)
      /\ IsSafeAt(ha, l, nodes[task].flowpipe) /\ IsSafeAt(ha, l, flowpipe') => IsSafeAt(ha, l, longer)
  BY <1>1, <1>6, Typed, ConcatFacts
<1> HIDE DEF longer, l, S
<1>8. /\ nodes' \in Seq(NodeType) /\ DOMAIN nodes' = DOMAIN nodes
      /\ Grows(nodes, nodes') /\ nodes'[task].flowpipe = longer
      /\ ParentsFirst(nodes) => ParentsFirst(nodes')
      /\ IsSafe(ha, nodes) /\ IsSafeAt(ha, l, longer) => IsSafe(ha, nodes')
  <2>1. nodes \in Seq(NodeType)
    BY <1>1 DEF TypeOK
  <2> QED
    BY <2>1, <1>1, <1>3, <1>7, LongerFlowpipe DEF l
<1>9. TypeOK'
  <2>1. DOMAIN NoSuccessors = {}
    BY DEF NoSuccessors
  <2>2. pc' \in {"jumps", "store"}
    BY <1>3
  <2> QED
    BY <2>1, <2>2, <1>1, <1>2, <1>4, <1>6, <1>8 DEF TypeOK
<1>10. ControlInv'
  <2>1. nodes'[task].depth = nodes[task].depth
    BY <1>1, <1>8 DEF Grows
  <2> QED
    BY <2>1, <1>1, <1>2, <1>3, <1>4, <1>8 DEF ControlInv, BusyPcs
<1>11. VisitedAt(ha, par, nodes', task) = Visited(ha, par, l, S)
  <2>1. VisitedAt(ha, par, nodes', task) = VisitedAt(ha, par, nodes, task)
    BY <1>1, <1>8, GrownTree
  <2> QED
    BY <2>1 DEF VisitedAt, l, S
<1>12. safe' => IsCovered(ha, par, nodes', task)
  BY <1>6, <1>7, <1>8, <1>11 DEF IsCovered
<1>13. TreeInv'
  BY <1>1, <1>2, <1>3, <1>8, GrownTree, GrownRoots DEF TreeInv, BusyPcs
<1>14. WorkerInv'
  <2>1. nodes'[task].depth = nodes[task].depth
    BY <1>1, <1>8 DEF Grows
  <2>2. pc' = "store" /\ safe' => ~(nodes'[task].depth < par.jumpDepth)
    BY <2>1, <1>3
  <2>3. pc' # "children"
    BY <1>3
  <2> QED
    BY <2>2, <2>3, <1>2, <1>6, <1>11, <1>12 DEF WorkerInv
<1>15. SoundConfiguration' /\ safe' => IsSafe(ha, nodes')
  <2> SUFFICES ASSUME SoundConfiguration', safe'
               PROVE  IsSafe(ha, nodes')
    OBVIOUS
  <2>1. ha.globalBad # Point /\ SoundConfiguration
    BY <1>2 DEF SoundConfiguration
  <2>2. IsSafe(ha, nodes)
    BY <2>1, <1>4 DEF RectangularInv
  <2>3. IsSafeAt(ha, l, longer)
    BY <2>1, <2>2, <1>1, <1>6, <1>7 DEF IsSafe, l
  <2> QED
    BY <2>2, <2>3, <1>8
<1> QED
  BY <1>2, <1>8, <1>9, <1>10, <1>13, <1>14, <1>15 DEF RectangularInv

LEMMA ComputeJumpSuccessorsKeepsInv ==
  ASSUME RectangularInv, ComputeJumpSuccessors
  PROVE  RectangularInv'
<1> DEFINE sets == JumpSuccessorSets(ha, nodes[task].location, flowpipe)
<1>1. TypeOK /\ ControlInv /\ TreeInv /\ WorkerInv /\ pc = "jumps" /\ pc' = "store" /\ safe
  BY DEF RectangularInv, ControlInv, ComputeJumpSuccessors
<1>2. /\ ha' = ha /\ par' = par /\ nodes' = nodes /\ workQueue' = workQueue /\ task' = task
      /\ flowpipe' = flowpipe /\ flowpipes' = flowpipes
      /\ pending' = pending /\ safe' = safe /\ result' = result
  BY DEF ComputeJumpSuccessors, inputs
<1>3. jumpSuccessors' = sets
  BY DEF ComputeJumpSuccessors, current
<1>4. /\ DOMAIN sets \subseteq (DOMAIN ha.transition) \X (DOMAIN flowpipe)
      /\ \A s \in DOMAIN sets : sets[s] \in (SUBSET Point) \ {{}}
      /\ \A p, t, q : InFlowpipe(flowpipe, p) /\ Follows(ha, nodes[task].location, p, t, q) =>
           \E s \in DOMAIN sets : s[1] = t /\ q \in sets[s]
  BY <1>1, Typed, RectangularJumpSuccessors
<1> HIDE DEF sets
<1>5. pending = {} /\ result = "none"
  BY <1>1 DEF ControlInv, TypeOK
<1>6. TypeOK'
  BY <1>1, <1>2, <1>3, <1>4, <1>5 DEF TypeOK
<1>7. ControlInv' /\ TreeInv'
  BY <1>1, <1>2 DEF ControlInv, TreeInv, BusyPcs
<1>8. \A jump \in Jumps(ha, par, nodes, task) :
        \E s \in DOMAIN sets : s[1] = jump[1] /\ jump[2] \in sets[s]
  <2> SUFFICES ASSUME NEW jump \in Jumps(ha, par, nodes, task)
               PROVE  \E s \in DOMAIN sets : s[1] = jump[1] /\ jump[2] \in sets[s]
    OBVIOUS
  <2>1. PICK p \in VisitedAt(ha, par, nodes, task) :
          Follows(ha, nodes[task].location, p, jump[1], jump[2])
    BY DEF Jumps
  <2>2. InFlowpipe(flowpipe, p)
    BY <1>1 DEF WorkerInv
  <2> QED
    BY <2>1, <2>2, <1>4
<1>9. WorkerInv'
  BY <1>1, <1>2, <1>3, <1>8 DEF WorkerInv
<1> QED
  BY <1>2, <1>6, <1>7, <1>9 DEF RectangularInv, SoundConfiguration

LEMMA StoreFlowpipeKeepsInv ==
  ASSUME RectangularInv, StoreFlowpipe
  PROVE  RectangularInv'
<1>1. TypeOK /\ ControlInv /\ TreeInv /\ WorkerInv /\ pc = "store"
  BY DEF RectangularInv, StoreFlowpipe
<1>2. /\ ha' = ha /\ par' = par /\ nodes' = nodes /\ workQueue' = workQueue /\ task' = task
      /\ flowpipe' = flowpipe /\ jumpSuccessors' = jumpSuccessors /\ safe' = safe
  BY DEF StoreFlowpipe, inputs, worker
<1>3. /\ flowpipes' = Append(flowpipes, flowpipe)
      /\ pending' = DOMAIN jumpSuccessors
      /\ pc' = IF safe THEN "children" ELSE "done"
      /\ result' = IF safe THEN result ELSE "failure"
  BY DEF StoreFlowpipe
<1>4. result = "none"
  BY <1>1 DEF ControlInv, TypeOK
<1>5. TypeOK'
  <2>1. flowpipes' \in Seq(Seq(SUBSET Point))
    BY <1>1, <1>3 DEF TypeOK
  <2>2. pc' \in {"children", "done"} /\ result' \in {"none", "failure"}
    BY <1>3, <1>4
  <2> QED
    BY <2>1, <2>2, <1>1, <1>2, <1>3 DEF TypeOK
<1>6. ControlInv'
  BY <1>1, <1>2, <1>3, <1>4 DEF ControlInv, BusyPcs
<1>7. TreeInv'
  BY <1>1, <1>2, <1>3 DEF TreeInv, BusyPcs
<1>8. WorkerInv'
  BY <1>1, <1>2, <1>3 DEF WorkerInv
<1> QED
  BY <1>2, <1>5, <1>6, <1>7, <1>8 DEF RectangularInv, SoundConfiguration

LEMMA AddChildKeepsInv ==
  ASSUME RectangularInv, AddChild
  PROVE  RectangularInv'
<1>1. TypeOK /\ ControlInv /\ TreeInv /\ WorkerInv /\ pc = "children" /\ safe /\ task \in DOMAIN nodes
  BY DEF RectangularInv, ControlInv, AddChild, BusyPcs
<1>2. /\ ha' = ha /\ par' = par /\ task' = task /\ flowpipe' = flowpipe
      /\ jumpSuccessors' = jumpSuccessors /\ flowpipes' = flowpipes
      /\ safe' = safe /\ pc' = pc /\ result' = result
  BY DEF AddChild, inputs, worker
<1>3. PICK s \in pending :
        /\ nodes' = Append(nodes, Child(ha, nodes, task, s[1], jumpSuccessors[s]))
        /\ workQueue' = Append(workQueue, Len(nodes'))
        /\ pending' = pending \ {s}
  BY DEF AddChild
<1>4. s[1] \in DOMAIN ha.transition /\ jumpSuccessors[s] \in SUBSET Point
  BY <1>1 DEF TypeOK
<1>5. /\ nodes' \in Seq(NodeType) /\ Grows(nodes, nodes')
      /\ ParentsFirst(nodes) => ParentsFirst(nodes')
      /\ \A q \in jumpSuccessors[s] : HasChild(ha, nodes', task, s[1], q)
      /\ IsSafe(ha, nodes) => IsSafe(ha, nodes')
  BY <1>1, <1>3, <1>4, Typed, ChildIsNode
<1>6. /\ DOMAIN nodes \subseteq DOMAIN nodes' /\ Len(nodes') \in DOMAIN nodes'
      /\ \A n \in DOMAIN nodes' : n \in DOMAIN nodes \/ n = Len(nodes')
  BY <1>1, <1>3, Typed, AppendFacts
<1>7. workQueue' \in Seq(DOMAIN nodes')
  <2>1. workQueue \in Seq(DOMAIN nodes')
    BY <1>1, <1>6 DEF TypeOK
  <2> QED
    BY <2>1, <1>3, <1>6
<1>8. TypeOK'
  BY <1>1, <1>2, <1>3, <1>5, <1>6, <1>7 DEF TypeOK
<1>9. nodes'[task].depth = nodes[task].depth
  BY <1>1, <1>5 DEF Grows
<1>10. ControlInv'
  BY <1>1, <1>2, <1>6, <1>9 DEF ControlInv, BusyPcs
<1>11. \A n : Queued(workQueue, n) \/ n = Len(nodes') => Queued(workQueue', n)
  BY <1>1, <1>3, AppendQueued DEF TypeOK
<1>12. TreeInv'
  <2>1. HasRoots(ha, nodes')
    BY <1>1, <1>5, GrownRoots DEF TreeInv
  <2>2. ASSUME NEW n \in DOMAIN nodes'
        PROVE  \/ Queued(workQueue', n) \/ n = task \/ Done(ha, par, nodes', n)
               \/ result = "failure"
    <3>1. CASE n = Len(nodes')
      BY <3>1, <1>11
    <3>2. CASE n \in DOMAIN nodes
      <4>1. Queued(workQueue, n) \/ n = task \/ Done(ha, par, nodes, n) \/ result = "failure"
        BY <3>2, <1>1 DEF TreeInv
      <4> QED
        BY <4>1, <3>2, <1>5, <1>11, GrownTree
    <3> QED
      BY <3>1, <3>2, <1>6
  <2> QED
    BY <2>1, <2>2, <1>1, <1>2 DEF TreeInv, BusyPcs
<1>13. /\ VisitedAt(ha, par, nodes', task) = VisitedAt(ha, par, nodes, task)
       /\ Jumps(ha, par, nodes', task) = Jumps(ha, par, nodes, task)
       /\ IsCovered(ha, par, nodes, task) => IsCovered(ha, par, nodes', task)
       /\ \A t, q : HasChild(ha, nodes, task, t, q) => HasChild(ha, nodes', task, t, q)
  BY <1>1, <1>5, GrownTree
<1>14. ASSUME nodes[task].depth < par.jumpDepth, NEW jump \in Jumps(ha, par, nodes, task)
       PROVE  \/ HasChild(ha, nodes', task, jump[1], jump[2])
              \/ \E r \in pending' : r[1] = jump[1] /\ jump[2] \in jumpSuccessors[r]
  <2>1. \/ HasChild(ha, nodes, task, jump[1], jump[2])
        \/ \E r \in pending : r[1] = jump[1] /\ jump[2] \in jumpSuccessors[r]
    BY <1>1, <1>14 DEF WorkerInv
  <2> QED
    BY <2>1, <1>3, <1>5, <1>13
<1>15. WorkerInv'
  BY <1>1, <1>2, <1>9, <1>13, <1>14 DEF WorkerInv
<1> QED
  BY <1>2, <1>5, <1>8, <1>10, <1>12, <1>15 DEF RectangularInv, SoundConfiguration

LEMMA FinishTaskKeepsInv ==
  ASSUME RectangularInv, FinishTask
  PROVE  RectangularInv'
<1>1. /\ TypeOK /\ ControlInv /\ TreeInv /\ WorkerInv /\ pc = "children" /\ pc' = "dequeue"
      /\ pending = {} /\ safe
  BY DEF RectangularInv, ControlInv, FinishTask
<1>2. /\ ha' = ha /\ par' = par /\ nodes' = nodes /\ workQueue' = workQueue /\ task' = task
      /\ flowpipe' = flowpipe /\ jumpSuccessors' = jumpSuccessors /\ flowpipes' = flowpipes
      /\ pending' = pending /\ safe' = safe /\ result' = result
  BY DEF FinishTask, inputs, worker
<1>3. TypeOK'
  BY <1>1, <1>2 DEF TypeOK
<1>4. ControlInv' /\ WorkerInv'
  BY <1>1, <1>2 DEF ControlInv, WorkerInv, BusyPcs
<1>5. Done(ha, par, nodes, task)
  BY <1>1 DEF WorkerInv, Done, IsExpanded
<1>6. TreeInv'
  BY <1>1, <1>2, <1>5 DEF TreeInv, BusyPcs
<1> QED
  BY <1>2, <1>3, <1>4, <1>6 DEF RectangularInv, SoundConfiguration

LEMMA SucceedKeepsInv ==
  ASSUME RectangularInv, Succeed
  PROVE  RectangularInv'
<1>1. /\ TypeOK /\ ControlInv /\ TreeInv /\ pc = "dequeue" /\ pc' = "done"
      /\ workQueue = << >> /\ result' = "success" /\ safe
  BY DEF RectangularInv, ControlInv, Succeed
<1>2. /\ ha' = ha /\ par' = par /\ nodes' = nodes /\ workQueue' = workQueue /\ task' = task
      /\ flowpipe' = flowpipe /\ jumpSuccessors' = jumpSuccessors /\ flowpipes' = flowpipes
      /\ pending' = pending /\ safe' = safe
  BY DEF Succeed, inputs, worker
<1>3. TypeOK'
  BY <1>1, <1>2 DEF TypeOK
<1>4. result = "none"
  BY <1>1 DEF ControlInv, TypeOK
<1>5. ControlInv' /\ TreeInv' /\ WorkerInv'
  BY <1>1, <1>2, <1>4 DEF ControlInv, TreeInv, WorkerInv, BusyPcs
<1> QED
  BY <1>2, <1>3, <1>5 DEF RectangularInv, SoundConfiguration

LEMMA RectangularStep ==
  ASSUME RectangularInv, Next
  PROVE  RectangularInv'
BY InitializeQueueKeepsInv, DequeueKeepsInv, ComputeTimeSuccessorsKeepsInv,
   ComputeJumpSuccessorsKeepsInv, StoreFlowpipeKeepsInv, AddChildKeepsInv,
   FinishTaskKeepsInv, SucceedKeepsInv DEF Next

--------------------------------------------------------------------------
(* The same about the singular analyzer and SingularInv.                  *)

LEMMA SingularTyped ==
  ASSUME Singular!TypeOK
  PROVE  /\ ha \in Automata /\ par \in Parameters /\ par.jumpDepth \in Nat
         /\ singularNodes \in Seq(NodeType) /\ singularFlowpipe \in Seq(SUBSET Point)
         /\ singularQueue \in Seq(DOMAIN singularNodes)
         /\ singularTask \in {0} \cup DOMAIN singularNodes
         /\ singularResult \in {"none", "success", "failure"}
         /\ \A n \in DOMAIN singularNodes :
              /\ singularNodes[n].location \in Location /\ singularNodes[n].depth \in Nat
              /\ singularNodes[n].initialSet \in SUBSET Point
              /\ singularNodes[n].flowpipe \in Seq(SUBSET Point)
<1>1. /\ ha \in Automata /\ par \in Parameters
      /\ singularNodes \in Seq(NodeType) /\ singularFlowpipe \in Seq(SUBSET Point)
      /\ singularQueue \in Seq(DOMAIN singularNodes)
      /\ singularTask \in {0} \cup DOMAIN singularNodes
      /\ singularResult \in {"none", "success", "failure"}
  BY DEF Singular!TypeOK, Singular!NodeType, NodeType
<1> QED
  BY <1>1, NodeTypes, SettingTypes

LEMMA SingularStart ==
  ASSUME Singular!Init
  PROVE  SingularInv
<1>1. /\ ha \in Automata /\ par \in Parameters
      /\ singularNodes = Roots(ha)
      /\ singularQueue = [i \in DOMAIN singularNodes |-> i]
  BY DEF Singular!Init, Singular!Roots, Roots, Singular!Indices
<1>2. /\ singularTask = 0 /\ singularFlowpipe = << >> /\ singularSuccessors = Singular!NoSuccessors
      /\ singularPending = {} /\ singularSafe = TRUE /\ singularPc = "dequeue" /\ singularResult = "none"
  BY DEF Singular!Init
<1>3. /\ singularNodes \in Seq(NodeType) /\ HasRoots(ha, singularNodes)
      /\ ParentsFirst(singularNodes)
      /\ \A n \in DOMAIN singularNodes : singularNodes[n].flowpipe = << >>
  BY <1>1, RootsAreNodes
<1>4. singularQueue \in Seq(DOMAIN singularNodes) /\ \A n \in DOMAIN singularNodes : Queued(singularQueue, n)
  <2>1. DOMAIN singularNodes = 1..Len(singularNodes) /\ Len(singularNodes) \in Nat
    BY <1>3
  <2>2. singularQueue \in Seq(DOMAIN singularNodes)
    BY <2>1, <1>1
  <2> QED
    BY <2>2, <1>1 DEF Queued
<1>5. Singular!TypeOK
  <2>1. DOMAIN Singular!NoSuccessors = {}
    BY DEF Singular!NoSuccessors
  <2>2. singularNodes \in Seq(Singular!NodeType)
    BY <1>3 DEF NodeType, Singular!NodeType
  <2> QED
    BY <2>1, <2>2, <1>1, <1>2, <1>4 DEF Singular!TypeOK
<1>6. SingularControlInv /\ SingularTreeInv /\ SingularWorkerInv
  BY <1>2, <1>3, <1>4 DEF SingularControlInv, SingularTreeInv, SingularWorkerInv, BusyPcs
<1>7. IsSafe(ha, singularNodes)
  BY <1>3, NoState DEF IsSafe
<1> QED
  BY <1>3, <1>5, <1>6, <1>7 DEF SingularInv

LEMMA SingularStutter ==
  ASSUME SingularInv, UNCHANGED <<inputs, singularVars>>
  PROVE  SingularInv'
<1>1. /\ ha' = ha /\ par' = par /\ singularNodes' = singularNodes /\ singularQueue' = singularQueue
      /\ singularTask' = singularTask /\ singularFlowpipe' = singularFlowpipe
      /\ singularSuccessors' = singularSuccessors /\ singularPending' = singularPending
      /\ singularSafe' = singularSafe /\ singularPc' = singularPc /\ singularResult' = singularResult
  BY DEF inputs, singularVars
<1>2. Singular!TypeOK'
  BY <1>1 DEF SingularInv, Singular!TypeOK
<1>3. SingularControlInv' /\ SingularTreeInv' /\ SingularWorkerInv'
  BY <1>1 DEF SingularInv, SingularControlInv, SingularTreeInv, SingularWorkerInv,
     SoundConfiguration, Singular!NoSuccessors
<1> QED
  BY <1>1, <1>2, <1>3 DEF SingularInv, SoundConfiguration

LEMMA SingularDequeue ==
  ASSUME SingularInv, Singular!Dequeue
  PROVE  SingularInv'
<1>1. /\ Singular!TypeOK /\ SingularControlInv /\ SingularTreeInv
      /\ singularPc = "dequeue" /\ singularPc' = "time" /\ singularQueue # << >>
  BY DEF SingularInv, Singular!Dequeue
<1>2. /\ ha' = ha /\ par' = par /\ singularNodes' = singularNodes
      /\ singularFlowpipe' = singularFlowpipe /\ singularSuccessors' = singularSuccessors
      /\ singularPending' = singularPending /\ singularSafe' = singularSafe
      /\ singularResult' = singularResult
  BY DEF Singular!Dequeue, Singular!inputs, Singular!worker
<1>3. singularTask' = Head(singularQueue) /\ singularQueue' = Tail(singularQueue)
  BY DEF Singular!Dequeue
<1>4. /\ singularTask' \in DOMAIN singularNodes /\ singularQueue' \in Seq(DOMAIN singularNodes)
      /\ \A n : Queued(singularQueue, n) => n = singularTask' \/ Queued(singularQueue', n)
  BY <1>1, <1>3, SingularTyped, HeadOrTail
<1>5. Singular!TypeOK'
  BY <1>1, <1>2, <1>4 DEF Singular!TypeOK
<1>6. SingularControlInv'
  BY <1>1, <1>2, <1>4, SingularTyped DEF SingularControlInv, BusyPcs, Singular!NoSuccessors
<1>7. SingularTreeInv' /\ SingularWorkerInv'
  BY <1>1, <1>2, <1>4 DEF SingularTreeInv, SingularWorkerInv, BusyPcs
<1> QED
  BY <1>2, <1>5, <1>6, <1>7 DEF SingularInv, SoundConfiguration

LEMMA SingularComputeTimeSuccessors ==
  ASSUME SingularInv, Singular!ComputeTimeSuccessors
  PROVE  SingularInv'
<1> DEFINE l == singularNodes[singularTask].location
           S == singularNodes[singularTask].initialSet
           computed == Singular!TimeSuccessors(ha, l, S, par.horizon)
<1>1. /\ Singular!TypeOK /\ SingularControlInv /\ SingularTreeInv
      /\ singularPc = "time" /\ singularTask \in DOMAIN singularNodes /\ singularSafe
  BY DEF SingularInv, SingularControlInv, Singular!ComputeTimeSuccessors, BusyPcs
<1>2. /\ ha' = ha /\ par' = par /\ singularNodes' = singularNodes /\ singularQueue' = singularQueue
      /\ singularTask' = singularTask /\ singularSuccessors' = singularSuccessors
      /\ singularPending' = singularPending /\ singularResult' = singularResult
  BY DEF Singular!ComputeTimeSuccessors, Singular!inputs
<1>3. /\ singularFlowpipe' = singularFlowpipe \o computed.states
      /\ singularSafe' = computed.safe
      /\ singularPc' = IF singularSafe' /\ singularNodes[singularTask].depth < par.jumpDepth
                       THEN "jumps" ELSE "store"
  BY DEF Singular!ComputeTimeSuccessors, Singular!current
<1>4. /\ singularFlowpipe = << >> /\ singularSuccessors = Singular!NoSuccessors
      /\ singularPending = {} /\ singularResult = "none"
  BY <1>1, SingularTyped DEF SingularControlInv
<1>5. IsTimeResult(ha, par, l, S, ha.localFalse = {}, computed)
  BY <1>1, SingularTyped, SingularTimeSuccessors
<1> HIDE DEF computed
<1>6. /\ singularFlowpipe' = computed.states /\ singularFlowpipe' \in Seq(SUBSET Point)
      /\ Len(singularFlowpipe') <= 1 /\ singularSafe' \in BOOLEAN
      /\ singularSafe' => \A p \in Visited(ha, par, l, S) : InFlowpipe(singularFlowpipe', p)
      /\ ha.localFalse = {} /\ singularSafe' => IsSafeAt(ha, l, singularFlowpipe')
  BY <1>3, <1>4, <1>5 DEF IsTimeResult
<1>7. singularPc' \in {"jumps", "store"}
  BY <1>3
<1>8. Singular!TypeOK'
  BY <1>1, <1>2, <1>6, <1>7 DEF Singular!TypeOK
<1>9. SingularControlInv'
  BY <1>1, <1>2, <1>3, <1>4, <1>6 DEF SingularControlInv, BusyPcs
<1>10. SingularTreeInv'
  BY <1>1, <1>2, <1>3 DEF SingularTreeInv, BusyPcs
<1>11. SingularWorkerInv'
  <2>1. VisitedAt(ha, par, singularNodes, singularTask) = Visited(ha, par, l, S)
    BY DEF VisitedAt
  <2>2. singularPc' = "store" /\ singularSafe' => ~(singularNodes[singularTask].depth < par.jumpDepth)
    BY <1>3
  <2> QED
    BY <2>1, <2>2, <1>2, <1>6, <1>7 DEF SingularWorkerInv, SoundConfiguration
<1> QED
  BY <1>1, <1>2, <1>8, <1>9, <1>10, <1>11 DEF SingularInv, SoundConfiguration

LEMMA SingularComputeJumpSuccessors ==
  ASSUME SingularInv, Singular!ComputeJumpSuccessors
  PROVE  SingularInv'
<1> DEFINE sets == Singular!JumpSuccessorSets(ha, singularNodes[singularTask].location, singularFlowpipe)
<1>1. /\ Singular!TypeOK /\ SingularControlInv /\ SingularTreeInv /\ SingularWorkerInv
      /\ singularPc = "jumps" /\ singularPc' = "store" /\ singularSafe
  BY DEF SingularInv, SingularControlInv, Singular!ComputeJumpSuccessors
<1>2. /\ ha' = ha /\ par' = par /\ singularNodes' = singularNodes /\ singularQueue' = singularQueue
      /\ singularTask' = singularTask /\ singularFlowpipe' = singularFlowpipe
      /\ singularPending' = singularPending /\ singularSafe' = singularSafe
      /\ singularResult' = singularResult
  BY DEF Singular!ComputeJumpSuccessors, Singular!inputs
<1>3. singularSuccessors' = sets
  BY DEF Singular!ComputeJumpSuccessors, Singular!current
<1>4. /\ DOMAIN sets \subseteq DOMAIN ha.transition
      /\ \A t \in DOMAIN sets : sets[t] \in (SUBSET Point) \ {{}}
      /\ \A p, t, q :
           InFlowpipe(singularFlowpipe, p) /\ Follows(ha, singularNodes[singularTask].location, p, t, q) =>
             t \in DOMAIN sets /\ q \in sets[t]
  BY <1>1, SingularTyped, SingularJumpSuccessors DEF SingularControlInv
<1> HIDE DEF sets
<1>5. singularPending = {}
  BY <1>1 DEF SingularControlInv
<1>6. Singular!TypeOK'
  BY <1>1, <1>2, <1>3, <1>4, <1>5 DEF Singular!TypeOK
<1>7. SingularControlInv' /\ SingularTreeInv'
  BY <1>1, <1>2 DEF SingularControlInv, SingularTreeInv, BusyPcs
<1>8. \A jump \in Jumps(ha, par, singularNodes, singularTask) :
        jump[1] \in DOMAIN sets /\ jump[2] \in sets[jump[1]]
  <2> SUFFICES ASSUME NEW jump \in Jumps(ha, par, singularNodes, singularTask)
               PROVE  jump[1] \in DOMAIN sets /\ jump[2] \in sets[jump[1]]
    OBVIOUS
  <2>1. PICK p \in VisitedAt(ha, par, singularNodes, singularTask) :
          Follows(ha, singularNodes[singularTask].location, p, jump[1], jump[2])
    BY DEF Jumps
  <2>2. InFlowpipe(singularFlowpipe, p)
    BY <1>1 DEF SingularWorkerInv
  <2> QED
    BY <2>1, <2>2, <1>4
<1>9. SingularWorkerInv'
  BY <1>1, <1>2, <1>3, <1>8 DEF SingularWorkerInv, SoundConfiguration
<1> QED
  BY <1>1, <1>2, <1>6, <1>7, <1>9 DEF SingularInv, SoundConfiguration
LEMMA SingularStoreFlowpipe ==
  ASSUME SingularInv, Singular!StoreFlowpipe
  PROVE  SingularInv'
<1> DEFINE l == singularNodes[singularTask].location
           longer == singularFlowpipe \o singularNodes[singularTask].flowpipe
<1>1. /\ Singular!TypeOK /\ SingularControlInv /\ SingularTreeInv /\ SingularWorkerInv
      /\ singularPc = "store" /\ singularTask \in DOMAIN singularNodes
  BY DEF SingularInv, SingularControlInv, Singular!StoreFlowpipe, BusyPcs
<1>2. /\ ha' = ha /\ par' = par /\ singularQueue' = singularQueue /\ singularTask' = singularTask
      /\ singularFlowpipe' = singularFlowpipe /\ singularSuccessors' = singularSuccessors
      /\ singularSafe' = singularSafe
  BY DEF Singular!StoreFlowpipe, Singular!inputs, Singular!worker
<1>3. /\ singularNodes' = LongerAt(singularNodes, singularTask, longer)
      /\ singularPending' = DOMAIN singularSuccessors
      /\ singularPc' = IF singularSafe THEN "children" ELSE "done"
      /\ singularResult' = IF singularSafe THEN singularResult ELSE "failure"
  BY DEF Singular!StoreFlowpipe, LongerAt
<1>4. singularResult = "none"
  BY <1>1, SingularTyped DEF SingularControlInv
<1>5. /\ longer \in Seq(SUBSET Point)
      /\ \A p : InFlowpipe(singularFlowpipe, p) \/ InFlowpipe(singularNodes[singularTask].flowpipe, p)
                => InFlowpipe(longer, p)
      /\ IsSafeAt(ha, l, singularFlowpipe) /\ IsSafeAt(ha, l, singularNodes[singularTask].flowpipe)
           => IsSafeAt(ha, l, longer)
  BY <1>1, SingularTyped, ConcatFacts
<1> HIDE DEF longer, l
<1>6. /\ singularNodes' \in Seq(NodeType) /\ DOMAIN singularNodes' = DOMAIN singularNodes
      /\ Grows(singularNodes, singularNodes') /\ singularNodes'[singularTask].flowpipe = longer
      /\ ParentsFirst(singularNodes) => ParentsFirst(singularNodes')
      /\ IsSafe(ha, singularNodes) /\ IsSafeAt(ha, l, longer) => IsSafe(ha, singularNodes')
  <2>1. singularNodes \in Seq(NodeType)
    BY <1>1, SingularTyped
  <2> QED
    BY <2>1, <1>1, <1>3, <1>5, LongerFlowpipe DEF l
<1>7. singularNodes'[singularTask].depth = singularNodes[singularTask].depth
  BY <1>1, <1>6 DEF Grows
<1>8. Singular!TypeOK'
  <2>1. singularNodes' \in Seq(Singular!NodeType)
    BY <1>6 DEF NodeType, Singular!NodeType
  <2>2. singularPc' \in {"children", "done"} /\ singularResult' \in {"none", "failure"}
    BY <1>3, <1>4
  <2> QED
    BY <2>1, <2>2, <1>1, <1>2, <1>3, <1>6 DEF Singular!TypeOK
<1>9. SingularControlInv'
  BY <1>1, <1>2, <1>3, <1>4, <1>6 DEF SingularControlInv, BusyPcs
<1>10. SingularTreeInv'
  BY <1>1, <1>2, <1>3, <1>6, GrownTree, GrownRoots DEF SingularTreeInv, BusyPcs
<1>11. /\ VisitedAt(ha, par, singularNodes', singularTask) = VisitedAt(ha, par, singularNodes, singularTask)
       /\ Jumps(ha, par, singularNodes', singularTask) = Jumps(ha, par, singularNodes, singularTask)
  BY <1>1, <1>6, GrownTree
<1>12. singularSafe => IsCovered(ha, par, singularNodes', singularTask)
  BY <1>1, <1>5, <1>6, <1>11 DEF IsCovered, SingularWorkerInv
<1>13. SingularWorkerInv'
  <2>1. singularPc' \notin {"jumps", "store"}
    BY <1>3
  <2>2. singularPc' = "children" => singularSafe
    BY <1>3
  <2> QED
    BY <2>1, <2>2, <1>1, <1>2, <1>3, <1>7, <1>11, <1>12 DEF SingularWorkerInv
<1>14. SoundConfiguration' /\ singularSafe' => IsSafe(ha, singularNodes')
  <2> SUFFICES ASSUME SoundConfiguration', singularSafe'
               PROVE  IsSafe(ha, singularNodes')
    OBVIOUS
  <2>1. SoundConfiguration /\ singularSafe
    BY <1>2 DEF SoundConfiguration
  <2>2. IsSafe(ha, singularNodes) /\ IsSafeAt(ha, l, singularFlowpipe)
    BY <2>1, <1>1 DEF SingularInv, SingularWorkerInv, l
  <2>3. IsSafeAt(ha, l, longer)
    BY <2>2, <1>1, <1>5 DEF IsSafe, l
  <2> QED
    BY <2>2, <2>3, <1>6
<1> QED
  BY <1>2, <1>6, <1>8, <1>9, <1>10, <1>13, <1>14 DEF SingularInv

LEMMA SingularAddChild ==
  ASSUME SingularInv, Singular!AddChild
  PROVE  SingularInv'
<1>1. /\ Singular!TypeOK /\ SingularControlInv /\ SingularTreeInv /\ SingularWorkerInv
      /\ singularPc = "children" /\ singularSafe /\ singularTask \in DOMAIN singularNodes
  BY DEF SingularInv, SingularControlInv, Singular!AddChild, BusyPcs
<1>2. /\ ha' = ha /\ par' = par /\ singularTask' = singularTask
      /\ singularFlowpipe' = singularFlowpipe /\ singularSuccessors' = singularSuccessors
      /\ singularSafe' = singularSafe /\ singularPc' = singularPc /\ singularResult' = singularResult
  BY DEF Singular!AddChild, Singular!inputs, Singular!worker
<1>3. PICK t \in singularPending :
        /\ singularNodes' = Append(singularNodes, Child(ha, singularNodes, singularTask, t, singularSuccessors[t]))
        /\ singularQueue' = Append(singularQueue, Len(singularNodes'))
        /\ singularPending' = singularPending \ {t}
  BY DEF Singular!AddChild, Singular!Child, Child
<1>4. t \in DOMAIN ha.transition /\ singularSuccessors[t] \in SUBSET Point
  BY <1>1 DEF Singular!TypeOK
<1>5. /\ singularNodes' \in Seq(NodeType) /\ Grows(singularNodes, singularNodes')
      /\ ParentsFirst(singularNodes) => ParentsFirst(singularNodes')
      /\ \A q \in singularSuccessors[t] : HasChild(ha, singularNodes', singularTask, t, q)
      /\ IsSafe(ha, singularNodes) => IsSafe(ha, singularNodes')
  BY <1>1, <1>3, <1>4, SingularTyped, ChildIsNode
<1>6. /\ DOMAIN singularNodes \subseteq DOMAIN singularNodes'
      /\ Len(singularNodes') \in DOMAIN singularNodes'
      /\ \A n \in DOMAIN singularNodes' : n \in DOMAIN singularNodes \/ n = Len(singularNodes')
  BY <1>1, <1>3, SingularTyped, AppendFacts
<1>7. singularQueue' \in Seq(DOMAIN singularNodes')
  <2>1. singularQueue \in Seq(DOMAIN singularNodes')
    BY <1>1, <1>6, SingularTyped
  <2> QED
    BY <2>1, <1>3, <1>6
<1>8. Singular!TypeOK'
  <2>1. singularNodes' \in Seq(Singular!NodeType)
    BY <1>5 DEF NodeType, Singular!NodeType
  <2> QED
    BY <2>1, <1>1, <1>2, <1>3, <1>6, <1>7 DEF Singular!TypeOK
<1>9. singularNodes'[singularTask].depth = singularNodes[singularTask].depth
  BY <1>1, <1>5 DEF Grows
<1>10. SingularControlInv'
  BY <1>1, <1>2, <1>6, <1>9 DEF SingularControlInv, BusyPcs
<1>11. \A n : Queued(singularQueue, n) \/ n = Len(singularNodes') => Queued(singularQueue', n)
  BY <1>1, <1>3, AppendQueued, SingularTyped
<1>12. SingularTreeInv'
  <2>1. HasRoots(ha, singularNodes')
    BY <1>1, <1>5, GrownRoots DEF SingularTreeInv
  <2>2. ASSUME NEW n \in DOMAIN singularNodes'
        PROVE  \/ Queued(singularQueue', n) \/ n = singularTask
               \/ Done(ha, par, singularNodes', n) \/ singularResult = "failure"
    <3>1. CASE n = Len(singularNodes')
      BY <3>1, <1>11
    <3>2. CASE n \in DOMAIN singularNodes
      <4>1. \/ Queued(singularQueue, n) \/ n = singularTask
            \/ Done(ha, par, singularNodes, n) \/ singularResult = "failure"
        BY <3>2, <1>1 DEF SingularTreeInv
      <4> QED
        BY <4>1, <3>2, <1>5, <1>11, GrownTree
    <3> QED
      BY <3>1, <3>2, <1>6
  <2> QED
    BY <2>1, <2>2, <1>1, <1>2 DEF SingularTreeInv, BusyPcs
<1>13. /\ Jumps(ha, par, singularNodes', singularTask) = Jumps(ha, par, singularNodes, singularTask)
       /\ IsCovered(ha, par, singularNodes, singularTask) => IsCovered(ha, par, singularNodes', singularTask)
       /\ \A u, q : HasChild(ha, singularNodes, singularTask, u, q)
                     => HasChild(ha, singularNodes', singularTask, u, q)
  BY <1>1, <1>5, GrownTree
<1>14. ASSUME singularNodes[singularTask].depth < par.jumpDepth,
              NEW jump \in Jumps(ha, par, singularNodes, singularTask)
       PROVE  \/ HasChild(ha, singularNodes', singularTask, jump[1], jump[2])
              \/ jump[1] \in singularPending' /\ jump[2] \in singularSuccessors[jump[1]]
  <2>1. \/ HasChild(ha, singularNodes, singularTask, jump[1], jump[2])
        \/ jump[1] \in singularPending /\ jump[2] \in singularSuccessors[jump[1]]
    BY <1>1, <1>14 DEF SingularWorkerInv
  <2> QED
    BY <2>1, <1>3, <1>5, <1>13
<1>15. SingularWorkerInv'
  BY <1>1, <1>2, <1>9, <1>13, <1>14 DEF SingularWorkerInv
<1> QED
  BY <1>2, <1>5, <1>8, <1>10, <1>12, <1>15 DEF SingularInv, SoundConfiguration

LEMMA SingularResetWorker ==
  ASSUME SingularInv, Singular!ResetWorker
  PROVE  SingularInv'
<1>1. /\ Singular!TypeOK /\ SingularControlInv /\ SingularTreeInv /\ SingularWorkerInv
      /\ singularPc = "children" /\ singularPc' = "dequeue" /\ singularPending = {} /\ singularSafe
  BY DEF SingularInv, SingularControlInv, Singular!ResetWorker
<1>2. /\ ha' = ha /\ par' = par /\ singularNodes' = singularNodes /\ singularQueue' = singularQueue
      /\ singularTask' = singularTask /\ singularPending' = singularPending
      /\ singularSafe' = singularSafe /\ singularResult' = singularResult
      /\ singularFlowpipe' = << >> /\ singularSuccessors' = Singular!NoSuccessors
  BY DEF Singular!ResetWorker, Singular!inputs
<1>3. Singular!TypeOK'
  <2>1. DOMAIN Singular!NoSuccessors = {} /\ << >> \in Seq(SUBSET Point)
    BY DEF Singular!NoSuccessors
  <2> QED
    BY <2>1, <1>1, <1>2 DEF Singular!TypeOK
<1>4. SingularControlInv' /\ SingularWorkerInv'
  BY <1>1, <1>2, NoState DEF SingularControlInv, SingularWorkerInv, BusyPcs, Singular!NoSuccessors
<1>5. Done(ha, par, singularNodes, singularTask)
  BY <1>1 DEF SingularWorkerInv, Done, IsExpanded
<1>6. SingularTreeInv'
  BY <1>1, <1>2, <1>5 DEF SingularTreeInv, BusyPcs
<1> QED
  BY <1>2, <1>3, <1>4, <1>6 DEF SingularInv, SoundConfiguration

LEMMA SingularSucceed ==
  ASSUME SingularInv, Singular!Succeed
  PROVE  SingularInv'
<1>1. /\ Singular!TypeOK /\ SingularControlInv /\ SingularTreeInv
      /\ singularPc = "dequeue" /\ singularPc' = "done"
      /\ singularQueue = << >> /\ singularResult' = "success" /\ singularSafe
  BY DEF SingularInv, SingularControlInv, Singular!Succeed
<1>2. /\ ha' = ha /\ par' = par /\ singularNodes' = singularNodes /\ singularQueue' = singularQueue
      /\ singularTask' = singularTask /\ singularFlowpipe' = singularFlowpipe
      /\ singularSuccessors' = singularSuccessors /\ singularPending' = singularPending
      /\ singularSafe' = singularSafe
  BY DEF Singular!Succeed, Singular!inputs, Singular!worker
<1>3. Singular!TypeOK'
  BY <1>1, <1>2 DEF Singular!TypeOK
<1>4. singularResult = "none"
  BY <1>1, SingularTyped DEF SingularControlInv
<1>5. SingularControlInv' /\ SingularTreeInv' /\ SingularWorkerInv'
  BY <1>1, <1>2, <1>4 DEF SingularControlInv, SingularTreeInv, SingularWorkerInv, BusyPcs
<1> QED
  BY <1>2, <1>3, <1>5 DEF SingularInv, SoundConfiguration

LEMMA SingularStep ==
  ASSUME SingularInv, Singular!Next
  PROVE  SingularInv'
BY SingularDequeue, SingularComputeTimeSuccessors, SingularComputeJumpSuccessors,
   SingularStoreFlowpipe, SingularAddChild, SingularResetWorker, SingularSucceed
   DEF Singular!Next

--------------------------------------------------------------------------
(* The theorems: types, and that a success excludes runs to a bad state.  *)

(* What a run needs of a tree: its roots, and that every node is done.    *)
IsFinal(A, P, tree) ==
  /\ tree \in Seq(NodeType)
  /\ HasRoots(A, tree)
  /\ ParentsFirst(tree)
  /\ \A n \in DOMAIN tree : Done(A, P, tree, n)

LEMMA RunTypes ==
  ASSUME NEW A, NEW r \in RunType(A)
  PROVE  /\ r.location \in Location /\ r.valuation \in Point /\ r.steps \in Nat
         /\ r.path \in Seq(DOMAIN A.transition) /\ Len(r.path) \in Nat
BY DEF RunType

LEMMA AppendTyped ==
  ASSUME NEW T, NEW path \in Seq(T), NEW t \in T
  PROVE  Append(path, t) \in Seq(T)
OBVIOUS

LEMMA ElapsedAtOnce ==
  ASSUME NEW A \in Automata, NEW P \in Parameters, NEW l \in Location, NEW S \in SUBSET Point,
         NEW p \in S, p \in A.invariant[l]
  PROVE  p \in Elapsed(A, P, l, S, 0)
<1>1. P.horizon \in Int
  BY SettingTypes
<1>2. S \cap A.invariant[l] \in SUBSET Point
  OBVIOUS
<1> DEFINE h == IF P.horizon < 0 THEN P.horizon ELSE 0
<1>3. h \in Int
  BY <1>1
<1> HIDE DEF h
<1>4. p \in Reached(A, l, S \cap A.invariant[l], h)
  BY <1>2, <1>3, ReachedAtOnce
<1> QED
  BY <1>4 DEF Elapsed, h

LEMMA ElapsedOneMore ==
  ASSUME NEW A \in Automata, NEW P \in Parameters, NEW l \in Location, NEW S \in SUBSET Point,
         NEW steps \in Nat, NEW p \in Elapsed(A, P, l, S, steps), NEW q \in Point, q \in A.flow[l][p]
  PROVE  q \in Elapsed(A, P, l, S, IF P.horizon < 0 THEN 0 ELSE steps + 1)
<1> DEFINE T == S \cap A.invariant[l]
<1>1. P.horizon \in Int
  BY SettingTypes
<1>2. CASE P.horizon < 0
  <2>1. p \in Ever(A, l, T)
    BY <1>2 DEF Elapsed, Reached
  <2>2. q \in Ever(A, l, T)
    BY <2>1, EverOneMore
  <2> QED
    BY <2>2, <1>2 DEF Elapsed, Reached
<1>3. CASE ~(P.horizon < 0)
  <2>1. ~(steps < 0) /\ ~(steps + 1 < 0)
    OBVIOUS
  <2>2. p \in Within(A, l, T, steps)
    BY <2>1, <1>3 DEF Elapsed, Reached
  <2>3. q \in Within(A, l, T, steps + 1)
    BY <2>2, WithinOneMore
  <2> QED
    BY <2>1, <2>3, <1>3 DEF Elapsed, Reached
<1> QED
  BY <1>2, <1>3

LEMMA ElapsedIsVisited ==
  ASSUME NEW A \in Automata, NEW P \in Parameters, NEW l \in Location, NEW S \in SUBSET Point,
         NEW steps \in Nat, P.horizon >= 0 => steps <= P.horizon,
         NEW p \in Elapsed(A, P, l, S, steps), p \in A.invariant[l]
  PROVE  p \in Visited(A, P, l, S)
<1> DEFINE T == S \cap A.invariant[l]
<1>1. P.horizon \in Int
  BY SettingTypes
<1>2. CASE P.horizon < 0
  BY <1>2 DEF Elapsed, Visited
<1>3. CASE ~(P.horizon < 0)
  <2>1. P.horizon \in Nat /\ steps <= P.horizon /\ ~(steps < 0)
    BY <1>1, <1>3
  <2>2. p \in Within(A, l, T, steps)
    BY <2>1, <1>3 DEF Elapsed, Reached
  <2>3. p \in Within(A, l, T, P.horizon)
    BY <2>1, <2>2, WithinLonger
  <2> QED
    BY <2>3, <1>3 DEF Visited, Reached
<1> QED
  BY <1>2, <1>3

LEMMA TrackedIsVisited ==
  ASSUME NEW A \in Automata, NEW P \in Parameters, NEW tree \in Seq(NodeType),
         NEW n \in DOMAIN tree, NEW r \in RunType(A), Tracks(A, P, tree, n, r),
         P.horizon >= 0 => r.steps <= P.horizon, r.valuation \in A.invariant[r.location]
  PROVE  r.valuation \in VisitedAt(A, P, tree, n)
<1>1. tree[n].initialSet \in SUBSET Point /\ tree[n].location = r.location
  BY NodeTypes DEF Tracks
<1>2. r.valuation \in Elapsed(A, P, r.location, tree[n].initialSet, r.steps)
  BY DEF Tracks
<1>3. r.valuation \in Visited(A, P, r.location, tree[n].initialSet)
  BY <1>1, <1>2, RunTypes, ElapsedIsVisited
<1> QED
  BY <1>1, <1>3 DEF VisitedAt

--------------------------------------------------------------------------
(* The path to a node is that to its parent and one transition.           *)

PathEntry(tree, f, m) ==
  IF m = 0 \/ tree[m].parent = 0 THEN << >>
  ELSE Append(f[tree[m].parent], tree[m].transition)

IsPathUpTo(tree, f, n) == f = [m \in 0..n |-> PathEntry(tree, f, m)]

LEMMA EntryOfParent ==
  ASSUME NEW tree, NEW m, NEW f, NEW g, m = 0 \/ f[tree[m].parent] = g[tree[m].parent]
  PROVE  PathEntry(tree, f, m) = PathEntry(tree, g, m)
BY DEF PathEntry

LEMMA PathsExist ==
  ASSUME NEW tree \in Seq(NodeType), ParentsFirst(tree), NEW n \in 0..Len(tree)
  PROVE  \E f : IsPathUpTo(tree, f, n)
<1> DEFINE S == {k \in Nat : k <= Len(tree) => \E f : IsPathUpTo(tree, f, k)}
<1>1. 0 \in S
  <2> DEFINE f == [m \in 0..0 |-> << >>]
  <2>1. \A m \in 0..0 : PathEntry(tree, f, m) = << >>
    BY DEF PathEntry
  <2>2. f = [m \in 0..0 |-> PathEntry(tree, f, m)]
    BY <2>1
  <2> HIDE DEF f
  <2> QED
    BY <2>2 DEF IsPathUpTo
<1>2. ASSUME NEW k \in Nat, k \in S PROVE k + 1 \in S
  <2> SUFFICES ASSUME k + 1 <= Len(tree)
               PROVE  \E f : IsPathUpTo(tree, f, k + 1)
    OBVIOUS
  <2>1. PICK f : f = [m \in 0..k |-> PathEntry(tree, f, m)]
    BY <1>2 DEF IsPathUpTo
  <2> DEFINE g == [m \in 0..k + 1 |-> PathEntry(tree, f, m)]
  <2>2. \A m \in 0..k : g[m] = f[m]
    BY <2>1
  <2>3. ASSUME NEW m \in 0..k + 1 PROVE PathEntry(tree, f, m) = PathEntry(tree, g, m)
    <3>1. m = 0 \/ tree[m].parent \in 0..k
      BY DEF ParentsFirst
    <3> HIDE DEF g
    <3> QED
      BY <2>2, <3>1, EntryOfParent
  <2>4. g = [m \in 0..k + 1 |-> PathEntry(tree, g, m)]
    BY <2>3
  <2> HIDE DEF g
  <2> QED
    BY <2>4 DEF IsPathUpTo
<1> HIDE DEF S
<1>3. n \in S
  BY <1>1, <1>2, InductionFromZero
<1> QED
  BY <1>3 DEF S

LEMMA PathsAgree ==
  ASSUME NEW tree \in Seq(NodeType), ParentsFirst(tree),
         NEW a \in 0..Len(tree), NEW b \in 0..Len(tree),
         NEW f, IsPathUpTo(tree, f, a), NEW g, IsPathUpTo(tree, g, b),
         NEW n \in Nat, n <= a, n <= b
  PROVE  f[n] = g[n]
<1> DEFINE T == {m \in 0..n : f[m] # g[m]}
<1>1. \A m \in 0..n : f[m] = PathEntry(tree, f, m) /\ g[m] = PathEntry(tree, g, m)
  <2>1. \A m \in 0..n : m \in 0..a /\ m \in 0..b
    OBVIOUS
  <2> QED
    BY <2>1 DEF IsPathUpTo
<1> SUFFICES ASSUME T # {}
             PROVE  FALSE
  OBVIOUS
<1>2. T \subseteq Nat
  OBVIOUS
<1>3. PICK m \in T : \A k \in T : m <= k
  BY <1>2, LeastNumber
<1>4. m = 0 \/ f[tree[m].parent] = g[tree[m].parent]
  <2>1. CASE m # 0
    <3>1. m \in DOMAIN tree
      BY <2>1
    <3>2. tree[m].parent \in 0..m - 1
      BY <3>1 DEF ParentsFirst
    <3> QED
      BY <1>3, <3>2
  <2> QED
    BY <2>1
<1> QED
  BY <1>1, <1>3, <1>4, EntryOfParent

LEMMA PathUnfolds ==
  ASSUME NEW tree \in Seq(NodeType), ParentsFirst(tree), NEW n \in DOMAIN tree
  PROVE  Path(tree, n) = IF tree[n].parent = 0 THEN << >>
                         ELSE Append(Path(tree, tree[n].parent), tree[n].transition)
<1> DEFINE path(k) == CHOOSE f : f = [m \in 0..k |-> PathEntry(tree, f, m)]
           p == tree[n].parent
<1>1. \A k : Path(tree, k) = path(k)[k]
  BY DEF Path, PathEntry
<1>2. ASSUME NEW k \in 0..Len(tree) PROVE IsPathUpTo(tree, path(k), k)
  BY PathsExist DEF IsPathUpTo
<1> HIDE DEF path
<1>3. n \in 0..Len(tree) /\ p \in 0..n - 1 /\ p \in 0..Len(tree) /\ n \in Nat /\ n # 0
  BY DEF ParentsFirst
<1>4. path(n)[n] = PathEntry(tree, path(n), n)
  BY <1>2, <1>3 DEF IsPathUpTo
<1>5. path(n)[p] = path(p)[p]
  BY <1>2, <1>3, PathsAgree
<1> QED
  BY <1>1, <1>3, <1>4, <1>5 DEF PathEntry

--------------------------------------------------------------------------
(* A run starts in a root, goes on in the same node, and jumps to a child *)
LEMMA RunStarts ==
  ASSUME NEW A \in Automata, NEW P \in Parameters, NEW tree, IsFinal(A, P, tree),
         NEW i \in DOMAIN A.initial, NEW p \in A.initial[i].set,
         p \in A.invariant[A.initial[i].loc],
         NEW r, r = [location |-> A.initial[i].loc, valuation |-> p, steps |-> 0, path |-> << >>]
  PROVE  \E n \in DOMAIN tree : Tracks(A, P, tree, n, r)
<1>1. PICK n \in DOMAIN tree : /\ tree[n].parent = 0
                               /\ tree[n].location = A.initial[i].loc
                               /\ tree[n].depth = 0
                               /\ tree[n].initialSet = A.initial[i].set
  BY DEF IsFinal, HasRoots
<1>2. tree[n].location \in Location /\ tree[n].initialSet \in SUBSET Point
  BY NodeTypes DEF IsFinal
<1>3. p \in Elapsed(A, P, A.initial[i].loc, tree[n].initialSet, 0)
  BY <1>1, <1>2, ElapsedAtOnce
<1>4. /\ r.location = A.initial[i].loc /\ r.valuation = p /\ r.steps = 0
      /\ r.path = << >> /\ Len(r.path) = 0
  OBVIOUS
<1>5. Path(tree, n) = << >>
  BY <1>1, PathUnfolds DEF IsFinal
<1> QED
  BY <1>1, <1>3, <1>4, <1>5 DEF Tracks

LEMMA RunElapses ==
  ASSUME NEW A \in Automata, NEW P \in Parameters, NEW tree, IsFinal(A, P, tree),
         NEW r \in RunType(A), NEW n \in DOMAIN tree, Tracks(A, P, tree, n, r),
         NEW q \in Point, q \in A.flow[r.location][r.valuation],
         NEW s, s = [r EXCEPT !.valuation = q, !.steps = IF P.horizon < 0 THEN 0 ELSE @ + 1]
  PROVE  Tracks(A, P, tree, n, s)
<1>1. tree[n].initialSet \in SUBSET Point
  BY NodeTypes DEF IsFinal
<1>2. /\ s.location = r.location /\ s.valuation = q /\ s.path = r.path
      /\ s.steps = IF P.horizon < 0 THEN 0 ELSE r.steps + 1
  BY DEF RunType
<1>3. q \in Elapsed(A, P, r.location, tree[n].initialSet, IF P.horizon < 0 THEN 0 ELSE r.steps + 1)
  BY <1>1, RunTypes, ElapsedOneMore DEF Tracks
<1> QED
  BY <1>2, <1>3 DEF Tracks

LEMMA RunJumps ==
  ASSUME NEW A \in Automata, NEW P \in Parameters, NEW tree, IsFinal(A, P, tree),
         NEW r \in RunType(A), NEW n \in DOMAIN tree, Tracks(A, P, tree, n, r),
         P.horizon >= 0 => r.steps <= P.horizon, r.valuation \in A.invariant[r.location],
         Len(r.path) < P.jumpDepth,
         NEW t, NEW q, Follows(A, r.location, r.valuation, t, q),
         NEW s, s = [location |-> A.transition[t].target, valuation |-> q, steps |-> 0,
                     path |-> Append(r.path, t)]
  PROVE  \E c \in DOMAIN tree : Tracks(A, P, tree, c, s)
<1>1. /\ tree[n].location = r.location /\ tree[n].depth = Len(r.path) /\ Done(A, P, tree, n)
      /\ tree \in Seq(NodeType)
  BY DEF Tracks, IsFinal
<1>2. r.valuation \in VisitedAt(A, P, tree, n)
  BY <1>1, TrackedIsVisited
<1>3. /\ t \in DOMAIN A.transition /\ q \in Point
      /\ q \in A.invariant[A.transition[t].target]
  BY RunTypes, FollowsTypes
<1>4. <<t, q>> \in Jumps(A, P, tree, n)
  BY <1>1, <1>2, <1>3 DEF Jumps
<1>5. HasChild(A, tree, n, t, q)
  BY <1>1, <1>4 DEF Done, IsExpanded
<1>6. PICK c \in DOMAIN tree : /\ tree[c].parent = n /\ tree[c].transition = t
                               /\ tree[c].location = A.transition[t].target
                               /\ tree[c].depth = tree[n].depth + 1
                               /\ q \in tree[c].initialSet
  BY <1>5 DEF HasChild
<1>7. tree[c].location \in Location /\ tree[c].initialSet \in SUBSET Point
  BY <1>1, NodeTypes
<1>8. q \in Elapsed(A, P, tree[c].location, tree[c].initialSet, 0)
  BY <1>3, <1>6, <1>7, ElapsedAtOnce
<1>9. r.path \in Seq(DOMAIN A.transition)
  BY RunTypes
<1>10. Len(Append(r.path, t)) = Len(r.path) + 1
  BY <1>9, AppendFacts
<1>11. /\ s.location = A.transition[t].target /\ s.valuation = q /\ s.steps = 0
       /\ s.path = Append(r.path, t)
  OBVIOUS
<1>12. Path(tree, c) = Append(r.path, t)
  <2>1. n # 0
    BY <1>1
  <2> QED
    BY <1>6, <2>1, PathUnfolds DEF IsFinal, Tracks
<1> QED
  BY <1>1, <1>6, <1>8, <1>10, <1>11, <1>12 DEF Tracks

(* The run is in the flowpipe of the node that tracks it.                 *)
LEMMA RunIsCovered ==
  ASSUME NEW A \in Automata, NEW P \in Parameters, NEW tree, IsFinal(A, P, tree),
         NEW r \in RunType(A), NEW n \in DOMAIN tree, Tracks(A, P, tree, n, r),
         P.horizon >= 0 => r.steps <= P.horizon, r.valuation \in A.invariant[r.location]
  PROVE  /\ tree[n].location = r.location /\ Path(tree, n) = r.path
         /\ \E k \in DOMAIN tree[n].flowpipe : r.valuation \in tree[n].flowpipe[k]
<1>1. tree[n].location = r.location /\ IsCovered(A, P, tree, n) /\ tree \in Seq(NodeType)
  BY DEF Tracks, IsFinal, Done
<1>2. r.valuation \in VisitedAt(A, P, tree, n)
  BY <1>1, TrackedIsVisited
<1> QED
  BY <1>1, <1>2 DEF IsCovered, InFlowpipe, Tracks

(* No bad state is visited in a final tree whose flowpipes are safe.      *)
LEMMA RunIsSafe ==
  ASSUME NEW A \in Automata, NEW P \in Parameters, NEW tree, IsFinal(A, P, tree), IsSafe(A, tree),
         NEW r \in RunType(A), NEW n \in DOMAIN tree, Tracks(A, P, tree, n, r),
         P.horizon >= 0 => r.steps <= P.horizon, r.valuation \in A.invariant[r.location]
  PROVE  r.valuation \notin BadStates(A, r.location)
<1>1. tree[n].location = r.location
  BY RunIsCovered
<1>3. PICK k \in DOMAIN tree[n].flowpipe : r.valuation \in tree[n].flowpipe[k]
  BY RunIsCovered
<1>4. tree[n].flowpipe[k] \cap BadStates(A, r.location) = {}
  BY <1>1, <1>3 DEF IsSafe, IsSafeAt
<1> QED
  BY <1>3, <1>4
--------------------------------------------------------------------------
(* The composition.                                                       *)

LEMMA SuccessIsFinal ==
  ASSUME RectangularInv, result = "success"
  PROVE  IsFinal(ha, par, nodes) /\ (SoundConfiguration => IsSafe(ha, nodes))
<1>1. pc = "done" /\ workQueue = << >> /\ safe /\ nodes \in Seq(NodeType)
  BY DEF RectangularInv, ControlInv, TypeOK
<1>2. \A n : ~Queued(workQueue, n)
  BY <1>1 DEF Queued
<1> QED
  BY <1>1, <1>2 DEF RectangularInv, TreeInv, BusyPcs, IsFinal

LEMMA SingularSuccessIsFinal ==
  ASSUME SingularInv, singularResult = "success"
  PROVE  IsFinal(ha, par, singularNodes) /\ (SoundConfiguration => IsSafe(ha, singularNodes))
<1>1. singularPc = "done" /\ singularQueue = << >> /\ singularSafe /\ singularNodes \in Seq(NodeType)
  BY SingularTyped DEF SingularInv, SingularControlInv
<1>2. \A n : ~Queued(singularQueue, n)
  BY <1>1 DEF Queued
<1> QED
  BY <1>1, <1>2 DEF SingularInv, SingularTreeInv, BusyPcs, IsFinal

(* Nothing is analyzed any more once there is a run.                      *)
LEMMA AnalysesAreOver ==
  ASSUME RectangularInv, SingularInv, RunInv, Analyze
  PROVE  run = NoRun
<1> SUFFICES ASSUME run # NoRun
             PROVE  FALSE
  OBVIOUS
<1>1. Finished
  BY DEF RunInv
<1>2. pc = "done"
  BY <1>1 DEF Finished, RectangularInv, ControlInv
<1>3. ~Next
  BY <1>2 DEF Next, InitializeQueue, Dequeue, ComputeTimeSuccessors, ComputeJumpSuccessors,
     StoreFlowpipe, AddChild, FinishTask, Succeed
<1>4. GivenToSingular /\ Singular!Next
  BY <1>3 DEF Analyze, AnalyzeRectangular, AnalyzeSingular
<1>5. singularPc = "done"
  BY <1>1, <1>4 DEF Finished, SingularInv, SingularControlInv
<1>6. ~Singular!Next
  BY <1>5 DEF Singular!Next, Singular!Dequeue, Singular!ComputeTimeSuccessors,
     Singular!ComputeJumpSuccessors, Singular!StoreFlowpipe, Singular!AddChild,
     Singular!ResetWorker, Singular!Succeed
<1> QED
  BY <1>4, <1>6

LEMMA InvariantAtStart ==
  ASSUME VerificationInit
  PROVE  IInv
BY RectangularStart, SingularStart DEF VerificationInit, RunInv, IInv

LEMMA AnalyzeKeepsInv ==
  ASSUME IInv, Analyze
  PROVE  IInv'
<1>1. RectangularInv /\ SingularInv /\ RunInv /\ run = NoRun
  BY AnalysesAreOver DEF IInv
<1>2. CASE AnalyzeRectangular
  <2>1. Next /\ UNCHANGED singularVars /\ run' = run
    BY <1>2 DEF AnalyzeRectangular
  <2>2. UNCHANGED inputs
    BY <2>1 DEF Next, InitializeQueue, Dequeue, ComputeTimeSuccessors, ComputeJumpSuccessors,
       StoreFlowpipe, AddChild, FinishTask, Succeed, inputs
  <2>3. RectangularInv' /\ SingularInv'
    BY <1>1, <2>1, <2>2, RectangularStep, SingularStutter
  <2> QED
    BY <1>1, <2>1, <2>3 DEF IInv, RunInv, NoRun
<1>3. CASE AnalyzeSingular
  <2>1. Singular!Next /\ UNCHANGED rectangularVars /\ run' = run
    BY <1>3 DEF AnalyzeSingular
  <2>2. UNCHANGED inputs
    BY <2>1 DEF Singular!Next, Singular!Dequeue, Singular!ComputeTimeSuccessors,
       Singular!ComputeJumpSuccessors, Singular!StoreFlowpipe, Singular!AddChild,
       Singular!ResetWorker, Singular!Succeed, Singular!inputs, inputs
  <2>3. RectangularInv' /\ SingularInv'
    BY <1>1, <2>1, <2>2, SingularStep, RectangularStutter
  <2> QED
    BY <1>1, <2>1, <2>3 DEF IInv, RunInv, NoRun
<1> QED
  BY <1>2, <1>3 DEF Analyze

LEMMA StartKeepsRun ==
  ASSUME RectangularInv, SingularInv, RunInv, Finished, Start, UNCHANGED <<inputs, rectangularVars, singularVars>>
  PROVE  RunInv'
<1>1. /\ ha' = ha /\ par' = par /\ nodes' = nodes /\ singularNodes' = singularNodes
      /\ result' = result /\ singularResult' = singularResult
  BY DEF inputs, rectangularVars, singularVars
<1>2. ha \in Automata /\ par \in Parameters /\ par.horizon \in Int
  BY SettingTypes DEF RectangularInv, TypeOK
<1>3. PICK i \in DOMAIN ha.initial :
        \E p \in ha.initial[i].set \cap ha.invariant[ha.initial[i].loc] :
          run' = [location |-> ha.initial[i].loc, valuation |-> p, steps |-> 0, path |-> << >>]
  BY DEF Start
<1>4. PICK p \in ha.initial[i].set :
        /\ p \in ha.invariant[ha.initial[i].loc]
        /\ run' = [location |-> ha.initial[i].loc, valuation |-> p, steps |-> 0, path |-> << >>]
  BY <1>3
<1>5. ha.initial[i].loc \in Location /\ ha.initial[i].set \in SUBSET Point
  <2> DEFINE InitialState == [loc : Location, set : SUBSET Point]
  <2>1. ha.initial \in Seq(InitialState)
    BY <1>2, AutomatonTypes
  <2> HIDE DEF InitialState
  <2>2. ha.initial[i] \in InitialState
    BY <2>1
  <2> QED
    BY <2>2 DEF InitialState
<1>6. run' \in RunType(ha) /\ run'.valuation = p /\ run'.location = ha.initial[i].loc /\ run'.steps = 0
  <2>1. << >> \in Seq(DOMAIN ha.transition)
    OBVIOUS
  <2> QED
    BY <2>1, <1>4, <1>5 DEF RunType
<1>7. result = "success" => \E n \in DOMAIN nodes : Tracks(ha, par, nodes, n, run')
  BY <1>2, <1>4, SuccessIsFinal, RunStarts
<1>8. singularResult = "success" => \E n \in DOMAIN singularNodes : Tracks(ha, par, singularNodes, n, run')
  BY <1>2, <1>4, SingularSuccessIsFinal, RunStarts
<1>9. Finished'
  BY <1>1 DEF Finished, GivenToSingular, IsSingular
<1> QED
  BY <1>1, <1>2, <1>4, <1>6, <1>7, <1>8, <1>9 DEF RunInv

LEMMA ElapseKeepsRun ==
  ASSUME RectangularInv, SingularInv, RunInv, Finished, Elapse, UNCHANGED <<inputs, rectangularVars, singularVars>>
  PROVE  RunInv'
<1>1. /\ ha' = ha /\ par' = par /\ nodes' = nodes /\ singularNodes' = singularNodes
      /\ result' = result /\ singularResult' = singularResult
  BY DEF inputs, rectangularVars, singularVars
<1>2. ha \in Automata /\ par \in Parameters /\ par.horizon \in Int
  BY SettingTypes DEF RectangularInv, TypeOK
<1>3. /\ run \in RunType(ha) /\ run.location \in Location /\ run.valuation \in Point /\ run.steps \in Nat
      /\ (par.horizon < 0 \/ run.steps < par.horizon)
      /\ (result = "success" => \E n \in DOMAIN nodes : Tracks(ha, par, nodes, n, run))
      /\ (singularResult = "success" =>
             \E n \in DOMAIN singularNodes : Tracks(ha, par, singularNodes, n, run))
  BY RunTypes DEF RunInv, Elapse
<1>4. PICK q \in ha.flow[run.location][run.valuation] :
        /\ q \in ha.invariant[run.location]
        /\ run' = [run EXCEPT !.valuation = q, !.steps = IF par.horizon < 0 THEN 0 ELSE @ + 1]
  BY DEF Elapse
<1>5. q \in Point
  BY <1>2, <1>3, AutomatonTypes
<1>6. /\ run' \in RunType(ha) /\ run'.valuation = q /\ run'.location = run.location
      /\ run'.steps = IF par.horizon < 0 THEN 0 ELSE run.steps + 1
  <2> DEFINE k == IF par.horizon < 0 THEN 0 ELSE run.steps + 1
  <2>1. k \in Nat
    BY <1>2, <1>3
  <2>2. run' = [run EXCEPT !.valuation = q, !.steps = k]
    BY <1>4
  <2> HIDE DEF k
  <2>3. run' \in RunType(ha) /\ run'.location = run.location /\ run'.valuation = q /\ run'.steps = k
    BY <2>1, <2>2, <1>3, <1>5 DEF RunType
  <2> QED
    BY <2>3 DEF k
<1>7. result = "success" => \E n \in DOMAIN nodes : Tracks(ha, par, nodes, n, run')
  BY <1>2, <1>3, <1>4, <1>5, SuccessIsFinal, RunElapses
<1>8. singularResult = "success" => \E n \in DOMAIN singularNodes : Tracks(ha, par, singularNodes, n, run')
  BY <1>2, <1>3, <1>4, <1>5, SingularSuccessIsFinal, RunElapses
<1>9. Finished'
  BY <1>1 DEF Finished, GivenToSingular, IsSingular
<1>10. par.horizon >= 0 => run'.steps <= par.horizon
  BY <1>2, <1>3, <1>6
<1> QED
  BY <1>1, <1>4, <1>6, <1>7, <1>8, <1>9, <1>10 DEF RunInv

LEMMA JumpKeepsRun ==
  ASSUME RectangularInv, SingularInv, RunInv, Finished, Jump, UNCHANGED <<inputs, rectangularVars, singularVars>>
  PROVE  RunInv'
<1>1. /\ ha' = ha /\ par' = par /\ nodes' = nodes /\ singularNodes' = singularNodes
      /\ result' = result /\ singularResult' = singularResult
  BY DEF inputs, rectangularVars, singularVars
<1>2. ha \in Automata /\ par \in Parameters /\ par.horizon \in Int
  BY SettingTypes DEF RectangularInv, TypeOK
<1>3. /\ run \in RunType(ha) /\ run.valuation \in Point /\ run.path \in Seq(DOMAIN ha.transition)
      /\ run.valuation \in ha.invariant[run.location]
      /\ (par.horizon >= 0 => run.steps <= par.horizon)
      /\ Len(run.path) < par.jumpDepth
      /\ (result = "success" => \E n \in DOMAIN nodes : Tracks(ha, par, nodes, n, run))
      /\ (singularResult = "success" =>
             \E n \in DOMAIN singularNodes : Tracks(ha, par, singularNodes, n, run))
  BY RunTypes DEF RunInv, Jump
<1>4. PICK t \in TransitionsFrom(ha, run.location) :
        /\ run.valuation \in ha.transition[t].guard
        /\ \E q \in ha.transition[t].reset[run.valuation] \cap ha.invariant[ha.transition[t].target] :
             run' = [location |-> ha.transition[t].target, valuation |-> q, steps |-> 0,
                     path |-> Append(run.path, t)]
  BY DEF Jump
<1>5. PICK q : /\ Follows(ha, run.location, run.valuation, t, q)
               /\ run' = [location |-> ha.transition[t].target, valuation |-> q, steps |-> 0,
                          path |-> Append(run.path, t)]
  BY <1>4 DEF Follows
<1>6. /\ t \in DOMAIN ha.transition /\ q \in Point
      /\ q \in ha.invariant[ha.transition[t].target]
      /\ ha.transition[t].target \in Location
  BY <1>2, <1>3, <1>5, FollowsTypes, TransitionTypes
<1>7. /\ run' \in RunType(ha) /\ run'.valuation = q /\ run'.location = ha.transition[t].target
      /\ run'.steps = 0
  <2>1. Append(run.path, t) \in Seq(DOMAIN ha.transition)
    BY <1>3, <1>6, AppendTyped
  <2> QED
    BY <2>1, <1>5, <1>6 DEF RunType
<1>8. result = "success" => \E n \in DOMAIN nodes : Tracks(ha, par, nodes, n, run')
  BY <1>2, <1>3, <1>5, SuccessIsFinal, RunJumps
<1>9. singularResult = "success" => \E n \in DOMAIN singularNodes : Tracks(ha, par, singularNodes, n, run')
  BY <1>2, <1>3, <1>5, SingularSuccessIsFinal, RunJumps
<1>10. Finished'
  BY <1>1 DEF Finished, GivenToSingular, IsSingular
<1> QED
  BY <1>1, <1>2, <1>6, <1>7, <1>8, <1>9, <1>10 DEF RunInv

LEMMA InvariantStep ==
  ASSUME IInv, [VerificationNext]_verificationVars
  PROVE  IInv'
<1>1. RectangularInv /\ SingularInv /\ RunInv
  BY DEF IInv
<1>2. CASE Analyze
  BY <1>2, AnalyzeKeepsInv
<1>3. CASE RunMoves
  <2>1. Finished /\ UNCHANGED <<inputs, rectangularVars, singularVars>>
    BY <1>3 DEF RunMoves
  <2>2. RectangularInv' /\ SingularInv'
    BY <1>1, <2>1, RectangularStutter, SingularStutter
  <2>3. RunInv'
    BY <1>1, <1>3, <2>1, StartKeepsRun, ElapseKeepsRun, JumpKeepsRun DEF RunMoves
  <2> QED
    BY <2>2, <2>3 DEF IInv
<1>4. CASE UNCHANGED verificationVars
  <2>1. UNCHANGED <<inputs, rectangularVars, singularVars>> /\ run' = run
    BY <1>4 DEF verificationVars
  <2>2. RectangularInv' /\ SingularInv'
    BY <1>1, <2>1, RectangularStutter, SingularStutter
  <2>3. RunInv'
    BY <1>1, <2>1 DEF RunInv, Finished, GivenToSingular, inputs, rectangularVars, singularVars, NoRun
  <2> QED
    BY <2>2, <2>3 DEF IInv
<1> QED
  BY <1>2, <1>3, <1>4 DEF VerificationNext

LEMMA Invariance == VerificationSpec => []IInv
<1>1. VerificationInit => IInv
  BY InvariantAtStart
<1>2. IInv /\ [VerificationNext]_verificationVars => IInv'
  BY InvariantStep
<1> QED
  BY <1>1, <1>2, PTL DEF VerificationSpec

(* The trees, queues and workers of RectangularAnalyzer and               *)
(* SingularAnalyzer keep their types: no successor set is empty and no    *)
(* queue holds a node that is not in the tree.                            *)
THEOREM AnalyzerTypes == VerificationSpec => []TypesOK
<1>1. IInv => TypesOK
  BY DEF IInv, RectangularInv, SingularInv, TypesOK
<1> QED
  BY <1>1, Invariance, PTL

(* Every run within the jump depth and the horizon is covered, jump by    *)
(* jump, by the nodes of a tree that was analyzed to the end, of both     *)
(* analyzers, whatever the conditions for bad states are.                 *)
THEOREM EveryRunIsCovered == VerificationSpec => []RunsAreCovered
<1>1. ASSUME IInv
      PROVE  RunsAreCovered
  <2> SUFFICES ASSUME run # NoRun
               PROVE  /\ result = "success" => Covers(nodes)
                      /\ singularResult = "success" => Covers(singularNodes)
    BY DEF RunsAreCovered
  <2>1. RectangularInv /\ SingularInv /\ RunInv
    BY <1>1 DEF IInv
  <2>2. ha \in Automata /\ par \in Parameters
    BY <2>1 DEF RectangularInv, TypeOK
  <2>3. /\ run \in RunType(ha) /\ run.valuation \in ha.invariant[run.location]
        /\ (par.horizon >= 0 => run.steps <= par.horizon)
        /\ (result = "success" => \E n \in DOMAIN nodes : Tracks(ha, par, nodes, n, run))
        /\ (singularResult = "success" =>
               \E n \in DOMAIN singularNodes : Tracks(ha, par, singularNodes, n, run))
    BY <2>1 DEF RunInv
  <2>4. result = "success" => Covers(nodes)
    BY <2>1, <2>2, <2>3, SuccessIsFinal, RunIsCovered DEF Covers
  <2>5. singularResult = "success" => Covers(singularNodes)
    BY <2>1, <2>2, <2>3, SingularSuccessIsFinal, RunIsCovered DEF Covers
  <2> QED
    BY <2>4, <2>5
<1>2. IInv => RunsAreCovered
  BY <1>1
<1> QED
  BY <1>2, Invariance, PTL

(* Of every rectangular automaton with a global condition that has        *)
(* constraints and no false local one: after a success of either analyzer *)
(* no run visits a bad state.                                             *)
THEOREM SuccessIsSafe == VerificationSpec => [](SoundConfiguration => Soundness)
<1>1. ASSUME IInv, SoundConfiguration
      PROVE  Soundness
  <2> SUFFICES ASSUME run # NoRun, run.valuation \in BadStates(ha, run.location)
               PROVE  result # "success" /\ singularResult # "success"
    BY DEF Soundness
  <2>1. RectangularInv /\ SingularInv /\ RunInv
    BY <1>1 DEF IInv
  <2>2. ha \in Automata /\ par \in Parameters
    BY <2>1 DEF RectangularInv, TypeOK
  <2>3. /\ run \in RunType(ha) /\ run.valuation \in ha.invariant[run.location]
        /\ (par.horizon >= 0 => run.steps <= par.horizon)
        /\ (result = "success" => \E n \in DOMAIN nodes : Tracks(ha, par, nodes, n, run))
        /\ (singularResult = "success" =>
               \E n \in DOMAIN singularNodes : Tracks(ha, par, singularNodes, n, run))
    BY <2>1 DEF RunInv
  <2>4. result # "success"
    BY <1>1, <2>1, <2>2, <2>3, SuccessIsFinal, RunIsSafe
  <2>5. singularResult # "success"
    BY <1>1, <2>1, <2>2, <2>3, SingularSuccessIsFinal, RunIsSafe
  <2> QED
    BY <2>4, <2>5
<1>2. IInv => (SoundConfiguration => Soundness)
  BY <1>1
<1> QED
  BY <1>2, Invariance, PTL

--------------------------------------------------------------------------
(* What the automaton can reach: the sets that Stays and ReachedWith      *)
(* define recursively.                                                    *)

StayEntry(A, l, S, f, k) == A.invariant[l] \cap IF k = 0 THEN S ELSE Image(f[k - 1], A.flow[l])

IsStay(A, l, S, n, f) == f = [k \in 0..n |-> StayEntry(A, l, S, f, k)]

LEMMA StayExists ==
  ASSUME NEW A, NEW l, NEW S, NEW n \in Nat
  PROVE  \E f : IsStay(A, l, S, n, f)
<1> DEFINE N == {m \in Nat : \E f : IsStay(A, l, S, m, f)}
<1>0. \A f, g, k : k = 0 \/ f[k - 1] = g[k - 1] => StayEntry(A, l, S, f, k) = StayEntry(A, l, S, g, k)
  BY DEF StayEntry
<1>1. 0 \in N
  <2> DEFINE f == [k \in 0..0 |-> A.invariant[l] \cap S]
  <2>1. \A k \in 0..0 : StayEntry(A, l, S, f, k) = A.invariant[l] \cap S
    BY DEF StayEntry
  <2>2. f = [k \in 0..0 |-> StayEntry(A, l, S, f, k)]
    BY <2>1
  <2> HIDE DEF f
  <2> QED
    BY <2>2 DEF IsStay
<1>2. ASSUME NEW m \in Nat, m \in N PROVE m + 1 \in N
  <2>1. PICK f : f = [k \in 0..m |-> StayEntry(A, l, S, f, k)]
    BY <1>2 DEF IsStay
  <2> DEFINE g == [k \in 0..m + 1 |-> StayEntry(A, l, S, f, k)]
  <2>2. \A k \in 0..m : g[k] = f[k]
    BY <2>1
  <2>3. ASSUME NEW k \in 0..m + 1 PROVE StayEntry(A, l, S, f, k) = StayEntry(A, l, S, g, k)
    <3>1. k = 0 \/ k - 1 \in 0..m
      OBVIOUS
    <3> HIDE DEF g
    <3> QED
      BY <1>0, <2>2, <3>1
  <2>4. g = [k \in 0..m + 1 |-> StayEntry(A, l, S, g, k)]
    BY <2>3
  <2> HIDE DEF g
  <2> QED
    BY <2>4 DEF IsStay
<1> HIDE DEF N
<1>3. n \in N
  BY <1>1, <1>2, InductionFromZero
<1> QED
  BY <1>3 DEF N

Layers(f, n) == UNION {f[k] : k \in 0..n}

LEMMA StaysUnfolds ==
  ASSUME NEW A, NEW l, NEW S, NEW h, NEW n \in Nat, n = IF h < 0 THEN Cardinality(Point) ELSE h
  PROVE  \E f : IsStay(A, l, S, n, f) /\ Stays(A, l, S, h) = Layers(f, n)
<1> DEFINE f == CHOOSE f : f = [k \in 0..n |-> StayEntry(A, l, S, f, k)]
<1>1. Stays(A, l, S, h) = Layers(f, n)
  BY DEF Stays, StayEntry, Layers
<1>2. IsStay(A, l, S, n, f)
  BY StayExists DEF IsStay
<1> HIDE DEF f
<1> QED
  BY <1>1, <1>2

IsLayered(A, l, S, n, f) ==
  /\ f[0] = A.invariant[l] \cap S
  /\ \A k \in 1..n : f[k] = A.invariant[l] \cap Image(f[k - 1], A.flow[l])

LEMMA StayStep ==
  ASSUME NEW A, NEW l, NEW S, NEW n \in Nat, NEW f, IsStay(A, l, S, n, f)
  PROVE  IsLayered(A, l, S, n, f)
<1>1. \A k \in 0..n : f[k] = StayEntry(A, l, S, f, k)
  BY DEF IsStay
<1>2. 0 \in 0..n /\ \A k \in 1..n : k \in 0..n /\ k # 0
  OBVIOUS
<1> QED
  BY <1>1, <1>2 DEF StayEntry, IsLayered

(* The confined automaton differs in its flows only.                      *)
LEMMA ConfinedFlows ==
  ASSUME NEW A \in Automata, NEW l \in Location
  PROVE  \A p \in Point : Confined(A).flow[l][p] = A.flow[l][p] \cap A.invariant[l]
BY AutomataAssumption DEF Confined, RectangularAutomatonType

(* In bounded time: a path within the invariant is in the sets.           *)
LEMMA WithinStays ==
  ASSUME NEW A \in Automata, NEW l \in Location, NEW S, NEW T, S \subseteq T, NEW n \in Nat,
         NEW f, IsStay(A, l, T, n, f)
  PROVE  Within(Confined(A), l, S \cap A.invariant[l], n) \subseteq Layers(f, n)
<1> SUFFICES ASSUME NEW q \in Within(Confined(A), l, S \cap A.invariant[l], n)
             PROVE  q \in Layers(f, n)
  OBVIOUS
<1>0. /\ f[0] = A.invariant[l] \cap T
      /\ \A k \in 1..n : f[k] = A.invariant[l] \cap Image(f[k - 1], A.flow[l])
  <2>1. IsLayered(A, l, T, n, f)
    BY StayStep
  <2> QED
    BY <2>1 DEF IsLayered
<1>1. PICK k \in 0..n : \E path \in [0..k -> Point] :
        /\ path[0] \in S \cap A.invariant[l]
        /\ \A i \in 1..k : path[i] \in Confined(A).flow[l][path[i - 1]]
        /\ path[k] = q
  BY DEF Within
<1>2. PICK path \in [0..k -> Point] :
        /\ path[0] \in S \cap A.invariant[l]
        /\ \A i \in 1..k : path[i] \in Confined(A).flow[l][path[i - 1]]
        /\ path[k] = q
  BY <1>1
<1> DEFINE N == {i \in Nat : i <= k => path[i] \in f[i]}
<1>3. 0 \in N
  BY <1>0, <1>2
<1>4. ASSUME NEW i \in Nat, i \in N PROVE i + 1 \in N
  <2> SUFFICES ASSUME i + 1 <= k
               PROVE  path[i + 1] \in f[i + 1]
    OBVIOUS
  <2>1. path[i] \in f[i] /\ path[i] \in Point
    BY <1>4
  <2>2. path[i + 1] \in Confined(A).flow[l][path[i]]
    <3>1. i + 1 \in 1..k /\ (i + 1) - 1 = i
      OBVIOUS
    <3> QED
      BY <1>2, <3>1
  <2>3. path[i + 1] \in A.flow[l][path[i]] \cap A.invariant[l]
    BY <2>1, <2>2, ConfinedFlows
  <2>4. f[i + 1] = A.invariant[l] \cap Image(f[i], A.flow[l])
    <3>1. i + 1 \in 1..n /\ (i + 1) - 1 = i
      OBVIOUS
    <3> QED
      BY <1>0, <3>1
  <2> QED
    BY <2>1, <2>3, <2>4 DEF Image
<1> HIDE DEF N
<1>5. k \in N
  BY <1>3, <1>4, InductionFromZero
<1> QED
  BY <1>2, <1>5 DEF N, Layers

(* Without a horizon: a set with as many layers as there are valuations   *)
(* has no further one, for every layer would have a valuation of its own. *)
LEMMA StayIsClosed ==
  ASSUME NEW A \in Automata, NEW l \in Location, NEW S, IsFiniteSet(Point),
         NEW n \in Nat, n = Cardinality(Point), NEW f, IsStay(A, l, S, n, f),
         NEW p \in Layers(f, n), NEW q \in A.flow[l][p], q \in A.invariant[l]
  PROVE  q \in Layers(f, n)
<1> DEFINE IsNew(x, k) == x \in f[k] /\ \A i \in 0..k - 1 : x \notin f[i]
           HasNew(k) == \E x : IsNew(x, k)
<1>0. /\ f[0] = A.invariant[l] \cap S
      /\ \A k \in 1..n : f[k] = A.invariant[l] \cap Image(f[k - 1], A.flow[l])
  <2>1. IsLayered(A, l, S, n, f)
    BY StayStep
  <2> QED
    BY <2>1 DEF IsLayered
<1> SUFFICES ASSUME \A k \in 0..n : q \notin f[k]
             PROVE  FALSE
  BY DEF Layers
<1>1. ASSUME NEW k \in 0..n - 1, NEW x \in f[k], NEW y \in A.flow[l][x], y \in A.invariant[l]
      PROVE  y \in f[k + 1]
  <2>1. k + 1 \in 1..n /\ (k + 1) - 1 = k
    OBVIOUS
  <2>2. f[k + 1] = A.invariant[l] \cap Image(f[k], A.flow[l])
    BY <1>0, <2>1
  <2>3. y \in Image(f[k], A.flow[l])
    BY DEF Image
  <2> QED
    BY <1>1, <2>2, <2>3
<1>2. HasNew(n)
  <2>1. PICK k \in 0..n : p \in f[k]
    BY DEF Layers
  <2>2. \A i \in 0..n - 1 : p \notin f[i]
    <3> SUFFICES ASSUME NEW i \in 0..n - 1, p \in f[i]
                 PROVE  FALSE
      OBVIOUS
    <3>1. q \in f[i + 1] /\ i + 1 \in 0..n
      BY <1>1
    <3> QED
      BY <3>1
  <2>3. k = n
    BY <2>1, <2>2
  <2> QED
    BY <2>1, <2>2, <2>3
<1>3. ASSUME NEW k \in 1..n, HasNew(k) PROVE HasNew(k - 1)
  <2>1. PICK y : IsNew(y, k)
    BY <1>3
  <2>2. PICK x \in f[k - 1] : y \in A.flow[l][x] /\ y \in A.invariant[l]
    BY <1>0, <2>1 DEF Image
  <2>3. ASSUME NEW i \in 0..k - 1 - 1, x \in f[i] PROVE FALSE
    <3>1. i \in 0..n - 1 /\ i + 1 \in 0..k - 1
      OBVIOUS
    <3>2. y \in f[i + 1]
      BY <1>1, <2>2, <2>3, <3>1
    <3> QED
      BY <2>1, <3>1, <3>2
  <2> QED
    BY <2>2, <2>3
<1> HIDE DEF HasNew
<1>4. \A k \in 0..n : HasNew(k)
  <2> DEFINE N == {m \in Nat : m <= n => HasNew(n - m)}
  <2>1. 0 \in N
    BY <1>2
  <2>2. ASSUME NEW m \in Nat, m \in N PROVE m + 1 \in N
    <3> SUFFICES ASSUME m + 1 <= n
                 PROVE  HasNew(n - (m + 1))
      OBVIOUS
    <3>1. n - m \in 1..n /\ HasNew(n - m)
      BY <2>2
    <3>2. HasNew(n - m - 1)
      BY <1>3, <3>1
    <3>3. n - (m + 1) = n - m - 1
      OBVIOUS
    <3> QED
      BY <3>2, <3>3
  <2> HIDE DEF N
  <2>3. Nat \subseteq N
    BY <2>1, <2>2, InductionFromZero
  <2>4. \A m \in Nat : m <= n => HasNew(n - m)
    BY <2>3 DEF N
  <2> TAKE k \in 0..n
  <2>5. n - k \in Nat /\ n - k <= n /\ n - (n - k) = k
    OBVIOUS
  <2> QED
    BY <2>4, <2>5
<1> DEFINE new == [k \in 0..n |-> CHOOSE x : IsNew(x, k)]
<1>5. \A k \in 0..n : IsNew(new[k], k)
  BY <1>4 DEF HasNew
<1> HIDE DEF new
<1>6. \A k \in 0..n : new[k] \in Point
  <2>1. A.invariant[l] \subseteq Point
    BY AutomatonTypes
  <2>2. \A k \in 0..n : f[k] \subseteq A.invariant[l]
    <3>1. \A k \in 0..n : k = 0 \/ k \in 1..n
      OBVIOUS
    <3> QED
      BY <1>0, <3>1
  <2> QED
    BY <1>5, <2>1, <2>2
<1>7. \A i, k \in 0..n : i < k => new[i] # new[k]
  BY <1>5
<1>8. new \in Injection(0..n, Point)
  <2>1. new \in [0..n -> Point]
    BY <1>6 DEF new
  <2>2. \A i, k \in 0..n : new[i] = new[k] => i = k
    BY <1>7
  <2>3. DOMAIN new = 0..n
    BY DEF new
  <2> QED
    BY <2>1, <2>2, <2>3, Zenon DEF Injection, IsInjective
<1>9. Cardinality(0..n) <= Cardinality(Point)
  BY <1>8, FS_Injection
<1>10. Cardinality(0..n) = n + 1
  <2>1. 0 \in Int /\ n \in Int /\ ~(0 > n) /\ n - 0 + 1 = n + 1
    OBVIOUS
  <2> QED
    BY <2>1, FS_Interval
<1> QED
  BY <1>9, <1>10

LEMMA EverStays ==
  ASSUME NEW A \in Automata, NEW l \in Location, NEW S, NEW T, S \subseteq T, IsFiniteSet(Point),
         NEW n \in Nat, n = Cardinality(Point), NEW f, IsStay(A, l, T, n, f)
  PROVE  Ever(Confined(A), l, S \cap A.invariant[l]) \subseteq Layers(f, n)
<1> DEFINE U == Layers(f, n)
<1>0. /\ f[0] = A.invariant[l] \cap T
      /\ \A k \in 1..n : f[k] = A.invariant[l] \cap Image(f[k - 1], A.flow[l])
  <2>1. IsLayered(A, l, T, n, f)
    BY StayStep
  <2> QED
    BY <2>1 DEF IsLayered
<1>1. S \cap A.invariant[l] \subseteq U
  BY <1>0 DEF Layers
<1>2. U \subseteq A.invariant[l]
  <2>1. \A k \in 0..n : k = 0 \/ k \in 1..n
    OBVIOUS
  <2>2. \A k \in 0..n : f[k] \subseteq A.invariant[l]
    BY <1>0, <2>1
  <2> QED
    BY <2>2 DEF Layers
<1>3. A.invariant[l] \subseteq Point
  BY AutomatonTypes
<1>4. \A p \in U : \A q \in A.flow[l][p] : q \in A.invariant[l] => q \in U
  BY StayIsClosed
<1> HIDE DEF U
<1>5. Image(U, Confined(A).flow[l]) \subseteq U
  <2> SUFFICES ASSUME NEW p \in U, NEW q \in Confined(A).flow[l][p]
               PROVE  q \in U
    BY DEF Image
  <2>1. q \in A.flow[l][p] \cap A.invariant[l]
    BY <1>2, <1>3, ConfinedFlows
  <2> QED
    BY <1>4, <2>1
<1>6. U \in SUBSET Point
  BY <1>2, <1>3
<1>7. Ever(Confined(A), l, S \cap A.invariant[l]) \subseteq U
  BY <1>1, <1>5, <1>6 DEF Ever
<1> QED
  BY <1>7 DEF U

LEMMA ReachedStays ==
  ASSUME NEW A \in Automata, NEW l \in Location, NEW S, NEW T, S \subseteq T, NEW h \in Int,
         h < 0 => IsFiniteSet(Point)
  PROVE  Reached(Confined(A), l, S \cap A.invariant[l], h) \subseteq Stays(A, l, T, h)
<1> DEFINE n == IF h < 0 THEN Cardinality(Point) ELSE h
<1>1. n \in Nat
  BY FS_CardinalityType
<1>2. PICK f : IsStay(A, l, T, n, f) /\ Stays(A, l, T, h) = Layers(f, n)
  BY <1>1, StaysUnfolds
<1> HIDE DEF n
<1>3. CASE h < 0
  <2>1. n = Cardinality(Point)
    BY <1>3 DEF n
  <2>2. Ever(Confined(A), l, S \cap A.invariant[l]) \subseteq Layers(f, n)
    BY <1>1, <1>2, <1>3, <2>1, EverStays
  <2> QED
    BY <1>2, <1>3, <2>2 DEF Reached
<1>4. CASE ~(h < 0)
  <2>1. n = h
    BY <1>4 DEF n
  <2>2. Within(Confined(A), l, S \cap A.invariant[l], n) \subseteq Layers(f, n)
    BY <1>1, <1>2, WithinStays
  <2> QED
    BY <1>2, <1>4, <2>1, <2>2 DEF Reached
<1> QED
  BY <1>3, <1>4

ReachEntry(A, h, f, j) ==
  [l \in Location |-> Stays(A, l, IF j = 0 THEN InitialIn(A, l) ELSE JumpsInto(A, l, f[j - 1]), h)]

IsReach(A, h, n, f) == f = [j \in 0..n |-> ReachEntry(A, h, f, j)]

LEMMA ReachExists ==
  ASSUME NEW A, NEW h, NEW n \in Nat
  PROVE  \E f : IsReach(A, h, n, f)
<1> DEFINE N == {m \in Nat : \E f : IsReach(A, h, m, f)}
<1>0. \A f, g, j : j = 0 \/ f[j - 1] = g[j - 1] => ReachEntry(A, h, f, j) = ReachEntry(A, h, g, j)
  BY DEF ReachEntry
<1>1. 0 \in N
  <2> DEFINE f == [j \in 0..0 |-> [l \in Location |-> Stays(A, l, InitialIn(A, l), h)]]
  <2>1. \A j \in 0..0 : ReachEntry(A, h, f, j) = [l \in Location |-> Stays(A, l, InitialIn(A, l), h)]
    BY DEF ReachEntry
  <2>2. f = [j \in 0..0 |-> ReachEntry(A, h, f, j)]
    BY <2>1
  <2> HIDE DEF f
  <2> QED
    BY <2>2 DEF IsReach
<1>2. ASSUME NEW m \in Nat, m \in N PROVE m + 1 \in N
  <2>1. PICK f : f = [j \in 0..m |-> ReachEntry(A, h, f, j)]
    BY <1>2 DEF IsReach
  <2> DEFINE g == [j \in 0..m + 1 |-> ReachEntry(A, h, f, j)]
  <2>2. \A j \in 0..m : g[j] = f[j]
    BY <2>1
  <2>3. ASSUME NEW j \in 0..m + 1 PROVE ReachEntry(A, h, f, j) = ReachEntry(A, h, g, j)
    <3>1. j = 0 \/ j - 1 \in 0..m
      OBVIOUS
    <3> HIDE DEF g
    <3> QED
      BY <1>0, <2>2, <3>1
  <2>4. g = [j \in 0..m + 1 |-> ReachEntry(A, h, g, j)]
    BY <2>3
  <2> HIDE DEF g
  <2> QED
    BY <2>4 DEF IsReach
<1> HIDE DEF N
<1>3. n \in N
  BY <1>1, <1>2, InductionFromZero
<1> QED
  BY <1>3 DEF N

LEMMA ReachedWithIsReach ==
  ASSUME NEW A, NEW h, NEW n \in Nat
  PROVE  IsReach(A, h, n, ReachedWith(A, n, h))
<1> DEFINE f == CHOOSE f : f = [j \in 0..n |-> ReachEntry(A, h, f, j)]
<1>1. ReachedWith(A, n, h) = f
  BY DEF ReachedWith, ReachEntry
<1>2. IsReach(A, h, n, f)
  BY ReachExists DEF IsReach
<1> QED
  BY <1>1, <1>2

LEMMA ReachedWithUnfolds ==
  ASSUME NEW A, NEW P, P.jumpDepth \in Nat, NEW j \in 0..P.jumpDepth, NEW l \in Location
  PROVE  ReachedWith(A, P.jumpDepth, P.horizon)[j][l] = Stays(A, l, EntryOf(A, P, j, l), P.horizon)
<1> DEFINE f == ReachedWith(A, P.jumpDepth, P.horizon)
<1>1. f = [k \in 0..P.jumpDepth |-> ReachEntry(A, P.horizon, f, k)]
  BY ReachedWithIsReach DEF IsReach
<1>2. EntryOf(A, P, j, l) = IF j = 0 THEN InitialIn(A, l) ELSE JumpsInto(A, l, f[j - 1])
  BY DEF EntryOf
<1> HIDE DEF f
<1>3. f[j] = ReachEntry(A, P.horizon, f, j)
  BY <1>1
<1>4. f[j][l] = Stays(A, l, EntryOf(A, P, j, l), P.horizon)
  BY <1>2, <1>3 DEF ReachEntry
<1> QED
  BY <1>4 DEF f

(* What was reached with fewer jumps than allowed, and is bad.            *)
LEMMA BadIsFound ==
  ASSUME NEW A, NEW P, NEW j \in 0..P.jumpDepth, NEW l \in Location,
         NEW S, S \subseteq ReachedWith(A, P.jumpDepth, P.horizon)[j][l], S \cap BadStates(A, l) # {}
  PROVE  BadIsReachable(A, P)
<1>1. Reachable(A, P.jumpDepth, P.horizon)[l] =
        UNION {ReachedWith(A, P.jumpDepth, P.horizon)[i][l] : i \in 0..P.jumpDepth}
  BY DEF Reachable
<1>2. S \subseteq Reachable(A, P.jumpDepth, P.horizon)[l]
  BY <1>1
<1> QED
  BY <1>2 DEF BadIsReachable

--------------------------------------------------------------------------
(* The operations of the workers on the sets that they keep.              *)

IsExactInput(A, P, K, j, l, S) ==
  /\ P.horizon < 0 => IsFiniteSet(Point)
  /\ Keeps(A, P, K)
  /\ j \in 0..P.jumpDepth
  /\ S \in K /\ S \subseteq EntryOf(A, P, j, l)

LEMMA KeptSets ==
  ASSUME NEW A \in Automata, NEW P \in Parameters, NEW K \in SUBSET SUBSET Point, Keeps(A, P, K)
  PROVE  /\ \A S \in K : Over[S] = S /\ S \in SUBSET Point
         /\ \A S \in K, l \in Location :
              /\ S \cap A.invariant[l] \in K
              /\ Reached(A, l, S, P.horizon) \in K
         /\ \A S \in K, t \in DOMAIN A.transition :
              /\ S \cap A.transition[t].guard \in K
              /\ Image(S, A.transition[t].reset) \in K
BY DEF Keeps

LEMMA ExactTimeSuccessorSet ==
  ASSUME NEW A \in Automata, NEW P \in Parameters, NEW K \in SUBSET SUBSET Point, NEW j,
         NEW l \in Location, NEW S, IsExactInput(A, P, K, j, l, S)
  PROVE  /\ Intersect(S, A.invariant[l]) = S \cap A.invariant[l]
         /\ S \cap A.invariant[l] \subseteq TimeSuccessorSet(A, l, S, P.horizon)
         /\ TimeSuccessorSet(A, l, S, P.horizon) \in K
         /\ TimeSuccessorSet(A, l, S, P.horizon)
              \subseteq ReachedWith(A, P.jumpDepth, P.horizon)[j][l]
<1> DEFINE segment == S \cap A.invariant[l]
           reached == Reached(A, l, segment, P.horizon)
<1>1. Keeps(A, P, K) /\ S \in K /\ S \subseteq EntryOf(A, P, j, l) /\ j \in 0..P.jumpDepth
  BY DEF IsExactInput
<1>2. segment \in K
  BY <1>1, KeptSets
<1>3. Over[segment] = segment /\ segment \in SUBSET Point
  BY <1>1, <1>2, KeptSets
<1>4. Intersect(S, A.invariant[l]) = segment
  BY <1>3 DEF Intersect
<1>5. P.horizon \in Int /\ P.jumpDepth \in Nat
  BY SettingTypes
<1> HIDE DEF segment
<1>6. reached \in K
  BY <1>1, <1>2, KeptSets
<1>7. Over[reached] = reached
  BY <1>1, <1>6, KeptSets
<1>8. reached \cap A.invariant[l] \in K
  BY <1>1, <1>6, KeptSets
<1>9. Over[reached \cap A.invariant[l]] = reached \cap A.invariant[l]
  BY <1>1, <1>8, KeptSets
<1>10. segment \subseteq reached
  BY <1>3, <1>5, ReachedAtOnce
<1> HIDE DEF reached
<1>11. TimeSuccessorSet(A, l, S, P.horizon) = reached \cap A.invariant[l]
  BY <1>4, <1>7, <1>9 DEF TimeSuccessorSet, TimeElapse, Intersect, reached
<1>12. reached \cap A.invariant[l] \subseteq Reached(Confined(A), l, segment, P.horizon)
  BY <1>1 DEF Keeps, reached, segment
<1>13. Reached(Confined(A), l, segment, P.horizon) \subseteq Stays(A, l, EntryOf(A, P, j, l), P.horizon)
  BY <1>1, <1>5, ReachedStays DEF segment, IsExactInput
<1>14. Stays(A, l, EntryOf(A, P, j, l), P.horizon) = ReachedWith(A, P.jumpDepth, P.horizon)[j][l]
  BY <1>1, <1>5, ReachedWithUnfolds
<1>15. segment \subseteq A.invariant[l]
  BY DEF segment
<1> QED
  BY <1>4, <1>8, <1>10, <1>11, <1>12, <1>13, <1>14, <1>15 DEF segment

LEMMA RectangularBadIsBad ==
  ASSUME NEW A \in Automata, NEW l, NEW S, RectangularIntersectBadStates(A, l, S) # {}
  PROVE  S \cap BadStates(A, l) # {}
<1>1. S \cap A.localBad[l] = {} => Intersect(S, A.localBad[l]) = {}
  BY OverAssumption DEF Intersect
<1>2. S \cap A.globalBad = {} => Intersect(S, A.globalBad) = {}
  BY OverAssumption DEF Intersect
<1> QED
  BY <1>1, <1>2 DEF RectangularIntersectBadStates, BadStates

LEMMA LtiBadIsBad ==
  ASSUME NEW A \in Automata, NEW l, NEW S \in SUBSET Point, S # {}, LtiIntersectsBadStates(A, l, S)
  PROVE  S \cap BadStates(A, l) # {}
<1>1. S \cap A.localBad[l] = {} => Intersect(S, A.localBad[l]) = {}
  BY OverAssumption DEF Intersect
<1>2. S \cap A.globalBad = {} => Intersect(S, A.globalBad) = {}
  BY OverAssumption DEF Intersect
<1> QED
  BY <1>1, <1>2 DEF LtiIntersectsBadStates, BadStates

IsExactResult(A, P, K, j, l, computed) ==
  /\ computed.safe => IsExactFlowpipe(A, P, K, j, l, computed.states)
  /\ ~computed.safe => BadIsReachable(A, P)

LEMMA ExactState ==
  ASSUME NEW A, NEW P, NEW K, NEW j, NEW l, NEW S
  PROVE  /\ IsExactFlowpipe(A, P, K, j, l, << >>)
         /\ S \in K /\ S \subseteq ReachedWith(A, P.jumpDepth, P.horizon)[j][l] =>
              IsExactFlowpipe(A, P, K, j, l, <<S>>)
<1>1. DOMAIN << >> = {} /\ DOMAIN <<S>> = {1} /\ <<S>>[1] = S
  OBVIOUS
<1> QED
  BY <1>1 DEF IsExactFlowpipe

LEMMA RectangularExactTimeSuccessors ==
  ASSUME NEW A \in Automata, NEW P \in Parameters, NEW K \in SUBSET SUBSET Point, NEW j,
         NEW l \in Location, NEW S, IsExactInput(A, P, K, j, l, S)
  PROVE  IsExactResult(A, P, K, j, l, TimeSuccessors(A, l, S, P.horizon))
<1> DEFINE segment == Intersect(S, A.invariant[l])
           bad == RectangularIntersectBadStates(A, l, segment)
           successors == TimeSuccessorSet(A, l, S, P.horizon)
           computed == TimeSuccessors(A, l, S, P.horizon)
           reached == ReachedWith(A, P.jumpDepth, P.horizon)[j][l]
<1>1. computed = IF segment = {} THEN [states |-> << >>, safe |-> TRUE]
                 ELSE IF bad # {} THEN [states |-> <<bad>>, safe |-> FALSE]
                 ELSE [states |-> <<successors>>,
                       safe |-> RectangularIntersectBadStates(A, l, successors) = {}]
  BY DEF TimeSuccessors, TimeSuccessorSet
<1>2. segment \subseteq successors /\ successors \in K /\ successors \subseteq reached
  BY ExactTimeSuccessorSet
<1>3. j \in 0..P.jumpDepth
  BY DEF IsExactInput
<1>4. ASSUME NEW T, T \subseteq reached, RectangularIntersectBadStates(A, l, T) # {}
      PROVE  BadIsReachable(A, P)
  <2>1. T \cap BadStates(A, l) # {}
    BY <1>4, RectangularBadIsBad
  <2>2. T \subseteq ReachedWith(A, P.jumpDepth, P.horizon)[j][l]
    BY <1>4
  <2> HIDE DEF reached
  <2> QED
    BY <2>1, <2>2, <1>3, BadIsFound
<1>5. IsExactFlowpipe(A, P, K, j, l, << >>) /\ IsExactFlowpipe(A, P, K, j, l, <<successors>>)
  BY <1>2, ExactState
<1> HIDE DEF segment, successors, computed, reached
<1>6. CASE segment = {}
  <2>1. computed.states = << >> /\ computed.safe = TRUE
    BY <1>1, <1>6
  <2> QED
    BY <2>1, <1>5 DEF IsExactResult, computed
<1>7. CASE segment # {} /\ bad # {}
  <2>1. computed.safe = FALSE
    BY <1>1, <1>7
  <2>2. BadIsReachable(A, P)
    BY <1>2, <1>4, <1>7
  <2> QED
    BY <2>1, <2>2 DEF IsExactResult, computed
<1>8. CASE segment # {} /\ bad = {}
  <2>1. /\ computed.states = <<successors>>
        /\ computed.safe = (RectangularIntersectBadStates(A, l, successors) = {})
    BY <1>1, <1>8
  <2>2. ~computed.safe => BadIsReachable(A, P)
    BY <2>1, <1>2, <1>4
  <2> QED
    BY <2>1, <2>2, <1>5 DEF IsExactResult, computed
<1> QED
  BY <1>6, <1>7, <1>8

LEMMA SingularExactTimeSuccessors ==
  ASSUME NEW A \in Automata, NEW P \in Parameters, NEW K \in SUBSET SUBSET Point, NEW j,
         NEW l \in Location, NEW S, IsExactInput(A, P, K, j, l, S)
  PROVE  IsExactResult(A, P, K, j, l, Singular!TimeSuccessors(A, l, S, P.horizon))
<1> DEFINE segment == Intersect(S, A.invariant[l])
           successors == TimeSuccessorSet(A, l, S, P.horizon)
           computed == Singular!TimeSuccessors(A, l, S, P.horizon)
           reached == ReachedWith(A, P.jumpDepth, P.horizon)[j][l]
<1>0. \A T : Singular!LtiIntersectsBadStates(A, l, T) = LtiIntersectsBadStates(A, l, T)
  BY DEF LtiIntersectsBadStates, Singular!LtiIntersectsBadStates, Intersect, Singular!Intersect
<1>1. computed = IF segment = {} THEN [states |-> << >>, safe |-> TRUE]
                 ELSE IF LtiIntersectsBadStates(A, l, segment) THEN [states |-> << >>, safe |-> FALSE]
                 ELSE IF successors = {} THEN [states |-> << >>, safe |-> TRUE]
                 ELSE [states |-> <<successors>>, safe |-> ~LtiIntersectsBadStates(A, l, successors)]
  BY <1>0 DEF Singular!TimeSuccessors, TimeSuccessorSet, Intersect, Singular!Intersect,
     TimeElapse, Singular!TimeElapse, Reached, Singular!Reached, Within, Singular!Within,
     Ever, Singular!Ever, Image, Singular!Image
<1>2. segment \subseteq successors /\ successors \in K /\ successors \subseteq reached
  BY ExactTimeSuccessorSet
<1>3. j \in 0..P.jumpDepth
  BY DEF IsExactInput
<1>4. ASSUME NEW T \in SUBSET Point, T # {}, T \subseteq reached, LtiIntersectsBadStates(A, l, T)
      PROVE  BadIsReachable(A, P)
  <2>1. T \cap BadStates(A, l) # {}
    BY <1>4, LtiBadIsBad
  <2>2. T \subseteq ReachedWith(A, P.jumpDepth, P.horizon)[j][l]
    BY <1>4
  <2> HIDE DEF reached
  <2> QED
    BY <2>1, <2>2, <1>3, BadIsFound
<1>5. IsExactFlowpipe(A, P, K, j, l, << >>) /\ IsExactFlowpipe(A, P, K, j, l, <<successors>>)
  BY <1>2, ExactState
<1>6. segment \in SUBSET Point /\ successors \in SUBSET Point
  BY <1>2
<1> HIDE DEF segment, successors, computed, reached
<1>7. CASE segment = {} \/ (~LtiIntersectsBadStates(A, l, segment) /\ successors = {})
  <2>1. computed.states = << >> /\ computed.safe = TRUE
    BY <1>1, <1>7
  <2> QED
    BY <2>1, <1>5 DEF IsExactResult, computed
<1>8. CASE segment # {} /\ LtiIntersectsBadStates(A, l, segment)
  <2>1. computed.safe = FALSE
    BY <1>1, <1>8
  <2>2. BadIsReachable(A, P)
    BY <1>2, <1>4, <1>6, <1>8
  <2> QED
    BY <2>1, <2>2 DEF IsExactResult, computed
<1>9. CASE segment # {} /\ ~LtiIntersectsBadStates(A, l, segment) /\ successors # {}
  <2>1. /\ computed.states = <<successors>>
        /\ computed.safe = ~LtiIntersectsBadStates(A, l, successors)
    BY <1>1, <1>9
  <2>2. ~computed.safe => BadIsReachable(A, P)
    BY <2>1, <1>2, <1>4, <1>6, <1>9
  <2> QED
    BY <2>1, <2>2, <1>5 DEF IsExactResult, computed
<1> QED
  BY <1>7, <1>8, <1>9

(* Jumps from a flowpipe that is reachable.                               *)
LEMMA ExactSuccessor ==
  ASSUME NEW A \in Automata, NEW P \in Parameters, NEW K \in SUBSET SUBSET Point, Keeps(A, P, K),
         NEW tree, NEW n, tree[n].location \in Location, tree[n].depth \in Nat,
         tree[n].depth < P.jumpDepth,
         NEW t \in TransitionsFrom(A, tree[n].location),
         NEW S \in K, S \subseteq ReachedWith(A, P.jumpDepth, P.horizon)[tree[n].depth][tree[n].location]
  PROVE  IsExactSuccessor(A, P, K, tree[n], t,
                          ApplyJump(A, t, Intersect(S, A.transition[t].guard)))
<1> DEFINE guard == A.transition[t].guard
           reset == A.transition[t].reset
           target == A.transition[t].target
           image == Image(S \cap guard, reset)
           j == tree[n].depth
           before == ReachedWith(A, P.jumpDepth, P.horizon)[j]
<1>1. t \in DOMAIN A.transition /\ A.transition[t].source = tree[n].location
  BY DEF TransitionsFrom
<1>2. target \in Location
  BY <1>1, TransitionTypes
<1>3. S \cap guard \in K
  BY <1>1, KeptSets
<1>4. Over[S \cap guard] = S \cap guard
  BY <1>3, KeptSets
<1>5. Intersect(S, guard) = S \cap guard
  BY <1>4 DEF Intersect
<1>6. image \in K
  BY <1>1, <1>3, KeptSets
<1>7. Over[image] = image
  BY <1>6, KeptSets
<1>8. image \cap A.invariant[target] \in K
  BY <1>2, <1>6, KeptSets
<1> DEFINE landed == image \cap A.invariant[target]
<1>9. Over[landed] = landed
  <2> HIDE DEF landed
  <2>1. landed \in K
    BY <1>8 DEF landed
  <2> QED
    BY <2>1, KeptSets
<1>10. ApplyJump(A, t, Intersect(S, guard)) = image \cap A.invariant[target]
  BY <1>5, <1>7, <1>9 DEF ApplyJump, Intersect
<1>11. image \subseteq JumpsInto(A, target, before)
  <2>1. t \in {u \in DOMAIN A.transition : A.transition[u].target = target}
    BY <1>1
  <2>2. S \cap guard \subseteq guard \cap before[A.transition[t].source]
    BY <1>1
  <2> DEFINE from(u) == Image(A.transition[u].guard \cap before[A.transition[u].source],
                              A.transition[u].reset)
  <2>3. image \subseteq from(t)
    BY <2>2 DEF Image
  <2>4. JumpsInto(A, target, before) =
          UNION {from(u) : u \in {u \in DOMAIN A.transition : A.transition[u].target = target}}
    BY DEF JumpsInto
  <2> HIDE DEF from, image
  <2> QED
    BY <2>1, <2>3, <2>4
<1>12. EntryOf(A, P, j + 1, target) = JumpsInto(A, target, before)
  <2>1. j + 1 # 0 /\ (j + 1) - 1 = j
    OBVIOUS
  <2> QED
    BY <2>1 DEF EntryOf
<1> HIDE DEF image
<1> QED
  BY <1>8, <1>10, <1>11, <1>12 DEF IsExactSuccessor

LEMMA RectangularExactJumps ==
  ASSUME NEW A \in Automata, NEW P \in Parameters, NEW K \in SUBSET SUBSET Point, Keeps(A, P, K),
         NEW tree, NEW n, tree[n].location \in Location, tree[n].depth \in Nat,
         tree[n].depth < P.jumpDepth,
         NEW fp, IsExactFlowpipe(A, P, K, tree[n].depth, tree[n].location, fp)
  PROVE  LET sets == JumpSuccessorSets(A, tree[n].location, fp)
         IN  \A s \in DOMAIN sets : IsExactSuccessor(A, P, K, tree[n], s[1], sets[s])
<1> DEFINE sets == JumpSuccessorSets(A, tree[n].location, fp)
<1> SUFFICES ASSUME NEW s \in DOMAIN sets
             PROVE  IsExactSuccessor(A, P, K, tree[n], s[1], sets[s])
  OBVIOUS
<1>1. s \in TransitionsFrom(A, tree[n].location) \X (DOMAIN fp) /\ sets[s] = JumpImage(A, fp, s)
  BY DEF JumpSuccessorSets
<1>2. s[1] \in TransitionsFrom(A, tree[n].location) /\ s[2] \in DOMAIN fp
  BY <1>1
<1>3. /\ fp[s[2]] \in K
      /\ fp[s[2]] \subseteq ReachedWith(A, P.jumpDepth, P.horizon)[tree[n].depth][tree[n].location]
  BY <1>2 DEF IsExactFlowpipe
<1> HIDE DEF sets
<1>4. IsExactSuccessor(A, P, K, tree[n], s[1],
                       ApplyJump(A, s[1], Intersect(fp[s[2]], A.transition[s[1]].guard)))
  BY <1>2, <1>3, ExactSuccessor
<1> QED
  BY <1>1, <1>4 DEF JumpImage

LEMMA SingularExactJumps ==
  ASSUME NEW A \in Automata, NEW P \in Parameters, NEW K \in SUBSET SUBSET Point, Keeps(A, P, K),
         NEW tree, NEW n, tree[n].location \in Location, tree[n].depth \in Nat,
         tree[n].depth < P.jumpDepth,
         NEW fp \in Seq(SUBSET Point), Len(fp) <= 1,
         IsExactFlowpipe(A, P, K, tree[n].depth, tree[n].location, fp)
  PROVE  LET sets == Singular!JumpSuccessorSets(A, tree[n].location, fp)
         IN  \A t \in DOMAIN sets : IsExactSuccessor(A, P, K, tree[n], t, sets[t])
<1> DEFINE l == tree[n].location
           sets == Singular!JumpSuccessorSets(A, l, fp)
           enabling(t) == {k \in DOMAIN fp : Singular!Intersect(fp[k], A.transition[t].guard) # {}}
           last(t) == CHOOSE k \in enabling(t) : \A j \in enabling(t) : j <= k
<1> SUFFICES ASSUME NEW t \in DOMAIN sets
             PROVE  IsExactSuccessor(A, P, K, tree[n], t, sets[t])
  OBVIOUS
<1>1. /\ t \in TransitionsFrom(A, l) /\ enabling(t) # {}
      /\ sets[t] = Singular!ApplyJump(A, t, Singular!Intersect(fp[last(t)], A.transition[t].guard))
  BY DEF Singular!JumpSuccessorSets, Singular!TransitionsFrom, TransitionsFrom
<1>2. last(t) \in DOMAIN fp
  <2>1. \A k \in DOMAIN fp : k = 1
    BY Len(fp) \in Nat, DOMAIN fp = 1..Len(fp)
  <2>2. \E k \in enabling(t) : \A j \in enabling(t) : j <= k
    BY <1>1, <2>1
  <2>3. last(t) \in enabling(t)
    BY <2>2
  <2> QED
    BY <2>3
<1> HIDE DEF last, sets
<1>3. /\ fp[last(t)] \in K
      /\ fp[last(t)] \subseteq ReachedWith(A, P.jumpDepth, P.horizon)[tree[n].depth][tree[n].location]
  BY <1>2 DEF IsExactFlowpipe
<1>4. IsExactSuccessor(A, P, K, tree[n], t,
                       ApplyJump(A, t, Intersect(fp[last(t)], A.transition[t].guard)))
  BY <1>1, <1>3, ExactSuccessor DEF l
<1>5. sets[t] = ApplyJump(A, t, Intersect(fp[last(t)], A.transition[t].guard))
  BY <1>1 DEF Singular!ApplyJump, ApplyJump, Singular!Intersect, Intersect, Singular!Image, Image
<1> QED
  BY <1>4, <1>5

--------------------------------------------------------------------------
(* The trees: roots, children and longer flowpipes.                       *)

LEMMA ExactRoots ==
  ASSUME NEW A \in Automata, NEW P \in Parameters, NEW K, Keeps(A, P, K)
  PROVE  IsExactTree(A, P, K, Roots(A))
<1>1. P.jumpDepth \in Nat
  BY SettingTypes
<1>2. DOMAIN Roots(A) = DOMAIN A.initial
  BY DEF Roots
<1> SUFFICES ASSUME NEW n \in DOMAIN A.initial
             PROVE  /\ Roots(A)[n].depth <= P.jumpDepth
                    /\ Roots(A)[n].initialSet \in K
                    /\ Roots(A)[n].initialSet \subseteq EntryOf(A, P, Roots(A)[n].depth, Roots(A)[n].location)
                    /\ IsExactFlowpipe(A, P, K, Roots(A)[n].depth, Roots(A)[n].location, Roots(A)[n].flowpipe)
  BY <1>2 DEF IsExactTree
<1>3. /\ Roots(A)[n].location = A.initial[n].loc /\ Roots(A)[n].depth = 0
      /\ Roots(A)[n].initialSet = A.initial[n].set /\ Roots(A)[n].flowpipe = << >>
  BY DEF Roots
<1>4. A.initial[n].set \in K
  BY DEF Keeps
<1>5. A.initial[n].set \subseteq InitialIn(A, A.initial[n].loc)
  BY DEF InitialIn
<1>6. EntryOf(A, P, 0, A.initial[n].loc) = InitialIn(A, A.initial[n].loc)
  BY DEF EntryOf
<1>7. IsExactFlowpipe(A, P, K, Roots(A)[n].depth, Roots(A)[n].location, Roots(A)[n].flowpipe)
  BY <1>3, ExactState
<1>8. 0 <= P.jumpDepth
  BY <1>1
<1>9. Roots(A)[n].initialSet \subseteq EntryOf(A, P, Roots(A)[n].depth, Roots(A)[n].location)
  BY <1>3, <1>5, <1>6
<1> QED
  BY <1>3, <1>4, <1>7, <1>8, <1>9

LEMMA ExactChild ==
  ASSUME NEW A, NEW P \in Parameters, NEW K, NEW tree \in Seq(NodeType), NEW n \in DOMAIN tree,
         NEW t, NEW S, IsExactTree(A, P, K, tree), IsExactSuccessor(A, P, K, tree[n], t, S)
  PROVE  LET new == Append(tree, Child(A, tree, n, t, S))
         IN  IsExactTree(A, P, K, new) /\ new[n] = tree[n]
<1> DEFINE child == Child(A, tree, n, t, S)
           new == Append(tree, child)
<1>1. /\ child.location = A.transition[t].target /\ child.depth = tree[n].depth + 1
      /\ child.initialSet = S /\ child.flowpipe = << >>
  BY DEF Child
<1>2. tree[n].depth \in Nat /\ P.jumpDepth \in Nat
  BY NodeTypes, SettingTypes
<1>3. /\ child.depth <= P.jumpDepth /\ child.initialSet \in K
      /\ child.initialSet \subseteq EntryOf(A, P, child.depth, child.location)
  BY <1>1, <1>2 DEF IsExactSuccessor
<1>4. IsExactFlowpipe(A, P, K, child.depth, child.location, child.flowpipe)
  BY <1>1, ExactState
<1> HIDE DEF child
<1>5. /\ \A i \in DOMAIN tree : i \in DOMAIN new /\ new[i] = tree[i]
      /\ new[Len(tree) + 1] = child
      /\ \A i \in DOMAIN new : i \in DOMAIN tree \/ i = Len(tree) + 1
  BY AppendFacts
<1> HIDE DEF new
<1>6. IsExactTree(A, P, K, new)
  <2> SUFFICES ASSUME NEW i \in DOMAIN new
               PROVE  /\ new[i].depth <= P.jumpDepth
                      /\ new[i].initialSet \in K
                      /\ new[i].initialSet \subseteq EntryOf(A, P, new[i].depth, new[i].location)
                      /\ IsExactFlowpipe(A, P, K, new[i].depth, new[i].location, new[i].flowpipe)
    BY DEF IsExactTree
  <2>1. CASE i \in DOMAIN tree
    BY <2>1, <1>5 DEF IsExactTree
  <2>2. CASE i = Len(tree) + 1
    BY <2>2, <1>3, <1>4, <1>5
  <2> QED
    BY <2>1, <2>2, <1>5
<1> QED
  BY <1>5, <1>6 DEF new, child

LEMMA ExactConcat ==
  ASSUME NEW A, NEW P, NEW K, NEW j, NEW l, NEW s \in Seq(SUBSET Point), NEW e \in Seq(SUBSET Point),
         IsExactFlowpipe(A, P, K, j, l, s), IsExactFlowpipe(A, P, K, j, l, e)
  PROVE  IsExactFlowpipe(A, P, K, j, l, s \o e)
<1>1. \A k \in DOMAIN (s \o e) :
        \/ k \in DOMAIN s /\ (s \o e)[k] = s[k]
        \/ k - Len(s) \in DOMAIN e /\ (s \o e)[k] = e[k - Len(s)]
  <2>1. Len(s \o e) = Len(s) + Len(e) /\ Len(s) \in Nat /\ Len(e) \in Nat
    OBVIOUS
  <2>2. DOMAIN s = 1..Len(s) /\ DOMAIN e = 1..Len(e) /\ DOMAIN (s \o e) = 1..Len(s) + Len(e)
    BY <2>1
  <2> QED
    BY <2>1, <2>2
<1> QED
  BY <1>1 DEF IsExactFlowpipe

LEMMA ExactLonger ==
  ASSUME NEW A, NEW P, NEW K, NEW tree \in Seq(NodeType), NEW n \in DOMAIN tree, NEW fp,
         IsExactTree(A, P, K, tree),
         IsExactFlowpipe(A, P, K, tree[n].depth, tree[n].location, fp)
  PROVE  /\ IsExactTree(A, P, K, LongerAt(tree, n, fp))
         /\ LongerAt(tree, n, fp)[n].depth = tree[n].depth
         /\ LongerAt(tree, n, fp)[n].location = tree[n].location
<1> DEFINE new == LongerAt(tree, n, fp)
           node == [tree[n] EXCEPT !.flowpipe = fp]
<1>1. tree[n] \in NodeType
  OBVIOUS
<1>2. /\ node.location = tree[n].location /\ node.depth = tree[n].depth
      /\ node.initialSet = tree[n].initialSet /\ node.flowpipe = fp
  BY <1>1 DEF NodeType
<1>3. new = [tree EXCEPT ![n] = node]
  BY DEF LongerAt
<1> HIDE DEF node
<1>4. /\ DOMAIN new = DOMAIN tree /\ new[n] = node
      /\ \A m \in DOMAIN tree : m # n => new[m] = tree[m]
  BY <1>3
<1> HIDE DEF new
<1>5. IsExactTree(A, P, K, new)
  <2> SUFFICES ASSUME NEW i \in DOMAIN tree
               PROVE  /\ new[i].depth <= P.jumpDepth
                      /\ new[i].initialSet \in K
                      /\ new[i].initialSet \subseteq EntryOf(A, P, new[i].depth, new[i].location)
                      /\ IsExactFlowpipe(A, P, K, new[i].depth, new[i].location, new[i].flowpipe)
    BY <1>4 DEF IsExactTree
  <2>1. CASE i = n
    BY <2>1, <1>2, <1>4 DEF IsExactTree
  <2>2. CASE i # n
    BY <2>2, <1>4 DEF IsExactTree
  <2> QED
    BY <2>1, <2>2
<1> QED
  BY <1>2, <1>4, <1>5 DEF new

LEMMA ExactNodeIsInput ==
  ASSUME NEW A, NEW P, NEW K, IsExactAnalysis(A, P), Keeps(A, P, K),
         NEW tree \in Seq(NodeType), NEW n \in DOMAIN tree, IsExactTree(A, P, K, tree),
         P.jumpDepth \in Nat
  PROVE  IsExactInput(A, P, K, tree[n].depth, tree[n].location, tree[n].initialSet)
<1>1. tree[n].depth \in Nat
  BY NodeTypes
<1>2. tree[n].depth \in 0..P.jumpDepth
  BY <1>1 DEF IsExactTree
<1> QED
  BY <1>2 DEF IsExactInput, IsExactAnalysis, IsExactTree

--------------------------------------------------------------------------
(* Each step of the rectangular analyzer keeps to what is reachable, or   *)
(* stops where something bad is.                                          *)

RectangularExact(K) ==
  /\ safe => ExactWith(K)
  /\ ~safe => BadIsReachable(ha, par)

LEMMA RectangularTimeKeepsExact ==
  ASSUME NEW K \in SUBSET SUBSET Point, RectangularInv, ComputeTimeSuccessors,
         IsExactAnalysis(ha, par), Keeps(ha, par, K), RectangularExact(K)
  PROVE  RectangularExact(K)'
<1> DEFINE l == nodes[task].location
           S == nodes[task].initialSet
           j == nodes[task].depth
           computed == TimeSuccessors(ha, l, S, par.horizon)
           longer == nodes[task].flowpipe \o computed.states
<1>1. /\ TypeOK /\ ControlInv /\ pc = "time" /\ task \in DOMAIN nodes
      /\ safe /\ flowpipe = << >> /\ jumpSuccessors = NoSuccessors
  BY DEF RectangularInv, ControlInv, ComputeTimeSuccessors, BusyPcs
<1>2. ha' = ha /\ par' = par /\ task' = task /\ jumpSuccessors' = jumpSuccessors
  BY DEF ComputeTimeSuccessors, inputs
<1>3. /\ flowpipe' = flowpipe \o computed.states
      /\ nodes' = LongerAt(nodes, task, longer)
      /\ safe' = computed.safe
  BY DEF ComputeTimeSuccessors, current, LongerAt
<1>4. /\ nodes \in Seq(NodeType) /\ ha \in Automata /\ par \in Parameters /\ par.jumpDepth \in Nat
      /\ l \in Location /\ S \in SUBSET Point /\ nodes[task].flowpipe \in Seq(SUBSET Point)
  BY <1>1, Typed
<1>5. IsExactTree(ha, par, K, nodes)
  BY <1>1 DEF RectangularExact, ExactWith
<1>6. IsExactInput(ha, par, K, j, l, S)
  BY <1>1, <1>4, <1>5, ExactNodeIsInput
<1>7. IsExactResult(ha, par, K, j, l, computed)
  BY <1>4, <1>6, RectangularExactTimeSuccessors
<1>8. computed.states \in Seq(SUBSET Point)
  BY <1>4, RectangularTimeSuccessors DEF IsTimeResult
<1>9. IsExactFlowpipe(ha, par, K, j, l, nodes[task].flowpipe)
  BY <1>1, <1>5 DEF IsExactTree
<1> HIDE DEF computed
<1>10. flowpipe' = computed.states
  BY <1>1, <1>3, <1>8
<1>11. CASE safe'
  <2>1. IsExactFlowpipe(ha, par, K, j, l, computed.states)
    BY <1>3, <1>7, <1>11 DEF IsExactResult
  <2>2. IsExactFlowpipe(ha, par, K, j, l, longer)
    BY <2>1, <1>4, <1>8, <1>9, ExactConcat
  <2> HIDE DEF longer
  <2>3. /\ IsExactTree(ha, par, K, nodes')
        /\ nodes'[task].depth = j /\ nodes'[task].location = l
    BY <2>2, <1>1, <1>3, <1>4, <1>5, ExactLonger
  <2>4. DOMAIN jumpSuccessors = {}
    BY <1>1 DEF NoSuccessors
  <2> HIDE DEF l, j, S
  <2> QED
    BY <2>1, <2>3, <2>4, <1>2, <1>10, <1>11 DEF RectangularExact, ExactWith
<1>12. CASE ~safe'
  BY <1>2, <1>3, <1>7, <1>12 DEF RectangularExact, IsExactResult
<1> QED
  BY <1>11, <1>12

LEMMA RectangularJumpsKeepExact ==
  ASSUME NEW K \in SUBSET SUBSET Point, RectangularInv, ComputeJumpSuccessors,
         Keeps(ha, par, K), RectangularExact(K)
  PROVE  RectangularExact(K)'
<1> DEFINE sets == JumpSuccessorSets(ha, nodes[task].location, flowpipe)
<1>1. /\ TypeOK /\ ControlInv /\ pc = "jumps" /\ task \in DOMAIN nodes
      /\ safe /\ nodes[task].depth < par.jumpDepth
  BY DEF RectangularInv, ControlInv, ComputeJumpSuccessors, BusyPcs
<1>2. /\ ha' = ha /\ par' = par /\ nodes' = nodes /\ task' = task /\ flowpipe' = flowpipe
      /\ safe' = safe /\ jumpSuccessors' = sets
  BY DEF ComputeJumpSuccessors, inputs, current
<1>3. /\ ha \in Automata /\ par \in Parameters
      /\ nodes[task].location \in Location /\ nodes[task].depth \in Nat
  BY <1>1, Typed
<1>4. /\ IsExactTree(ha, par, K, nodes)
      /\ IsExactFlowpipe(ha, par, K, nodes[task].depth, nodes[task].location, flowpipe)
  BY <1>1 DEF RectangularExact, ExactWith
<1>5. \A s \in DOMAIN sets : IsExactSuccessor(ha, par, K, nodes[task], s[1], sets[s])
  BY <1>1, <1>3, <1>4, RectangularExactJumps
<1> HIDE DEF sets
<1> QED
  BY <1>1, <1>2, <1>4, <1>5 DEF RectangularExact, ExactWith

LEMMA RectangularChildKeepsExact ==
  ASSUME NEW K \in SUBSET SUBSET Point, RectangularInv, AddChild, RectangularExact(K)
  PROVE  RectangularExact(K)'
<1>1. TypeOK /\ ControlInv /\ pc = "children" /\ safe /\ task \in DOMAIN nodes
  BY DEF RectangularInv, ControlInv, AddChild, BusyPcs
<1>2. /\ ha' = ha /\ par' = par /\ task' = task /\ flowpipe' = flowpipe
      /\ jumpSuccessors' = jumpSuccessors /\ safe' = safe
  BY DEF AddChild, inputs, worker
<1>3. PICK s \in pending :
        nodes' = Append(nodes, Child(ha, nodes, task, s[1], jumpSuccessors[s]))
  BY DEF AddChild
<1>4. s \in DOMAIN jumpSuccessors /\ par \in Parameters /\ nodes \in Seq(NodeType)
  BY <1>1 DEF TypeOK
<1>5. /\ IsExactTree(ha, par, K, nodes)
      /\ IsExactFlowpipe(ha, par, K, nodes[task].depth, nodes[task].location, flowpipe)
      /\ \A r \in DOMAIN jumpSuccessors :
           IsExactSuccessor(ha, par, K, nodes[task], r[1], jumpSuccessors[r])
  BY <1>1 DEF RectangularExact, ExactWith
<1>6. IsExactTree(ha, par, K, nodes') /\ nodes'[task] = nodes[task]
  BY <1>1, <1>3, <1>4, <1>5, ExactChild
<1> QED
  BY <1>1, <1>2, <1>5, <1>6 DEF RectangularExact, ExactWith

LEMMA RectangularKeepsExact ==
  ASSUME NEW K \in SUBSET SUBSET Point, RectangularInv, Next,
         IsExactAnalysis(ha, par), Keeps(ha, par, K), RectangularExact(K)
  PROVE  RectangularExact(K)'
<1>1. CASE InitializeQueue
  <2>1. TypeOK /\ ControlInv /\ pc = "start" /\ pc' = "dequeue" /\ safe /\ safe'
    BY <1>1 DEF RectangularInv, ControlInv, InitializeQueue
  <2>2. ha' = ha /\ par' = par /\ nodes' = IF nodes = << >> THEN Roots(ha) ELSE nodes
    BY <1>1 DEF InitializeQueue, inputs
  <2>3. IsExactTree(ha, par, K, Roots(ha))
    BY <2>1, ExactRoots DEF TypeOK
  <2>4. IsExactTree(ha, par, K, nodes)
    BY <2>1 DEF RectangularExact, ExactWith
  <2>5. IsExactTree(ha', par', K, nodes')
    BY <2>2, <2>3, <2>4
  <2> QED
    BY <2>1, <2>5 DEF RectangularExact, ExactWith
<1>2. CASE Dequeue
  <2>1. /\ ha' = ha /\ par' = par /\ nodes' = nodes /\ safe' = safe /\ pc' = "time"
    BY <1>2 DEF Dequeue, inputs
  <2> QED
    BY <2>1 DEF RectangularExact, ExactWith
<1>3. CASE StoreFlowpipe
  <2>1. /\ ha' = ha /\ par' = par /\ nodes' = nodes /\ safe' = safe /\ task' = task /\ pc = "store"
        /\ flowpipe' = flowpipe /\ jumpSuccessors' = jumpSuccessors
    BY <1>3 DEF StoreFlowpipe, inputs, worker
  <2> QED
    BY <2>1 DEF RectangularExact, ExactWith
<1>4. CASE FinishTask
  <2>1. /\ ha' = ha /\ par' = par /\ nodes' = nodes /\ safe' = safe /\ pc' = "dequeue"
    BY <1>4 DEF FinishTask, inputs
  <2> QED
    BY <2>1 DEF RectangularExact, ExactWith
<1>5. CASE Succeed
  <2>1. /\ ha' = ha /\ par' = par /\ nodes' = nodes /\ safe' = safe /\ pc' = "done"
    BY <1>5 DEF Succeed, inputs
  <2> QED
    BY <2>1 DEF RectangularExact, ExactWith
<1> QED
  BY <1>1, <1>2, <1>3, <1>4, <1>5, RectangularTimeKeepsExact, RectangularJumpsKeepExact,
     RectangularChildKeepsExact DEF Next

(* The same of the singular analyzer.                                     *)

SingularExact(K) ==
  /\ singularSafe => SingularExactWith(K)
  /\ ~singularSafe => BadIsReachable(ha, par)

LEMMA SingularTimeKeepsExact ==
  ASSUME NEW K \in SUBSET SUBSET Point, SingularInv, Singular!ComputeTimeSuccessors,
         IsExactAnalysis(ha, par), Keeps(ha, par, K), SingularExact(K)
  PROVE  SingularExact(K)'
<1> DEFINE l == singularNodes[singularTask].location
           S == singularNodes[singularTask].initialSet
           j == singularNodes[singularTask].depth
           computed == Singular!TimeSuccessors(ha, l, S, par.horizon)
<1>1. /\ Singular!TypeOK /\ SingularControlInv
      /\ singularPc = "time" /\ singularTask \in DOMAIN singularNodes
      /\ singularSafe /\ singularFlowpipe = << >> /\ singularSuccessors = Singular!NoSuccessors
  BY DEF SingularInv, SingularControlInv, Singular!ComputeTimeSuccessors, BusyPcs
<1>2. /\ ha' = ha /\ par' = par /\ singularNodes' = singularNodes /\ singularTask' = singularTask
      /\ singularSuccessors' = singularSuccessors
  BY DEF Singular!ComputeTimeSuccessors, Singular!inputs
<1>3. /\ singularFlowpipe' = singularFlowpipe \o computed.states
      /\ singularSafe' = computed.safe
  BY DEF Singular!ComputeTimeSuccessors, Singular!current
<1>4. /\ singularNodes \in Seq(NodeType) /\ ha \in Automata /\ par \in Parameters
      /\ par.jumpDepth \in Nat /\ l \in Location /\ S \in SUBSET Point
  BY <1>1, SingularTyped
<1>5. IsExactTree(ha, par, K, singularNodes)
  BY <1>1 DEF SingularExact, SingularExactWith
<1>6. IsExactInput(ha, par, K, j, l, S)
  BY <1>1, <1>4, <1>5, ExactNodeIsInput
<1>7. IsExactResult(ha, par, K, j, l, computed)
  BY <1>4, <1>6, SingularExactTimeSuccessors
<1>8. computed.states \in Seq(SUBSET Point)
  BY <1>4, SingularTimeSuccessors DEF IsTimeResult
<1> HIDE DEF computed
<1>9. singularFlowpipe' = computed.states
  BY <1>1, <1>3, <1>8
<1>10. CASE singularSafe'
  <2>1. IsExactFlowpipe(ha, par, K, j, l, computed.states)
    BY <1>3, <1>7, <1>10 DEF IsExactResult
  <2>2. DOMAIN singularSuccessors = {}
    BY <1>1 DEF Singular!NoSuccessors
  <2> QED
    BY <2>1, <2>2, <1>2, <1>5, <1>9, <1>10 DEF SingularExact, SingularExactWith
<1>11. CASE ~singularSafe'
  BY <1>2, <1>3, <1>7, <1>11 DEF SingularExact, IsExactResult
<1> QED
  BY <1>10, <1>11

LEMMA SingularJumpsKeepExact ==
  ASSUME NEW K \in SUBSET SUBSET Point, SingularInv, Singular!ComputeJumpSuccessors,
         Keeps(ha, par, K), SingularExact(K)
  PROVE  SingularExact(K)'
<1> DEFINE sets == Singular!JumpSuccessorSets(ha, singularNodes[singularTask].location, singularFlowpipe)
<1>1. /\ Singular!TypeOK /\ SingularControlInv
      /\ singularPc = "jumps" /\ singularTask \in DOMAIN singularNodes
      /\ singularSafe /\ singularNodes[singularTask].depth < par.jumpDepth
      /\ Len(singularFlowpipe) <= 1
  BY DEF SingularInv, SingularControlInv, Singular!ComputeJumpSuccessors, BusyPcs
<1>2. /\ ha' = ha /\ par' = par /\ singularNodes' = singularNodes /\ singularTask' = singularTask
      /\ singularFlowpipe' = singularFlowpipe /\ singularSafe' = singularSafe
      /\ singularSuccessors' = sets
  BY DEF Singular!ComputeJumpSuccessors, Singular!inputs, Singular!current
<1>3. /\ ha \in Automata /\ par \in Parameters /\ singularFlowpipe \in Seq(SUBSET Point)
      /\ singularNodes[singularTask].location \in Location
      /\ singularNodes[singularTask].depth \in Nat
  BY <1>1, SingularTyped
<1>4. /\ IsExactTree(ha, par, K, singularNodes)
      /\ IsExactFlowpipe(ha, par, K, singularNodes[singularTask].depth,
                         singularNodes[singularTask].location, singularFlowpipe)
  BY <1>1 DEF SingularExact, SingularExactWith
<1>5. \A t \in DOMAIN sets :
        IsExactSuccessor(ha, par, K, singularNodes[singularTask], t, sets[t])
  BY <1>1, <1>3, <1>4, SingularExactJumps
<1> HIDE DEF sets
<1> QED
  BY <1>1, <1>2, <1>4, <1>5 DEF SingularExact, SingularExactWith

LEMMA SingularStoreKeepsExact ==
  ASSUME NEW K \in SUBSET SUBSET Point, SingularInv, Singular!StoreFlowpipe, SingularExact(K)
  PROVE  SingularExact(K)'
<1> DEFINE longer == singularFlowpipe \o singularNodes[singularTask].flowpipe
<1>1. /\ Singular!TypeOK /\ singularPc = "store" /\ singularTask \in DOMAIN singularNodes
  BY DEF SingularInv, SingularControlInv, Singular!StoreFlowpipe, BusyPcs
<1>2. /\ ha' = ha /\ par' = par /\ singularTask' = singularTask
      /\ singularFlowpipe' = singularFlowpipe /\ singularSuccessors' = singularSuccessors
      /\ singularSafe' = singularSafe
      /\ singularNodes' = LongerAt(singularNodes, singularTask, longer)
  BY DEF Singular!StoreFlowpipe, Singular!inputs, Singular!worker, LongerAt
<1>3. CASE singularSafe
  <2>1. /\ IsExactTree(ha, par, K, singularNodes)
        /\ IsExactFlowpipe(ha, par, K, singularNodes[singularTask].depth,
                           singularNodes[singularTask].location, singularFlowpipe)
        /\ \A t \in DOMAIN singularSuccessors :
             IsExactSuccessor(ha, par, K, singularNodes[singularTask], t, singularSuccessors[t])
    BY <1>1, <1>3 DEF SingularExact, SingularExactWith
  <2>2. /\ singularNodes \in Seq(NodeType) /\ singularFlowpipe \in Seq(SUBSET Point)
        /\ singularNodes[singularTask].flowpipe \in Seq(SUBSET Point)
    BY <1>1, SingularTyped
  <2>3. IsExactFlowpipe(ha, par, K, singularNodes[singularTask].depth,
                        singularNodes[singularTask].location,
                        singularNodes[singularTask].flowpipe)
    BY <2>1, <1>1 DEF IsExactTree
  <2>4. IsExactFlowpipe(ha, par, K, singularNodes[singularTask].depth,
                        singularNodes[singularTask].location, longer)
    BY <2>1, <2>2, <2>3, ExactConcat
  <2> HIDE DEF longer
  <2>5. /\ IsExactTree(ha, par, K, singularNodes')
        /\ singularNodes'[singularTask].depth = singularNodes[singularTask].depth
        /\ singularNodes'[singularTask].location = singularNodes[singularTask].location
    BY <2>1, <2>2, <2>4, <1>1, <1>2, ExactLonger
  <2>6. \A t \in DOMAIN singularSuccessors :
          IsExactSuccessor(ha, par, K, singularNodes'[singularTask], t, singularSuccessors[t])
    BY <2>1, <2>5 DEF IsExactSuccessor
  <2> QED
    BY <2>1, <2>5, <2>6, <1>2, <1>3 DEF SingularExact, SingularExactWith
<1>4. CASE ~singularSafe
  BY <1>2, <1>4 DEF SingularExact
<1> QED
  BY <1>3, <1>4

LEMMA SingularChildKeepsExact ==
  ASSUME NEW K \in SUBSET SUBSET Point, SingularInv, Singular!AddChild, SingularExact(K)
  PROVE  SingularExact(K)'
<1>1. /\ Singular!TypeOK /\ SingularControlInv /\ singularPc = "children" /\ singularSafe
      /\ singularTask \in DOMAIN singularNodes
  BY DEF SingularInv, SingularControlInv, Singular!AddChild, BusyPcs
<1>2. /\ ha' = ha /\ par' = par /\ singularTask' = singularTask
      /\ singularFlowpipe' = singularFlowpipe
      /\ singularSuccessors' = singularSuccessors /\ singularSafe' = singularSafe
  BY DEF Singular!AddChild, Singular!inputs, Singular!worker
<1>3. PICK t \in singularPending :
        singularNodes' = Append(singularNodes,
                                Child(ha, singularNodes, singularTask, t, singularSuccessors[t]))
  BY DEF Singular!AddChild, Singular!Child, Child
<1>4. t \in DOMAIN singularSuccessors /\ par \in Parameters /\ singularNodes \in Seq(NodeType)
  BY <1>1, SingularTyped DEF Singular!TypeOK
<1>5. /\ IsExactTree(ha, par, K, singularNodes)
      /\ IsExactFlowpipe(ha, par, K, singularNodes[singularTask].depth,
                         singularNodes[singularTask].location, singularFlowpipe)
      /\ \A u \in DOMAIN singularSuccessors :
           IsExactSuccessor(ha, par, K, singularNodes[singularTask], u, singularSuccessors[u])
  BY <1>1 DEF SingularExact, SingularExactWith
<1>6. /\ IsExactTree(ha, par, K, singularNodes')
      /\ singularNodes'[singularTask] = singularNodes[singularTask]
  BY <1>1, <1>3, <1>4, <1>5, ExactChild
<1> QED
  BY <1>1, <1>2, <1>5, <1>6 DEF SingularExact, SingularExactWith

LEMMA SingularKeepsExact ==
  ASSUME NEW K \in SUBSET SUBSET Point, SingularInv, Singular!Next,
         IsExactAnalysis(ha, par), Keeps(ha, par, K), SingularExact(K)
  PROVE  SingularExact(K)'
<1>1. CASE Singular!Dequeue
  <2>1. /\ ha' = ha /\ par' = par /\ singularNodes' = singularNodes
        /\ singularSafe' = singularSafe /\ singularPc' = "time"
    BY <1>1 DEF Singular!Dequeue, Singular!inputs
  <2> QED
    BY <2>1 DEF SingularExact, SingularExactWith
<1>2. CASE Singular!ResetWorker
  <2>1. /\ ha' = ha /\ par' = par /\ singularNodes' = singularNodes
        /\ singularSafe' = singularSafe /\ singularPc' = "dequeue"
    BY <1>2 DEF Singular!ResetWorker, Singular!inputs
  <2> QED
    BY <2>1 DEF SingularExact, SingularExactWith
<1>3. CASE Singular!Succeed
  <2>1. /\ ha' = ha /\ par' = par /\ singularNodes' = singularNodes
        /\ singularSafe' = singularSafe /\ singularPc' = "done"
    BY <1>3 DEF Singular!Succeed, Singular!inputs
  <2> QED
    BY <2>1 DEF SingularExact, SingularExactWith
<1> QED
  BY <1>1, <1>2, <1>3, SingularTimeKeepsExact, SingularJumpsKeepExact, SingularStoreKeepsExact,
     SingularChildKeepsExact DEF Singular!Next

--------------------------------------------------------------------------
(* Both, and the theorem.                                                 *)

LEMMA FailureInvAtStart ==
  ASSUME VerificationInit
  PROVE  FailureInv
<1>1. Init /\ Singular!Init
  BY DEF VerificationInit
<1>2. /\ ha \in Automata /\ par \in Parameters /\ nodes \in {Roots(ha), << >>}
      /\ safe /\ pc = "start" /\ result = "none"
  BY <1>1 DEF Init
<1>3. /\ singularNodes = Roots(ha) /\ singularSafe /\ singularPc = "dequeue"
      /\ singularResult = "none"
  BY <1>1 DEF Singular!Init, Singular!Roots, Roots
<1>4. ASSUME NEW K \in SUBSET SUBSET Point, Keeps(ha, par, K)
      PROVE  ExactWith(K) /\ SingularExactWith(K)
  <2>1. IsExactTree(ha, par, K, Roots(ha))
    BY <1>2, <1>4, ExactRoots
  <2>2. IsExactTree(ha, par, K, << >>)
    BY DEF IsExactTree
  <2> QED
    BY <2>1, <2>2, <1>2, <1>3 DEF ExactWith, SingularExactWith
<1> QED
  BY <1>2, <1>3, <1>4 DEF FailureInv

LEMMA FailureStops ==
  ASSUME IInv, FailureInv, [VerificationNext]_verificationVars
  PROVE  /\ result' = "failure" => ~safe'
         /\ singularResult' = "failure" => ~singularSafe'
<1>1. ASSUME Next
      PROVE  result' = "failure" => ~safe'
  BY <1>1 DEF Next, InitializeQueue, Dequeue, ComputeTimeSuccessors, ComputeJumpSuccessors,
     StoreFlowpipe, AddChild, FinishTask, Succeed, FailureInv, IInv, RectangularInv, ControlInv
<1>2. ASSUME Singular!Next
      PROVE  singularResult' = "failure" => ~singularSafe'
  BY <1>2 DEF Singular!Next, Singular!Dequeue, Singular!ComputeTimeSuccessors,
     Singular!ComputeJumpSuccessors, Singular!StoreFlowpipe, Singular!AddChild,
     Singular!ResetWorker, Singular!Succeed, FailureInv, IInv, SingularInv, SingularControlInv
<1>3. UNCHANGED rectangularVars => (result' = "failure" => ~safe')
  BY DEF rectangularVars, FailureInv
<1>4. UNCHANGED singularVars => (singularResult' = "failure" => ~singularSafe')
  BY DEF singularVars, FailureInv
<1> QED
  BY <1>1, <1>2, <1>3, <1>4 DEF VerificationNext, Analyze, AnalyzeRectangular, AnalyzeSingular,
     RunMoves, verificationVars

LEMMA ExactStutter ==
  ASSUME NEW K, UNCHANGED inputs
  PROVE  /\ UNCHANGED rectangularVars /\ RectangularExact(K) => RectangularExact(K)'
         /\ UNCHANGED singularVars /\ SingularExact(K) => SingularExact(K)'
<1>1. ha' = ha /\ par' = par
  BY DEF inputs
<1>2. ASSUME UNCHANGED rectangularVars, RectangularExact(K)
      PROVE  RectangularExact(K)'
  <2>1. /\ nodes' = nodes /\ task' = task /\ flowpipe' = flowpipe
        /\ jumpSuccessors' = jumpSuccessors /\ safe' = safe /\ pc' = pc
    BY <1>2 DEF rectangularVars, worker
  <2> QED
    BY <1>1, <1>2, <2>1 DEF RectangularExact, ExactWith
<1>3. ASSUME UNCHANGED singularVars, SingularExact(K)
      PROVE  SingularExact(K)'
  <2>1. /\ singularNodes' = singularNodes /\ singularTask' = singularTask
        /\ singularFlowpipe' = singularFlowpipe /\ singularSuccessors' = singularSuccessors
        /\ singularSafe' = singularSafe /\ singularPc' = singularPc
    BY <1>3 DEF singularVars
  <2> QED
    BY <1>1, <1>3, <2>1 DEF SingularExact, SingularExactWith
<1> QED
  BY <1>2, <1>3

LEMMA InputsStay ==
  ASSUME [VerificationNext]_verificationVars
  PROVE  /\ UNCHANGED inputs
         /\ Next \/ UNCHANGED rectangularVars
         /\ Singular!Next \/ UNCHANGED singularVars
<1>1. Next => UNCHANGED inputs
  BY DEF Next, InitializeQueue, Dequeue, ComputeTimeSuccessors, ComputeJumpSuccessors,
     StoreFlowpipe, AddChild, FinishTask, Succeed, inputs
<1>2. Singular!Next => UNCHANGED inputs
  BY DEF Singular!Next, Singular!Dequeue, Singular!ComputeTimeSuccessors,
     Singular!ComputeJumpSuccessors, Singular!StoreFlowpipe, Singular!AddChild,
     Singular!ResetWorker, Singular!Succeed, Singular!inputs, inputs
<1>3. CASE AnalyzeRectangular
  BY <1>1, <1>3 DEF AnalyzeRectangular
<1>4. CASE AnalyzeSingular
  BY <1>2, <1>4 DEF AnalyzeSingular
<1>5. CASE RunMoves
  BY <1>5 DEF RunMoves
<1>6. CASE UNCHANGED verificationVars
  BY <1>6 DEF verificationVars
<1> QED
  BY <1>3, <1>4, <1>5, <1>6 DEF VerificationNext, Analyze

LEMMA FailureInvStep ==
  ASSUME IInv, FailureInv, [VerificationNext]_verificationVars
  PROVE  FailureInv'
<1>1. RectangularInv /\ SingularInv
  BY DEF IInv
<1>2. ha' = ha /\ par' = par
  BY InputsStay DEF inputs
<1>3. ASSUME IsExactAnalysis(ha, par), NEW K \in SUBSET SUBSET Point, Keeps(ha, par, K)
      PROVE  RectangularExact(K)' /\ SingularExact(K)'
  <2>1. RectangularExact(K) /\ SingularExact(K)
    BY <1>3 DEF FailureInv, RectangularExact, SingularExact
  <2>2. RectangularExact(K)'
    BY <1>1, <1>3, <2>1, InputsStay, RectangularKeepsExact, ExactStutter
  <2>3. SingularExact(K)'
    BY <1>1, <1>3, <2>1, InputsStay, SingularKeepsExact, ExactStutter
  <2> QED
    BY <2>2, <2>3
<1>4. ASSUME IsExactAnalysis(ha, par), ~safe' \/ ~singularSafe'
      PROVE  BadIsReachable(ha, par)
  <2>1. PICK K \in SUBSET SUBSET Point : Keeps(ha, par, K)
    BY <1>4 DEF IsExactAnalysis
  <2>2. RectangularExact(K)' /\ SingularExact(K)'
    BY <1>3, <1>4, <2>1
  <2> QED
    BY <1>2, <1>4, <2>2 DEF RectangularExact, SingularExact
<1>5. ASSUME IsExactAnalysis(ha, par), NEW K \in SUBSET SUBSET Point, Keeps(ha, par, K)
      PROVE  (safe' => ExactWith(K)') /\ (singularSafe' => SingularExactWith(K)')
  BY <1>3, <1>5 DEF RectangularExact, SingularExact
<1>6. /\ result' = "failure" => ~safe'
      /\ singularResult' = "failure" => ~singularSafe'
  BY FailureStops
<1> QED
  BY <1>2, <1>4, <1>5, <1>6 DEF FailureInv

(* A failure is real, of either analyzer: where the representation keeps  *)
(* all the sets of the analysis as they are, and the invariants are such  *)
(* that what is in them after a time elapse can be reached within them,   *)
(* some run within the jump depth and the horizon visits a bad state.     *)
(* So applying the invariant only after the time elapse costs nothing     *)
(* then, and no bad state is reported for a set that no jump leads to.    *)
THEOREM FailuresAreReal == VerificationSpec => [](IsExactAnalysis(ha, par) => FailureIsReal)
<1>1. VerificationInit => IInv /\ FailureInv
  BY InvariantAtStart, FailureInvAtStart
<1>2. IInv /\ FailureInv /\ [VerificationNext]_verificationVars => (IInv /\ FailureInv)'
  BY InvariantStep, FailureInvStep
<1>3. FailureInv => (IsExactAnalysis(ha, par) => FailureIsReal)
  BY DEF FailureInv, FailureIsReal, BadIsReachable
<1> QED
  BY <1>1, <1>2, <1>3, PTL DEF VerificationSpec

--------------------------------------------------------------------------
(* Both workers compute the same where bad states are found alike.        *)

(* A set is bad for both workers or for neither.                          *)
LEMMA SameBadStates ==
  ASSUME NEW A \in Automata, NEW l \in Location, NEW S \in SUBSET Point, S # {},
         A.globalBad # Point, A.localFalse = {}
  PROVE  LtiIntersectsBadStates(A, l, S) <=> RectangularIntersectBadStates(A, l, S) # {}
<1>1. A.localBad[l] = Point => Intersect(S, A.localBad[l]) # {}
  <2>1. S \cap A.localBad[l] \subseteq Intersect(S, A.localBad[l])
    BY IntersectContains
  <2> QED
    BY <2>1
<1>2. l \notin A.localFalse
  OBVIOUS
<1> QED
  BY <1>1, <1>2 DEF LtiIntersectsBadStates, RectangularIntersectBadStates

(* Both workers compute the same time successors, as long as they are     *)
(* safe.                                                                  *)
LEMMA SameTimeSuccessors ==
  ASSUME NEW A \in Automata, NEW P \in Parameters, NEW l \in Location, NEW S \in SUBSET Point,
         A.globalBad # Point, A.localFalse = {}
  PROVE  LET r == TimeSuccessors(A, l, S, P.horizon)
             s == Singular!TimeSuccessors(A, l, S, P.horizon)
         IN  r.safe = s.safe /\ (s.safe => r.states = s.states)
<1> DEFINE segment == Intersect(S, A.invariant[l])
           bad == RectangularIntersectBadStates(A, l, segment)
           successors == TimeSuccessorSet(A, l, S, P.horizon)
           r == TimeSuccessors(A, l, S, P.horizon)
           s == Singular!TimeSuccessors(A, l, S, P.horizon)
<1>0. A.invariant[l] \in SUBSET Point /\ P.horizon \in Int
  BY AutomatonTypes, SettingTypes
<1>1. segment \in SUBSET Point /\ successors \in SUBSET Point
  <2>1. segment \in SUBSET Point
    BY <1>0, IntersectContains
  <2>2. TimeSuccessorSet(A, l, S, P.horizon) \in SUBSET Point
    BY TimeSuccessorsAreVisited
  <2> QED
    BY <2>1, <2>2
<1>2. \A T : Singular!LtiIntersectsBadStates(A, l, T) = LtiIntersectsBadStates(A, l, T)
  BY DEF LtiIntersectsBadStates, Singular!LtiIntersectsBadStates, Intersect, Singular!Intersect
<1>3. s = IF segment = {} THEN [states |-> << >>, safe |-> TRUE]
          ELSE IF LtiIntersectsBadStates(A, l, segment) THEN [states |-> << >>, safe |-> FALSE]
          ELSE IF successors = {} THEN [states |-> << >>, safe |-> TRUE]
          ELSE [states |-> <<successors>>, safe |-> ~LtiIntersectsBadStates(A, l, successors)]
  BY <1>2 DEF Singular!TimeSuccessors, TimeSuccessorSet, Intersect, Singular!Intersect,
     TimeElapse, Singular!TimeElapse, Reached, Singular!Reached, Within, Singular!Within,
     Ever, Singular!Ever, Image, Singular!Image
<1>4. r = IF segment = {} THEN [states |-> << >>, safe |-> TRUE]
          ELSE IF bad # {} THEN [states |-> <<bad>>, safe |-> FALSE]
          ELSE [states |-> <<successors>>,
                safe |-> RectangularIntersectBadStates(A, l, successors) = {}]
  BY DEF TimeSuccessors, TimeSuccessorSet
<1>5. segment # {} => successors # {}
  <2> DEFINE entered == S \cap A.invariant[l]
  <2>1. segment # {} => entered # {}
    BY OverAssumption DEF Intersect
  <2>2. entered \subseteq Reached(A, l, entered, P.horizon)
    BY <1>0, entered \in SUBSET Point, ReachedAtOnce
  <2>3. entered \subseteq Visited(A, P, l, S)
    BY <2>2 DEF Visited
  <2>4. Visited(A, P, l, S) \subseteq successors
    BY TimeSuccessorsAreVisited
  <2> QED
    BY <2>1, <2>3, <2>4
<1>6. segment # {} => (LtiIntersectsBadStates(A, l, segment) <=> bad # {})
  BY <1>1, SameBadStates
<1>7. successors # {} =>
        (LtiIntersectsBadStates(A, l, successors)
           <=> RectangularIntersectBadStates(A, l, successors) # {})
  BY <1>1, SameBadStates
<1>8. LtiIntersectsBadStates(A, l, successors) \in BOOLEAN
  BY DEF LtiIntersectsBadStates
<1> HIDE DEF segment, bad, successors, r, s
<1>9. CASE segment = {}
  BY <1>3, <1>4, <1>9 DEF r, s
<1>10. CASE segment # {} /\ bad # {}
  <2>1. r.safe = FALSE /\ s.safe = FALSE
    BY <1>3, <1>4, <1>6, <1>10
  <2> QED
    BY <2>1 DEF r, s
<1>11. CASE segment # {} /\ bad = {}
  <2>1. /\ r.states = <<successors>>
        /\ r.safe = (RectangularIntersectBadStates(A, l, successors) = {})
    BY <1>4, <1>11
  <2>2. /\ s.states = <<successors>>
        /\ s.safe = ~LtiIntersectsBadStates(A, l, successors)
    BY <1>3, <1>5, <1>6, <1>11
  <2>3. r.safe = s.safe
    BY <2>1, <2>2, <1>5, <1>7, <1>8, <1>11
  <2> QED
    BY <2>1, <2>2, <2>3 DEF r, s
<1> QED
  BY <1>9, <1>10, <1>11

(* Of a flowpipe of one state both compute the same jump successors.      *)
LEMMA SameJumpSuccessors ==
  ASSUME NEW A \in Automata, NEW l, NEW fp \in Seq(SUBSET Point), Len(fp) <= 1
  PROVE  LET r == JumpSuccessorSets(A, l, fp)
             s == Singular!JumpSuccessorSets(A, l, fp)
         IN  /\ DOMAIN r = (DOMAIN s) \X {1}
             /\ \A t \in DOMAIN s : r[<<t, 1>>] = s[t]
<1> DEFINE r == JumpSuccessorSets(A, l, fp)
           s == Singular!JumpSuccessorSets(A, l, fp)
           enabling(t) == {k \in DOMAIN fp : Intersect(fp[k], A.transition[t].guard) # {}}
           last(t) == CHOOSE k \in enabling(t) : \A j \in enabling(t) : j <= k
           enabled == {t \in TransitionsFrom(A, l) : enabling(t) # {}}
           image == [t \in enabled |-> Successor(A, fp, last(t), t)]
           jumps == {t \in DOMAIN image : image[t] # {}}
           leading == {t \in TransitionsFrom(A, l) : 1 \in DOMAIN fp /\ Successor(A, fp, 1, t) # {}}
<1>1. s = [t \in jumps |-> image[t]]
  BY DEF Singular!JumpSuccessorSets, Singular!TransitionsFrom, TransitionsFrom, Successor,
     Singular!ApplyJump, ApplyJump, Singular!Intersect, Intersect, Singular!Image, Image
<1>2. \A k \in DOMAIN fp : k = 1
  OBVIOUS
<1>3. \A t : enabling(t) # {} => last(t) = 1 /\ enabling(t) = {1} /\ 1 \in DOMAIN fp
  <2> SUFFICES ASSUME NEW t, enabling(t) # {}
               PROVE  last(t) = 1 /\ enabling(t) = {1} /\ 1 \in DOMAIN fp
    OBVIOUS
  <2>1. enabling(t) \subseteq DOMAIN fp
    OBVIOUS
  <2>2. enabling(t) = {1}
    BY <2>1, <1>2
  <2> HIDE DEF enabling
  <2>3. last(t) = 1
    BY <2>2
  <2> QED
    BY <2>1, <2>2, <2>3
<1>4. \A t : 1 \in DOMAIN fp /\ enabling(t) = {} => Successor(A, fp, 1, t) = {}
  <2> SUFFICES ASSUME NEW t, 1 \in DOMAIN fp, enabling(t) = {}
               PROVE  Successor(A, fp, 1, t) = {}
    OBVIOUS
  <2>1. Intersect(fp[1], A.transition[t].guard) = {}
    OBVIOUS
  <2>2. ApplyJump(A, t, {}) = {}
    <3>1. Image({}, A.transition[t].reset) = {}
      BY DEF Image
    <3>2. Over[{}] = {}
      BY OverAssumption
    <3>3. Intersect({}, A.invariant[A.transition[t].target]) = {}
      BY IntersectOfNothing
    <3> QED
      BY <3>1, <3>2, <3>3 DEF ApplyJump
  <2> QED
    BY <2>1, <2>2 DEF Successor
<1> HIDE DEF last, enabling
<1>5. DOMAIN image = enabled /\ \A t \in enabled : image[t] = Successor(A, fp, 1, t)
  BY <1>3
<1>6. jumps = leading
  BY <1>3, <1>4, <1>5
<1>7. DOMAIN s = leading /\ \A t \in leading : s[t] = Successor(A, fp, 1, t)
  <2> HIDE DEF image
  <2>1. DOMAIN s = jumps /\ \A t \in jumps : s[t] = image[t] /\ t \in enabled
    BY <1>1, <1>5
  <2> HIDE DEF jumps, leading, enabled, s
  <2> QED
    BY <2>1, <1>5, <1>6
<1>8. DOMAIN r = leading \X {1} /\ \A t \in leading : r[<<t, 1>>] = Successor(A, fp, 1, t)
  <2> DEFINE pairs == {jump \in TransitionsFrom(A, l) \X (DOMAIN fp) : JumpImage(A, fp, jump) # {}}
  <2>1. r = [jump \in pairs |-> JumpImage(A, fp, jump)]
    BY DEF JumpSuccessorSets
  <2>2. \A t, k : JumpImage(A, fp, <<t, k>>) = Successor(A, fp, k, t)
    BY DEF JumpImage, Successor
  <2>3. pairs = leading \X {1}
    BY <2>2, <1>2
  <2> HIDE DEF pairs, leading
  <2>4. DOMAIN r = pairs /\ \A jump \in pairs : r[jump] = JumpImage(A, fp, jump)
    BY <2>1
  <2> HIDE DEF r
  <2> QED
    BY <2>2, <2>3, <2>4
<1> HIDE DEF r, s, leading
<1>9. DOMAIN r = (DOMAIN s) \X {1}
  BY <1>7, <1>8
<1>10. \A t \in DOMAIN s : r[<<t, 1>>] = s[t]
  BY <1>7, <1>8
<1> QED
  BY <1>9, <1>10 DEF r, s

--------------------------------------------------------------------------
(* The trees.                                                             *)

LEMMA ComputedAlike ==
  ASSUME NEW A, NEW P, NEW node, NEW other,
         other.location = node.location, other.depth = node.depth,
         other.initialSet = node.initialSet
  PROVE  /\ Computed(A, P, other) = Computed(A, P, node)
         /\ SuccessorSets(A, P, other) = SuccessorSets(A, P, node)
         /\ Taken(A, P, other) = Taken(A, P, node)
<1>1. Computed(A, P, other) = Computed(A, P, node)
  BY DEF Computed
<1>2. SuccessorSets(A, P, other) = SuccessorSets(A, P, node)
  BY <1>1 DEF SuccessorSets
<1> QED
  BY <1>1, <1>2 DEF Taken

LEMMA BuiltRoots ==
  ASSUME NEW A \in Automata, NEW P
  PROVE  IsBuilt(A, P, Roots(A)) /\ WorkedOnOnce(A, P, Roots(A), Indices(Roots(A)), {})
<1> DEFINE tree == Roots(A)
<1>1. DOMAIN tree = DOMAIN A.initial
  BY DEF Roots
<1>2. \A n \in DOMAIN tree :
        /\ IsRootOf(A, n, tree[n])
        /\ tree[n].parent = 0 /\ tree[n].flowpipe = << >>
  BY DEF Roots, IsRootOf
<1>3. DOMAIN tree = 1..Len(A.initial) /\ Len(A.initial) \in Nat
  BY <1>1, AutomatonTypes
<1> HIDE DEF tree
<1>4. IsBuilt(A, P, tree)
  BY <1>1, <1>2 DEF IsBuilt
<1>5. \A n \in DOMAIN tree : IsLeaf(tree, n)
  BY <1>2, <1>3 DEF IsLeaf
<1>6. DOMAIN Indices(tree) = DOMAIN tree /\ \A i \in DOMAIN tree : Indices(tree)[i] = i
  BY DEF Indices
<1>7. WorkedOnOnce(A, P, tree, Indices(tree), {})
  BY <1>2, <1>5, <1>6 DEF WorkedOnOnce, Queued
<1> QED
  BY <1>4, <1>7 DEF tree

(* A new child keeps the tree as it should be if its parent has no other  *)
(* by the same transition.                                                *)
LEMMA BuiltChild ==
  ASSUME NEW A \in Automata, NEW P, NEW tree \in Seq(NodeType), ParentsFirst(tree),
         IsBuilt(A, P, tree), NEW n \in DOMAIN tree, NEW t \in Taken(A, P, tree[n]),
         ~HasBranch(tree, n, t)
  PROVE  IsBuilt(A, P, Append(tree, Child(A, tree, n, t, SuccessorSets(A, P, tree[n])[t])))
<1> DEFINE child == Child(A, tree, n, t, SuccessorSets(A, P, tree[n])[t])
           new == Append(tree, child)
           k == Len(tree) + 1
<1>1. /\ child.parent = n /\ child.transition = t
      /\ child.location = A.transition[t].target /\ child.depth = tree[n].depth + 1
      /\ child.initialSet = SuccessorSets(A, P, tree[n])[t]
  BY DEF Child
<1>2. IsSuccessorOf(A, P, tree[n], child)
  BY <1>1 DEF IsSuccessorOf
<1> HIDE DEF child
<1>3. /\ \A i \in DOMAIN tree : i \in DOMAIN new /\ new[i] = tree[i]
      /\ k \in DOMAIN new /\ new[k] = child
      /\ \A i \in DOMAIN new : i \in DOMAIN tree \/ i = k
  BY AppendFacts
<1>4. k \notin DOMAIN tree /\ n # 0
  OBVIOUS
<1> HIDE DEF new, k
<1>5. \A i \in DOMAIN A.initial : i \in DOMAIN tree
  BY DEF IsBuilt
<1>6. ASSUME NEW m \in DOMAIN new
      PROVE  IF m \in DOMAIN A.initial THEN IsRootOf(A, m, new[m])
             ELSE new[m].parent # 0 /\ IsSuccessorOf(A, P, new[new[m].parent], new[m])
  <2>1. CASE m = k
    <3>1. m \notin DOMAIN A.initial /\ new[m].parent = n /\ new[n] = tree[n]
      BY <2>1, <1>1, <1>3, <1>4, <1>5
    <3> QED
      BY <3>1, <2>1, <1>2, <1>3, <1>4
  <2>2. CASE m \in DOMAIN tree
    <3>1. /\ new[m] = tree[m]
          /\ IF m \in DOMAIN A.initial THEN IsRootOf(A, m, tree[m])
             ELSE tree[m].parent # 0 /\ IsSuccessorOf(A, P, tree[tree[m].parent], tree[m])
      BY <2>2, <1>3 DEF IsBuilt
    <3>2. tree[m].parent # 0 => tree[m].parent \in DOMAIN tree
      BY <2>2 DEF ParentsFirst
    <3> QED
      BY <3>1, <3>2, <1>3
  <2> QED
    BY <2>1, <2>2, <1>3
<1>7. ASSUME NEW i \in DOMAIN new, NEW j \in DOMAIN new, new[j].parent # 0,
             new[i].parent = new[j].parent, new[i].transition = new[j].transition
      PROVE  i = j
  <2>1. \A m \in DOMAIN tree : ~(tree[m].parent = n /\ tree[m].transition = t)
    BY DEF HasBranch
  <2>2. \A m \in DOMAIN new : new[m].parent = n /\ new[m].transition = t => m = k
    BY <2>1, <1>3
  <2>3. CASE i = k \/ j = k
    BY <2>2, <2>3, <1>1, <1>3, <1>7
  <2>4. CASE i \in DOMAIN tree /\ j \in DOMAIN tree
    BY <2>4, <1>3, <1>7 DEF IsBuilt
  <2> QED
    BY <2>3, <2>4, <1>3
<1>8. \A i \in DOMAIN A.initial : i \in DOMAIN new
  BY <1>3, <1>5
<1>9. IsBuilt(A, P, new)
  BY <1>6, <1>7, <1>8 DEF IsBuilt
<1> QED
  BY <1>9 DEF new, child

(* A flowpipe that becomes longer changes nothing else of the tree.       *)
LEMMA LongerAtFacts ==
  ASSUME NEW tree \in Seq(NodeType), NEW n \in DOMAIN tree, NEW fp
  PROVE  LET new == LongerAt(tree, n, fp)
         IN  /\ DOMAIN new = DOMAIN tree
             /\ new[n].flowpipe = fp
             /\ \A m \in DOMAIN tree : m # n => new[m] = tree[m]
             /\ \A m \in DOMAIN tree :
                  /\ new[m].parent = tree[m].parent /\ new[m].transition = tree[m].transition
                  /\ new[m].location = tree[m].location /\ new[m].depth = tree[m].depth
                  /\ new[m].initialSet = tree[m].initialSet
<1> DEFINE new == LongerAt(tree, n, fp)
           node == [tree[n] EXCEPT !.flowpipe = fp]
<1>1. tree[n] \in NodeType
  OBVIOUS
<1>2. /\ node.parent = tree[n].parent /\ node.transition = tree[n].transition
      /\ node.location = tree[n].location /\ node.depth = tree[n].depth
      /\ node.initialSet = tree[n].initialSet /\ node.flowpipe = fp
  BY <1>1 DEF NodeType
<1>3. new = [tree EXCEPT ![n] = node]
  BY DEF LongerAt
<1> HIDE DEF node
<1>4. /\ DOMAIN new = DOMAIN tree /\ new[n] = node
      /\ \A m \in DOMAIN tree : m # n => new[m] = tree[m]
  BY <1>3
<1> HIDE DEF new
<1>5. \A m \in DOMAIN tree :
        /\ new[m].parent = tree[m].parent /\ new[m].transition = tree[m].transition
        /\ new[m].location = tree[m].location /\ new[m].depth = tree[m].depth
        /\ new[m].initialSet = tree[m].initialSet
  BY <1>2, <1>4
<1> QED
  BY <1>2, <1>4, <1>5 DEF new

LEMMA BuiltLonger ==
  ASSUME NEW A \in Automata, NEW P, NEW tree \in Seq(NodeType), ParentsFirst(tree),
         IsBuilt(A, P, tree), NEW n \in DOMAIN tree, NEW fp
  PROVE  IsBuilt(A, P, LongerAt(tree, n, fp))
<1> DEFINE new == LongerAt(tree, n, fp)
<1>1. /\ DOMAIN new = DOMAIN tree
      /\ \A m \in DOMAIN tree :
           /\ new[m].parent = tree[m].parent /\ new[m].transition = tree[m].transition
           /\ new[m].location = tree[m].location /\ new[m].depth = tree[m].depth
           /\ new[m].initialSet = tree[m].initialSet
  BY LongerAtFacts
<1> HIDE DEF new
<1>2. ASSUME NEW m \in DOMAIN tree, IsRootOf(A, m, tree[m])
      PROVE  IsRootOf(A, m, new[m])
  BY <1>1, <1>2 DEF IsRootOf
<1>3. ASSUME NEW m \in DOMAIN tree, tree[m].parent # 0, IsSuccessorOf(A, P, tree[tree[m].parent], tree[m])
      PROVE  IsSuccessorOf(A, P, new[new[m].parent], new[m])
  <2> DEFINE p == tree[m].parent
  <2>1. p \in DOMAIN tree /\ new[m].parent = p
    BY <1>1, <1>3 DEF ParentsFirst
  <2>2. Taken(A, P, new[p]) = Taken(A, P, tree[p])
        /\ SuccessorSets(A, P, new[p]) = SuccessorSets(A, P, tree[p])
    <3> DEFINE x == tree[p]
               y == new[p]
    <3>1. y.location = x.location /\ y.depth = x.depth /\ y.initialSet = x.initialSet
      BY <1>1, <2>1
    <3> HIDE DEF x, y
    <3>2. /\ Computed(A, P, y) = Computed(A, P, x)
          /\ Taken(A, P, y) = Taken(A, P, x)
          /\ SuccessorSets(A, P, y) = SuccessorSets(A, P, x)
      BY <3>1, ComputedAlike
    <3> QED
      BY <3>2 DEF x, y
  <2> QED
    BY <1>1, <1>3, <2>1, <2>2 DEF IsSuccessorOf
<1>4. \A m \in DOMAIN new :
        IF m \in DOMAIN A.initial THEN IsRootOf(A, m, new[m])
        ELSE new[m].parent # 0 /\ IsSuccessorOf(A, P, new[new[m].parent], new[m])
  BY <1>1, <1>2, <1>3 DEF IsBuilt
<1>5. \A i, j \in DOMAIN new :
        new[j].parent # 0 /\ new[i].parent = new[j].parent
          /\ new[i].transition = new[j].transition => i = j
  BY <1>1 DEF IsBuilt
<1>6. \A i \in DOMAIN A.initial : i \in DOMAIN new
  BY <1>1 DEF IsBuilt
<1> QED
  BY <1>4, <1>5, <1>6 DEF IsBuilt, new


(* The node that is taken from the queue is new and not queued again.     *)
LEMMA WorkStarts ==
  ASSUME NEW A, NEW P, NEW tree, NEW queue \in Seq(DOMAIN tree), queue # << >>,
         WorkedOnOnce(A, P, tree, queue, {})
  PROVE  /\ WorkedOnOnce(A, P, tree, Tail(queue), {Head(queue)})
         /\ Head(queue) \in DOMAIN tree
         /\ IsLeaf(tree, Head(queue)) /\ tree[Head(queue)].flowpipe = << >>
<1> DEFINE n == Head(queue)
           rest == Tail(queue)
<1>1. Len(queue) \in Nat /\ Len(queue) > 0 /\ DOMAIN queue = 1..Len(queue) /\ n = queue[1]
      /\ n \in DOMAIN tree
  OBVIOUS
<1>2. /\ Len(rest) = Len(queue) - 1 /\ DOMAIN rest = 1..Len(queue) - 1
      /\ \A i \in 1..Len(queue) - 1 : rest[i] = queue[i + 1]
  BY <1>1
<1> HIDE DEF n, rest
<1>3. \A i \in DOMAIN rest : i + 1 \in DOMAIN queue /\ rest[i] = queue[i + 1] /\ i + 1 # 1 /\ i \in Nat
  BY <1>1, <1>2
<1>4. \A i \in DOMAIN queue : i = 1 \/ (i - 1 \in DOMAIN rest /\ rest[i - 1] = queue[i])
  BY <1>1, <1>2
<1>5. \A i, j \in DOMAIN queue : queue[i] = queue[j] => i = j
  BY DEF WorkedOnOnce
<1>6. 1 \in DOMAIN queue
  BY <1>1
<1>7. Queued(queue, n)
  BY <1>1, <1>6 DEF Queued
<1>8. ~Queued(rest, n)
  BY <1>1, <1>3, <1>5, <1>6 DEF Queued
<1>9. \A m : Queued(queue, m) <=> m = n \/ Queued(rest, m)
  BY <1>1, <1>3, <1>4, <1>6 DEF Queued
<1>10. \A i, j \in DOMAIN rest : rest[i] = rest[j] => i = j
  <2> SUFFICES ASSUME NEW i \in DOMAIN rest, NEW j \in DOMAIN rest, rest[i] = rest[j]
               PROVE  i = j
    OBVIOUS
  <2>1. i + 1 = j + 1
    BY <1>3, <1>5
  <2> QED
    BY <2>1, <1>3
<1>11. \A m \in DOMAIN tree :
         IF Queued(rest, m) THEN m \notin {n} /\ IsLeaf(tree, m) /\ tree[m].flowpipe = << >>
         ELSE m \in {n} \/ IsExplored(A, P, tree, m)
  BY <1>8, <1>9 DEF WorkedOnOnce
<1>12. IsLeaf(tree, n) /\ tree[n].flowpipe = << >>
  BY <1>1, <1>7 DEF WorkedOnOnce
<1> QED
  BY <1>1, <1>10, <1>11, <1>12 DEF WorkedOnOnce, n, rest

LEMMA WorkStoresFlowpipe ==
  ASSUME NEW A, NEW P, NEW tree \in Seq(NodeType), NEW queue, NEW n \in DOMAIN tree, NEW fp,
         WorkedOnOnce(A, P, tree, queue, {n})
  PROVE  /\ WorkedOnOnce(A, P, LongerAt(tree, n, fp), queue, {n})
         /\ IsLeaf(tree, n) => IsLeaf(LongerAt(tree, n, fp), n)
<1> DEFINE new == LongerAt(tree, n, fp)
<1>1. /\ DOMAIN new = DOMAIN tree
      /\ \A m \in DOMAIN tree : m # n => new[m] = tree[m]
      /\ \A m \in DOMAIN tree :
           new[m].parent = tree[m].parent /\ new[m].transition = tree[m].transition
  BY LongerAtFacts
<1> HIDE DEF new
<1>2. \A m : IsLeaf(new, m) <=> IsLeaf(tree, m)
  BY <1>1 DEF IsLeaf
<1>3. \A m, t : HasBranch(new, m, t) <=> HasBranch(tree, m, t)
  BY <1>1 DEF HasBranch
<1>4. \A m \in DOMAIN tree : m # n => (IsExplored(A, P, new, m) <=> IsExplored(A, P, tree, m))
  BY <1>1, <1>3 DEF IsExplored
<1>5. \A m \in DOMAIN new :
        IF Queued(queue, m) THEN m \notin {n} /\ IsLeaf(new, m) /\ new[m].flowpipe = << >>
        ELSE m \in {n} \/ IsExplored(A, P, new, m)
  BY <1>1, <1>2, <1>4 DEF WorkedOnOnce
<1> QED
  BY <1>2, <1>5 DEF WorkedOnOnce, new

LEMMA WorkAddsChild ==
  ASSUME NEW A, NEW P, NEW tree \in Seq(NodeType), ParentsFirst(tree),
         NEW queue \in Seq(DOMAIN tree), NEW n \in DOMAIN tree,
         NEW child, child.parent = n, child.flowpipe = << >>,
         WorkedOnOnce(A, P, tree, queue, {n})
  PROVE  LET new == Append(tree, child)
         IN  /\ WorkedOnOnce(A, P, new, Append(queue, Len(new)), {n})
             /\ \A t : HasBranch(new, n, t) <=> HasBranch(tree, n, t) \/ t = child.transition
<1> DEFINE new == Append(tree, child)
           k == Len(tree) + 1
           longer == Append(queue, k)
           e == Len(queue) + 1
<1>1. /\ \A i \in DOMAIN tree : i \in DOMAIN new /\ new[i] = tree[i]
      /\ k \in DOMAIN new /\ new[k] = child
      /\ \A i \in DOMAIN new : i \in DOMAIN tree \/ i = k
      /\ Len(new) = k
  BY AppendFacts
<1>2. k \notin DOMAIN tree /\ \A m \in DOMAIN tree : tree[m].parent # k
  BY DEF ParentsFirst
<1>3. /\ \A i \in DOMAIN queue : i \in DOMAIN longer /\ longer[i] = queue[i] /\ queue[i] \in DOMAIN tree
      /\ e \in DOMAIN longer /\ longer[e] = k
      /\ \A i \in DOMAIN longer : i \in DOMAIN queue \/ i = e
  BY AppendFacts
<1> HIDE DEF new, k, longer, e
<1>4. \A i, j \in DOMAIN longer : longer[i] = longer[j] => i = j
  <2>1. \A i, j \in DOMAIN queue : queue[i] = queue[j] => i = j
    BY DEF WorkedOnOnce
  <2>2. \A i \in DOMAIN queue : longer[i] # longer[e]
    BY <1>2, <1>3
  <2> QED
    BY <2>1, <2>2, <1>3
<1>5. \A m : Queued(longer, m) <=> Queued(queue, m) \/ m = k
  BY <1>3 DEF Queued
<1>6. ~Queued(queue, n)
  BY DEF WorkedOnOnce
<1>7. \A m, t : HasBranch(new, m, t) <=> HasBranch(tree, m, t) \/ (m = n /\ t = child.transition)
  BY <1>1 DEF HasBranch
<1>8. \A m \in DOMAIN tree : IsExplored(A, P, tree, m) => IsExplored(A, P, new, m)
  BY <1>1, <1>7 DEF IsExplored
<1>9. \A m : m # n /\ IsLeaf(tree, m) => IsLeaf(new, m)
  BY <1>1 DEF IsLeaf
<1>10. IsLeaf(tree, k) /\ IsLeaf(new, k) /\ k # n
  BY <1>1, <1>2, <1>9 DEF IsLeaf
<1>11. ASSUME NEW m \in DOMAIN new
       PROVE  IF Queued(longer, m) THEN m \notin {n} /\ IsLeaf(new, m) /\ new[m].flowpipe = << >>
              ELSE m \in {n} \/ IsExplored(A, P, new, m)
  <2>1. CASE m = k
    BY <2>1, <1>1, <1>5, <1>10
  <2>2. CASE m \in DOMAIN tree /\ Queued(queue, m)
    BY <2>2, <1>1, <1>5, <1>6, <1>9 DEF WorkedOnOnce
  <2>3. CASE m \in DOMAIN tree /\ ~Queued(queue, m)
    BY <2>3, <1>1, <1>2, <1>5, <1>8 DEF WorkedOnOnce
  <2> QED
    BY <2>1, <2>2, <2>3, <1>1
<1>12. WorkedOnOnce(A, P, new, longer, {n})
  BY <1>4, <1>11 DEF WorkedOnOnce
<1>13. \A t : HasBranch(new, n, t) <=> HasBranch(tree, n, t) \/ t = child.transition
  BY <1>7
<1> QED
  BY <1>1, <1>12, <1>13 DEF new, longer

LEMMA WorkEnds ==
  ASSUME NEW A, NEW P, NEW tree, NEW queue, NEW n,
         WorkedOnOnce(A, P, tree, queue, {n}), IsExplored(A, P, tree, n)
  PROVE  WorkedOnOnce(A, P, tree, queue, {})
BY DEF WorkedOnOnce


LEMMA ComputedTypes ==
  ASSUME NEW A \in Automata, NEW P \in Parameters, NEW tree \in Seq(NodeType), NEW n \in DOMAIN tree
  PROVE  /\ Computed(A, P, tree[n]).states \in Seq(SUBSET Point)
         /\ Len(Computed(A, P, tree[n]).states) <= 1
         /\ Computed(A, P, tree[n]).safe \in BOOLEAN
<1>1. tree[n].location \in Location /\ tree[n].initialSet \in SUBSET Point
  BY NodeTypes
<1> QED
  BY <1>1, SingularTimeSuccessors DEF Computed, IsTimeResult

--------------------------------------------------------------------------
(* The rectangular analyzer builds its tree.                              *)

LEMMA RectangularAgreesStutter ==
  ASSUME RectangularAgrees, UNCHANGED <<inputs, rectangularVars>>
  PROVE  RectangularAgrees'
<1>1. /\ ha' = ha /\ par' = par /\ nodes' = nodes /\ workQueue' = workQueue /\ task' = task
      /\ flowpipe' = flowpipe /\ jumpSuccessors' = jumpSuccessors
      /\ pending' = pending /\ safe' = safe /\ pc' = pc /\ result' = result
  BY DEF inputs, rectangularVars, worker
<1> QED
  BY <1>1 DEF RectangularAgrees

LEMMA InitializeQueueAgrees ==
  ASSUME RectangularInv, InitializeQueue
  PROVE  RectangularAgrees'
<1>1. ha \in Automata /\ ControlInv /\ pc = "start" /\ pc' = "dequeue" /\ ha' = ha /\ par' = par
      /\ result' = result
  BY DEF RectangularInv, TypeOK, InitializeQueue, inputs
<1>2. result = "none"
  BY <1>1 DEF ControlInv, RectangularInv, TypeOK
<1>3. nodes' = Roots(ha) /\ workQueue' = Indices(nodes')
  BY <1>1 DEF InitializeQueue, ControlInv
<1>4. IsBuilt(ha, par, nodes') /\ WorkedOnOnce(ha, par, nodes', workQueue', {})
  BY <1>1, <1>3, BuiltRoots
<1> QED
  BY <1>1, <1>2, <1>4 DEF RectangularAgrees, BusyPcs

LEMMA DequeueAgrees ==
  ASSUME RectangularInv, RectangularAgrees, Dequeue
  PROVE  RectangularAgrees'
<1>1. TypeOK /\ ControlInv /\ pc = "dequeue" /\ pc' = "time" /\ workQueue # << >>
  BY DEF RectangularInv, Dequeue
<1>2. /\ ha' = ha /\ par' = par /\ nodes' = nodes /\ result' = result
      /\ task' = Head(workQueue) /\ workQueue' = Tail(workQueue)
  BY DEF Dequeue, inputs
<1>3. result = "none" /\ workQueue \in Seq(DOMAIN nodes)
  BY <1>1 DEF ControlInv, TypeOK
<1>4. IsBuilt(ha, par, nodes) /\ WorkedOnOnce(ha, par, nodes, workQueue, {})
  BY <1>1, <1>3 DEF RectangularAgrees, BusyPcs
<1>5. /\ WorkedOnOnce(ha, par, nodes, workQueue', {task'})
      /\ IsLeaf(nodes, task') /\ nodes[task'].flowpipe = << >>
  BY <1>1, <1>2, <1>3, <1>4, WorkStarts
<1> QED
  BY <1>1, <1>2, <1>3, <1>4, <1>5 DEF RectangularAgrees, BusyPcs

LEMMA ComputeTimeSuccessorsAgrees ==
  ASSUME RectangularInv, RectangularAgrees, SoundConfiguration, ComputeTimeSuccessors
  PROVE  RectangularAgrees'
<1> DEFINE l == nodes[task].location
           S == nodes[task].initialSet
           r == TimeSuccessors(ha, l, S, par.horizon)
           c == Computed(ha, par, nodes[task])
           longer == nodes[task].flowpipe \o r.states
<1>1. /\ TypeOK /\ ControlInv /\ pc = "time" /\ task \in DOMAIN nodes /\ ParentsFirst(nodes)
      /\ ha \in Automata /\ par \in Parameters /\ nodes \in Seq(NodeType)
  BY DEF RectangularInv, TypeOK, ControlInv, ComputeTimeSuccessors, BusyPcs
<1>2. /\ ha' = ha /\ par' = par /\ workQueue' = workQueue /\ task' = task
      /\ jumpSuccessors' = jumpSuccessors /\ pending' = pending /\ result' = result
  BY DEF ComputeTimeSuccessors, inputs
<1>3. /\ flowpipe' = flowpipe \o r.states
      /\ nodes' = LongerAt(nodes, task, longer)
      /\ safe' = r.safe
      /\ pc' = IF safe' /\ nodes[task].depth < par.jumpDepth THEN "jumps" ELSE "store"
  BY DEF ComputeTimeSuccessors, current, LongerAt
<1>4. flowpipe = << >> /\ DOMAIN jumpSuccessors = {} /\ result = "none"
  BY <1>1 DEF ControlInv, TypeOK, NoSuccessors
<1>5. /\ IsBuilt(ha, par, nodes) /\ WorkedOnOnce(ha, par, nodes, workQueue, {task})
      /\ IsLeaf(nodes, task) /\ nodes[task].flowpipe = << >>
  BY <1>1, <1>4 DEF RectangularAgrees, BusyPcs
<1>6. l \in Location /\ S \in SUBSET Point
  BY <1>1, NodeTypes
<1>7. r.states \in Seq(SUBSET Point)
  BY <1>1, <1>6, RectangularTimeSuccessors DEF IsTimeResult
<1>8. r.safe = c.safe /\ (c.safe => r.states = c.states)
  BY <1>1, <1>6, SameTimeSuccessors DEF SoundConfiguration, Computed
<1> HIDE DEF r, c
<1>9. flowpipe' = r.states /\ longer = r.states
  BY <1>3, <1>4, <1>5, <1>7
<1> HIDE DEF longer, l, S
<1>10. /\ DOMAIN nodes' = DOMAIN nodes
       /\ nodes'[task].flowpipe = r.states
       /\ \A m \in DOMAIN nodes :
            /\ nodes'[m].location = nodes[m].location /\ nodes'[m].depth = nodes[m].depth
            /\ nodes'[m].initialSet = nodes[m].initialSet
  BY <1>1, <1>3, <1>9, LongerAtFacts
<1>11. /\ Computed(ha, par, nodes'[task]) = c
       /\ Taken(ha, par, nodes'[task]) = Taken(ha, par, nodes[task])
  <2> DEFINE x == nodes[task]
             y == nodes'[task]
  <2>1. y.location = x.location /\ y.depth = x.depth /\ y.initialSet = x.initialSet
    BY <1>1, <1>10
  <2> HIDE DEF x, y
  <2>2. /\ Computed(ha, par, y) = Computed(ha, par, x)
        /\ Taken(ha, par, y) = Taken(ha, par, x)
        /\ SuccessorSets(ha, par, y) = SuccessorSets(ha, par, x)
    BY <2>1, ComputedAlike
  <2> QED
    BY <2>2 DEF x, y, c
<1>12. IsBuilt(ha, par, nodes')
  BY <1>1, <1>3, <1>5, BuiltLonger
<1>13. WorkedOnOnce(ha, par, nodes', workQueue, {task}) /\ IsLeaf(nodes', task)
  BY <1>1, <1>3, <1>5, WorkStoresFlowpipe
<1>14. safe' = c.safe /\ (safe' => flowpipe' = c.states /\ nodes'[task].flowpipe = c.states)
  BY <1>3, <1>8, <1>9, <1>10
<1>15. pc' = "store" => Taken(ha, par, nodes[task]) = {}
  BY <1>3, <1>14 DEF Taken, c
<1>16. pc' \in {"jumps", "store"}
  BY <1>3
<1> QED
  BY <1>2, <1>4, <1>11, <1>12, <1>13, <1>14, <1>15, <1>16 DEF RectangularAgrees, BusyPcs

LEMMA ComputeJumpSuccessorsAgrees ==
  ASSUME RectangularInv, RectangularAgrees, ComputeJumpSuccessors
  PROVE  RectangularAgrees'
<1> DEFINE c == Computed(ha, par, nodes[task])
           sets == SuccessorSets(ha, par, nodes[task])
           taken == Taken(ha, par, nodes[task])
<1>1. /\ TypeOK /\ ControlInv /\ pc = "jumps" /\ pc' = "store" /\ safe /\ task \in DOMAIN nodes
      /\ ha \in Automata /\ par \in Parameters /\ nodes \in Seq(NodeType)
      /\ nodes[task].depth < par.jumpDepth
  BY DEF RectangularInv, TypeOK, ControlInv, ComputeJumpSuccessors, BusyPcs
<1>2. /\ ha' = ha /\ par' = par /\ nodes' = nodes /\ workQueue' = workQueue /\ task' = task
      /\ flowpipe' = flowpipe /\ safe' = safe /\ result' = result
      /\ jumpSuccessors' = JumpSuccessorSets(ha, nodes[task].location, flowpipe)
  BY DEF ComputeJumpSuccessors, inputs, current
<1>3. result = "none"
  BY <1>1 DEF ControlInv, TypeOK
<1>4. /\ IsBuilt(ha, par, nodes) /\ WorkedOnOnce(ha, par, nodes, workQueue, {task})
      /\ IsLeaf(nodes, task) /\ safe = c.safe
      /\ flowpipe = c.states /\ nodes[task].flowpipe = c.states
  BY <1>1, <1>3 DEF RectangularAgrees, BusyPcs
<1>5. c.states \in Seq(SUBSET Point) /\ Len(c.states) <= 1
  BY <1>1, ComputedTypes
<1> HIDE DEF c
<1>6. /\ DOMAIN jumpSuccessors' = (DOMAIN sets) \X {1}
      /\ \A t \in DOMAIN sets : jumpSuccessors'[<<t, 1>>] = sets[t]
  <2>1. flowpipe \in Seq(SUBSET Point) /\ Len(flowpipe) <= 1
    BY <1>4, <1>5
  <2>2. sets = Singular!JumpSuccessorSets(ha, nodes[task].location, flowpipe)
    BY <1>4 DEF SuccessorSets, c
  <2> HIDE DEF sets
  <2> QED
    BY <1>1, <1>2, <2>1, <2>2, SameJumpSuccessors
<1>7. taken = DOMAIN sets
  BY <1>1, <1>4 DEF Taken, c
<1> HIDE DEF sets, taken
<1>8. /\ DOMAIN jumpSuccessors' = taken \X {1}
      /\ \A t \in taken : jumpSuccessors'[<<t, 1>>] = sets[t]
  BY <1>6, <1>7
<1> QED
  BY <1>1, <1>2, <1>3, <1>4, <1>8 DEF RectangularAgrees, BusyPcs, c, sets, taken

LEMMA StoreFlowpipeAgrees ==
  ASSUME RectangularInv, RectangularAgrees, StoreFlowpipe
  PROVE  RectangularAgrees'
<1> DEFINE c == Computed(ha, par, nodes[task])
<1>1. TypeOK /\ ControlInv /\ pc = "store" /\ task \in DOMAIN nodes
  BY DEF RectangularInv, ControlInv, StoreFlowpipe, BusyPcs
<1>2. /\ ha' = ha /\ par' = par /\ nodes' = nodes /\ workQueue' = workQueue /\ task' = task
      /\ flowpipe' = flowpipe /\ jumpSuccessors' = jumpSuccessors /\ safe' = safe
      /\ pending' = DOMAIN jumpSuccessors
      /\ pc' = IF safe THEN "children" ELSE "done"
      /\ result' = IF safe THEN result ELSE "failure"
  BY DEF StoreFlowpipe, inputs, worker
<1>3. result = "none"
  BY <1>1 DEF ControlInv, TypeOK
<1>4. /\ IsBuilt(ha, par, nodes) /\ WorkedOnOnce(ha, par, nodes, workQueue, {task})
      /\ IsLeaf(nodes, task) /\ safe = c.safe
      /\ safe => flowpipe = c.states /\ nodes[task].flowpipe = c.states
      /\ DOMAIN jumpSuccessors = Taken(ha, par, nodes[task]) \X {1}
      /\ \A t \in Taken(ha, par, nodes[task]) :
           jumpSuccessors[<<t, 1>>] = SuccessorSets(ha, par, nodes[task])[t]
  BY <1>1, <1>3 DEF RectangularAgrees, BusyPcs
<1>5. \A t : ~HasBranch(nodes, task, t)
  BY <1>4 DEF HasBranch, IsLeaf
<1> HIDE DEF c
<1>6. CASE safe
  <2>1. pc' = "children" /\ result' = "none"
    BY <1>2, <1>3, <1>6
  <2> QED
    BY <2>1, <1>2, <1>4, <1>5, <1>6 DEF RectangularAgrees, BusyPcs, c
<1>7. CASE ~safe
  <2>1. pc' = "done" /\ result' = "failure"
    BY <1>2, <1>7
  <2> QED
    BY <2>1, <1>1, <1>2, <1>4, <1>7 DEF RectangularAgrees, BusyPcs, c
<1> QED
  BY <1>6, <1>7

LEMMA AddChildAgrees ==
  ASSUME RectangularInv, RectangularAgrees, AddChild
  PROVE  RectangularAgrees'
<1> DEFINE c == Computed(ha, par, nodes[task])
           sets == SuccessorSets(ha, par, nodes[task])
           taken == Taken(ha, par, nodes[task])
<1>1. /\ TypeOK /\ ControlInv /\ pc = "children" /\ task \in DOMAIN nodes /\ ParentsFirst(nodes)
      /\ ha \in Automata /\ par \in Parameters /\ nodes \in Seq(NodeType)
      /\ workQueue \in Seq(DOMAIN nodes) /\ pending \subseteq DOMAIN jumpSuccessors /\ safe
  BY DEF RectangularInv, TypeOK, ControlInv, AddChild, BusyPcs
<1>2. /\ ha' = ha /\ par' = par /\ task' = task /\ flowpipe' = flowpipe
      /\ jumpSuccessors' = jumpSuccessors /\ safe' = safe /\ pc' = pc /\ result' = result
  BY DEF AddChild, inputs, worker
<1>3. PICK s \in pending :
        /\ nodes' = Append(nodes, Child(ha, nodes, task, s[1], jumpSuccessors[s]))
        /\ workQueue' = Append(workQueue, Len(nodes'))
        /\ pending' = pending \ {s}
  BY DEF AddChild
<1>4. result = "none"
  BY <1>1 DEF ControlInv, TypeOK
<1>5. /\ IsBuilt(ha, par, nodes) /\ WorkedOnOnce(ha, par, nodes, workQueue, {task})
      /\ safe = c.safe /\ flowpipe = c.states /\ nodes[task].flowpipe = c.states
      /\ DOMAIN jumpSuccessors = taken \X {1}
      /\ \A t \in taken : jumpSuccessors[<<t, 1>>] = sets[t]
      /\ \A jump \in DOMAIN jumpSuccessors : jump \in pending <=> ~HasBranch(nodes, task, jump[1])
  BY <1>1, <1>4 DEF RectangularAgrees, BusyPcs
<1> DEFINE t == s[1]
           child == Child(ha, nodes, task, t, sets[t])
<1> HIDE DEF c, sets, taken
<1>6. t \in taken /\ s = <<t, 1>> /\ jumpSuccessors[s] = sets[t] /\ ~HasBranch(nodes, task, t)
  <2>1. s \in taken \X {1} /\ s \in DOMAIN jumpSuccessors
    BY <1>1, <1>5
  <2>2. s[1] \in taken /\ s = <<s[1], 1>>
    BY <2>1
  <2> QED
    BY <2>1, <2>2, <1>5
<1>7. nodes' = Append(nodes, child)
  BY <1>3, <1>6
<1>8. IsBuilt(ha, par, nodes')
  BY <1>1, <1>5, <1>6, <1>7, BuiltChild DEF sets, taken
<1>9. child.parent = task /\ child.transition = t /\ child.flowpipe = << >>
  BY DEF Child
<1> HIDE DEF child, t
<1>10. /\ WorkedOnOnce(ha, par, nodes', workQueue', {task})
       /\ \A u : HasBranch(nodes', task, u) <=> HasBranch(nodes, task, u) \/ u = t
  <2>1. /\ WorkedOnOnce(ha, par, Append(nodes, child), Append(workQueue, Len(Append(nodes, child))), {task})
        /\ \A u : HasBranch(Append(nodes, child), task, u) <=> HasBranch(nodes, task, u) \/ u = child.transition
    <3>1. /\ nodes \in Seq(NodeType) /\ ParentsFirst(nodes)
          /\ workQueue \in Seq(DOMAIN nodes) /\ task \in DOMAIN nodes
      BY <1>1
    <3>2. WorkedOnOnce(ha, par, nodes, workQueue, {task})
      BY <1>5
    <3>3. child.parent = task /\ child.flowpipe = << >>
      BY <1>9
    <3> QED
      BY <3>1, <3>2, <3>3, WorkAddsChild
  <2>2. workQueue' = Append(workQueue, Len(Append(nodes, child)))
    BY <1>3, <1>7
  <2> QED
    BY <2>1, <2>2, <1>7, <1>9
<1>11. nodes'[task] = nodes[task]
  BY <1>1, <1>7, AppendFacts
<1>12. ASSUME NEW jump \in DOMAIN jumpSuccessors
       PROVE  jump \in pending' <=> ~HasBranch(nodes', task, jump[1])
  <2>1. jump = <<jump[1], 1>>
    BY <1>5
  <2>2. jump = s <=> jump[1] = t
    BY <2>1, <1>6
  <2> QED
    BY <2>2, <1>3, <1>5, <1>10
<1> QED
  BY <1>1, <1>2, <1>4, <1>5, <1>8, <1>10, <1>11, <1>12
     DEF RectangularAgrees, BusyPcs, c, sets, taken

LEMMA FinishTaskAgrees ==
  ASSUME RectangularInv, RectangularAgrees, FinishTask
  PROVE  RectangularAgrees'
<1>1. TypeOK /\ ControlInv /\ pc = "children" /\ pc' = "dequeue" /\ pending = {} /\ safe
  BY DEF RectangularInv, ControlInv, FinishTask
<1>2. ha' = ha /\ par' = par /\ nodes' = nodes /\ workQueue' = workQueue /\ result' = result
  BY DEF FinishTask, inputs
<1>3. result = "none"
  BY <1>1 DEF ControlInv, TypeOK
<1>4. /\ IsBuilt(ha, par, nodes) /\ WorkedOnOnce(ha, par, nodes, workQueue, {task})
      /\ safe = Computed(ha, par, nodes[task]).safe
      /\ nodes[task].flowpipe = Computed(ha, par, nodes[task]).states
      /\ DOMAIN jumpSuccessors = Taken(ha, par, nodes[task]) \X {1}
      /\ \A jump \in DOMAIN jumpSuccessors : HasBranch(nodes, task, jump[1])
  BY <1>1, <1>3 DEF RectangularAgrees, BusyPcs
<1>5. \A t \in Taken(ha, par, nodes[task]) : HasBranch(nodes, task, t)
  <2> SUFFICES ASSUME NEW t \in Taken(ha, par, nodes[task])
               PROVE  HasBranch(nodes, task, t)
    OBVIOUS
  <2>1. <<t, 1>> \in DOMAIN jumpSuccessors /\ <<t, 1>>[1] = t
    BY <1>4
  <2> QED
    BY <2>1, <1>4
<1>6. IsExplored(ha, par, nodes, task)
  BY <1>1, <1>4, <1>5 DEF IsExplored
<1>7. WorkedOnOnce(ha, par, nodes, workQueue, {})
  BY <1>4, <1>6, WorkEnds
<1> QED
  BY <1>1, <1>2, <1>3, <1>4, <1>7 DEF RectangularAgrees, BusyPcs

LEMMA SucceedAgrees ==
  ASSUME RectangularInv, RectangularAgrees, Succeed
  PROVE  RectangularAgrees'
<1>1. pc = "dequeue" /\ pc' = "done" /\ result' = "success"
  BY DEF Succeed
<1>2. ha' = ha /\ par' = par /\ nodes' = nodes /\ workQueue' = workQueue
  BY DEF Succeed, inputs
<1>3. result = "none"
  BY <1>1 DEF RectangularInv, ControlInv, TypeOK
<1>4. IsBuilt(ha, par, nodes) /\ WorkedOnOnce(ha, par, nodes, workQueue, {})
  BY <1>1, <1>3 DEF RectangularAgrees, BusyPcs
<1> QED
  BY <1>1, <1>2, <1>4 DEF RectangularAgrees, BusyPcs

LEMMA RectangularAgreesStep ==
  ASSUME RectangularInv, RectangularAgrees, SoundConfiguration, Next
  PROVE  RectangularAgrees'
BY InitializeQueueAgrees, DequeueAgrees, ComputeTimeSuccessorsAgrees, ComputeJumpSuccessorsAgrees,
   StoreFlowpipeAgrees, AddChildAgrees, FinishTaskAgrees, SucceedAgrees DEF Next


--------------------------------------------------------------------------
(* The singular analyzer builds its tree.                                 *)

LEMMA SingularAgreesStutter ==
  ASSUME SingularAgrees, UNCHANGED <<inputs, singularVars>>
  PROVE  SingularAgrees'
<1>1. /\ ha' = ha /\ par' = par /\ singularNodes' = singularNodes /\ singularQueue' = singularQueue
      /\ singularTask' = singularTask /\ singularFlowpipe' = singularFlowpipe
      /\ singularSuccessors' = singularSuccessors /\ singularPending' = singularPending
      /\ singularSafe' = singularSafe /\ singularPc' = singularPc /\ singularResult' = singularResult
  BY DEF inputs, singularVars
<1> QED
  BY <1>1 DEF SingularAgrees

LEMMA SingularStartAgrees ==
  ASSUME Singular!Init
  PROVE  SingularAgrees
<1>1. ha \in Automata /\ singularPc = "dequeue" /\ singularResult = "none"
  BY DEF Singular!Init
<1>2. singularNodes = Roots(ha) /\ singularQueue = Indices(singularNodes)
  BY DEF Singular!Init, Singular!Roots, Roots, Singular!Indices, Indices
<1>3. IsBuilt(ha, par, singularNodes) /\ WorkedOnOnce(ha, par, singularNodes, singularQueue, {})
  BY <1>1, <1>2, BuiltRoots
<1> QED
  BY <1>1, <1>3 DEF SingularAgrees, BusyPcs

LEMMA SingularDequeueAgrees ==
  ASSUME SingularInv, SingularAgrees, Singular!Dequeue
  PROVE  SingularAgrees'
<1>1. /\ Singular!TypeOK /\ SingularControlInv
      /\ singularPc = "dequeue" /\ singularPc' = "time" /\ singularQueue # << >>
  BY DEF SingularInv, Singular!Dequeue
<1>2. /\ ha' = ha /\ par' = par /\ singularNodes' = singularNodes /\ singularResult' = singularResult
      /\ singularTask' = Head(singularQueue) /\ singularQueue' = Tail(singularQueue)
  BY DEF Singular!Dequeue, Singular!inputs
<1>3. singularResult = "none" /\ singularQueue \in Seq(DOMAIN singularNodes)
  BY <1>1, SingularTyped DEF SingularControlInv
<1>4. /\ IsBuilt(ha, par, singularNodes)
      /\ WorkedOnOnce(ha, par, singularNodes, singularQueue, {})
  BY <1>1, <1>3 DEF SingularAgrees, BusyPcs
<1>5. /\ WorkedOnOnce(ha, par, singularNodes, singularQueue', {singularTask'})
      /\ IsLeaf(singularNodes, singularTask') /\ singularNodes[singularTask'].flowpipe = << >>
  BY <1>1, <1>2, <1>3, <1>4, WorkStarts
<1> QED
  BY <1>1, <1>2, <1>3, <1>4, <1>5 DEF SingularAgrees, BusyPcs

LEMMA SingularTimeSuccessorsAgree ==
  ASSUME SingularInv, SingularAgrees, Singular!ComputeTimeSuccessors
  PROVE  SingularAgrees'
<1> DEFINE c == Computed(ha, par, singularNodes[singularTask])
<1>1. /\ Singular!TypeOK /\ SingularControlInv /\ singularPc = "time"
      /\ singularTask \in DOMAIN singularNodes
  BY DEF SingularInv, SingularControlInv, Singular!ComputeTimeSuccessors, BusyPcs
<1>2. /\ ha' = ha /\ par' = par /\ singularNodes' = singularNodes /\ singularQueue' = singularQueue
      /\ singularTask' = singularTask /\ singularSuccessors' = singularSuccessors
      /\ singularResult' = singularResult
  BY DEF Singular!ComputeTimeSuccessors, Singular!inputs
<1>3. /\ singularFlowpipe' = singularFlowpipe \o c.states
      /\ singularSafe' = c.safe
      /\ singularPc' = IF singularSafe' /\ singularNodes[singularTask].depth < par.jumpDepth
                       THEN "jumps" ELSE "store"
  BY DEF Singular!ComputeTimeSuccessors, Singular!current, Computed
<1>4. /\ singularFlowpipe = << >> /\ DOMAIN singularSuccessors = {} /\ singularResult = "none"
      /\ ha \in Automata /\ par \in Parameters /\ singularNodes \in Seq(NodeType)
  BY <1>1, SingularTyped DEF SingularControlInv, Singular!NoSuccessors
<1>5. /\ IsBuilt(ha, par, singularNodes)
      /\ WorkedOnOnce(ha, par, singularNodes, singularQueue, {singularTask})
      /\ IsLeaf(singularNodes, singularTask) /\ singularNodes[singularTask].flowpipe = << >>
  BY <1>1, <1>4 DEF SingularAgrees, BusyPcs
<1>6. c.states \in Seq(SUBSET Point)
  BY <1>1, <1>4, ComputedTypes
<1> HIDE DEF c
<1>7. singularFlowpipe' = c.states
  BY <1>3, <1>4, <1>6
<1>8. singularPc' = "store" => Taken(ha, par, singularNodes[singularTask]) = {}
  BY <1>3 DEF Taken, c
<1>9. singularPc' \in {"jumps", "store"}
  BY <1>3
<1> QED
  BY <1>2, <1>3, <1>4, <1>5, <1>7, <1>8, <1>9 DEF SingularAgrees, BusyPcs, c

LEMMA SingularJumpSuccessorsAgree ==
  ASSUME SingularInv, SingularAgrees, Singular!ComputeJumpSuccessors
  PROVE  SingularAgrees'
<1> DEFINE c == Computed(ha, par, singularNodes[singularTask])
           sets == SuccessorSets(ha, par, singularNodes[singularTask])
           taken == Taken(ha, par, singularNodes[singularTask])
<1>1. /\ Singular!TypeOK /\ SingularControlInv
      /\ singularPc = "jumps" /\ singularPc' = "store" /\ singularSafe
      /\ singularTask \in DOMAIN singularNodes
      /\ singularNodes[singularTask].depth < par.jumpDepth
  BY DEF SingularInv, SingularControlInv, Singular!ComputeJumpSuccessors, BusyPcs
<1>2. /\ ha' = ha /\ par' = par /\ singularNodes' = singularNodes /\ singularQueue' = singularQueue
      /\ singularTask' = singularTask /\ singularFlowpipe' = singularFlowpipe
      /\ singularSafe' = singularSafe /\ singularResult' = singularResult
      /\ singularSuccessors' =
           Singular!JumpSuccessorSets(ha, singularNodes[singularTask].location, singularFlowpipe)
  BY DEF Singular!ComputeJumpSuccessors, Singular!inputs, Singular!current
<1>3. singularResult = "none"
  BY <1>1, SingularTyped DEF SingularControlInv
<1>4. /\ IsBuilt(ha, par, singularNodes)
      /\ WorkedOnOnce(ha, par, singularNodes, singularQueue, {singularTask})
      /\ IsLeaf(singularNodes, singularTask) /\ singularNodes[singularTask].flowpipe = << >>
      /\ singularSafe = c.safe /\ singularFlowpipe = c.states
  BY <1>1, <1>3 DEF SingularAgrees, BusyPcs
<1>5. singularSuccessors' = sets
  BY <1>2, <1>4 DEF SuccessorSets
<1>6. taken = DOMAIN sets
  BY <1>1, <1>4 DEF Taken
<1> HIDE DEF c, sets, taken
<1>7. DOMAIN singularSuccessors' = taken /\ \A t \in taken : singularSuccessors'[t] = sets[t]
  BY <1>5, <1>6
<1> QED
  BY <1>1, <1>2, <1>3, <1>4, <1>7 DEF SingularAgrees, BusyPcs, c, sets, taken

LEMMA SingularStoreFlowpipeAgrees ==
  ASSUME SingularInv, SingularAgrees, Singular!StoreFlowpipe
  PROVE  SingularAgrees'
<1> DEFINE node == singularNodes[singularTask]
           c == Computed(ha, par, node)
           longer == singularFlowpipe \o node.flowpipe
<1>1. /\ Singular!TypeOK /\ SingularControlInv /\ singularPc = "store"
      /\ singularTask \in DOMAIN singularNodes /\ ParentsFirst(singularNodes)
  BY DEF SingularInv, SingularControlInv, Singular!StoreFlowpipe, BusyPcs
<1>2. /\ ha' = ha /\ par' = par /\ singularQueue' = singularQueue /\ singularTask' = singularTask
      /\ singularFlowpipe' = singularFlowpipe /\ singularSuccessors' = singularSuccessors
      /\ singularSafe' = singularSafe
      /\ singularPending' = DOMAIN singularSuccessors
      /\ singularPc' = IF singularSafe THEN "children" ELSE "done"
      /\ singularResult' = IF singularSafe THEN singularResult ELSE "failure"
      /\ singularNodes' = LongerAt(singularNodes, singularTask, longer)
  BY DEF Singular!StoreFlowpipe, Singular!inputs, Singular!worker, LongerAt
<1>3. /\ singularResult = "none"
      /\ ha \in Automata /\ par \in Parameters /\ singularNodes \in Seq(NodeType)
  BY <1>1, SingularTyped DEF SingularControlInv
<1>4. /\ IsBuilt(ha, par, singularNodes)
      /\ WorkedOnOnce(ha, par, singularNodes, singularQueue, {singularTask})
      /\ IsLeaf(singularNodes, singularTask) /\ node.flowpipe = << >>
      /\ singularSafe = c.safe /\ singularFlowpipe = c.states
      /\ DOMAIN singularSuccessors = Taken(ha, par, node)
      /\ \A t \in Taken(ha, par, node) : singularSuccessors[t] = SuccessorSets(ha, par, node)[t]
  BY <1>1, <1>3 DEF SingularAgrees, BusyPcs
<1>5. c.states \in Seq(SUBSET Point)
  BY <1>1, <1>3, ComputedTypes
<1> HIDE DEF c
<1>6. longer = c.states
  BY <1>4, <1>5
<1> HIDE DEF longer, node
<1>7. /\ DOMAIN singularNodes' = DOMAIN singularNodes
      /\ singularNodes'[singularTask].flowpipe = c.states
      /\ singularNodes'[singularTask].location = node.location
      /\ singularNodes'[singularTask].depth = node.depth
      /\ singularNodes'[singularTask].initialSet = node.initialSet
  BY <1>1, <1>2, <1>3, <1>6, LongerAtFacts DEF node
<1>8. /\ Computed(ha, par, singularNodes'[singularTask]) = c
      /\ Taken(ha, par, singularNodes'[singularTask]) = Taken(ha, par, node)
      /\ SuccessorSets(ha, par, singularNodes'[singularTask]) = SuccessorSets(ha, par, node)
  <2> DEFINE x == node
             y == singularNodes'[singularTask]
  <2>1. y.location = x.location /\ y.depth = x.depth /\ y.initialSet = x.initialSet
    BY <1>7
  <2> HIDE DEF x, y
  <2>2. /\ Computed(ha, par, y) = Computed(ha, par, x)
        /\ Taken(ha, par, y) = Taken(ha, par, x)
        /\ SuccessorSets(ha, par, y) = SuccessorSets(ha, par, x)
    BY <2>1, ComputedAlike
  <2> QED
    BY <2>2 DEF x, y, c
<1>9. IsBuilt(ha, par, singularNodes')
  BY <1>1, <1>2, <1>3, <1>4, BuiltLonger
<1>10. /\ WorkedOnOnce(ha, par, singularNodes', singularQueue, {singularTask})
       /\ IsLeaf(singularNodes', singularTask)
  BY <1>1, <1>2, <1>3, <1>4, WorkStoresFlowpipe
<1>11. \A t : ~HasBranch(singularNodes', singularTask, t)
  BY <1>10 DEF HasBranch, IsLeaf
<1>12. CASE singularSafe
  <2>1. singularPc' = "children" /\ singularResult' = "none"
    BY <1>2, <1>3, <1>12
  <2> QED
    BY <2>1, <1>2, <1>4, <1>7, <1>8, <1>9, <1>10, <1>11, <1>12 DEF SingularAgrees, BusyPcs
<1>13. CASE ~singularSafe
  <2>1. singularPc' = "done" /\ singularResult' = "failure"
    BY <1>2, <1>13
  <2> QED
    BY <2>1, <1>1, <1>2, <1>4, <1>7, <1>8, <1>9, <1>13 DEF SingularAgrees, BusyPcs
<1> QED
  BY <1>12, <1>13

LEMMA SingularAddChildAgrees ==
  ASSUME SingularInv, SingularAgrees, Singular!AddChild
  PROVE  SingularAgrees'
<1> DEFINE c == Computed(ha, par, singularNodes[singularTask])
           sets == SuccessorSets(ha, par, singularNodes[singularTask])
           taken == Taken(ha, par, singularNodes[singularTask])
<1>1. /\ Singular!TypeOK /\ SingularControlInv /\ singularPc = "children"
      /\ singularTask \in DOMAIN singularNodes /\ ParentsFirst(singularNodes)
      /\ singularPending \subseteq DOMAIN singularSuccessors
  BY DEF SingularInv, SingularControlInv, Singular!TypeOK, Singular!AddChild, BusyPcs
<1>2. /\ ha' = ha /\ par' = par /\ singularTask' = singularTask
      /\ singularSuccessors' = singularSuccessors
      /\ singularPc' = singularPc /\ singularResult' = singularResult
  BY DEF Singular!AddChild, Singular!inputs, Singular!worker
<1>3. PICK t \in singularPending :
        /\ singularNodes' = Append(singularNodes, Child(ha, singularNodes, singularTask, t, singularSuccessors[t]))
        /\ singularQueue' = Append(singularQueue, Len(singularNodes'))
        /\ singularPending' = singularPending \ {t}
  BY DEF Singular!AddChild, Singular!Child, Child
<1>4. /\ singularResult = "none" /\ singularQueue \in Seq(DOMAIN singularNodes)
      /\ ha \in Automata /\ par \in Parameters /\ singularNodes \in Seq(NodeType)
  BY <1>1, SingularTyped DEF SingularControlInv
<1>5. /\ IsBuilt(ha, par, singularNodes)
      /\ WorkedOnOnce(ha, par, singularNodes, singularQueue, {singularTask})
      /\ c.safe /\ singularNodes[singularTask].flowpipe = c.states
      /\ DOMAIN singularSuccessors = taken
      /\ \A u \in taken : singularSuccessors[u] = sets[u]
      /\ \A u \in DOMAIN singularSuccessors :
           u \in singularPending <=> ~HasBranch(singularNodes, singularTask, u)
  BY <1>1, <1>4 DEF SingularAgrees, BusyPcs
<1> DEFINE child == Child(ha, singularNodes, singularTask, t, sets[t])
<1> HIDE DEF c, sets, taken
<1>6. t \in taken /\ singularSuccessors[t] = sets[t] /\ ~HasBranch(singularNodes, singularTask, t)
  BY <1>1, <1>5
<1>7. singularNodes' = Append(singularNodes, child)
  BY <1>3, <1>6
<1>8. IsBuilt(ha, par, singularNodes')
  BY <1>1, <1>4, <1>5, <1>6, <1>7, BuiltChild DEF sets, taken
<1>9. child.parent = singularTask /\ child.transition = t /\ child.flowpipe = << >>
  BY DEF Child
<1> HIDE DEF child
<1>10. /\ WorkedOnOnce(ha, par, singularNodes', singularQueue', {singularTask})
       /\ \A u : HasBranch(singularNodes', singularTask, u)
                   <=> HasBranch(singularNodes, singularTask, u) \/ u = t
  <2> DEFINE new == Append(singularNodes, child)
  <2>1. /\ WorkedOnOnce(ha, par, new, Append(singularQueue, Len(new)), {singularTask})
        /\ \A u : HasBranch(new, singularTask, u)
                    <=> HasBranch(singularNodes, singularTask, u) \/ u = child.transition
    <3>1. /\ singularNodes \in Seq(NodeType) /\ ParentsFirst(singularNodes)
          /\ singularQueue \in Seq(DOMAIN singularNodes) /\ singularTask \in DOMAIN singularNodes
      BY <1>1, <1>4
    <3>2. WorkedOnOnce(ha, par, singularNodes, singularQueue, {singularTask})
      BY <1>4, <1>5
    <3>3. child.parent = singularTask /\ child.flowpipe = << >>
      BY <1>9
    <3> QED
      BY <3>1, <3>2, <3>3, WorkAddsChild
  <2>2. singularQueue' = Append(singularQueue, Len(new))
    BY <1>3, <1>7
  <2> QED
    BY <2>1, <2>2, <1>7, <1>9
<1>11. singularNodes'[singularTask] = singularNodes[singularTask]
  BY <1>1, <1>4, <1>7, AppendFacts
<1>12. \A u \in DOMAIN singularSuccessors :
         u \in singularPending' <=> ~HasBranch(singularNodes', singularTask, u)
  BY <1>3, <1>5, <1>10
<1> QED
  BY <1>1, <1>2, <1>4, <1>5, <1>8, <1>10, <1>11, <1>12
     DEF SingularAgrees, BusyPcs, c, sets, taken

LEMMA SingularResetWorkerAgrees ==
  ASSUME SingularInv, SingularAgrees, Singular!ResetWorker
  PROVE  SingularAgrees'
<1>1. /\ Singular!TypeOK /\ SingularControlInv /\ singularPc = "children"
      /\ singularPc' = "dequeue" /\ singularPending = {}
  BY DEF SingularInv, Singular!ResetWorker
<1>2. /\ ha' = ha /\ par' = par /\ singularNodes' = singularNodes /\ singularQueue' = singularQueue
      /\ singularResult' = singularResult
  BY DEF Singular!ResetWorker, Singular!inputs
<1>3. singularResult = "none"
  BY <1>1, SingularTyped DEF SingularControlInv
<1>4. /\ IsBuilt(ha, par, singularNodes)
      /\ WorkedOnOnce(ha, par, singularNodes, singularQueue, {singularTask})
      /\ IsExplored(ha, par, singularNodes, singularTask)
  BY <1>1, <1>3 DEF SingularAgrees, BusyPcs, IsExplored
<1>5. WorkedOnOnce(ha, par, singularNodes, singularQueue, {})
  BY <1>4, WorkEnds
<1> QED
  BY <1>1, <1>2, <1>3, <1>4, <1>5 DEF SingularAgrees, BusyPcs

LEMMA SingularSucceedAgrees ==
  ASSUME SingularInv, SingularAgrees, Singular!Succeed
  PROVE  SingularAgrees'
<1>1. singularPc = "dequeue" /\ singularPc' = "done" /\ singularResult' = "success"
  BY DEF Singular!Succeed
<1>2. ha' = ha /\ par' = par /\ singularNodes' = singularNodes /\ singularQueue' = singularQueue
  BY DEF Singular!Succeed, Singular!inputs
<1>3. singularResult = "none"
  BY <1>1, SingularTyped DEF SingularInv, SingularControlInv
<1>4. /\ IsBuilt(ha, par, singularNodes)
      /\ WorkedOnOnce(ha, par, singularNodes, singularQueue, {})
  BY <1>1, <1>3 DEF SingularAgrees, BusyPcs
<1> QED
  BY <1>1, <1>2, <1>4 DEF SingularAgrees, BusyPcs

LEMMA SingularAgreesStep ==
  ASSUME SingularInv, SingularAgrees, Singular!Next
  PROVE  SingularAgrees'
BY SingularDequeueAgrees, SingularTimeSuccessorsAgree, SingularJumpSuccessorsAgree,
   SingularStoreFlowpipeAgrees, SingularAddChildAgrees, SingularResetWorkerAgrees,
   SingularSucceedAgrees DEF Singular!Next


--------------------------------------------------------------------------
(* A tree is found again in every one that is explored to the end, node   *)
(* by node and without putting two nodes onto one.                        *)

IsComplete(A, P, tree) ==
  /\ tree \in Seq(NodeType) /\ ParentsFirst(tree)
  /\ IsBuilt(A, P, tree)
  /\ \A n \in DOMAIN tree : IsExplored(A, P, tree, n)

(* Node n of the tree S is node h[n] of the tree T.                       *)
IsFoundAt(S, T, h, n) ==
  /\ h[n] \in DOMAIN T
  /\ T[h[n]].location = S[n].location /\ T[h[n]].depth = S[n].depth
  /\ T[h[n]].initialSet = S[n].initialSet
  /\ Path(T, h[n]) = Path(S, n)
  /\ IF S[n].parent = 0 THEN h[n] = n /\ T[n].parent = 0
     ELSE T[h[n]].parent = h[S[n].parent] /\ T[h[n]].transition = S[n].transition

IsFoundUpTo(S, T, h, m) ==
  /\ \A n \in 1..m : IsFoundAt(S, T, h, n)
  /\ \A i, j \in 1..m : h[i] = h[j] => i = j

LEMMA RootIsFound ==
  ASSUME NEW A, NEW P, NEW S \in Seq(NodeType), NEW T \in Seq(NodeType),
         ParentsFirst(S), ParentsFirst(T), IsBuilt(A, P, S), IsBuilt(A, P, T),
         NEW n \in DOMAIN S, S[n].parent = 0, NEW h, h[n] = n
  PROVE  IsFoundAt(S, T, h, n)
<1>1. n \in DOMAIN A.initial /\ n \in DOMAIN T
  BY DEF IsBuilt
<1>2. IsRootOf(A, n, S[n]) /\ IsRootOf(A, n, T[n])
  BY <1>1 DEF IsBuilt
<1>3. Path(S, n) = << >> /\ Path(T, n) = << >>
  BY <1>1, <1>2, PathUnfolds DEF IsRootOf
<1> QED
  BY <1>1, <1>2, <1>3 DEF IsFoundAt, IsRootOf

LEMMA ChildIsFound ==
  ASSUME NEW A, NEW P, NEW S \in Seq(NodeType), NEW T \in Seq(NodeType),
         ParentsFirst(S), ParentsFirst(T), IsBuilt(A, P, S), IsBuilt(A, P, T),
         \A n \in DOMAIN T : IsExplored(A, P, T, n),
         NEW n \in DOMAIN S, S[n].parent # 0, NEW h, IsFoundAt(S, T, h, S[n].parent)
  PROVE  \E c \in DOMAIN T :
           /\ T[c].parent = h[S[n].parent] /\ T[c].parent # 0
           /\ T[c].transition = S[n].transition
           /\ T[c].location = S[n].location /\ T[c].depth = S[n].depth
           /\ T[c].initialSet = S[n].initialSet
           /\ Path(T, c) = Path(S, n)
<1> DEFINE p == S[n].parent
           t == S[n].transition
<1>1. p \in DOMAIN S
  BY DEF ParentsFirst
<1>2. IsSuccessorOf(A, P, S[p], S[n])
  <2>1. n \notin DOMAIN A.initial
    BY DEF IsBuilt, IsRootOf
  <2> QED
    BY <2>1 DEF IsBuilt
<1>3. /\ h[p] \in DOMAIN T /\ h[p] # 0 /\ Path(T, h[p]) = Path(S, p)
      /\ Taken(A, P, T[h[p]]) = Taken(A, P, S[p])
      /\ SuccessorSets(A, P, T[h[p]]) = SuccessorSets(A, P, S[p])
      /\ T[h[p]].depth = S[p].depth
  <2>1. /\ h[p] \in DOMAIN T /\ T[h[p]].location = S[p].location /\ T[h[p]].depth = S[p].depth
        /\ T[h[p]].initialSet = S[p].initialSet /\ Path(T, h[p]) = Path(S, p)
    BY DEF IsFoundAt
  <2>2. h[p] # 0
    BY <2>1
  <2>3. /\ Taken(A, P, T[h[p]]) = Taken(A, P, S[p])
        /\ SuccessorSets(A, P, T[h[p]]) = SuccessorSets(A, P, S[p])
    <3> DEFINE x == S[p]
               y == T[h[p]]
    <3>1. y.location = x.location /\ y.depth = x.depth /\ y.initialSet = x.initialSet
      BY <2>1
    <3> HIDE DEF x, y
    <3>2. Taken(A, P, y) = Taken(A, P, x) /\ SuccessorSets(A, P, y) = SuccessorSets(A, P, x)
      BY <3>1, ComputedAlike
    <3> QED
      BY <3>2 DEF x, y
  <2> QED
    BY <2>1, <2>2, <2>3
<1>4. HasBranch(T, h[p], t)
  BY <1>2, <1>3 DEF IsExplored, IsSuccessorOf
<1>5. PICK c \in DOMAIN T : T[c].parent = h[p] /\ T[c].transition = t
  BY <1>4 DEF HasBranch
<1>6. IsSuccessorOf(A, P, T[h[p]], T[c])
  <2>1. c \notin DOMAIN A.initial
    BY <1>3, <1>5 DEF IsBuilt, IsRootOf
  <2> QED
    BY <2>1, <1>5 DEF IsBuilt
<1>7. /\ T[c].location = S[n].location /\ T[c].depth = S[n].depth
      /\ T[c].initialSet = S[n].initialSet
  BY <1>2, <1>3, <1>5, <1>6 DEF IsSuccessorOf
<1>8. Path(T, c) = Path(S, n)
  <2>1. Path(S, n) = Append(Path(S, p), t)
    BY PathUnfolds
  <2>2. Path(T, c) = Append(Path(T, h[p]), t)
    BY <1>3, <1>5, PathUnfolds
  <2> QED
    BY <2>1, <2>2, <1>3
<1> QED
  BY <1>3, <1>5, <1>7, <1>8

LEMMA OneMoreIsFound ==
  ASSUME NEW A, NEW P, NEW S \in Seq(NodeType), NEW T \in Seq(NodeType),
         ParentsFirst(S), ParentsFirst(T), IsBuilt(A, P, S), IsBuilt(A, P, T),
         \A n \in DOMAIN T : IsExplored(A, P, T, n),
         NEW m \in Nat, m + 1 <= Len(S), NEW h, IsFoundUpTo(S, T, h, m)
  PROVE  \E g : IsFoundUpTo(S, T, g, m + 1)
<1> DEFINE n == m + 1
           p == S[n].parent
<1>1. /\ n \in DOMAIN S /\ n \in Nat /\ n \notin 1..m
      /\ \A i \in 1..n : i \in 1..m \/ i = n
      /\ \A i \in 1..m : i \in DOMAIN S
  OBVIOUS
<1>2. p \in 0..m /\ (p # 0 => p \in 1..m)
  BY <1>1 DEF ParentsFirst
<1>3. ASSUME NEW i \in 1..m, S[i].parent # 0
      PROVE  S[i].parent \in 1..m
  <2>1. i \in DOMAIN S /\ i \in Nat /\ i <= m
    BY <1>1
  <2>2. S[i].parent \in 0..i - 1
    BY <2>1 DEF ParentsFirst
  <2> QED
    BY <2>1, <2>2, <1>3
<1> HIDE DEF n
<1>4. \A i \in 1..m : IsFoundAt(S, T, h, i) /\ h[i] \in DOMAIN T
  BY DEF IsFoundUpTo, IsFoundAt
<1>5. \A i \in DOMAIN T : i # 0
  OBVIOUS
<1>6. ASSUME NEW c, NEW g, g = [i \in 1..n |-> IF i = n THEN c ELSE h[i]],
             \A i \in 1..m : h[i] # c, IsFoundAt(S, T, g, n)
      PROVE  IsFoundUpTo(S, T, g, n)
  <2>1. \A i \in 1..m : i \in 1..n /\ g[i] = h[i]
    BY <1>1, <1>6 DEF n
  <2>2. n \in 1..n /\ g[n] = c
    BY <1>1, <1>6 DEF n
  <2>3. IsFoundAt(S, T, g, n)
    BY <1>6
  <2>4. ASSUME NEW i \in 1..m PROVE IsFoundAt(S, T, g, i)
    BY <2>1, <1>3, <1>4 DEF IsFoundAt
  <2>5. \A i, j \in 1..n : g[i] = g[j] => i = j
    BY <2>1, <2>2, <1>1, <1>6 DEF IsFoundUpTo
  <2>6. \A i \in 1..n : IsFoundAt(S, T, g, i)
    BY <2>3, <2>4, <1>1
  <2> QED
    BY <2>5, <2>6 DEF IsFoundUpTo
<1>7. CASE p = 0
  <2> DEFINE g == [i \in 1..n |-> IF i = n THEN n ELSE h[i]]
  <2>1. g[n] = n
    BY <1>1
  <2> HIDE DEF g
  <2>2. IsFoundAt(S, T, g, n)
    BY <2>1, <1>1, <1>7, RootIsFound
  <2>3. T[n].parent = 0
    BY <2>2, <1>7 DEF IsFoundAt
  <2>4. \A i \in 1..m : h[i] # n
    <3> SUFFICES ASSUME NEW i \in 1..m, h[i] = n
                 PROVE  FALSE
      OBVIOUS
    <3>1. S[i].parent # 0
      BY <1>1, <1>4 DEF IsFoundAt
    <3>2. T[n].parent = h[S[i].parent] /\ S[i].parent \in 1..m
      BY <3>1, <1>3, <1>4 DEF IsFoundAt
    <3> QED
      BY <3>2, <2>3, <1>4, <1>5
  <2>5. g = [i \in 1..n |-> IF i = n THEN n ELSE h[i]]
    BY DEF g
  <2> QED
    BY <2>2, <2>4, <2>5, <1>6 DEF n
<1>8. CASE p # 0
  <2>1. IsFoundAt(S, T, h, p)
    BY <1>2, <1>4, <1>8
  <2>2. PICK c \in DOMAIN T :
           /\ T[c].parent = h[p] /\ T[c].parent # 0
           /\ T[c].transition = S[n].transition
           /\ T[c].location = S[n].location /\ T[c].depth = S[n].depth
           /\ T[c].initialSet = S[n].initialSet
           /\ Path(T, c) = Path(S, n)
    BY <2>1, <1>1, <1>8, ChildIsFound
  <2> DEFINE g == [i \in 1..n |-> IF i = n THEN c ELSE h[i]]
  <2>3. g[n] = c /\ g[p] = h[p]
    BY <1>1, <1>2, <1>8 DEF n
  <2> HIDE DEF g
  <2>4. IsFoundAt(S, T, g, n)
    BY <2>2, <2>3, <1>8 DEF IsFoundAt
  <2>5. \A i \in 1..m : h[i] # c
    <3> SUFFICES ASSUME NEW i \in 1..m, h[i] = c
                 PROVE  FALSE
      OBVIOUS
    <3>1. S[i].parent # 0
      BY <2>2, <1>4 DEF IsFoundAt
    <3>2. /\ h[S[i].parent] = h[p] /\ S[i].parent \in 1..m
          /\ S[i].transition = S[n].transition
      BY <3>1, <2>2, <1>3, <1>4 DEF IsFoundAt
    <3>3. S[i].parent = p
      BY <3>2, <1>2, <1>8 DEF IsFoundUpTo
    <3>4. i = n
      BY <3>2, <3>3, <1>1, <1>8 DEF IsBuilt
    <3> QED
      BY <3>4, <1>1
  <2>6. g = [i \in 1..n |-> IF i = n THEN c ELSE h[i]]
    BY DEF g
  <2> QED
    BY <2>4, <2>5, <2>6, <1>6 DEF n
<1> QED
  BY <1>7, <1>8 DEF n

LEMMA TreeIsFound ==
  ASSUME NEW A, NEW P, NEW S \in Seq(NodeType), NEW T,
         ParentsFirst(S), IsBuilt(A, P, S), IsComplete(A, P, T)
  PROVE  \E h : IsFoundUpTo(S, T, h, Len(S))
<1> DEFINE F == {m \in Nat : m <= Len(S) => \E h : IsFoundUpTo(S, T, h, m)}
<1>1. /\ T \in Seq(NodeType) /\ ParentsFirst(T) /\ IsBuilt(A, P, T)
      /\ \A n \in DOMAIN T : IsExplored(A, P, T, n)
  BY DEF IsComplete
<1>2. 0 \in F
  <2>1. 1..0 = {}
    OBVIOUS
  <2>2. IsFoundUpTo(S, T, << >>, 0)
    BY <2>1 DEF IsFoundUpTo
  <2> QED
    BY <2>2
<1>3. ASSUME NEW m \in Nat, m \in F PROVE m + 1 \in F
  <2> SUFFICES ASSUME m + 1 <= Len(S)
               PROVE  \E h : IsFoundUpTo(S, T, h, m + 1)
    OBVIOUS
  <2>1. PICK h : IsFoundUpTo(S, T, h, m)
    BY <1>3
  <2> QED
    BY <2>1, <1>1, OneMoreIsFound
<1> HIDE DEF F
<1>4. Len(S) \in Nat
  OBVIOUS
<1>5. Len(S) \in F
  BY <1>2, <1>3, <1>4, InductionFromZero
<1> QED
  BY <1>5 DEF F

(* What is computed of a node is safe in a tree that is found in one      *)
(* explored to the end.                                                   *)
LEMMA FoundIsSafe ==
  ASSUME NEW A, NEW P, NEW S \in Seq(NodeType), NEW T,
         ParentsFirst(S), IsBuilt(A, P, S), IsComplete(A, P, T), NEW n \in DOMAIN S
  PROVE  Computed(A, P, S[n]).safe
<1>1. PICK h : IsFoundUpTo(S, T, h, Len(S))
  BY TreeIsFound
<1>2. n \in 1..Len(S)
  OBVIOUS
<1>3. /\ h[n] \in DOMAIN T /\ T[h[n]].location = S[n].location /\ T[h[n]].depth = S[n].depth
      /\ T[h[n]].initialSet = S[n].initialSet
  BY <1>1, <1>2 DEF IsFoundUpTo, IsFoundAt
<1>4. Computed(A, P, T[h[n]]) = Computed(A, P, S[n])
  <2> DEFINE x == S[n]
             y == T[h[n]]
  <2>1. y.location = x.location /\ y.depth = x.depth /\ y.initialSet = x.initialSet
    BY <1>3
  <2> HIDE DEF x, y
  <2>2. /\ Computed(A, P, y) = Computed(A, P, x)
        /\ Taken(A, P, y) = Taken(A, P, x)
        /\ SuccessorSets(A, P, y) = SuccessorSets(A, P, x)
    BY <2>1, ComputedAlike
  <2> QED
    BY <2>2 DEF x, y
<1> QED
  BY <1>3, <1>4 DEF IsComplete, IsExplored

(* Of two trees explored to the end neither has a node more.              *)
LEMMA NoMoreNodes ==
  ASSUME NEW A, NEW P, NEW S, NEW T, IsComplete(A, P, S), IsComplete(A, P, T)
  PROVE  Len(S) <= Len(T) /\ Explored(S) \subseteq Explored(T)
<1>1. /\ S \in Seq(NodeType) /\ ParentsFirst(S) /\ IsBuilt(A, P, S) /\ T \in Seq(NodeType)
      /\ Len(S) \in Nat /\ Len(T) \in Nat /\ DOMAIN S = 1..Len(S) /\ DOMAIN T = 1..Len(T)
  BY DEF IsComplete
<1>2. PICK h : IsFoundUpTo(S, T, h, Len(S))
  BY <1>1, TreeIsFound
<1>3. Len(S) <= Len(T)
  <2> SUFFICES ASSUME Len(T) < Len(S)
               PROVE  FALSE
    BY <1>1
  <2> DEFINE f == [n \in DOMAIN S |-> h[n]]
  <2>1. f \in [DOMAIN S -> DOMAIN T]
    BY <1>1, <1>2 DEF IsFoundUpTo, IsFoundAt
  <2>2. /\ IsFiniteSet(DOMAIN S) /\ Cardinality(DOMAIN S) = Len(S)
        /\ IsFiniteSet(DOMAIN T) /\ Cardinality(DOMAIN T) = Len(T)
    <3>1. \A k \in Nat : IsFiniteSet(1..k) /\ Cardinality(1..k) = k
      <4> SUFFICES ASSUME NEW k \in Nat
                   PROVE  IsFiniteSet(1..k) /\ Cardinality(1..k) = k
        OBVIOUS
      <4>1. IsFiniteSet(1..k) /\ Cardinality(1..k) = IF 1 > k THEN 0 ELSE k - 1 + 1
        BY k \in Int, 1 \in Int, FS_Interval
      <4>2. (IF 1 > k THEN 0 ELSE k - 1 + 1) = k
        OBVIOUS
      <4> QED
        BY <4>1, <4>2
    <3> QED
      BY <1>1, <3>1
  <2> HIDE DEF f
  <2>3. \E i, j \in DOMAIN S : i # j /\ f[i] = f[j]
    BY <2>1, <2>2, FS_PigeonHole
  <2> QED
    BY <2>3, <1>1, <1>2 DEF IsFoundUpTo, f
<1>4. ASSUME NEW n \in DOMAIN S
      PROVE  \E k \in DOMAIN T :
               /\ Path(T, k) = Path(S, n) /\ T[k].location = S[n].location
               /\ T[k].initialSet = S[n].initialSet /\ T[k].flowpipe = S[n].flowpipe
  <2>1. /\ h[n] \in DOMAIN T /\ T[h[n]].location = S[n].location /\ T[h[n]].depth = S[n].depth
        /\ T[h[n]].initialSet = S[n].initialSet /\ Path(T, h[n]) = Path(S, n)
    BY <1>1, <1>2 DEF IsFoundUpTo, IsFoundAt
  <2>2. Computed(A, P, T[h[n]]) = Computed(A, P, S[n])
    <3> DEFINE x == S[n]
               y == T[h[n]]
    <3>1. y.location = x.location /\ y.depth = x.depth /\ y.initialSet = x.initialSet
      BY <2>1
    <3> HIDE DEF x, y
    <3>2. /\ Computed(A, P, y) = Computed(A, P, x)
          /\ Taken(A, P, y) = Taken(A, P, x)
          /\ SuccessorSets(A, P, y) = SuccessorSets(A, P, x)
      BY <3>1, ComputedAlike
    <3> QED
      BY <3>2 DEF x, y
  <2>3. T[h[n]].flowpipe = S[n].flowpipe
    BY <2>1, <2>2 DEF IsComplete, IsExplored
  <2> QED
    BY <2>1, <2>3
<1>5. Explored(S) \subseteq Explored(T)
  BY <1>4 DEF Explored
<1> QED
  BY <1>3, <1>5

--------------------------------------------------------------------------
LEMMA RectangularFinished ==
  ASSUME RectangularInv, RectangularAgrees, result # "none"
  PROVE  /\ nodes \in Seq(NodeType) /\ ParentsFirst(nodes) /\ IsBuilt(ha, par, nodes)
         /\ \/ result = "success" /\ IsComplete(ha, par, nodes)
            \/ result = "failure" /\ \E n \in DOMAIN nodes : ~Computed(ha, par, nodes[n]).safe
<1>1. /\ nodes \in Seq(NodeType) /\ ParentsFirst(nodes) /\ pc = "done"
      /\ result \in {"success", "failure"} /\ (result = "success" => workQueue = << >>)
  BY DEF RectangularInv, TypeOK, ControlInv
<1>2. IsBuilt(ha, par, nodes)
  BY <1>1 DEF RectangularAgrees
<1>3. CASE result = "success"
  <2>1. WorkedOnOnce(ha, par, nodes, workQueue, {})
    BY <1>1, <1>3 DEF RectangularAgrees, BusyPcs
  <2>2. \A n : ~Queued(workQueue, n)
    BY <1>1, <1>3 DEF Queued
  <2>3. \A n \in DOMAIN nodes : IsExplored(ha, par, nodes, n)
    BY <2>1, <2>2 DEF WorkedOnOnce
  <2> QED
    BY <2>3, <1>1, <1>2, <1>3 DEF IsComplete
<1>4. CASE result = "failure"
  BY <1>1, <1>2, <1>4 DEF RectangularAgrees
<1> QED
  BY <1>1, <1>3, <1>4

LEMMA SingularFinished ==
  ASSUME SingularInv, SingularAgrees, singularResult # "none"
  PROVE  /\ singularNodes \in Seq(NodeType) /\ ParentsFirst(singularNodes)
         /\ IsBuilt(ha, par, singularNodes)
         /\ \/ singularResult = "success" /\ IsComplete(ha, par, singularNodes)
            \/ singularResult = "failure"
                 /\ \E n \in DOMAIN singularNodes : ~Computed(ha, par, singularNodes[n]).safe
<1>1. /\ singularNodes \in Seq(NodeType) /\ ParentsFirst(singularNodes) /\ singularPc = "done"
      /\ singularResult \in {"success", "failure"}
      /\ (singularResult = "success" => singularQueue = << >>)
  BY SingularTyped DEF SingularInv, SingularControlInv
<1>2. IsBuilt(ha, par, singularNodes)
  BY DEF SingularAgrees
<1>3. CASE singularResult = "success"
  <2>1. WorkedOnOnce(ha, par, singularNodes, singularQueue, {})
    BY <1>1, <1>3 DEF SingularAgrees, BusyPcs
  <2>2. \A n : ~Queued(singularQueue, n)
    BY <1>1, <1>3 DEF Queued
  <2>3. \A n \in DOMAIN singularNodes : IsExplored(ha, par, singularNodes, n)
    BY <2>1, <2>2 DEF WorkedOnOnce
  <2> QED
    BY <2>3, <1>1, <1>2, <1>3 DEF IsComplete
<1>4. CASE singularResult = "failure"
  BY <1>1, <1>2, <1>4 DEF SingularAgrees
<1> QED
  BY <1>1, <1>3, <1>4

LEMMA SameVerdictAndTree ==
  ASSUME IInv, AgreementInv, SoundConfiguration
  PROVE  AnalyzersAgree
<1> SUFFICES ASSUME result # "none", singularResult # "none"
             PROVE  /\ result = singularResult
                    /\ result = "success" =>
                         /\ Len(nodes) = Len(singularNodes)
                         /\ Explored(nodes) = Explored(singularNodes)
  BY DEF AnalyzersAgree, Finished
<1>1. RectangularInv /\ RectangularAgrees /\ SingularInv /\ SingularAgrees
  BY DEF IInv, AgreementInv
<1>2. /\ nodes \in Seq(NodeType) /\ ParentsFirst(nodes) /\ IsBuilt(ha, par, nodes)
      /\ \/ result = "success" /\ IsComplete(ha, par, nodes)
         \/ result = "failure" /\ \E n \in DOMAIN nodes : ~Computed(ha, par, nodes[n]).safe
  BY <1>1, RectangularFinished
<1>3. /\ singularNodes \in Seq(NodeType) /\ ParentsFirst(singularNodes)
      /\ IsBuilt(ha, par, singularNodes)
      /\ \/ singularResult = "success" /\ IsComplete(ha, par, singularNodes)
         \/ singularResult = "failure"
              /\ \E n \in DOMAIN singularNodes : ~Computed(ha, par, singularNodes[n]).safe
  BY <1>1, SingularFinished
<1>4. CASE result = "success" /\ singularResult = "success"
  <2>1. IsComplete(ha, par, nodes) /\ IsComplete(ha, par, singularNodes)
    BY <1>2, <1>3, <1>4
  <2>2. /\ Len(nodes) <= Len(singularNodes) /\ Len(singularNodes) <= Len(nodes)
        /\ Explored(nodes) \subseteq Explored(singularNodes)
        /\ Explored(singularNodes) \subseteq Explored(nodes)
    BY <2>1, NoMoreNodes
  <2>3. Len(nodes) \in Nat /\ Len(singularNodes) \in Nat
    BY <1>2, <1>3
  <2> QED
    BY <2>2, <2>3, <1>4
<1>5. ~(result = "success" /\ singularResult = "failure")
  BY <1>2, <1>3, FoundIsSafe
<1>6. ~(result = "failure" /\ singularResult = "success")
  BY <1>2, <1>3, FoundIsSafe
<1> QED
  BY <1>2, <1>3, <1>4, <1>5, <1>6

LEMMA AgreementAtStart ==
  ASSUME VerificationInit
  PROVE  AgreementInv
<1>1. pc = "start" /\ Singular!Init
  BY DEF VerificationInit, Init
<1> QED
  BY <1>1, SingularStartAgrees DEF AgreementInv, RectangularAgrees

LEMMA AgreementStep ==
  ASSUME IInv, AgreementInv, [VerificationNext]_verificationVars
  PROVE  AgreementInv'
<1>1. /\ UNCHANGED inputs
      /\ Next \/ UNCHANGED rectangularVars
      /\ Singular!Next \/ UNCHANGED singularVars
  BY InputsStay
<1>2. SoundConfiguration' => SoundConfiguration
  BY <1>1 DEF SoundConfiguration, inputs
<1> SUFFICES ASSUME SoundConfiguration
             PROVE  RectangularAgrees' /\ SingularAgrees'
  BY <1>2 DEF AgreementInv
<1>3. RectangularInv /\ RectangularAgrees /\ SingularInv /\ SingularAgrees
  BY DEF IInv, AgreementInv
<1>4. RectangularAgrees'
  BY <1>1, <1>3, RectangularAgreesStep, RectangularAgreesStutter
<1>5. SingularAgrees'
  BY <1>1, <1>3, SingularAgreesStep, SingularAgreesStutter
<1> QED
  BY <1>4, <1>5

(* Both analyzers come to the same verdict on every automaton whose       *)
(* global condition has constraints and that has no false local one, and  *)
(* if that is a success, with as many nodes and the same states for the   *)
(* same jumps: in which order transitions are taken, that one worker is   *)
(* used for all nodes and that the other splits its successors by states  *)
(* makes no difference.                                                   *)
THEOREM BothAnalyzersAgree == VerificationSpec => [](SoundConfiguration => AnalyzersAgree)
<1>1. VerificationInit => IInv /\ AgreementInv
  BY InvariantAtStart, AgreementAtStart
<1>2. IInv /\ AgreementInv /\ [VerificationNext]_verificationVars => (IInv /\ AgreementInv)'
  BY InvariantStep, AgreementStep
<1>3. IInv /\ AgreementInv => (SoundConfiguration => AnalyzersAgree)
  BY SameVerdictAndTree
<1> QED
  BY <1>1, <1>2, <1>3, PTL DEF VerificationSpec
=============================================================================
