----------------------------- MODULE Induction -----------------------------
(***************************************************************************)
(* Induction over numbers, as facts about sets of them: the set of all     *)
(* numbers with a property, or of those without it, is what a proof puts   *)
(* in.  With them what a recursive function computes can be proved.  Then  *)
(* what the operations on sequences do that the loops of the analyzers     *)
(* use, that an ordered set is listed completely, and what the runs of a   *)
(* hybrid automaton reach with each time step and each jump.               *)
(***************************************************************************)
EXTENDS Ordering, ReachableStates, FiniteSetTheorems, WellFoundedInduction, TLAPS

(* The least-number principle.                                            *)
LEMMA LeastNumber ==
  ASSUME NEW T \in SUBSET Nat, T # {}
  PROVE  \E n \in T : \A m \in T : n <= m
<1> DEFINE R == OpToRel(<, Nat)
<1>1. IsWellFoundedOn(R, Nat)
  BY NatLessThanWellFounded
<1>2. \A m, n \in Nat : m < n => <<m, n>> \in R
  BY DEF OpToRel
<1> HIDE DEF R
<1>3. PICK n \in T : \A m \in T : ~(<<m, n>> \in R)
  BY <1>1, WFMin
<1>4. ASSUME NEW m \in T PROVE n <= m
  <2>1. ~(<<m, n>> \in R) BY <1>3
  <2>2. m \in Nat /\ n \in Nat OBVIOUS
  <2>3. ~(m < n) BY <1>2, <2>1, <2>2
  <2> QED BY <2>2, <2>3
<1> QED BY <1>4

(* A set with 0 and the successor of each of its numbers has them all.    *)
LEMMA InductionFromZero ==
  ASSUME NEW S, 0 \in S, \A n \in Nat : n \in S => n + 1 \in S
  PROVE  Nat \subseteq S
<1> SUFFICES ASSUME Nat \ S # {} PROVE FALSE
  OBVIOUS
<1>1. PICK n \in Nat \ S : \A m \in Nat \ S : n <= m
  BY LeastNumber
<1>2. n # 0 /\ n - 1 \in Nat
  OBVIOUS
<1>3. n - 1 \in S
  BY <1>1, <1>2
<1> QED
  BY <1>2, <1>3

(* The same for the numbers from m to n.                                  *)
LEMMA InductionInInterval ==
  ASSUME NEW m \in Int, NEW n \in Int, NEW S,
         m <= n => m \in S,
         \A k \in m..n - 1 : k \in S => k + 1 \in S
  PROVE  m..n \subseteq S
<1> SUFFICES ASSUME NEW x \in m..n, x \notin S PROVE FALSE
  OBVIOUS
<1> DEFINE T == {k \in Nat : m + k \in m..n /\ m + k \notin S}
<1>1. x - m \in T
  OBVIOUS
<1>2. PICK k \in T : \A j \in T : k <= j
  BY <1>1, LeastNumber
<1>3. k # 0 /\ k - 1 \in Nat /\ m + (k - 1) \in m..n - 1
  BY <1>2
<1>4. k - 1 \notin T
  BY <1>2, <1>3
<1>5. m + (k - 1) \in S
  BY <1>3, <1>4
<1>6. (m + (k - 1)) + 1 = m + k
  BY <1>2
<1> QED
  BY <1>2, <1>3, <1>5, <1>6

(* Sets of integers with a bound have a greatest and a least member.      *)
LEMMA GreatestExists ==
  ASSUME NEW S \in SUBSET Int, S # {}, NEW b \in Int, \A x \in S : x <= b
  PROVE  \E x \in S : \A y \in S : y <= x
<1> DEFINE T == {n \in Nat : b - n \in S}
<1>1. PICK x \in S : TRUE
  OBVIOUS
<1>2. b - x \in T
  BY <1>1
<1>3. PICK n \in T : \A m \in T : n <= m
  BY <1>2, LeastNumber
<1>4. ASSUME NEW y \in S PROVE y <= b - n
  <2>1. b - y \in T
    OBVIOUS
  <2>2. n <= b - y
    BY <1>3, <2>1
  <2>3. n \in Int /\ y \in Int /\ b \in Int
    OBVIOUS
  <2> HIDE DEF T
  <2> QED
    BY <2>2, <2>3
<1> QED
  BY <1>3, <1>4

LEMMA LeastExists ==
  ASSUME NEW S \in SUBSET Int, S # {}, NEW b \in Int, \A x \in S : b <= x
  PROVE  \E x \in S : \A y \in S : x <= y
<1> DEFINE T == {n \in Nat : b + n \in S}
<1>1. PICK x \in S : TRUE
  OBVIOUS
<1>2. x - b \in T
  BY <1>1
<1>3. PICK n \in T : \A m \in T : n <= m
  BY <1>2, LeastNumber
<1>4. ASSUME NEW y \in S PROVE b + n <= y
  <2>1. y - b \in T
    OBVIOUS
  <2>2. n <= y - b
    BY <1>3, <2>1
  <2>3. n \in Int /\ y \in Int /\ b \in Int
    OBVIOUS
  <2> HIDE DEF T
  <2> QED
    BY <2>2, <2>3
<1> QED
  BY <1>3, <1>4

--------------------------------------------------------------------------
(* Sequences.                                                             *)
LEMMA Appended ==
  ASSUME NEW S, NEW s \in Seq(S), NEW e \in S
  PROVE  /\ Append(s, e) \in Seq(S)
         /\ Len(Append(s, e)) = Len(s) + 1
         /\ DOMAIN Append(s, e) = DOMAIN s \cup {Len(s) + 1}
         /\ \A i \in DOMAIN s : Append(s, e)[i] = s[i]
         /\ Append(s, e)[Len(s) + 1] = e
OBVIOUS

LEMMA Dequeued ==
  ASSUME NEW S, NEW s \in Seq(S), s # << >>
  PROVE  /\ Head(s) \in S /\ Head(s) = s[1] /\ 1 \in DOMAIN s
         /\ Tail(s) \in Seq(S)
         /\ \A i \in DOMAIN Tail(s) : i + 1 \in DOMAIN s /\ Tail(s)[i] = s[i + 1]
         /\ \A i \in DOMAIN s : i # 1 => i - 1 \in DOMAIN Tail(s) /\ Tail(s)[i - 1] = s[i]
         /\ \A i \in DOMAIN s : i # 1 => \E j \in DOMAIN Tail(s) : Tail(s)[j] = s[i]
         /\ \A j \in DOMAIN Tail(s) : \E i \in DOMAIN s : Tail(s)[j] = s[i]
<1>1. /\ Head(s) \in S /\ Head(s) = s[1] /\ 1 \in DOMAIN s
      /\ Tail(s) \in Seq(S)
  OBVIOUS
<1>2. \A i \in DOMAIN s : i # 1 => i - 1 \in DOMAIN Tail(s) /\ Tail(s)[i - 1] = s[i]
  OBVIOUS
<1>3. \A j \in DOMAIN Tail(s) : j + 1 \in DOMAIN s /\ Tail(s)[j] = s[j + 1]
  OBVIOUS
<1> QED
  BY <1>1, <1>2, <1>3

LEMMA Concatenated ==
  ASSUME NEW S, NEW s \in Seq(S), NEW t \in Seq(S)
  PROVE  /\ s \o t \in Seq(S)
         /\ Len(s \o t) = Len(s) + Len(t)
         /\ \A i \in DOMAIN s : i \in DOMAIN (s \o t) /\ (s \o t)[i] = s[i]
         /\ \A i \in DOMAIN t : Len(s) + i \in DOMAIN (s \o t) /\ (s \o t)[Len(s) + i] = t[i]
         /\ \A i \in DOMAIN (s \o t) : i \in DOMAIN s \/ \E k \in DOMAIN t : i = Len(s) + k
<1>1. /\ s \o t \in Seq(S)
      /\ Len(s \o t) = Len(s) + Len(t)
      /\ \A i \in DOMAIN s : i \in DOMAIN (s \o t) /\ (s \o t)[i] = s[i]
      /\ \A i \in DOMAIN t : Len(s) + i \in DOMAIN (s \o t) /\ (s \o t)[Len(s) + i] = t[i]
  OBVIOUS
<1>2. ASSUME NEW i \in DOMAIN (s \o t), i \notin DOMAIN s
      PROVE  \E k \in DOMAIN t : i = Len(s) + k
  <2>1. i - Len(s) \in DOMAIN t /\ i = Len(s) + (i - Len(s))
    BY <1>1, <1>2
  <2> QED
    BY <2>1
<1> QED
  BY <1>1, <1>2

LEMMA SeqLarger ==
  ASSUME NEW S, NEW T, S \subseteq T, NEW s \in Seq(S)
  PROVE  s \in Seq(T)
OBVIOUS

(* A set in an order is a sequence of its members with none left out.     *)
IsOrder(S, before) ==
  /\ \A x \in S : <<x, x>> \notin before
  /\ \A x, y, z \in S : <<x, y>> \in before /\ <<y, z>> \in before => <<x, z>> \in before
  /\ \A x, y \in S : x # y => <<x, y>> \in before \/ <<y, x>> \in before

LEMMA InOrderLists ==
  ASSUME NEW S, IsFiniteSet(S), NEW before, IsOrder(S, before)
  PROVE  /\ InOrder(S, before) \in Seq(S)
         /\ \A x \in S : \E k \in DOMAIN InOrder(S, before) : InOrder(S, before)[k] = x
         /\ \A i, j \in DOMAIN InOrder(S, before) :
              i < j => <<InOrder(S, before)[i], InOrder(S, before)[j]>> \in before
<1> DEFINE Pred(x) == {y \in S : <<y, x>> \in before}
           rank(x) == Cardinality(Pred(x))
           n == Cardinality(S)
           f == [x \in S |-> rank(x)]
           s == [k \in 1..n |-> CHOOSE x \in S : rank(x) = k - 1]
<1>1. n \in Nat
  BY FS_CardinalityType
<1>2. InOrder(S, before) = s
  BY DEF InOrder
<1>p. \A x, y : y \in Pred(x) <=> y \in S /\ <<y, x>> \in before
  OBVIOUS
<1> HIDE DEF Pred, n
<1>3. \A x \in S : rank(x) \in 0..n - 1
  <2> TAKE x \in S
  <2>1. Pred(x) \in SUBSET S /\ Pred(x) # S
    <3>1. x \notin Pred(x)
      BY <1>p DEF IsOrder
    <3>2. Pred(x) \subseteq S
      BY <1>p
    <3> QED
      BY <3>1, <3>2
  <2>2. IsFiniteSet(Pred(x)) /\ Cardinality(Pred(x)) <= Cardinality(S) /\ Cardinality(S) # Cardinality(Pred(x))
    BY <2>1, FS_Subset
  <2>3. Cardinality(Pred(x)) \in Nat
    BY <2>2, FS_CardinalityType
  <2> QED
    BY <1>1, <2>2, <2>3 DEF n
<1>4. \A x, y \in S : <<x, y>> \in before => rank(x) < rank(y)
  <2> SUFFICES ASSUME NEW x \in S, NEW y \in S, <<x, y>> \in before
               PROVE  rank(x) < rank(y)
    OBVIOUS
  <2>1. Pred(x) \in SUBSET Pred(y) /\ x \in Pred(y) /\ x \notin Pred(x)
    BY <1>p DEF IsOrder
  <2>2. Pred(y) \in SUBSET S
    BY <1>p
  <2>3. IsFiniteSet(Pred(y))
    BY <2>2, FS_Subset
  <2>4. /\ Cardinality(Pred(x)) <= Cardinality(Pred(y))
        /\ Cardinality(Pred(y)) # Cardinality(Pred(x))
    BY <2>1, <2>3, FS_Subset
  <2>5. rank(x) \in 0..n - 1 /\ rank(y) \in 0..n - 1
    BY <1>3
  <2> QED
    BY <1>1, <2>4, <2>5
<1> HIDE DEF rank
<1>5. \A x, y \in S : rank(x) = rank(y) => x = y
  <2>1. \A x, y \in S : <<x, y>> \in before => rank(x) # rank(y)
    <3> TAKE x \in S, y \in S
    <3>1. rank(x) \in 0..n - 1 /\ rank(y) \in 0..n - 1
      BY <1>3
    <3> QED
      BY <1>1, <1>4, <3>1
  <2> QED
    BY <2>1 DEF IsOrder
<1>6. f \in Injection(S, 0..n - 1)
  BY <1>3, <1>5 DEF Injection, IsInjective
<1>7. IsFiniteSet(0..n - 1) /\ Cardinality(0..n - 1) = n
  BY <1>1, FS_Interval
<1>8. f \in Surjection(S, 0..n - 1)
  BY <1>6, <1>7, FS_Injection DEF n
<1>9. \A k \in 0..n - 1 : \E x \in S : rank(x) = k
  BY <1>8 DEF Surjection
<1>10. \A k \in 1..n : s[k] \in S /\ rank(s[k]) = k - 1
  <2> TAKE k \in 1..n
  <2>1. k - 1 \in 0..n - 1
    BY <1>1
  <2>2. \E x \in S : rank(x) = k - 1
    BY <1>9, <2>1
  <2> QED
    BY <2>2
<1>11. DOMAIN s = 1..n
  OBVIOUS
<1>12. s \in Seq(S)
  BY <1>1, <1>10
<1>13. ASSUME NEW x \in S PROVE \E k \in DOMAIN s : s[k] = x
  <2>1. rank(x) + 1 \in 1..n /\ (rank(x) + 1) - 1 = rank(x)
    BY <1>1, <1>3
  <2>2. rank(s[rank(x) + 1]) = rank(x) /\ s[rank(x) + 1] \in S
    BY <1>10, <2>1
  <2>3. s[rank(x) + 1] = x
    BY <1>5, <2>2
  <2> QED
    BY <1>11, <2>1, <2>3
<1>14. ASSUME NEW i \in DOMAIN s, NEW j \in DOMAIN s, i < j
       PROVE  <<s[i], s[j]>> \in before
  <2>1. s[i] \in S /\ rank(s[i]) = i - 1 /\ s[j] \in S /\ rank(s[j]) = j - 1
    BY <1>10, <1>11
  <2>2. i \in Int /\ j \in Int
    BY <1>1, <1>11
  <2>3. s[i] # s[j] /\ ~(<<s[j], s[i]>> \in before)
    BY <1>4, <1>14, <2>1, <2>2
  <2> QED
    BY <2>1, <2>3 DEF IsOrder
<1> QED
  BY <1>2, <1>12, <1>13, <1>14

LEMMA AscendingLists ==
  ASSUME NEW S \in SUBSET Nat, IsFiniteSet(S)
  PROVE  /\ Ascending(S) \in Seq(S)
         /\ \A x \in S : \E k \in DOMAIN Ascending(S) : Ascending(S)[k] = x
         /\ \A i, j \in DOMAIN Ascending(S) : i < j => Ascending(S)[i] < Ascending(S)[j]
<1> DEFINE before == {p \in Nat \X Nat : p[1] < p[2]}
<1>1. \A x, y \in Nat : <<x, y>> \in before <=> x < y
  OBVIOUS
<1> HIDE DEF before
<1>2. IsOrder(S, before)
  <2>1. \A x \in S : x \in Nat
    OBVIOUS
  <2> QED
    BY <1>1, <2>1 DEF IsOrder
<1>3. Ascending(S) = InOrder(S, before)
  BY DEF Ascending, before
<1>4. /\ Ascending(S) \in Seq(S)
      /\ \A x \in S : \E k \in DOMAIN Ascending(S) : Ascending(S)[k] = x
      /\ \A i, j \in DOMAIN Ascending(S) : i < j => <<Ascending(S)[i], Ascending(S)[j]>> \in before
  BY <1>2, <1>3, InOrderLists
<1>5. \A i \in DOMAIN Ascending(S) : Ascending(S)[i] \in Nat
  <2> DEFINE s == Ascending(S)
  <2>1. s \in Seq(S)
    BY <1>4
  <2> HIDE DEF s
  <2>2. \A i \in DOMAIN s : s[i] \in S
    BY <2>1
  <2> QED
    BY <2>2 DEF s
<1> QED
  BY <1>1, <1>4, <1>5

LEMMA AscendingPairsLists ==
  ASSUME NEW S \in SUBSET (Nat \X Nat), IsFiniteSet(S)
  PROVE  /\ AscendingPairs(S) \in Seq(S)
         /\ \A x \in S : \E k \in DOMAIN AscendingPairs(S) : AscendingPairs(S)[k] = x
<1> DEFINE before == {p \in (Nat \X Nat) \X (Nat \X Nat) :
                         \/ p[1][1] < p[2][1]
                         \/ p[1][1] = p[2][1] /\ p[1][2] < p[2][2]}
<1>1. \A x, y \in Nat \X Nat :
        <<x, y>> \in before <=> (x[1] < y[1] \/ (x[1] = y[1] /\ x[2] < y[2]))
  OBVIOUS
<1> HIDE DEF before
<1>2. \A x \in S : x = <<x[1], x[2]>> /\ x[1] \in Nat /\ x[2] \in Nat /\ x \in Nat \X Nat
  OBVIOUS
<1>3. IsOrder(S, before)
  BY <1>1, <1>2 DEF IsOrder
<1>4. AscendingPairs(S) = InOrder(S, before)
  BY DEF AscendingPairs, before
<1> QED
  BY <1>3, <1>4, InOrderLists

--------------------------------------------------------------------------
(* The recursions of ReachableStates, spelled out.  What is observed      *)
(* after each number of time steps.                                       *)
AreObserved(A, l, entered, steps, at) ==
  /\ Observed(A, l, entered, steps) = UNION {at[k] : k \in 0..steps}
  /\ at[0] = A.invariant[l] \cap UNION {A.during[l][p] : p \in entered}
  /\ \A k \in 1..steps : at[k] = A.invariant[l] \cap {A.flow[l][p] : p \in at[k - 1]}

LEMMA ObservedIsDefined ==
  ASSUME NEW A, NEW l, NEW entered, NEW steps \in Nat
  PROVE  \E at : AreObserved(A, l, entered, steps, at)
<1> DEFINE Value(f, k) ==
             A.invariant[l] \cap
               IF k = 0 THEN UNION {A.during[l][p] : p \in entered}
               ELSE {A.flow[l][p] : p \in f[k - 1]}
           IsAt(f, m) == f = [k \in 0..m |-> Value(f, k)]
           S == {m \in Nat : \E f : IsAt(f, m)}
<1>0. \A f, g, k : k = 0 \/ f[k - 1] = g[k - 1] => Value(f, k) = Value(g, k)
  OBVIOUS
<1> HIDE DEF Value
<1>1. 0 \in S
  <2> DEFINE f == [k \in 0..0 |-> Value(<< >>, k)]
  <2>1. \A k \in 0..0 : Value(<< >>, k) = Value(f, k)
    BY <1>0
  <2>2. f = [k \in 0..0 |-> Value(f, k)]
    BY <2>1
  <2> HIDE DEF f
  <2> QED
    BY <2>2
<1>2. ASSUME NEW m \in Nat, m \in S PROVE m + 1 \in S
  <2>1. PICK f : f = [k \in 0..m |-> Value(f, k)]
    BY <1>2
  <2> DEFINE g == [k \in 0..m + 1 |-> Value(f, k)]
  <2>2. \A k \in 0..m : g[k] = f[k]
    BY <2>1
  <2>3. ASSUME NEW k \in 0..m + 1 PROVE Value(f, k) = Value(g, k)
    <3>1. k = 0 \/ k - 1 \in 0..m
      OBVIOUS
    <3> HIDE DEF g
    <3> QED
      BY <1>0, <2>2, <3>1
  <2>4. g = [k \in 0..m + 1 |-> Value(g, k)]
    BY <2>3
  <2> HIDE DEF g
  <2> QED
    BY <2>4
<1> HIDE DEF S
<1>3. steps \in S
  BY <1>1, <1>2, InductionFromZero
<1>4. \E f : IsAt(f, steps)
  BY <1>3 DEF S
<1> DEFINE at == CHOOSE f : IsAt(f, steps)
<1>5. IsAt(at, steps)
  <2> HIDE DEF IsAt
  <2> QED
    BY <1>4
<1>6. Observed(A, l, entered, steps) = UNION {at[k] : k \in 0..steps}
  BY DEF Observed, Value
<1> HIDE DEF at
<1>7. \A k \in 0..steps : at[k] = Value(at, k)
  BY <1>5
<1>8. at[0] = A.invariant[l] \cap UNION {A.during[l][p] : p \in entered}
  BY <1>7 DEF Value
<1>9. \A k \in 1..steps : at[k] = A.invariant[l] \cap {A.flow[l][p] : p \in at[k - 1]}
  <2> TAKE k \in 1..steps
  <2>1. k \in 0..steps /\ k # 0
    OBVIOUS
  <2> QED
    BY <1>7, <2>1 DEF Value
<1> QED
  BY <1>6, <1>8, <1>9 DEF AreObserved

(* The valuations entered with the next jump.                             *)
EnteredNext(A, steps, before) ==
  [l \in DOMAIN A.invariant |-> A.invariant[l] \cap
     UNION {{A.transition[t].reset[p] : p \in A.transition[t].guard \cap
               Observed(A, A.transition[t].source, before[A.transition[t].source], steps)}
            : t \in {t \in DOMAIN A.transition : A.transition[t].target = l}}]

EnteredFirst(A) ==
  [l \in DOMAIN A.invariant |-> A.invariant[l] \cap
     UNION {A.initial[i].set : i \in {i \in DOMAIN A.initial : A.initial[i].loc = l}}]

LEMMA EnteredIsDefined ==
  ASSUME NEW A, NEW steps, NEW jumps \in Nat
  PROVE  /\ Entered(A, steps, jumps)[0] = EnteredFirst(A)
         /\ \A j \in 1..jumps : Entered(A, steps, jumps)[j] =
              EnteredNext(A, steps, Entered(A, steps, jumps)[j - 1])
<1> DEFINE initial(l) ==
             UNION {A.initial[i].set : i \in {i \in DOMAIN A.initial : A.initial[i].loc = l}}
           into(l) == {t \in DOMAIN A.transition : A.transition[t].target = l}
           Value(f, j) ==
             [l \in DOMAIN A.invariant |-> A.invariant[l] \cap
                IF j = 0 THEN initial(l)
                ELSE UNION {{A.transition[t].reset[p] : p \in A.transition[t].guard \cap
                               Observed(A, A.transition[t].source,
                                        f[j - 1][A.transition[t].source], steps)}
                            : t \in into(l)}]
           IsEntered(f, m) == f = [k \in 0..m |-> Value(f, k)]
           S == {m \in Nat : \E f : IsEntered(f, m)}
<1>a. \A f : Value(f, 0) = EnteredFirst(A)
  BY DEF EnteredFirst
<1>b. \A f, k : k # 0 => Value(f, k) = EnteredNext(A, steps, f[k - 1])
  BY DEF EnteredNext
<1>0. \A f, g, k : k = 0 \/ f[k - 1] = g[k - 1] => Value(f, k) = Value(g, k)
  <2> HIDE DEF Value
  <2> QED
    BY <1>a, <1>b
<1>5. Entered(A, steps, jumps) = CHOOSE f : IsEntered(f, jumps)
  BY DEF Entered
<1> HIDE DEF Value
<1>1. 0 \in S
  <2> DEFINE f == [k \in 0..0 |-> Value(<< >>, k)]
  <2>1. \A k \in 0..0 : Value(<< >>, k) = Value(f, k)
    BY <1>0
  <2>2. f = [k \in 0..0 |-> Value(f, k)]
    BY <2>1
  <2> HIDE DEF f
  <2> QED
    BY <2>2
<1>2. ASSUME NEW m \in Nat, m \in S PROVE m + 1 \in S
  <2>1. PICK f : f = [k \in 0..m |-> Value(f, k)]
    BY <1>2
  <2> DEFINE g == [k \in 0..m + 1 |-> Value(f, k)]
  <2>2. \A k \in 0..m : g[k] = f[k]
    BY <2>1
  <2>3. ASSUME NEW k \in 0..m + 1 PROVE Value(f, k) = Value(g, k)
    <3>1. k = 0 \/ k - 1 \in 0..m
      OBVIOUS
    <3> HIDE DEF g
    <3> QED
      BY <1>0, <2>2, <3>1
  <2>4. g = [k \in 0..m + 1 |-> Value(g, k)]
    BY <2>3
  <2> HIDE DEF g
  <2> QED
    BY <2>4
<1> HIDE DEF S
<1>3. jumps \in S
  BY <1>1, <1>2, InductionFromZero
<1>4. \E f : IsEntered(f, jumps)
  BY <1>3 DEF S
<1>6. IsEntered(Entered(A, steps, jumps), jumps)
  <2> HIDE DEF IsEntered
  <2> QED
    BY <1>4, <1>5
<1> DEFINE e == Entered(A, steps, jumps)
<1>7. \A k \in 0..jumps : e[k] = Value(e, k)
  <2> HIDE DEF e
  <2> QED
    BY <1>6 DEF e
<1> HIDE DEF e
<1> QED
  BY <1>7, <1>a, <1>b DEF e

(* What is entered with a jump does not depend on how many more follow.   *)
LEMMA EnteredIsUnique ==
  ASSUME NEW A, NEW steps, NEW m \in Nat, NEW n \in Nat, NEW j \in Nat, j <= m, j <= n
  PROVE  Entered(A, steps, m)[j] = Entered(A, steps, n)[j]
<1> DEFINE S == {k \in 0..j : Entered(A, steps, m)[k] = Entered(A, steps, n)[k]}
<1>1. 0 \in S
  BY EnteredIsDefined
<1>2. ASSUME NEW k \in 0..j - 1, k \in S
      PROVE  k + 1 \in S
  <2>1. k + 1 \in 1..m /\ k + 1 \in 1..n /\ k + 1 \in 0..j /\ (k + 1) - 1 = k
    OBVIOUS
  <2>2. Entered(A, steps, m)[k] = Entered(A, steps, n)[k]
    BY <1>2
  <2>3. /\ Entered(A, steps, m)[k + 1] = EnteredNext(A, steps, Entered(A, steps, m)[(k + 1) - 1])
        /\ Entered(A, steps, n)[k + 1] = EnteredNext(A, steps, Entered(A, steps, n)[(k + 1) - 1])
    BY <2>1, EnteredIsDefined
  <2> QED
    BY <2>1, <2>2, <2>3
<1> HIDE DEF S
<1>3. 0..j \subseteq S
  BY <1>1, <1>2, InductionInInterval
<1> QED
  BY <1>3 DEF S
=============================================================================
