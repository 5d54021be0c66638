----------------------- MODULE DecompositionalProofs -----------------------
(***************************************************************************)
(* The type invariant of the decompositional analyzer, its soundness given *)
(* what its code takes for granted, and that the first segments it reads   *)
(* exist.                                                                  *)
(***************************************************************************)
EXTENDS DecompositionalInvariant, Induction

--------------------------------------------------------------------------
(* Hulls, clock times and the sets cut to them.                           *)
LEMMA ExtremesExist ==
  ASSUME NEW low \in Int, NEW high \in Int, NEW T \in SUBSET (low..high), T # {}
  PROVE  /\ Min(T) \in T /\ \A y \in T : Min(T) <= y
         /\ Max(T) \in T /\ \A y \in T : y <= Max(T)
<1>1. T \in SUBSET Int /\ \A y \in T : low <= y /\ y <= high
  OBVIOUS
<1>2. \E x \in T : \A y \in T : y <= x
  BY <1>1, GreatestExists
<1>3. \E x \in T : \A y \in T : x <= y
  BY <1>1, LeastExists
<1>4. \E x \in T : \A y \in T : x >= y
  BY <1>1, <1>2
<1>5. Max(T) \in T /\ \A y \in T : Max(T) >= y
  BY <1>4 DEF Max
<1>6. Min(T) \in T /\ \A y \in T : Min(T) <= y
  BY <1>3 DEF Min
<1> QED
  BY <1>1, <1>5, <1>6

LEMMA HullContains ==
  ASSUME NEW low \in Int, NEW high \in Int, NEW T \in SUBSET (low..high)
  PROVE  T \subseteq Hull(T) /\ Hull(T) \subseteq low..high
<1>1. CASE T = {}
  BY <1>1 DEF Hull
<1>2. CASE T # {}
  <2>1. /\ Min(T) \in T /\ \A y \in T : Min(T) <= y
        /\ Max(T) \in T /\ \A y \in T : y <= Max(T)
    BY <1>2, ExtremesExist
  <2>2. Hull(T) = Min(T)..Max(T)
    BY <1>2 DEF Hull
  <2>3. Min(T) \in low..high /\ Max(T) \in low..high
    BY <2>1
  <2> QED
    BY <2>1, <2>2, <2>3
<1> QED
  BY <1>1, <1>2

(* A set of valuations whose clocks are no later than a bound.            *)
AreTimed(S, count, latest) == \A v \in S : v.clock \in [0..count - 1 -> 0..latest]

LEMMA ClockValues ==
  ASSUME NEW p, p.clockCount \in Nat, NEW latest \in Nat, NEW S, AreTimed(S, p.clockCount, latest)
  PROVE  /\ GetClockValues(S, p) \subseteq (0..p.clockCount - 1) \X (0..latest)
         /\ \A v \in S : \A i \in 0..p.clockCount - 1 : <<i, v.clock[i]>> \in GetClockValues(S, p)
<1> DEFINE at(i) == {v.clock[i] : v \in S}
<1>1. ASSUME NEW i \in 0..p.clockCount - 1
      PROVE  at(i) \subseteq Hull(at(i)) /\ Hull(at(i)) \subseteq 0..latest
  <2>1. at(i) \in SUBSET (0..latest)
    BY DEF AreTimed
  <2>2. 0 \in Int /\ latest \in Int
    OBVIOUS
  <2> HIDE DEF at
  <2> QED
    BY <2>1, <2>2, HullContains
<1>2. GetClockValues(S, p) = UNION {{<<i, t>> : t \in Hull(at(i))} : i \in 0..p.clockCount - 1}
  BY DEF GetClockValues
<1>3. \A i \in 0..p.clockCount - 1 : \A v \in S : v.clock[i] \in at(i)
  OBVIOUS
<1> HIDE DEF at
<1>4. GetClockValues(S, p) \subseteq (0..p.clockCount - 1) \X (0..latest)
  BY <1>1, <1>2
<1>5. ASSUME NEW v \in S, NEW i \in 0..p.clockCount - 1
      PROVE  <<i, v.clock[i]>> \in GetClockValues(S, p)
  <2>1. v.clock[i] \in Hull(at(i))
    BY <1>1, <1>3
  <2> QED
    BY <1>2, <2>1
<1> QED
  BY <1>4, <1>5

LEMMA UniteTimeContains ==
  ASSUME NEW p, p.clockCount \in Nat, NEW latest \in Nat,
         NEW time \in SUBSET ((0..p.clockCount - 1) \X (0..latest)),
         NEW other \in SUBSET ((0..p.clockCount - 1) \X (0..latest))
  PROVE  time \subseteq UniteTime(time, other, p)
<1> DEFINE at(i) == {q[2] : q \in TimesOf(i, time \cup other)}
<1>1. ASSUME NEW i \in 0..p.clockCount - 1
      PROVE  at(i) \subseteq Hull(at(i))
  <2>1. at(i) \in SUBSET (0..latest)
    BY DEF TimesOf
  <2>2. 0 \in Int /\ latest \in Int
    OBVIOUS
  <2> HIDE DEF at
  <2> QED
    BY <2>1, <2>2, HullContains
<1>2. UniteTime(time, other, p) = UNION {{<<i, t>> : t \in Hull(at(i))} : i \in 0..p.clockCount - 1}
  BY DEF UniteTime
<1>3. ASSUME NEW q \in time PROVE q = <<q[1], q[2]>> /\ q[1] \in 0..p.clockCount - 1 /\ q[2] \in at(q[1])
  BY DEF TimesOf
<1> HIDE DEF at
<1>4. ASSUME NEW q \in time PROVE q \in UniteTime(time, other, p)
  <2>1. q = <<q[1], q[2]>> /\ q[1] \in 0..p.clockCount - 1 /\ q[2] \in Hull(at(q[1]))
    BY <1>1, <1>3
  <2> QED
    BY <1>2, <2>1
<1> QED
  BY <1>4

(* Cutting to a time keeps the valuations whose clocks are in it.         *)
IsAt(clock, time) == \A i \in DOMAIN clock : <<i, clock[i]>> \in time

LEMMA CutKeeps ==
  ASSUME NEW S, NEW time, NEW v \in S, IsAt(v.clock, time)
  PROVE  v \in Cut(S, time)
BY DEF Cut, IntersectWithClock, IsAt

LEMMA CutIsPart ==
  ASSUME NEW S, NEW time
  PROVE  Cut(S, time) \subseteq S
BY DEF Cut, IntersectWithClock

(* A cut set is no later than the time it is cut to.                      *)
LEMMA CutIsTimed ==
  ASSUME NEW A, NEW s, NEW count \in Nat, NEW latest \in Nat, NEW bound \in Nat,
         NEW S \in SUBSET Valuation(A, s, count, bound),
         NEW time \in SUBSET (Int \X (0..latest))
  PROVE  Cut(S, time) \subseteq Valuation(A, s, count, latest)
<1> SUFFICES ASSUME NEW v \in Cut(S, time) PROVE v \in Valuation(A, s, count, latest)
  OBVIOUS
<1> DEFINE n == Clocks(A, s, count)
<1>1. /\ v \in [x : Value, x0 : Value \cup {Unset}, clock : [0..n - 1 -> 0..bound]]
      /\ \A i \in DOMAIN v.clock : <<i, v.clock[i]>> \in time \/ v.clock[i] = 0
  BY DEF Cut, IntersectWithClock, Valuation
<1> HIDE DEF n
<1>2. \A i \in 0..n - 1 : v.clock[i] \in 0..latest
  <2>1. \A i, t : <<i, t>> \in time => t \in 0..latest
    OBVIOUS
  <2>2. v.clock \in [0..n - 1 -> 0..bound] /\ 0 \in 0..latest
    BY <1>1
  <2> QED
    BY <1>1, <2>1, <2>2
<1>3. v.clock \in [0..n - 1 -> 0..latest]
  BY <1>1, <1>2
<1>4. v \in [x : Value, x0 : Value \cup {Unset}, clock : [0..n - 1 -> 0..latest]]
  BY <1>1, <1>3
<1> QED
  BY <1>4 DEF Valuation, n

LEMMA SatisfyingIsPart ==
  ASSUME NEW S, NEW values
  PROVE  Satisfying(S, values) \subseteq S /\ \A v \in S : v.x \in values => v \in Satisfying(S, values)
BY DEF Satisfying

--------------------------------------------------------------------------
(* What the recursions of the flowpipes compute.                          *)
AreAfter(A, s, l, start, horizon, after) ==
  /\ after[0] = start
  /\ \A k \in 1..horizon : after[k] = Tick(A, s, l, after[k - 1])

IsFlowpipeOf(A, s, l, S, horizon, after) ==
  /\ AreAfter(A, s, l, Satisfying(S, A.invariant[l][s]), horizon, after)
  /\ SingularFlowpipe(A, s, l, S, horizon) =
       <<Satisfying(UNION {after[k] : k \in 0..horizon}, A.invariant[l][s])>>

LEMMA SingularFlowpipeIs ==
  ASSUME NEW A, NEW s, NEW l, NEW S0, NEW horizon \in Nat,
         Satisfying(S0, A.invariant[l][s]) # {}
  PROVE  \E after : IsFlowpipeOf(A, s, l, S0, horizon, after)
<1> DEFINE start == Satisfying(S0, A.invariant[l][s])
           Val(f, k) == IF k = 0 THEN start ELSE Tick(A, s, l, f[k - 1])
           IsAfter(f, m) == f = [k \in 0..m |-> Val(f, k)]
           S == {m \in Nat : \E f : IsAfter(f, m)}
           after == CHOOSE f : IsAfter(f, horizon)
<1>4. SingularFlowpipe(A, s, l, S0, horizon) =
        <<Satisfying(UNION {after[k] : k \in 0..horizon}, A.invariant[l][s])>>
  BY DEF SingularFlowpipe
<1>5. \A f : Val(f, 0) = start
  OBVIOUS
<1>6. \A f, k : k # 0 => Val(f, k) = Tick(A, s, l, f[k - 1])
  OBVIOUS
<1>0. \A f, g, k : k = 0 \/ f[k - 1] = g[k - 1] => Val(f, k) = Val(g, k)
  OBVIOUS
<1> HIDE DEF Val
<1>1. 0 \in S
  <2> DEFINE f == [k \in 0..0 |-> Val(<< >>, k)]
  <2>1. \A k \in 0..0 : Val(<< >>, k) = Val(f, k)
    BY <1>0
  <2>2. f = [k \in 0..0 |-> Val(f, k)]
    BY <2>1
  <2> HIDE DEF f
  <2> QED
    BY <2>2
<1>2. ASSUME NEW m \in Nat, m \in S PROVE m + 1 \in S
  <2>1. PICK f : f = [k \in 0..m |-> Val(f, k)]
    BY <1>2
  <2> DEFINE g == [k \in 0..m + 1 |-> Val(f, k)]
  <2>2. \A k \in 0..m : g[k] = f[k]
    BY <2>1
  <2>3. ASSUME NEW k \in 0..m + 1 PROVE Val(f, k) = Val(g, k)
    <3>1. k = 0 \/ k - 1 \in 0..m
      OBVIOUS
    <3> HIDE DEF g
    <3> QED
      BY <1>0, <2>2, <3>1
  <2>4. g = [k \in 0..m + 1 |-> Val(g, k)]
    BY <2>3
  <2> HIDE DEF g
  <2> QED
    BY <2>4
<1> HIDE DEF S
<1>3. horizon \in S
  BY <1>1, <1>2, InductionFromZero
<1>7. \E f : IsAfter(f, horizon)
  BY <1>3 DEF S
<1>8. IsAfter(after, horizon)
  <2> HIDE DEF IsAfter
  <2> QED
    BY <1>7
<1> HIDE DEF after
<1>9. \A k \in 0..horizon : after[k] = Val(after, k)
  BY <1>8
<1>10. AreAfter(A, s, l, start, horizon, after)
  BY <1>5, <1>6, <1>9 DEF AreAfter
<1> QED
  BY <1>4, <1>10 DEF IsFlowpipeOf

AreSegments(A, s, l, S, count, segment) ==
  /\ segment[1] = Satisfying(S \cup Tick(A, s, l, S), A.invariant[l][s])
  /\ \A k \in 2..count : segment[k] = Satisfying(Tick(A, s, l, segment[k - 1]), A.invariant[l][s])

(* As many as there are before the first empty one, and at least one.     *)
AreLeading(fp, segment, count) ==
  /\ Len(fp) \in 1..count /\ DOMAIN fp = 1..Len(fp) /\ fp = [k \in 1..Len(fp) |-> segment[k]]
  /\ \A n \in 1..count : (\A k \in 2..n : segment[k] # {}) => n <= Len(fp)

LEMMA SegmentedFlowpipeIs ==
  ASSUME NEW A, NEW s, NEW l, NEW S0, NEW count \in Nat, count # 0
  PROVE  \E segment :
           /\ AreSegments(A, s, l, S0, count, segment)
           /\ AreLeading(SegmentedFlowpipe(A, s, l, S0, count), segment, count)
<1> DEFINE first == Satisfying(S0 \cup Tick(A, s, l, S0), A.invariant[l][s])
           Later(T) == Satisfying(Tick(A, s, l, T), A.invariant[l][s])
           Val(f, k) == IF k = 1 THEN first ELSE Later(f[k - 1])
           Leads(f, m) == f = [k \in 1..m |-> Val(f, k)]
           S == {m \in Nat : \E f : Leads(f, m + 1)}
           segment == CHOOSE f : Leads(f, count)
           L == {n \in 1..count : \A k \in 2..n : segment[k] # {}}
           last == Max(L)
<1>4. SegmentedFlowpipe(A, s, l, S0, count) = SubSeq(segment, 1, last)
  BY DEF SegmentedFlowpipe
<1>5. \A f : Val(f, 1) = first
  OBVIOUS
<1>6. \A f, k : k # 1 => Val(f, k) = Later(f[k - 1])
  OBVIOUS
<1>0. \A f, g, k : k = 1 \/ f[k - 1] = g[k - 1] => Val(f, k) = Val(g, k)
  OBVIOUS
<1> HIDE DEF Val
<1>1. 0 \in S
  <2> DEFINE f == [k \in 1..1 |-> Val(<< >>, k)]
  <2>1. \A k \in 1..1 : Val(<< >>, k) = Val(f, k)
    BY <1>0
  <2>2. f = [k \in 1..1 |-> Val(f, k)]
    BY <2>1
  <2> HIDE DEF f
  <2> QED
    BY <2>2
<1>2. ASSUME NEW m \in Nat, m \in S PROVE m + 1 \in S
  <2>1. PICK f : f = [k \in 1..m + 1 |-> Val(f, k)]
    BY <1>2
  <2> DEFINE g == [k \in 1..m + 2 |-> Val(f, k)]
  <2>2. \A k \in 1..m + 1 : g[k] = f[k]
    BY <2>1
  <2>3. ASSUME NEW k \in 1..m + 2 PROVE Val(f, k) = Val(g, k)
    <3>1. k = 1 \/ k - 1 \in 1..m + 1
      OBVIOUS
    <3> HIDE DEF g
    <3> QED
      BY <1>0, <2>2, <3>1
  <2>4. g = [k \in 1..m + 2 |-> Val(g, k)]
    BY <2>3
  <2> HIDE DEF g
  <2> QED
    BY <2>4
<1> HIDE DEF S
<1>3. count - 1 \in S
  BY <1>1, <1>2, InductionFromZero
<1>7. \E f : Leads(f, count)
  BY <1>3 DEF S
<1>8. Leads(segment, count)
  <2> HIDE DEF Leads
  <2> QED
    BY <1>7
<1> HIDE DEF segment
<1>9. segment = [k \in 1..count |-> segment[k]] /\ \A k \in 1..count : segment[k] = Val(segment, k)
  BY <1>8
<1>10. AreSegments(A, s, l, S0, count, segment)
  <2>1. segment[1] = first
    <3>1. 1 \in 1..count
      OBVIOUS
    <3>2. segment[1] = Val(segment, 1)
      BY <1>9, <3>1
    <3> HIDE DEF first
    <3> QED
      BY <1>5, <3>2
  <2>2. \A k \in 2..count : segment[k] = Later(segment[k - 1])
    <3> TAKE k \in 2..count
    <3>1. k \in 1..count /\ k # 1
      OBVIOUS
    <3> QED
      BY <1>6, <1>9, <3>1
  <2> QED
    BY <2>1, <2>2 DEF AreSegments
<1>11. last \in 1..count /\ \A n \in L : n <= last
  <2>1. L \in SUBSET (1..count) /\ 1 \in L /\ 1 \in Int /\ count \in Int
    OBVIOUS
  <2> HIDE DEF L
  <2> QED
    BY <2>1, ExtremesExist
<1> HIDE DEF last
<1>12. SubSeq(segment, 1, last) = [k \in 1..last |-> segment[k]] /\ Len(SubSeq(segment, 1, last)) = last
  <2> DEFINE T == {segment[k] : k \in 1..count}
  <2>1. segment \in Seq(T) /\ Len(segment) = count
    BY <1>9
  <2> HIDE DEF T
  <2> QED
    BY <1>11, <2>1
<1>13. AreLeading(SubSeq(segment, 1, last), segment, count)
  BY <1>11, <1>12 DEF AreLeading
<1> QED
  BY <1>4, <1>10, <1>13

(* What the recursions over the subspaces compute.                        *)
LEMMA SegmentHorizonIs ==
  /\ SegmentHorizon[0] = NumSegments(par)
  /\ \A s \in Subspace : SegmentHorizon[s] =
       IF s \notin Segmented THEN SegmentHorizon[s - 1]
       ELSE Len(SegmentedFlowpipe(ha, s, current.location, current.sets[s], SegmentHorizon[s - 1]))
<1> DEFINE n == Cardinality(Subspace)
           Val(f, s) ==
             IF s = 0 THEN NumSegments(par)
             ELSE IF s \notin Segmented THEN f[s - 1]
                  ELSE Len(SegmentedFlowpipe(ha, s, current.location, current.sets[s], f[s - 1]))
           Counts(f, m) == f = [s \in 0..m |-> Val(f, s)]
           S == {m \in Nat : \E f : Counts(f, m)}
           whole == CHOOSE f : Counts(f, n)
<1>n. n \in Nat /\ Subspace = 1..n
  BY SubspaceAssumption, FS_CardinalityType
<1>4. SegmentHorizon = whole
  BY DEF SegmentHorizon
<1>5. \A f : Val(f, 0) = NumSegments(par)
  OBVIOUS
<1>6. \A f, s : s # 0 => Val(f, s) = IF s \notin Segmented THEN f[s - 1]
                  ELSE Len(SegmentedFlowpipe(ha, s, current.location, current.sets[s], f[s - 1]))
  OBVIOUS
<1> HIDE DEF n
<1>0. \A f, g, k : k = 0 \/ f[k - 1] = g[k - 1] => Val(f, k) = Val(g, k)
  OBVIOUS
<1> HIDE DEF Val
<1>1. 0 \in S
  <2> DEFINE f == [k \in 0..0 |-> Val(<< >>, k)]
  <2>1. \A k \in 0..0 : Val(<< >>, k) = Val(f, k)
    BY <1>0
  <2>2. f = [k \in 0..0 |-> Val(f, k)]
    BY <2>1
  <2> HIDE DEF f
  <2> QED
    BY <2>2
<1>2. ASSUME NEW m \in Nat, m \in S PROVE m + 1 \in S
  <2>1. PICK f : f = [k \in 0..m |-> Val(f, k)]
    BY <1>2
  <2> DEFINE g == [k \in 0..m + 1 |-> Val(f, k)]
  <2>2. \A k \in 0..m : g[k] = f[k]
    BY <2>1
  <2>3. ASSUME NEW k \in 0..m + 1 PROVE Val(f, k) = Val(g, k)
    <3>1. k = 0 \/ k - 1 \in 0..m
      OBVIOUS
    <3> HIDE DEF g
    <3> QED
      BY <1>0, <2>2, <3>1
  <2>4. g = [k \in 0..m + 1 |-> Val(g, k)]
    BY <2>3
  <2> HIDE DEF g
  <2> QED
    BY <2>4
<1> HIDE DEF S
<1>3. n \in S
  BY <1>n, <1>1, <1>2, InductionFromZero
<1>7. \E f : Counts(f, n)
  BY <1>3 DEF S
<1>8. Counts(whole, n)
  <2> HIDE DEF Counts
  <2> QED
    BY <1>7
<1> HIDE DEF whole
<1>9. \A s \in 0..n : whole[s] = Val(whole, s)
  BY <1>8
<1>10. 0 \in 0..n /\ \A s \in Subspace : s \in 0..n /\ s # 0
  BY <1>n
<1> QED
  BY <1>4, <1>5, <1>6, <1>9, <1>10

LEMMA BadTimeIs ==
  ASSUME NEW bad
  PROVE  /\ BadTime(bad)[0] = GlobalTime(par)
         /\ \A s \in Subspace : BadTime(bad)[s] =
              IF s \notin Singular THEN BadTime(bad)[s - 1]
              ELSE BadTime(bad)[s - 1] \cap GetClockValues(Cut(BadSet(bad, s), BadTime(bad)[s - 1]), par)
<1> DEFINE n == Cardinality(Subspace)
           Val(f, s) ==
             IF s = 0 THEN GlobalTime(par)
             ELSE IF s \notin Singular THEN f[s - 1]
                  ELSE f[s - 1] \cap GetClockValues(Cut(BadSet(bad, s), f[s - 1]), par)
           Counts(f, m) == f = [s \in 0..m |-> Val(f, s)]
           S == {m \in Nat : \E f : Counts(f, m)}
           whole == CHOOSE f : Counts(f, n)
<1>n. n \in Nat /\ Subspace = 1..n
  BY SubspaceAssumption, FS_CardinalityType
<1>4. BadTime(bad) = whole
  BY DEF BadTime
<1>5. \A f : Val(f, 0) = GlobalTime(par)
  OBVIOUS
<1>6. \A f, s : s # 0 => Val(f, s) = IF s \notin Singular THEN f[s - 1]
                  ELSE f[s - 1] \cap GetClockValues(Cut(BadSet(bad, s), f[s - 1]), par)
  OBVIOUS
<1> HIDE DEF n
<1>0. \A f, g, k : k = 0 \/ f[k - 1] = g[k - 1] => Val(f, k) = Val(g, k)
  OBVIOUS
<1> HIDE DEF Val
<1>1. 0 \in S
  <2> DEFINE f == [k \in 0..0 |-> Val(<< >>, k)]
  <2>1. \A k \in 0..0 : Val(<< >>, k) = Val(f, k)
    BY <1>0
  <2>2. f = [k \in 0..0 |-> Val(f, k)]
    BY <2>1
  <2> HIDE DEF f
  <2> QED
    BY <2>2
<1>2. ASSUME NEW m \in Nat, m \in S PROVE m + 1 \in S
  <2>1. PICK f : f = [k \in 0..m |-> Val(f, k)]
    BY <1>2
  <2> DEFINE g == [k \in 0..m + 1 |-> Val(f, k)]
  <2>2. \A k \in 0..m : g[k] = f[k]
    BY <2>1
  <2>3. ASSUME NEW k \in 0..m + 1 PROVE Val(f, k) = Val(g, k)
    <3>1. k = 0 \/ k - 1 \in 0..m
      OBVIOUS
    <3> HIDE DEF g
    <3> QED
      BY <1>0, <2>2, <3>1
  <2>4. g = [k \in 0..m + 1 |-> Val(g, k)]
    BY <2>3
  <2> HIDE DEF g
  <2> QED
    BY <2>4
<1> HIDE DEF S
<1>3. n \in S
  BY <1>n, <1>1, <1>2, InductionFromZero
<1>7. \E f : Counts(f, n)
  BY <1>3 DEF S
<1>8. Counts(whole, n)
  <2> HIDE DEF Counts
  <2> QED
    BY <1>7
<1> HIDE DEF whole
<1>9. \A s \in 0..n : whole[s] = Val(whole, s)
  BY <1>8
<1>10. 0 \in 0..n /\ \A s \in Subspace : s \in 0..n /\ s # 0
  BY <1>n
<1> QED
  BY <1>4, <1>5, <1>6, <1>9, <1>10
--------------------------------------------------------------------------
(* Types.                                                                 *)
LEMMA AutomatonIs ==
  ASSUME NEW A, IsDecomposed(A)
  PROVE  /\ A.type \in [Subspace -> Types]
         /\ \A s \in Subspace, l \in Location, v \in Value : A.flow[s][l][v] \in Value
         /\ \A s \in OfType(A, "discrete"), l \in Location, v \in Value : A.flow[s][l][v] = v
         /\ A.initial.loc \in Location
         /\ \A s \in Subspace : A.initial.set[s] \subseteq Value
         /\ Len(A.transition) \in Nat /\ DOMAIN A.transition = 1..Len(A.transition)
         /\ \A t \in DOMAIN A.transition : \A s \in Subspace, v \in Value :
              A.transition[t].reset[s][v] \in Value
         /\ \A t \in DOMAIN A.transition : A.transition[t].target \in Location
<1>1. A \in DecomposedAutomatonType
  BY DEF IsDecomposed
<1> DEFINE TransitionSet == [source : Location, target : Location, guard : Condition,
                             reset : [Subspace -> [Value -> Value]]]
<1>2. /\ A.type \in [Subspace -> Types]
      /\ A.flow \in [Subspace -> [Location -> [Value -> Value]]]
      /\ A.initial \in [loc : Location, set : Condition]
      /\ A.transition \in Seq(TransitionSet)
  BY <1>1 DEF DecomposedAutomatonType
<1>3. \A s \in Subspace, l \in Location, v \in Value : A.flow[s][l][v] \in Value
  BY <1>2
<1>4. \A s \in OfType(A, "discrete"), l \in Location, v \in Value : A.flow[s][l][v] = v
  BY DEF IsDecomposed, OfType
<1>5. A.initial.loc \in Location /\ \A s \in Subspace : A.initial.set[s] \subseteq Value
  BY <1>2 DEF Condition
<1>6. /\ Len(A.transition) \in Nat /\ DOMAIN A.transition = 1..Len(A.transition)
      /\ \A t \in DOMAIN A.transition : A.transition[t] \in TransitionSet
  <2> HIDE DEF TransitionSet
  <2> QED
    BY <1>2
<1>7. ASSUME NEW t \in DOMAIN A.transition
      PROVE  /\ \A s \in Subspace, v \in Value : A.transition[t].reset[s][v] \in Value
             /\ A.transition[t].target \in Location
  <2>1. A.transition[t] \in TransitionSet
    BY <1>6
  <2>2. A.transition[t].reset \in [Subspace -> [Value -> Value]] /\ A.transition[t].target \in Location
    BY <2>1
  <2> QED
    BY <2>2
<1> QED
  BY <1>2, <1>3, <1>4, <1>5, <1>6, <1>7

LEMMA ValuationIs ==
  ASSUME NEW A, NEW s, NEW count, NEW latest, NEW v
  PROVE  v \in Valuation(A, s, count, latest) <=>
           /\ v = [x |-> v.x, x0 |-> v.x0, clock |-> v.clock]
           /\ v.x \in Value /\ v.x0 \in Value \cup {Unset}
           /\ v.clock \in [0..Clocks(A, s, count) - 1 -> 0..latest]
<1> DEFINE D == [0..Clocks(A, s, count) - 1 -> 0..latest]
           X == Value \cup {Unset}
<1>1. Valuation(A, s, count, latest) = [x : Value, x0 : X, clock : D]
  BY DEF Valuation
<1> HIDE DEF D, X
<1>2. v \in [x : Value, x0 : X, clock : D] <=>
        /\ v = [x |-> v.x, x0 |-> v.x0, clock |-> v.clock]
        /\ v.x \in Value /\ v.x0 \in X /\ v.clock \in D
  OBVIOUS
<1> QED
  BY <1>1, <1>2 DEF D, X

LEMMA ValuationGrows ==
  ASSUME NEW A, NEW s, NEW count \in Nat, NEW latest \in Nat, NEW later \in Nat, latest <= later
  PROVE  Valuation(A, s, count, latest) \subseteq Valuation(A, s, count, later)
<1> DEFINE D == 0..Clocks(A, s, count) - 1
<1>1. 0..latest \subseteq 0..later
  OBVIOUS
<1> HIDE DEF D
<1>2. [D -> 0..latest] \subseteq [D -> 0..later]
  BY <1>1
<1> QED
  BY <1>2, ValuationIs DEF D

LEMMA TickedRecord ==
  ASSUME NEW v, NEW f, v = [x |-> v.x, x0 |-> v.x0, clock |-> v.clock]
  PROVE  [v EXCEPT !.x = f[@], !.clock = [i \in DOMAIN @ |-> @[i] + 1]] =
           [x |-> f[v.x], x0 |-> v.x0, clock |-> [i \in DOMAIN v.clock |-> v.clock[i] + 1]]
<1> DEFINE a == f[v.x]
           c == [i \in DOMAIN v.clock |-> v.clock[i] + 1]
<1>1. [v EXCEPT !.x = f[@], !.clock = [i \in DOMAIN @ |-> @[i] + 1]] =
        [[v EXCEPT !.x = a] EXCEPT !.clock = c]
  OBVIOUS
<1> HIDE DEF a, c
<1>2. [v EXCEPT !.x = a] = [x |-> a, x0 |-> v.x0, clock |-> v.clock]
  OBVIOUS
<1>3. [[x |-> a, x0 |-> v.x0, clock |-> v.clock] EXCEPT !.clock = c] = [x |-> a, x0 |-> v.x0, clock |-> c]
  OBVIOUS
<1> QED
  BY <1>1, <1>2, <1>3 DEF a, c

LEMMA TickIsTyped ==
  ASSUME NEW A, IsDecomposed(A), NEW s \in Subspace, NEW l \in Location, NEW count \in Nat,
         NEW latest \in Nat, NEW S \in SUBSET Valuation(A, s, count, latest)
  PROVE  Tick(A, s, l, S) \subseteq Valuation(A, s, count, latest + 1)
<1> DEFINE D == 0..Clocks(A, s, count) - 1
           Ticked(v) == [v EXCEPT !.x = A.flow[s][l][@], !.clock = [i \in DOMAIN @ |-> @[i] + 1]]
<1>1. \A v \in S : /\ v = [x |-> v.x, x0 |-> v.x0, clock |-> v.clock]
                   /\ v.x \in Value /\ v.x0 \in Value \cup {Unset} /\ v.clock \in [D -> 0..latest]
  BY ValuationIs
<1> HIDE DEF D
<1>2. ASSUME NEW v \in S PROVE Ticked(v) \in Valuation(A, s, count, latest + 1)
  <2>1. Ticked(v) = [x |-> A.flow[s][l][v.x], x0 |-> v.x0, clock |-> [i \in D |-> v.clock[i] + 1]]
    <3>1. DOMAIN v.clock = D /\ v = [x |-> v.x, x0 |-> v.x0, clock |-> v.clock]
      BY <1>1
    <3>2. Ticked(v) =
            [x |-> A.flow[s][l][v.x], x0 |-> v.x0, clock |-> [i \in DOMAIN v.clock |-> v.clock[i] + 1]]
      BY <3>1, TickedRecord
    <3> QED
      BY <3>1, <3>2
  <2>2. A.flow[s][l][v.x] \in Value
    BY <1>1, AutomatonIs
  <2>3. [i \in D |-> v.clock[i] + 1] \in [D -> 0..latest + 1]
    <3>1. \A i \in D : v.clock[i] \in 0..latest
      BY <1>1
    <3> QED
      BY <3>1
  <2> HIDE DEF Ticked
  <2>4. /\ Ticked(v) = [x |-> Ticked(v).x, x0 |-> Ticked(v).x0, clock |-> Ticked(v).clock]
        /\ Ticked(v).x \in Value /\ Ticked(v).x0 \in Value \cup {Unset}
        /\ Ticked(v).clock \in [D -> 0..latest + 1]
    BY <1>1, <2>1, <2>2, <2>3
  <2> QED
    BY <2>4, ValuationIs DEF D
<1>3. Tick(A, s, l, S) = {Ticked(v) : v \in S}
  BY DEF Tick
<1> QED
  BY <1>2, <1>3

LEMMA ResetIsTyped ==
  ASSUME NEW A, IsDecomposed(A), NEW s \in Subspace, NEW t \in DOMAIN A.transition, NEW count \in Nat,
         NEW latest \in Nat, NEW S \in SUBSET Valuation(A, s, count, latest)
  PROVE  ApplyReset(A, s, t, S) \subseteq Valuation(A, s, count, latest)
<1> DEFINE D == [0..Clocks(A, s, count) - 1 -> 0..latest]
           After(v) == [v EXCEPT !.x = A.transition[t].reset[s][@]]
<1>1. \A v \in S : /\ v = [x |-> v.x, x0 |-> v.x0, clock |-> v.clock]
                   /\ v.x \in Value /\ v.x0 \in Value \cup {Unset} /\ v.clock \in D
  BY ValuationIs
<1> HIDE DEF D
<1>2. ASSUME NEW v \in S PROVE After(v) \in Valuation(A, s, count, latest)
  <2>1. After(v) = [x |-> A.transition[t].reset[s][v.x], x0 |-> v.x0, clock |-> v.clock]
    BY <1>1
  <2>2. A.transition[t].reset[s][v.x] \in Value
    BY <1>1, AutomatonIs
  <2> HIDE DEF After
  <2>3. /\ After(v) = [x |-> After(v).x, x0 |-> After(v).x0, clock |-> After(v).clock]
        /\ After(v).x \in Value /\ After(v).x0 \in Value \cup {Unset} /\ After(v).clock \in D
    BY <1>1, <2>1, <2>2
  <2> QED
    BY <2>3, ValuationIs DEF D
<1>3. ApplyReset(A, s, t, S) = {After(v) : v \in S}
  BY DEF ApplyReset
<1> QED
  BY <1>2, <1>3

LEMMA SingularFlowpipeIsTyped ==
  ASSUME NEW A, IsDecomposed(A), NEW s \in Subspace, NEW l \in Location, NEW count \in Nat,
         NEW latest \in Nat, NEW horizon \in Nat, NEW S0 \in SUBSET Valuation(A, s, count, latest)
  PROVE  SingularFlowpipe(A, s, l, S0, horizon) \in Seq(SUBSET Valuation(A, s, count, latest + horizon))
<1> DEFINE inv == A.invariant[l][s]
           V(n) == Valuation(A, s, count, n)
<1>1. CASE Satisfying(S0, inv) = {}
  BY <1>1 DEF SingularFlowpipe
<1>2. CASE Satisfying(S0, inv) # {}
  <2>a. \E after : IsFlowpipeOf(A, s, l, S0, horizon, after)
    BY <1>2, SingularFlowpipeIs
  <2>b. PICK after : IsFlowpipeOf(A, s, l, S0, horizon, after)
    BY <2>a
  <2>1. /\ AreAfter(A, s, l, Satisfying(S0, inv), horizon, after)
        /\ SingularFlowpipe(A, s, l, S0, horizon) =
             <<Satisfying(UNION {after[k] : k \in 0..horizon}, inv)>>
    BY <2>b DEF IsFlowpipeOf
  <2> DEFINE T == {k \in 0..horizon : after[k] \subseteq V(latest + k)}
  <2>2. 0 \in T
    <3>1. after[0] \subseteq V(latest)
      BY <2>1, SatisfyingIsPart DEF AreAfter
    <3> QED
      BY <3>1
  <2>3. ASSUME NEW k \in 0..horizon - 1, k \in T PROVE k + 1 \in T
    <3>1. k + 1 \in 1..horizon /\ k + 1 \in 0..horizon /\ (k + 1) - 1 = k /\ latest + k \in Nat
          /\ (latest + k) + 1 = latest + (k + 1)
      OBVIOUS
    <3>2. after[k + 1] = Tick(A, s, l, after[k])
      BY <2>1, <3>1 DEF AreAfter
    <3>3. after[k] \subseteq V(latest + k)
      BY <2>3
    <3>4. Tick(A, s, l, after[k]) \subseteq V((latest + k) + 1)
      BY <3>1, <3>3, TickIsTyped
    <3> HIDE DEF V
    <3> QED
      BY <3>1, <3>2, <3>4
  <2> HIDE DEF T
  <2>4. 0..horizon \subseteq T
    BY <2>2, <2>3, InductionInInterval
  <2>5. ASSUME NEW k \in 0..horizon PROVE after[k] \subseteq V(latest + horizon)
    <3>1. after[k] \subseteq V(latest + k)
      BY <2>4 DEF T
    <3>2. latest + k \in Nat /\ latest + horizon \in Nat /\ latest + k <= latest + horizon
      OBVIOUS
    <3> QED
      BY <3>1, <3>2, ValuationGrows
  <2>6. Satisfying(UNION {after[k] : k \in 0..horizon}, inv) \subseteq V(latest + horizon)
    BY <2>5, SatisfyingIsPart
  <2> HIDE DEF V
  <2> QED
    BY <2>1, <2>6 DEF V
<1> QED
  BY <1>1, <1>2

LEMMA SegmentedFlowpipeIsTyped ==
  ASSUME NEW A, IsDecomposed(A), NEW s \in Subspace, NEW l \in Location, NEW count \in Nat,
         NEW latest \in Nat, NEW n \in Nat, n # 0, NEW S0 \in SUBSET Valuation(A, s, count, latest)
  PROVE  /\ SegmentedFlowpipe(A, s, l, S0, n) \in Seq(SUBSET Valuation(A, s, count, latest + n))
         /\ Len(SegmentedFlowpipe(A, s, l, S0, n)) \in 1..n
<1> DEFINE inv == A.invariant[l][s]
           V(m) == Valuation(A, s, count, m)
           fp == SegmentedFlowpipe(A, s, l, S0, n)
<1>1. PICK segment : AreSegments(A, s, l, S0, n, segment) /\ AreLeading(fp, segment, n)
  BY SegmentedFlowpipeIs
<1> HIDE DEF fp
<1> DEFINE T == {k \in 1..n : segment[k] \subseteq V(latest + k)}
<1>2. 1 \in T
  <2>1. Tick(A, s, l, S0) \subseteq V(latest + 1)
    BY TickIsTyped
  <2>2. V(latest) \subseteq V(latest + 1)
    BY ValuationGrows
  <2>3. segment[1] \subseteq V(latest + 1)
    BY <1>1, <2>1, <2>2, SatisfyingIsPart DEF AreSegments
  <2> QED
    BY <2>3
<1>3. ASSUME NEW k \in 1..n - 1, k \in T PROVE k + 1 \in T
  <2>1. k + 1 \in 2..n /\ k + 1 \in 1..n /\ (k + 1) - 1 = k /\ latest + k \in Nat
        /\ (latest + k) + 1 = latest + (k + 1)
    OBVIOUS
  <2>2. segment[k + 1] \subseteq Tick(A, s, l, segment[k])
    BY <1>1, <2>1, SatisfyingIsPart DEF AreSegments
  <2>3. segment[k] \subseteq V(latest + k)
    BY <1>3
  <2>4. Tick(A, s, l, segment[k]) \subseteq V((latest + k) + 1)
    BY <2>1, <2>3, TickIsTyped
  <2> HIDE DEF V
  <2> QED
    BY <2>1, <2>2, <2>4
<1> HIDE DEF T
<1>4. 1..n \subseteq T
  BY <1>2, <1>3, InductionInInterval
<1>5. ASSUME NEW k \in 1..Len(fp) PROVE segment[k] \subseteq V(latest + n)
  <2>1. k \in 1..n /\ Len(fp) \in 1..n
    BY <1>1 DEF AreLeading
  <2>2. segment[k] \subseteq V(latest + k)
    BY <1>4, <2>1 DEF T
  <2>3. latest + k \in Nat /\ latest + n \in Nat /\ latest + k <= latest + n
    BY <2>1
  <2> QED
    BY <2>2, <2>3, ValuationGrows
<1> HIDE DEF V
<1>6. Len(fp) \in 1..n /\ fp = [k \in 1..Len(fp) |-> segment[k]]
  BY <1>1 DEF AreLeading
<1>7. fp \in Seq(SUBSET V(latest + n))
  BY <1>5, <1>6
<1> QED
  BY <1>6, <1>7 DEF V, fp

LEMMA FlowpipesAre ==
  ASSUME NEW latest \in Nat, NEW fp, fp = [s \in Subspace |-> fp[s]],
         \A s \in Subspace : fp[s] \in Seq(SUBSET Valuations(s, latest))
  PROVE  fp \in Flowpipes(latest)
<1>1. \A s \in Subspace : Valuations(s, latest) \subseteq AnyValuation(latest)
  BY DEF AnyValuation
<1>2. ASSUME NEW s \in Subspace
      PROVE  /\ fp[s] \in Seq(SUBSET AnyValuation(latest))
             /\ \A k \in DOMAIN fp[s] : fp[s][k] \subseteq Valuations(s, latest)
  <2>1. SUBSET Valuations(s, latest) \subseteq SUBSET AnyValuation(latest)
    BY <1>1
  <2>2. fp[s] \in Seq(SUBSET Valuations(s, latest))
    OBVIOUS
  <2> HIDE DEF Valuations, AnyValuation
  <2>3. fp[s] \in Seq(SUBSET AnyValuation(latest))
    BY <2>1, <2>2, SeqLarger
  <2> QED
    BY <2>2, <2>3
<1>3. fp \in [Subspace -> Seq(SUBSET AnyValuation(latest))]
  BY <1>2
<1> QED
  BY <1>2, <1>3 DEF Flowpipes

LEMMA FlowpipeIs ==
  ASSUME NEW latest \in Nat, NEW fp \in Flowpipes(latest), NEW s \in Subspace
  PROVE  /\ fp[s] \in Seq(SUBSET Valuations(s, latest))
         /\ Len(fp[s]) \in Nat /\ DOMAIN fp[s] = 1..Len(fp[s])
<1>1. fp[s] \in Seq(SUBSET AnyValuation(latest)) /\ \A k \in DOMAIN fp[s] : fp[s][k] \subseteq Valuations(s, latest)
  BY DEF Flowpipes
<1>2. Len(fp[s]) \in Nat /\ DOMAIN fp[s] = 1..Len(fp[s]) /\ fp[s] = [k \in 1..Len(fp[s]) |-> fp[s][k]]
  BY <1>1
<1> QED
  BY <1>1, <1>2

LEMMA StateSetsAre ==
  ASSUME NEW latest, NEW sets, sets = [s \in Subspace |-> sets[s]]
  PROVE  sets \in StateSets(latest) <=> \A s \in Subspace : sets[s] \subseteq Valuations(s, latest)
<1>1. \A s \in Subspace : Valuations(s, latest) \subseteq AnyValuation(latest)
  BY DEF AnyValuation
<1> HIDE DEF Valuations, AnyValuation
<1> QED
  BY <1>1 DEF StateSets

LEMMA StateSetsIs ==
  ASSUME NEW latest, NEW sets \in StateSets(latest)
  PROVE  sets = [s \in Subspace |-> sets[s]] /\ \A s \in Subspace : sets[s] \subseteq Valuations(s, latest)
BY DEF StateSets

LEMMA SettingsAre ==
  ASSUME TypeOK
  PROVE  /\ IsDecomposed(ha)
         /\ par.clockCount \in Nat /\ par.jumpDepth \in Nat /\ par.horizon \in Nat
         /\ LatestTime(par) \in Nat /\ NumSegments(par) \in Nat /\ NumSegments(par) = par.horizon + 1
         /\ GlobalTime(par) = (0..par.clockCount - 1) \X (0..LatestTime(par))
<1>1. IsDecomposed(ha) /\ par \in ParameterType
  <2>1. <<ha, par>> \in Analyses
    BY DEF TypeOK
  <2>2. IsDecomposed(<<ha, par>>[1]) /\ <<ha, par>>[2] \in ParameterType
    BY <2>1, AnalysesAssumption
  <2> QED
    BY <2>2
<1>2. par.clockCount \in Nat /\ par.jumpDepth \in Nat /\ par.horizon \in Nat
  BY <1>1 DEF ParameterType
<1>3. (par.jumpDepth + 1) * par.horizon \in Nat
  BY <1>2
<1>4. GlobalTime(par) = (0..par.clockCount - 1) \X (0..LatestTime(par))
  BY DEF GlobalTime
<1> QED
  BY <1>1, <1>2, <1>3, <1>4 DEF LatestTime, NumSegments

LEMMA TypesKept ==
  ASSUME UNCHANGED settings
  PROVE  /\ NodeType' = NodeType /\ SuccessorType' = SuccessorType
         /\ Flowpipes(LatestTime(par) + NumSegments(par))' = Flowpipes(LatestTime(par) + NumSegments(par))
         /\ NoDependencies(ha)' = NoDependencies(ha)
         /\ <<ha, par>>' = <<ha, par>> /\ Discrete' = Discrete
BY DEF settings, NodeType, SuccessorType, Flowpipes, StateSets, AnyValuation, Valuations, Discrete

LEMMA NodeIs ==
  ASSUME TypeOK, NEW n \in DOMAIN nodes
  PROVE  /\ nodes[n].location \in Location /\ nodes[n].depth \in Nat
         /\ nodes[n].sets \in StateSets(LatestTime(par))
         /\ nodes[n].sets = [s \in Subspace |-> nodes[n].sets[s]]
         /\ \A s \in Subspace : nodes[n].sets[s] \subseteq Valuations(s, LatestTime(par))
         /\ nodes[n].dependencies \subseteq NoDependencies(ha)
<1>1. nodes[n] \in NodeType
  BY DEF TypeOK
<1>2. /\ nodes[n].location \in Location /\ nodes[n].depth \in Nat
      /\ nodes[n].sets \in StateSets(LatestTime(par))
      /\ nodes[n].dependencies \in SUBSET NoDependencies(ha)
  BY <1>1 DEF NodeType
<1> QED
  BY <1>2, StateSetsIs

(* The types, and what the loop knows where it stands.                    *)
TypeInv == TypeOK /\ ControlInv

LEMMA MinSegmentsIs ==
  ASSUME NEW fpLatest \in Nat, flowpipe \in Flowpipes(fpLatest)
  PROVE  /\ MinSegments \in Nat
         /\ \A s \in Segmented : MinSegments <= Len(flowpipe[s])
         /\ \A n \in Int : n >= 1 /\ (\A s \in Segmented : n <= Len(flowpipe[s])) /\ Segmented # {} => n <= MinSegments
<1>1. CASE Segmented = {}
  BY <1>1 DEF MinSegments
<1>2. CASE Segmented # {}
  <2> DEFINE T == {Len(flowpipe[s]) : s \in Segmented}
  <2>1. Segmented \subseteq Subspace
    BY DEF Segmented, OfType
  <2>2. \A s \in Segmented : Len(flowpipe[s]) \in Nat
    BY <2>1, FlowpipeIs
  <2>4. \A s \in Segmented : Len(flowpipe[s]) \in T
    OBVIOUS
  <2>a. \A x \in T : x \in Nat
    BY <2>2
  <2>5. MinSegments = Min(T)
    BY <1>2 DEF MinSegments
  <2>6. \A x \in T : \E s \in Segmented : x = Len(flowpipe[s])
    OBVIOUS
  <2> HIDE DEF T
  <2>3. T # {}
    BY <1>2, <2>4
  <2>b. T \in SUBSET Int /\ 0 \in Int /\ \A x \in T : 0 <= x
    BY <2>a
  <2>7. \E x \in T : \A y \in T : x <= y
    BY <2>3, <2>b, LeastExists
  <2>8. Min(T) \in T /\ \A y \in T : Min(T) <= y
    BY <2>7 DEF Min
  <2>9. MinSegments \in T /\ \A y \in T : MinSegments <= y
    BY <2>5, <2>8
  <2> QED
    BY <2>2, <2>4, <2>6, <2>9
<1> QED
  BY <1>1, <1>2

LEMMA SegmentHorizonIsTyped ==
  ASSUME TypeOK, task \in EntryType
  PROVE  \A s \in 0..Cardinality(Subspace) : SegmentHorizon[s] \in 1..NumSegments(par)
<1> DEFINE n == Cardinality(Subspace)
           T == {s \in 0..n : SegmentHorizon[s] \in 1..NumSegments(par)}
<1>1. n \in Nat /\ Subspace = 1..n
  BY SubspaceAssumption, FS_CardinalityType
<1>2. IsDecomposed(ha) /\ par.clockCount \in Nat /\ LatestTime(par) \in Nat
      /\ NumSegments(par) \in Nat /\ 1 <= NumSegments(par)
  BY SettingsAre
<1>3. current.location \in Location /\ \A s \in Subspace : current.sets[s] \subseteq Valuations(s, LatestTime(par))
  BY NodeIs DEF EntryType, current
<1> HIDE DEF n
<1>4. 0 \in T
  BY <1>1, <1>2, SegmentHorizonIs
<1>5. ASSUME NEW s \in 0..n - 1, s \in T PROVE s + 1 \in T
  <2>1. s + 1 \in Subspace /\ s + 1 \in 0..n /\ (s + 1) - 1 = s
    BY <1>1
  <2>2. SegmentHorizon[s] \in Nat /\ SegmentHorizon[s] # 0 /\ SegmentHorizon[s] <= NumSegments(par)
    BY <1>2, <1>5
  <2>3. CASE s + 1 \notin Segmented
    BY <1>5, <2>1, <2>3, SegmentHorizonIs
  <2>4. CASE s + 1 \in Segmented
    <3>1. SegmentHorizon[s + 1] =
            Len(SegmentedFlowpipe(ha, s + 1, current.location, current.sets[s + 1], SegmentHorizon[s]))
      BY <2>1, <2>4, SegmentHorizonIs
    <3>2. current.sets[s + 1] \in SUBSET Valuation(ha, s + 1, par.clockCount, LatestTime(par))
      BY <1>3, <2>1 DEF Valuations
    <3>3. Len(SegmentedFlowpipe(ha, s + 1, current.location, current.sets[s + 1], SegmentHorizon[s]))
            \in 1..SegmentHorizon[s]
      BY <1>2, <1>3, <2>1, <2>2, <3>2, SegmentedFlowpipeIsTyped
    <3> QED
      BY <1>2, <2>1, <2>2, <3>1, <3>3
  <2> QED
    BY <2>3, <2>4
<1> HIDE DEF T
<1>6. 0..n \subseteq T
  BY <1>1, <1>4, <1>5, InductionInInterval
<1> QED
  BY <1>6 DEF T, n

LEMMA Subspaces ==
  ASSUME IsDecomposed(ha), NEW s \in Subspace
  PROVE  /\ s \in Discrete \/ s \in Singular \/ s \in Segmented
         /\ ~(s \in Discrete /\ s \in Singular) /\ ~(s \in Discrete /\ s \in Segmented)
         /\ ~(s \in Singular /\ s \in Segmented)
         /\ s \in Clocked(ha) <=> s \notin Discrete
         /\ Clocks(ha, s, par.clockCount) = IF s \in Discrete THEN 0 ELSE par.clockCount
<1>1. ha.type[s] \in Types
  BY AutomatonIs
<1> QED
  BY <1>1 DEF Types, Discrete, Singular, Segmented, OfType, Clocked, Clocks

LEMMA SubspaceSets ==
  /\ Discrete \subseteq Subspace /\ Singular \subseteq Subspace /\ Segmented \subseteq Subspace
  /\ Clocked(ha) \subseteq Subspace
BY DEF Discrete, Singular, Segmented, OfType, Clocked

LEMMA TimeSuccessorsAreTyped ==
  ASSUME TypeOK, task \in EntryType, UNCHANGED settings, ComputeTimeSuccessors
  PROVE  /\ workerFlowpipe' \in Flowpipes(LatestTime(par) + NumSegments(par))
         /\ flowpipe' \in Flowpipes(LatestTime(par) + NumSegments(par))
         /\ \A s \in Discrete : flowpipe'[s] # << >>
<1> DEFINE B == LatestTime(par) + NumSegments(par)
           l == current.location
           Pipe(s) == SegmentedFlowpipe(ha, s, l, current.sets[s], SegmentHorizon[s - 1])
<1>1. IsDecomposed(ha) /\ par.clockCount \in Nat /\ LatestTime(par) \in Nat /\ par.horizon \in Nat
      /\ NumSegments(par) \in Nat /\ NumSegments(par) = par.horizon + 1 /\ B \in Nat
  BY SettingsAre
<1>2. l \in Location /\ \A s \in Subspace : current.sets[s] \in SUBSET Valuations(s, LatestTime(par))
  BY NodeIs DEF EntryType, current
<1>3. ASSUME NEW n \in Nat, n <= NumSegments(par), NEW s \in Subspace
      PROVE  Valuations(s, LatestTime(par) + n) \subseteq Valuations(s, B)
  <2>1. LatestTime(par) + n \in Nat /\ LatestTime(par) + n <= B
    BY <1>1, <1>3
  <2> HIDE DEF B
  <2> QED
    BY <1>1, <2>1, ValuationGrows DEF Valuations
<1>4. ASSUME NEW s \in Subspace
      PROVE  SingularFlowpipe(ha, s, l, current.sets[s], par.horizon) \in Seq(SUBSET Valuations(s, B))
  <2>1. SingularFlowpipe(ha, s, l, current.sets[s], par.horizon) \in
          Seq(SUBSET Valuations(s, LatestTime(par) + par.horizon))
    BY <1>1, <1>2, SingularFlowpipeIsTyped DEF Valuations
  <2>2. SUBSET Valuations(s, LatestTime(par) + par.horizon) \subseteq SUBSET Valuations(s, B)
    BY <1>1, <1>3
  <2> HIDE DEF B, l
  <2> QED
    BY <2>1, <2>2, SeqLarger
<1>5. ASSUME NEW s \in Subspace
      PROVE  DiscreteFlowpipe(ha, s, l, current.sets[s]) \in Seq(SUBSET Valuations(s, B))
  <2>1. Valuations(s, LatestTime(par)) \subseteq Valuations(s, B)
    BY <1>1, <1>3
  <2>2. Satisfying(current.sets[s], ha.invariant[l][s]) \in SUBSET Valuations(s, B)
    BY <1>2, <2>1, SatisfyingIsPart
  <2> HIDE DEF B, l
  <2> QED
    BY <2>2 DEF DiscreteFlowpipe
<1>6. ASSUME NEW s \in Subspace
      PROVE  Pipe(s) \in Seq(SUBSET Valuations(s, B))
  <2>1. SegmentHorizon[s - 1] \in 1..NumSegments(par)
    <3>1. s - 1 \in 0..Cardinality(Subspace)
      BY SubspaceAssumption, FS_CardinalityType
    <3> QED
      BY <3>1, SegmentHorizonIsTyped
  <2>2. SegmentHorizon[s - 1] \in Nat /\ SegmentHorizon[s - 1] # 0 /\ SegmentHorizon[s - 1] <= NumSegments(par)
    BY <1>1, <2>1
  <2>3. Pipe(s) \in Seq(SUBSET Valuations(s, LatestTime(par) + SegmentHorizon[s - 1]))
    BY <1>1, <1>2, <2>2, SegmentedFlowpipeIsTyped DEF Valuations
  <2>4. SUBSET Valuations(s, LatestTime(par) + SegmentHorizon[s - 1]) \subseteq SUBSET Valuations(s, B)
    BY <2>2, <1>3
  <2> HIDE DEF B, Pipe
  <2> QED
    BY <2>3, <2>4, SeqLarger
<1> HIDE DEF B
<1>7. workerFlowpipe' = [s \in Subspace |->
        IF s \in Singular THEN SingularFlowpipe(ha, s, l, current.sets[s], par.horizon) ELSE << >>]
  BY DEF ComputeTimeSuccessors
<1>8. workerFlowpipe' \in Flowpipes(B)
  <2>1. \A s \in Subspace : workerFlowpipe'[s] \in Seq(SUBSET Valuations(s, B))
    BY <1>4, <1>7
  <2>2. workerFlowpipe' = [s \in Subspace |-> workerFlowpipe'[s]]
    BY <1>7
  <2> QED
    BY <1>1, <2>1, <2>2, FlowpipesAre
<1>9. flowpipe' = [s \in Subspace |->
        IF s \in Discrete THEN DiscreteFlowpipe(ha, s, l, current.sets[s])
        ELSE IF s \in Singular THEN workerFlowpipe'[s] ELSE Pipe(s)]
  BY DEF ComputeTimeSuccessors
<1> HIDE DEF Pipe
<1>10. flowpipe' \in Flowpipes(B)
  <2>1. \A s \in Subspace : flowpipe'[s] \in Seq(SUBSET Valuations(s, B))
    BY <1>4, <1>5, <1>6, <1>7, <1>9
  <2>2. flowpipe' = [s \in Subspace |-> flowpipe'[s]]
    BY <1>9
  <2> QED
    BY <1>1, <2>1, <2>2, FlowpipesAre
<1>11. \A s \in Discrete : flowpipe'[s] # << >>
  BY <1>9, SubspaceSets DEF DiscreteFlowpipe
<1> QED
  BY <1>8, <1>10, <1>11 DEF B

(* A flowpipe cut to a time, up to the first segment that is empty then.  *)
IsCut(cut, fp, time, V) ==
  /\ cut \in Seq(SUBSET V)
  /\ \A k \in DOMAIN cut : k \in DOMAIN fp /\ cut[k] = Cut(fp[k], time)
  /\ \A n \in DOMAIN fp : (\A k \in 1..n : Cut(fp[k], time) # {}) => n \in DOMAIN cut
  /\ Len(cut) \in Nat /\ DOMAIN cut = 1..Len(cut)

LEMMA IntersectedIs ==
  ASSUME NEW V, NEW fp \in Seq(SUBSET V), NEW time
  PROVE  IsCut(IntersectFlowpipeWithClock(fp, time), fp, time, V)
<1> DEFINE empty == {k \in DOMAIN fp : Cut(fp[k], time) = {}}
           all == [k \in DOMAIN fp |-> Cut(fp[k], time)]
           last == IF empty = {} THEN Len(fp) ELSE Min(empty) - 1
<1>1. Len(fp) \in Nat /\ DOMAIN fp = 1..Len(fp)
  OBVIOUS
<1>2. \A k \in DOMAIN fp : Cut(fp[k], time) \in SUBSET V
  BY CutIsPart
<1>3. all \in Seq(SUBSET V) /\ Len(all) = Len(fp) /\ DOMAIN all = DOMAIN fp
      /\ \A k \in DOMAIN fp : all[k] = Cut(fp[k], time)
  BY <1>1, <1>2
<1>4. /\ last \in 0..Len(fp)
      /\ \A n \in DOMAIN fp : (\A k \in 1..n : Cut(fp[k], time) # {}) => n <= last
  <2>1. CASE empty = {}
    BY <1>1, <2>1
  <2>2. CASE empty # {}
    <3>1. empty \in SUBSET (1..Len(fp)) /\ 1 \in Int /\ Len(fp) \in Int
      BY <1>1
    <3>2. \A k : k \in empty <=> k \in DOMAIN fp /\ Cut(fp[k], time) = {}
      OBVIOUS
    <3> HIDE DEF empty
    <3>3. Min(empty) \in empty
      BY <2>2, <3>1, ExtremesExist
    <3>4. Min(empty) \in 1..Len(fp) /\ Cut(fp[Min(empty)], time) = {}
      BY <3>1, <3>2, <3>3
    <3>5. last = Min(empty) - 1
      BY <2>2
    <3>6. ASSUME NEW n \in DOMAIN fp, \A k \in 1..n : Cut(fp[k], time) # {} PROVE n <= last
      <4>1. ~(Min(empty) \in 1..n)
        BY <3>4, <3>6
      <4>2. Min(empty) \in Int /\ 1 <= Min(empty) /\ n \in Int
        BY <1>1, <3>4
      <4> HIDE DEF last
      <4> QED
        BY <3>5, <4>1, <4>2
    <3> QED
      BY <1>1, <3>4, <3>5, <3>6
  <2> QED
    BY <2>1, <2>2
<1>5. IntersectFlowpipeWithClock(fp, time) = SubSeq(all, 1, last)
  BY DEF IntersectFlowpipeWithClock
<1> HIDE DEF all, last
<1>6. /\ SubSeq(all, 1, last) \in Seq(SUBSET V) /\ Len(SubSeq(all, 1, last)) = last
      /\ DOMAIN SubSeq(all, 1, last) = 1..last
      /\ \A k \in 1..last : SubSeq(all, 1, last)[k] = all[k]
  BY <1>1, <1>3, <1>4
<1>7. \A k \in 1..last : k \in DOMAIN fp /\ SubSeq(all, 1, last)[k] = Cut(fp[k], time)
  <2>1. \A k \in 1..last : k \in DOMAIN fp
    BY <1>1, <1>4
  <2> QED
    BY <1>3, <1>6, <2>1
<1>8. ASSUME NEW n \in DOMAIN fp, \A k \in 1..n : Cut(fp[k], time) # {}
      PROVE  n \in DOMAIN SubSeq(all, 1, last)
  <2>1. n <= last /\ n \in 1..Len(fp)
    BY <1>1, <1>4, <1>8
  <2> QED
    BY <1>4, <1>6, <2>1
<1>9. last \in Nat
  BY <1>1, <1>4
<1> QED
  BY <1>5, <1>6, <1>7, <1>8, <1>9 DEF IsCut

LEMMA DiscreteValuations ==
  ASSUME IsDecomposed(ha), NEW s \in Discrete, NEW latest, NEW later
  PROVE  Valuations(s, latest) \subseteq Valuations(s, later)
<1>1. s \in Subspace
  BY SubspaceSets
<1>2. 0..Clocks(ha, s, par.clockCount) - 1 = {}
  BY <1>1, Subspaces
<1> DEFINE D == 0..Clocks(ha, s, par.clockCount) - 1
<1> SUFFICES ASSUME NEW v \in Valuation(ha, s, par.clockCount, latest)
             PROVE  v \in Valuation(ha, s, par.clockCount, later)
  BY DEF Valuations
<1>3. D = {}
  BY <1>2
<1> HIDE DEF D
<1>4. [D -> 0..latest] \subseteq [D -> 0..later]
  BY <1>3
<1> QED
  BY <1>4, ValuationIs DEF D

LEMMA JumpImageIsTyped ==
  ASSUME IsDecomposed(ha), par.clockCount \in Nat, NEW t \in DOMAIN ha.transition, NEW s \in Subspace,
         NEW latest \in Nat, NEW S \in SUBSET Valuations(s, latest)
  PROVE  JumpImage(t, s, S) \subseteq Valuations(s, latest)
<1>1. Satisfying(S, ha.transition[t].guard[s]) \in SUBSET Valuation(ha, s, par.clockCount, latest)
  BY SatisfyingIsPart DEF Valuations
<1>2. ApplyReset(ha, s, t, Satisfying(S, ha.transition[t].guard[s])) \subseteq Valuation(ha, s, par.clockCount, latest)
  BY <1>1, ResetIsTyped
<1> QED
  BY <1>2, SatisfyingIsPart DEF JumpImage, Valuations

LEMMA EnabledTimes ==
  ASSUME TypeOK, NEW t, NEW block
  PROVE  /\ SingularEnabledTime(t) \subseteq GlobalTime(par)
         /\ EnabledTime(t, block) \subseteq SingularEnabledTime(t)
         /\ SingularEnabledTime(t) \in SUBSET (Int \X (0..LatestTime(par)))
         /\ EnabledTime(t, block) \in SUBSET (Int \X (0..LatestTime(par)))
<1>1. SingularEnabledTime(t) \subseteq GlobalTime(par)
  BY DEF SingularEnabledTime
<1>2. EnabledTime(t, block) \subseteq SingularEnabledTime(t)
  BY DEF EnabledTime
<1>3. GlobalTime(par) \subseteq Int \X (0..LatestTime(par))
  BY SettingsAre
<1> QED
  BY <1>1, <1>2, <1>3

(* What holds when the successors of a node are computed.                 *)
LEMMA FlowpipesAtHand ==
  ASSUME TypeOK
  PROVE  /\ LatestTime(par) + NumSegments(par) \in Nat
         /\ \A s \in Subspace :
              /\ flowpipe[s] \in Seq(SUBSET Valuations(s, LatestTime(par) + NumSegments(par)))
              /\ Len(flowpipe[s]) \in Nat /\ DOMAIN flowpipe[s] = 1..Len(flowpipe[s])
              /\ workerFlowpipe[s] \in Seq(SUBSET Valuations(s, LatestTime(par) + NumSegments(par)))
              /\ Len(workerFlowpipe[s]) \in Nat /\ DOMAIN workerFlowpipe[s] = 1..Len(workerFlowpipe[s])
         /\ MinSegments \in Nat
         /\ \A s \in Segmented : MinSegments <= Len(flowpipe[s])
<1> DEFINE B == LatestTime(par) + NumSegments(par)
<1>1. B \in Nat
  BY SettingsAre
<1>2. flowpipe \in Flowpipes(B) /\ workerFlowpipe \in Flowpipes(B)
  BY DEF TypeOK
<1> HIDE DEF B
<1>3. MinSegments \in Nat /\ \A s \in Segmented : MinSegments <= Len(flowpipe[s])
  BY <1>1, <1>2, MinSegmentsIs
<1>4. \A s \in Subspace :
        /\ flowpipe[s] \in Seq(SUBSET Valuations(s, B))
        /\ Len(flowpipe[s]) \in Nat /\ DOMAIN flowpipe[s] = 1..Len(flowpipe[s])
        /\ workerFlowpipe[s] \in Seq(SUBSET Valuations(s, B))
        /\ Len(workerFlowpipe[s]) \in Nat /\ DOMAIN workerFlowpipe[s] = 1..Len(workerFlowpipe[s])
  BY <1>1, <1>2, FlowpipeIs
<1> QED
  BY <1>1, <1>3, <1>4 DEF B

LEMMA SubspaceSuccessorIsTyped ==
  ASSUME TypeOK, \A s \in Discrete : flowpipe[s] # << >>,
         NEW t \in DOMAIN ha.transition, NEW s \in Subspace, NEW block \in SUBSET (1..MinSegments)
  PROVE  SubspaceSuccessor(t, s, block) \subseteq Valuations(s, LatestTime(par) + NumSegments(par))
<1> DEFINE V == Valuations(s, LatestTime(par) + NumSegments(par))
<1>0. IsDecomposed(ha) /\ par.clockCount \in Nat /\ LatestTime(par) + NumSegments(par) \in Nat
  BY SettingsAre, FlowpipesAtHand
<1>1. /\ flowpipe[s] \in Seq(SUBSET V) /\ workerFlowpipe[s] \in Seq(SUBSET V)
      /\ Len(flowpipe[s]) \in Nat /\ DOMAIN flowpipe[s] = 1..Len(flowpipe[s])
  BY FlowpipesAtHand
<1>2. \A S \in SUBSET V : JumpImage(t, s, S) \in SUBSET V
  BY <1>0, JumpImageIsTyped
<1> HIDE DEF V
<1>3. CASE s \in Discrete
  <2>1. flowpipe[s][1] \in SUBSET V
    <3>1. flowpipe[s] # << >>
      BY <1>3
    <3> QED
      BY <1>1, <3>1
  <2> QED
    BY <1>2, <1>3, <2>1 DEF SubspaceSuccessor, DiscreteSuccessor, V
<1>4. CASE s \in Singular
  <2>1. SingularSuccessor(t, s) \in SUBSET V
    <3>1. CASE workerFlowpipe[s] = << >>
      BY <3>1 DEF SingularSuccessor
    <3>2. CASE workerFlowpipe[s] # << >>
      <4>1. workerFlowpipe[s][1] \in SUBSET V
        BY <1>1, <3>2
      <4> QED
        BY <1>2, <3>2, <4>1 DEF SingularSuccessor, ResetUnusedClocks
    <3> QED
      BY <3>1, <3>2
  <2>2. s \notin Discrete
    BY <1>0, <1>4, Subspaces
  <2> QED
    BY <1>4, <2>1, <2>2, CutIsPart DEF SubspaceSuccessor, V
<1>5. CASE s \in Segmented
  <2>1. \A k \in block : flowpipe[s][k] \in SUBSET V
    <3>1. MinSegments \in Nat /\ MinSegments <= Len(flowpipe[s])
      BY <1>5, FlowpipesAtHand
    <3>2. \A k \in block : k \in DOMAIN flowpipe[s]
      BY <1>1, <3>1
    <3> QED
      BY <1>1, <3>2
  <2>2. \A k \in block :
          Cut(Satisfying(flowpipe[s][k], ha.transition[t].guard[s]), SingularEnabledTime(t)) \in SUBSET V
    BY <2>1, SatisfyingIsPart, CutIsPart
  <2>3. UNION {ResetUnusedClocks(
                 Cut(Satisfying(flowpipe[s][k], ha.transition[t].guard[s]), SingularEnabledTime(t)),
                 task.clockIndex) : k \in block} \in SUBSET V
    BY <2>2 DEF ResetUnusedClocks
  <2>4. SegmentedSuccessor(t, s, block) \in SUBSET V
    BY <1>2, <2>3 DEF SegmentedSuccessor
  <2>5. s \notin Discrete /\ s \notin Singular
    BY <1>0, <1>5, Subspaces
  <2> QED
    BY <2>4, <2>5 DEF SubspaceSuccessor, V
<1> QED
  BY <1>0, <1>3, <1>4, <1>5, Subspaces

LEMMA JumpSuccessorIsTyped ==
  ASSUME TypeOK, \A s \in Discrete : flowpipe[s] # << >>,
         NEW t \in DOMAIN ha.transition, NEW block \in SUBSET (1..MinSegments)
  PROVE  JumpSuccessor(t, block) \in SuccessorType
<1> DEFINE sets == JumpSuccessor(t, block).sets
           time == EnabledTime(t, block)
           B == LatestTime(par) + NumSegments(par)
<1>0. /\ IsDecomposed(ha) /\ par.clockCount \in Nat /\ LatestTime(par) \in Nat /\ B \in Nat
      /\ time \in SUBSET (Int \X (0..LatestTime(par)))
  BY SettingsAre, FlowpipesAtHand, EnabledTimes
<1> HIDE DEF time, B
<1>1. /\ JumpSuccessor(t, block) = [transition |-> t, sets |-> sets]
      /\ sets = [s \in Subspace |->
                   IF IsEmptyTime(time, par) THEN {}
                   ELSE IF s \in Discrete THEN SubspaceSuccessor(t, s, block)
                   ELSE Cut(SubspaceSuccessor(t, s, block), time)]
  BY DEF JumpSuccessor, time
<1> HIDE DEF sets
<1>2. ASSUME NEW s \in Subspace PROVE sets[s] \subseteq Valuations(s, LatestTime(par))
  <2>1. SubspaceSuccessor(t, s, block) \in SUBSET Valuations(s, B)
    BY SubspaceSuccessorIsTyped DEF B
  <2>2. CASE s \in Discrete
    <3>1. Valuations(s, B) \subseteq Valuations(s, LatestTime(par))
      BY <1>0, <2>2, DiscreteValuations
    <3> QED
      BY <1>1, <2>1, <2>2, <3>1
  <2>3. CASE s \notin Discrete
    <3>1. Cut(SubspaceSuccessor(t, s, block), time) \subseteq Valuations(s, LatestTime(par))
      BY <1>0, <2>1, CutIsTimed DEF Valuations
    <3> QED
      BY <1>1, <2>3, <3>1
  <2> QED
    BY <2>2, <2>3
<1>3. sets = [s \in Subspace |-> sets[s]]
  BY <1>1
<1>4. sets \in StateSets(LatestTime(par))
  BY <1>2, <1>3, StateSetsAre
<1> QED
  BY <1>1, <1>4 DEF SuccessorType

LEMMA JumpsAreListed ==
  ASSUME TypeOK
  PROVE  /\ AscendingPairs(Jumps) \in Seq(Jumps)
         /\ \A j \in Jumps : \E k \in DOMAIN AscendingPairs(Jumps) : AscendingPairs(Jumps)[k] = j
         /\ \A j \in Jumps : /\ j[1] \in DOMAIN ha.transition
                             /\ Block(j[1], j[2]) \in SUBSET (1..MinSegments)
<1> DEFINE P == (1..Len(ha.transition)) \X (1..MinSegments)
<1>1. Len(ha.transition) \in Nat /\ DOMAIN ha.transition = 1..Len(ha.transition) /\ MinSegments \in Nat
  BY SettingsAre, AutomatonIs, FlowpipesAtHand
<1>2. TransitionsFrom(ha, current.location) \subseteq 1..Len(ha.transition)
  BY <1>1 DEF TransitionsFrom
<1>3. \A j \in Jumps : j \in P /\ j[2] \in EnabledSegments(j[1])
  BY <1>2 DEF Jumps
<1>4. IsFiniteSet(P)
  <2>1. IsFiniteSet(1..Len(ha.transition)) /\ IsFiniteSet(1..MinSegments)
    BY <1>1, FS_Interval
  <2> QED
    BY <2>1, FS_Product
<1>5. Jumps \in SUBSET P
  BY <1>3
<1>6. P \subseteq Nat \X Nat
  BY <1>1
<1> HIDE DEF P
<1>7. IsFiniteSet(Jumps) /\ Jumps \in SUBSET (Nat \X Nat)
  BY <1>4, <1>5, <1>6, FS_Subset
<1>8. ASSUME NEW j \in Jumps
      PROVE  j[1] \in DOMAIN ha.transition /\ Block(j[1], j[2]) \in SUBSET (1..MinSegments)
  <2>1. j \in P /\ j[2] \in EnabledSegments(j[1])
    BY <1>3
  <2>2. EnabledSegments(j[1]) \subseteq 1..MinSegments
    BY DEF EnabledSegments, CommonSegments
  <2>3. j[1] \in DOMAIN ha.transition
    BY <1>1, <2>1 DEF P
  <2> QED
    BY <2>1, <2>2, <2>3 DEF Block
<1> QED
  BY <1>7, <1>8, AscendingPairsLists

LEMMA SuccessorsAreTyped ==
  ASSUME TypeOK, \A s \in Discrete : flowpipe[s] # << >>
  PROVE  AllJumpSuccessors \in Seq(SuccessorType)
<1> DEFINE jumps == AscendingPairs(Jumps)
<1>1. jumps \in Seq(Jumps)
  BY JumpsAreListed
<1>2. AllJumpSuccessors = [i \in DOMAIN jumps |-> JumpSuccessor(jumps[i][1], Block(jumps[i][1], jumps[i][2]))]
  BY DEF AllJumpSuccessors
<1> HIDE DEF jumps
<1>3. Len(jumps) \in Nat /\ DOMAIN jumps = 1..Len(jumps) /\ \A i \in DOMAIN jumps : jumps[i] \in Jumps
  BY <1>1
<1>4. \A i \in DOMAIN jumps : JumpSuccessor(jumps[i][1], Block(jumps[i][1], jumps[i][2])) \in SuccessorType
  BY <1>3, JumpsAreListed, JumpSuccessorIsTyped
<1> QED
  BY <1>2, <1>3, <1>4

LEMMA AddedClocksAreTyped ==
  ASSUME NEW A, NEW s, NEW count \in Nat, NEW latest \in Nat, NEW x \in Value
  PROVE  AddClocksAndInitial(x, Clocks(A, s, count)) \in Valuation(A, s, count, latest)
<1> DEFINE n == Clocks(A, s, count)
           x0 == IF n = 0 THEN Unset ELSE x
           clock == [i \in 0..n - 1 |-> 0]
<1>1. AddClocksAndInitial(x, n) = [x |-> x, x0 |-> x0, clock |-> clock]
  BY DEF AddClocksAndInitial
<1>2. x0 \in Value \cup {Unset}
  OBVIOUS
<1>3. clock \in [0..n - 1 -> 0..latest]
  <2>1. 0 \in 0..latest
    OBVIOUS
  <2> HIDE DEF n
  <2> QED
    BY <2>1
<1> HIDE DEF x0, clock
<1>4. \A v : v = [x |-> x, x0 |-> x0, clock |-> clock] =>
        /\ v = [x |-> v.x, x0 |-> v.x0, clock |-> v.clock]
        /\ v.x \in Value /\ v.x0 \in Value \cup {Unset} /\ v.clock \in [0..n - 1 -> 0..latest]
  BY <1>2, <1>3
<1> QED
  BY <1>1, <1>4, ValuationIs

LEMMA SynchronizedIsTyped ==
  ASSUME TypeOK, NEW sets \in StateSets(LatestTime(par))
  PROVE  LET synchronized == SynchronizeAndResetClocks(ha, sets, dependencies, par.clockCount)
         IN  /\ synchronized.sets \in StateSets(LatestTime(par))
             /\ synchronized.dependencies \subseteq NoDependencies(ha)
<1> DEFINE composed == Projected(ComposeSubspaces(ha, sets, dependencies))
           synchronized == SynchronizeAndResetClocks(ha, sets, dependencies, par.clockCount)
           C == par.clockCount
<1>0. IsDecomposed(ha) /\ C \in Nat /\ LatestTime(par) \in Nat
  BY SettingsAre
<1>1. sets = [s \in Subspace |-> sets[s]] /\ \A s \in Subspace : sets[s] \subseteq Valuations(s, LatestTime(par))
  BY StateSetsIs
<1>2. \A f \in composed : f \in [Clocked(ha) -> Value]
  <2>1. \A h \in ComposeSubspaces(ha, sets, dependencies) : \A s \in Clocked(ha) : h[s] \in sets[s] /\ DOMAIN h = Clocked(ha)
    BY DEF ComposeSubspaces
  <2>2. \A h \in ComposeSubspaces(ha, sets, dependencies) :
          \A s \in Clocked(ha) : h[s].x \in Value
    <3>1. \A s \in Clocked(ha) : s \in Subspace
      BY SubspaceSets
    <3>2. \A s \in Subspace : \A v \in Valuations(s, LatestTime(par)) : v.x \in Value
      BY ValuationIs DEF Valuations
    <3> QED
      BY <1>1, <2>1, <3>1, <3>2
  <2>3. \A h \in ComposeSubspaces(ha, sets, dependencies) : DOMAIN h = Clocked(ha)
    BY DEF ComposeSubspaces
  <2>4. \A h \in ComposeSubspaces(ha, sets, dependencies) : [s \in DOMAIN h |-> h[s].x] \in [Clocked(ha) -> Value]
    BY <2>2, <2>3
  <2> QED
    BY <2>4 DEF Projected
<1>3. CASE composed = {}
  <2>1. synchronized = [dependencies |-> NoDependencies(ha), sets |-> [s \in Subspace |-> {}]]
    BY <1>3 DEF SynchronizeAndResetClocks
  <2> DEFINE empty == [s \in Subspace |-> {}]
  <2>2. empty \in StateSets(LatestTime(par))
    <3>1. empty = [s \in Subspace |-> empty[s]] /\ \A s \in Subspace : empty[s] \subseteq Valuations(s, LatestTime(par))
      OBVIOUS
    <3> HIDE DEF empty
    <3> QED
      BY <3>1, StateSetsAre
  <2> QED
    BY <2>1, <2>2
<1>4. CASE composed # {}
  <2> DEFINE new == [s \in Subspace |-> IF s \in Clocked(ha) THEN Decompose(composed, s, C) ELSE sets[s]]
  <2>1. synchronized = [dependencies |-> GetDependencies(ha, composed), sets |-> new]
    BY <1>4 DEF SynchronizeAndResetClocks
  <2>2. GetDependencies(ha, composed) \subseteq NoDependencies(ha)
    BY DEF GetDependencies, NoDependencies
  <2> HIDE DEF composed
  <2>3. ASSUME NEW s \in Subspace PROVE new[s] \subseteq Valuations(s, LatestTime(par))
    <3>1. CASE s \in Clocked(ha)
      <4>1. \A f \in composed : f[s] \in Value
        BY <1>2, <3>1
      <4>2. Clocks(ha, s, C) = C
        BY <3>1 DEF Clocks
      <4>3. \A f \in composed : AddClocksAndInitial(f[s], C) \in Valuations(s, LatestTime(par))
        BY <1>0, <4>1, <4>2, AddedClocksAreTyped DEF Valuations
      <4>4. new[s] = Decompose(composed, s, C)
        BY <3>1
      <4> QED
        BY <4>3, <4>4 DEF Decompose
    <3>2. CASE s \notin Clocked(ha)
      BY <1>1, <3>2
    <3> QED
      BY <3>1, <3>2
  <2>4. new = [s \in Subspace |-> new[s]]
    OBVIOUS
  <2> HIDE DEF new
  <2>5. new \in StateSets(LatestTime(par))
    BY <2>3, <2>4, StateSetsAre
  <2> QED
    BY <2>1, <2>2, <2>5
<1> QED
  BY <1>3, <1>4

--------------------------------------------------------------------------
(* The type invariant, action by action.                                  *)
LEMMA TypeInit == Init => TypeInv
<1> SUFFICES ASSUME Init PROVE TypeInv
  OBVIOUS
<1>1. PICK a \in Analyses : ha = a[1] /\ par = a[2]
  BY DEF Init
<1>2. IsDecomposed(ha) /\ par \in ParameterType /\ <<ha, par>> \in Analyses
  BY <1>1, AnalysesAssumption
<1>3. par.clockCount \in Nat /\ LatestTime(par) \in Nat /\ LatestTime(par) + NumSegments(par) \in Nat
      /\ par.jumpDepth \in Nat
  <2>1. par.clockCount \in Nat /\ par.jumpDepth \in Nat /\ par.horizon \in Nat
    BY <1>2 DEF ParameterType
  <2>2. (par.jumpDepth + 1) * par.horizon \in Nat
    BY <2>1
  <2> QED
    BY <2>1, <2>2 DEF LatestTime, NumSegments
<1> DEFINE sets == [s \in Subspace |-> {AddClocksAndInitial(x, Clocks(ha, s, par.clockCount)) : x \in ha.initial.set[s]}]
           root == [location |-> ha.initial.loc, depth |-> 0, sets |-> sets, dependencies |-> NoDependencies(ha)]
<1>4. sets \in StateSets(LatestTime(par))
  <2>1. ASSUME NEW s \in Subspace PROVE sets[s] \subseteq Valuations(s, LatestTime(par))
    <3>1. ha.initial.set[s] \subseteq Value
      BY <1>2, AutomatonIs
    <3> QED
      BY <1>3, <3>1, AddedClocksAreTyped DEF Valuations
  <2>2. sets = [s \in Subspace |-> sets[s]]
    OBVIOUS
  <2> HIDE DEF sets
  <2> QED
    BY <2>1, <2>2, StateSetsAre
<1>5. nodes = <<root>> /\ root.depth = 0
  BY DEF Init
<1>6. root \in NodeType
  <2>1. ha.initial.loc \in Location
    BY <1>2, AutomatonIs
  <2> HIDE DEF sets
  <2> QED
    BY <1>4, <2>1 DEF NodeType
<1> HIDE DEF root
<1>7. nodes \in Seq(NodeType) /\ DOMAIN nodes = {1} /\ nodes[1] = root
  BY <1>5, <1>6
<1>8. workQueue \in Seq(EntryType)
  <2>1. [node |-> 1, clockIndex |-> 0] \in EntryType
    BY <1>7 DEF EntryType
  <2> QED
    BY <2>1 DEF Init
<1>9. NoFlowpipes \in Flowpipes(LatestTime(par) + NumSegments(par))
  <2>1. \A s \in Subspace : NoFlowpipes[s] \in Seq(SUBSET Valuations(s, LatestTime(par) + NumSegments(par)))
    BY DEF NoFlowpipes
  <2>2. NoFlowpipes = [s \in Subspace |-> NoFlowpipes[s]]
    BY DEF NoFlowpipes
  <2> QED
    BY <1>3, <2>1, <2>2, FlowpipesAre
<1>10. TypeOK
  BY <1>2, <1>7, <1>8, <1>9 DEF Init, TypeOK
<1>11. ControlInv
  BY <1>3, <1>5, <1>7 DEF Init, ControlInv, Busy
<1> QED
  BY <1>10, <1>11 DEF TypeInv

(* The nodes of an analysis stay as they are while others are added.      *)
LEMMA EntriesKept ==
  ASSUME NEW entry \in EntryType, DOMAIN nodes \subseteq DOMAIN nodes'
  PROVE  entry \in EntryType'
BY DEF EntryType

LEMMA CurrentKept ==
  ASSUME UNCHANGED <<nodes, task>>
  PROVE  current' = current
BY DEF current

LEMMA TypeKept ==
  ASSUME TypeInv, UNCHANGED settings,
         nodes' \in Seq(NodeType), workQueue' \in Seq(EntryType'), task' = NoTask \/ task' \in EntryType',
         dependencies' \subseteq NoDependencies(ha),
         workerFlowpipe' \in Flowpipes(LatestTime(par) + NumSegments(par)),
         flowpipe' \in Flowpipes(LatestTime(par) + NumSegments(par)),
         pending' \in Seq(SuccessorType),
         pc' \in {"dequeue", "time", "clock", "safety", "jumps", "children", "done"},
         result' \in {"none", "success", "failure"}
  PROVE  TypeOK'
<1>1. <<ha, par>>' \in Analyses
  BY TypesKept DEF TypeInv, TypeOK
<1> QED
  BY <1>1, TypesKept DEF TypeOK

LEMMA DequeueTyped ==
  ASSUME TypeInv, Dequeue
  PROVE  TypeInv'
<1>1. /\ workQueue # << >> /\ pc = "dequeue" /\ pc' \in {"dequeue", "time"}
      /\ task' = Head(workQueue) /\ workQueue' = Tail(workQueue)
      /\ dependencies' = nodes[Head(workQueue).node].dependencies
      /\ UNCHANGED <<settings, nodes, workerFlowpipe, flowpipe, pending, result>>
  BY DEF Dequeue
<1>2. EntryType' = EntryType
  BY <1>1 DEF EntryType
<1>3. Head(workQueue) \in EntryType /\ Tail(workQueue) \in Seq(EntryType)
  BY <1>1, Dequeued DEF TypeInv, TypeOK
<1>4. Head(workQueue).node \in DOMAIN nodes
  BY <1>3 DEF EntryType
<1>5. nodes[Head(workQueue).node].dependencies \subseteq NoDependencies(ha)
  BY <1>4, NodeIs DEF TypeInv
<1>6. TypeOK'
  <2>1. /\ nodes' \in Seq(NodeType) /\ workQueue' \in Seq(EntryType') /\ task' \in EntryType'
        /\ dependencies' \subseteq NoDependencies(ha)
        /\ workerFlowpipe' \in Flowpipes(LatestTime(par) + NumSegments(par))
        /\ flowpipe' \in Flowpipes(LatestTime(par) + NumSegments(par))
        /\ pending' \in Seq(SuccessorType)
        /\ result' \in {"none", "success", "failure"}
    BY <1>1, <1>2, <1>3, <1>5 DEF TypeInv, TypeOK
  <2> QED
    BY <1>1, <2>1, TypeKept
<1>7. current' = nodes[Head(workQueue).node]
  BY <1>1 DEF current
<1>8. ControlInv'
  <2>1. task' \in EntryType' /\ dependencies' = current'.dependencies
    BY <1>1, <1>2, <1>3, <1>7
  <2>2. result = "none" /\ (\A n \in DOMAIN nodes : nodes[n].depth <= par.jumpDepth) /\ par' = par
    BY <1>1 DEF TypeInv, ControlInv, settings
  <2> QED
    BY <1>1, <2>1, <2>2 DEF ControlInv
<1> QED
  BY <1>6, <1>8 DEF TypeInv

LEMMA TimeTyped ==
  ASSUME TypeInv, ComputeTimeSuccessors
  PROVE  TypeInv'
<1>1. /\ pc = "time" /\ pc' = "clock"
      /\ UNCHANGED <<settings, nodes, workQueue, task, dependencies, pending, result>>
  BY DEF ComputeTimeSuccessors
<1>2. EntryType' = EntryType
  BY <1>1 DEF EntryType
<1>3. TypeOK /\ task \in EntryType
  BY <1>1 DEF TypeInv, ControlInv, Busy
<1>4. /\ workerFlowpipe' \in Flowpipes(LatestTime(par) + NumSegments(par))
      /\ flowpipe' \in Flowpipes(LatestTime(par) + NumSegments(par))
      /\ \A s \in Discrete : flowpipe'[s] # << >>
  BY <1>1, <1>3, TimeSuccessorsAreTyped
<1>5. TypeOK'
  <2>1. /\ nodes' \in Seq(NodeType) /\ workQueue' \in Seq(EntryType') /\ (task' = NoTask \/ task' \in EntryType')
        /\ dependencies' \subseteq NoDependencies(ha)
        /\ pending' \in Seq(SuccessorType)
        /\ result' \in {"none", "success", "failure"}
    BY <1>1, <1>2, <1>3 DEF TypeOK
  <2> QED
    BY <1>1, <1>4, <2>1, TypeKept
<1>6. ControlInv'
  <2>1. current' = current /\ Discrete' = Discrete /\ par' = par
    BY <1>1, CurrentKept, TypesKept DEF settings
  <2> QED
    BY <1>1, <1>2, <1>3, <1>4, <2>1 DEF ControlInv, TypeInv, Busy
<1> QED
  BY <1>5, <1>6 DEF TypeInv

LEMMA ClockTyped ==
  ASSUME TypeInv, IntersectSubspacesWithClock
  PROVE  TypeInv'
<1> DEFINE B == LatestTime(par) + NumSegments(par)
           time == InvariantSatisfyingTime
<1>1. /\ pc = "clock" /\ pc' = "safety"
      /\ flowpipe' = [s \in Subspace |->
           IF s \in Discrete THEN flowpipe[s] ELSE IntersectFlowpipeWithClock(RemoveRedundantSegments(s), time)]
      /\ UNCHANGED <<settings, nodes, workQueue, task, dependencies, workerFlowpipe, pending, result>>
  BY DEF IntersectSubspacesWithClock
<1> HIDE DEF time
<1>2. EntryType' = EntryType
  BY <1>1 DEF EntryType
<1>3. TypeOK /\ task \in EntryType
  BY <1>1 DEF TypeInv, ControlInv, Busy
<1>4. /\ B \in Nat /\ MinSegments \in Nat
      /\ \A s \in Segmented : MinSegments <= Len(flowpipe[s])
      /\ \A s \in Subspace : flowpipe[s] \in Seq(SUBSET Valuations(s, B))
  BY <1>3, FlowpipesAtHand
<1> HIDE DEF B
<1>5. ASSUME NEW s \in Subspace PROVE flowpipe'[s] \in Seq(SUBSET Valuations(s, B))
  <2>1. RemoveRedundantSegments(s) \in Seq(SUBSET Valuations(s, B))
    <3>1. CASE s \in Segmented
      <4> DEFINE V == SUBSET Valuations(s, B)
      <4>1. flowpipe[s] \in Seq(V) /\ MinSegments \in Nat /\ MinSegments <= Len(flowpipe[s])
        BY <1>4, <3>1
      <4> HIDE DEF V
      <4>2. SubSeq(flowpipe[s], 1, MinSegments) \in Seq(V)
        BY <4>1
      <4> QED
        BY <3>1, <4>2 DEF RemoveRedundantSegments, V
    <3>2. CASE s \notin Segmented
      BY <1>4, <3>2 DEF RemoveRedundantSegments
    <3> QED
      BY <3>1, <3>2
  <2>2. IntersectFlowpipeWithClock(RemoveRedundantSegments(s), time) \in Seq(SUBSET Valuations(s, B))
    BY <2>1, IntersectedIs DEF IsCut
  <2> QED
    BY <1>1, <1>4, <2>2
<1>6. flowpipe' \in Flowpipes(B)
  <2>1. flowpipe' = [s \in Subspace |-> flowpipe'[s]]
    BY <1>1
  <2> QED
    BY <1>4, <1>5, <2>1, FlowpipesAre
<1>7. TypeOK'
  <2>1. /\ nodes' \in Seq(NodeType) /\ workQueue' \in Seq(EntryType') /\ (task' = NoTask \/ task' \in EntryType')
        /\ dependencies' \subseteq NoDependencies(ha)
        /\ workerFlowpipe' \in Flowpipes(LatestTime(par) + NumSegments(par))
        /\ pending' \in Seq(SuccessorType)
        /\ result' \in {"none", "success", "failure"}
    BY <1>1, <1>2, <1>3 DEF TypeOK
  <2> QED
    BY <1>1, <1>6, <2>1, TypeKept DEF B
<1>8. ControlInv'
  <2>1. current' = current /\ Discrete' = Discrete /\ par' = par
    BY <1>1, CurrentKept, TypesKept DEF settings
  <2>2. \A s \in Discrete : flowpipe'[s] # << >>
    <3>1. \A s \in Discrete : flowpipe'[s] = flowpipe[s]
      BY <1>1, SubspaceSets
    <3> QED
      BY <1>1, <3>1 DEF ControlInv, TypeInv
  <2> QED
    BY <1>1, <1>2, <1>3, <2>1, <2>2 DEF ControlInv, TypeInv, Busy
<1> QED
  BY <1>7, <1>8 DEF TypeInv

LEMMA JumpsTyped ==
  ASSUME TypeInv, ComputeJumpSuccessors
  PROVE  TypeInv'
<1>1. /\ pc = "jumps" /\ pc' = "children" /\ pending' = AllJumpSuccessors
      /\ UNCHANGED <<settings, nodes, workQueue, task, dependencies, workerFlowpipe, flowpipe, result>>
  BY DEF ComputeJumpSuccessors
<1>2. EntryType' = EntryType
  BY <1>1 DEF EntryType
<1>3. TypeOK /\ task \in EntryType /\ \A s \in Discrete : flowpipe[s] # << >>
  BY <1>1 DEF TypeInv, ControlInv, Busy
<1>4. pending' \in Seq(SuccessorType)
  BY <1>1, <1>3, SuccessorsAreTyped
<1>5. TypeOK'
  <2>1. /\ nodes' \in Seq(NodeType) /\ workQueue' \in Seq(EntryType') /\ (task' = NoTask \/ task' \in EntryType')
        /\ dependencies' \subseteq NoDependencies(ha)
        /\ workerFlowpipe' \in Flowpipes(LatestTime(par) + NumSegments(par))
        /\ flowpipe' \in Flowpipes(LatestTime(par) + NumSegments(par))
        /\ result' \in {"none", "success", "failure"}
    BY <1>1, <1>2, <1>3 DEF TypeOK
  <2> QED
    BY <1>1, <1>4, <2>1, TypeKept
<1>6. ControlInv'
  <2>1. current' = current /\ par' = par
    BY <1>1, CurrentKept DEF settings
  <2> QED
    BY <1>1, <1>2, <1>3, <2>1 DEF ControlInv, TypeInv, Busy
<1> QED
  BY <1>5, <1>6 DEF TypeInv

(* The steps that do little more than to move on.                         *)
LEMMA ControlTyped ==
  ASSUME TypeInv, ReportConflict \/ PassCheck \/ SkipSuccessor \/ FinishNode \/ Succeed
  PROVE  TypeInv'
<1>1. /\ UNCHANGED <<settings, nodes, workQueue, task, dependencies, workerFlowpipe, flowpipe>>
      /\ pending' = pending \/ (pending # << >> /\ pending' = Tail(pending))
      /\ pc' \in {"dequeue", "jumps", "children", "done"}
      /\ result' \in {result, "success", "failure"}
  BY DEF ReportConflict, PassCheck, SkipSuccessor, FinishNode, Succeed
<1>2. EntryType' = EntryType
  BY <1>1 DEF EntryType
<1>3. pending' \in Seq(SuccessorType)
  BY <1>1, Dequeued DEF TypeInv, TypeOK
<1>4. TypeOK'
  <2>1. /\ nodes' \in Seq(NodeType) /\ workQueue' \in Seq(EntryType') /\ (task' = NoTask \/ task' \in EntryType')
        /\ dependencies' \subseteq NoDependencies(ha)
        /\ workerFlowpipe' \in Flowpipes(LatestTime(par) + NumSegments(par))
        /\ flowpipe' \in Flowpipes(LatestTime(par) + NumSegments(par))
        /\ result' \in {"none", "success", "failure"}
    BY <1>1, <1>2 DEF TypeOK, TypeInv
  <2> QED
    BY <1>1, <1>3, <2>1, TypeKept
<1>5. current' = current /\ Discrete' = Discrete /\ par' = par
  BY <1>1, CurrentKept, TypesKept DEF settings
<1>6. ControlInv'
  <2>1. CASE ReportConflict
    BY <1>1, <1>2, <1>5, <2>1 DEF ReportConflict, ControlInv, TypeInv, Busy
  <2>2. CASE PassCheck
    <3>1. task \in EntryType /\ current.depth <= par.jumpDepth /\ current.depth \in Nat /\ par.jumpDepth \in Nat
      <4>1. task \in EntryType
        BY <2>2 DEF PassCheck, ControlInv, TypeInv, Busy
      <4>2. task.node \in DOMAIN nodes
        BY <4>1 DEF EntryType
      <4> QED
        BY <4>1, <4>2, NodeIs, SettingsAre DEF TypeInv, ControlInv, current
    <3>2. pc' = "jumps" => current.depth < par.jumpDepth
      BY <2>2, <3>1 DEF PassCheck
    <3> QED
      BY <1>1, <1>2, <1>5, <2>2, <3>1, <3>2 DEF PassCheck, ControlInv, TypeInv, Busy
  <2>3. CASE SkipSuccessor
    BY <1>1, <1>2, <1>5, <2>3 DEF SkipSuccessor, ControlInv, TypeInv, Busy
  <2>4. CASE FinishNode
    BY <1>1, <1>2, <1>5, <2>4 DEF FinishNode, ControlInv, TypeInv, Busy
  <2>5. CASE Succeed
    BY <1>1, <1>2, <1>5, <2>5 DEF Succeed, ControlInv, TypeInv, Busy
  <2> QED
    BY <2>1, <2>2, <2>3, <2>4, <2>5
<1> QED
  BY <1>4, <1>6 DEF TypeInv

(* A child in every tree: the new node, and all others as they were.      *)
IsChild(sets, deps) ==
  /\ nodes' = Append(nodes, [location |-> ha.transition[pending[1].transition].target,
                             depth |-> current.depth + 1, sets |-> sets, dependencies |-> deps])
  /\ DOMAIN nodes' = DOMAIN nodes \cup {Len(nodes) + 1} /\ Len(nodes) + 1 \notin DOMAIN nodes
  /\ \A n \in DOMAIN nodes : nodes'[n] = nodes[n]
  /\ nodes'[Len(nodes) + 1] = [location |-> ha.transition[pending[1].transition].target,
                               depth |-> current.depth + 1, sets |-> sets, dependencies |-> deps]
  /\ DOMAIN workQueue' = DOMAIN workQueue \cup {Len(workQueue) + 1}
  /\ \A k \in DOMAIN workQueue : workQueue'[k] = workQueue[k]
  /\ workQueue'[Len(workQueue) + 1].node = Len(nodes) + 1
  /\ pending' = Tail(pending)

LEMMA ChildTyped ==
  ASSUME TypeInv, pc = "children", pending # << >>,
         NEW sets \in StateSets(LatestTime(par)), NEW deps, deps \subseteq NoDependencies(ha),
         NEW index \in Nat, AddChild(sets, deps, index),
         dependencies' \subseteq NoDependencies(ha)
  PROVE  TypeInv' /\ IsChild(sets, deps)
<1> DEFINE node == [location |-> ha.transition[pending[1].transition].target,
                    depth |-> current.depth + 1, sets |-> sets, dependencies |-> deps]
           entry == [node |-> Len(nodes) + 1, clockIndex |-> index]
<1>1. TypeOK /\ task \in EntryType /\ current.depth < par.jumpDepth /\ result = "none" /\ pc' = pc
  BY DEF TypeInv, ControlInv, Busy, AddChild
<1>2. /\ IsDecomposed(ha) /\ par.jumpDepth \in Nat
      /\ current.depth \in Nat
  BY <1>1, SettingsAre, NodeIs DEF EntryType, current
<1>3. pending[1] = Head(pending) /\ pending[1] \in SuccessorType /\ Tail(pending) \in Seq(SuccessorType)
  BY <1>1, Dequeued DEF TypeOK
<1>4. /\ nodes' = Append(nodes, node) /\ workQueue' = Append(workQueue, entry) /\ pending' = Tail(pending)
      /\ UNCHANGED <<settings, task, workerFlowpipe, flowpipe, result>>
  BY <1>3 DEF AddChild
<1>5. node \in NodeType
  <2>1. ha.transition[pending[1].transition].target \in Location
    <3>1. pending[1].transition \in DOMAIN ha.transition
      BY <1>3 DEF SuccessorType
    <3> QED
      BY <1>2, <3>1, AutomatonIs
  <2>2. deps \in SUBSET NoDependencies(ha) /\ current.depth + 1 \in Nat
    BY <1>2
  <2> QED
    BY <2>1, <2>2 DEF NodeType
<1>6. /\ nodes' \in Seq(NodeType) /\ DOMAIN nodes' = DOMAIN nodes \cup {Len(nodes) + 1}
      /\ \A n \in DOMAIN nodes : nodes'[n] = nodes[n]
      /\ nodes'[Len(nodes) + 1] = node
  <2>1. nodes \in Seq(NodeType)
    BY <1>1 DEF TypeOK
  <2> HIDE DEF node
  <2> QED
    BY <1>4, <1>5, <2>1, Appended
<1>7. Len(nodes) + 1 \notin DOMAIN nodes
  BY <1>1 DEF TypeOK
<1>8. /\ entry \in EntryType' /\ EntryType \subseteq EntryType'
  BY <1>6 DEF EntryType
<1>9. /\ workQueue' \in Seq(EntryType')
      /\ DOMAIN workQueue' = DOMAIN workQueue \cup {Len(workQueue) + 1}
      /\ \A k \in DOMAIN workQueue : workQueue'[k] = workQueue[k]
      /\ workQueue'[Len(workQueue) + 1] = entry
  <2> DEFINE E == EntryType'
  <2>1. workQueue \in Seq(E)
    BY <1>1, <1>8, SeqLarger DEF TypeOK
  <2>2. entry \in E
    BY <1>8
  <2> HIDE DEF entry, E
  <2>3. Append(workQueue, entry) \in Seq(E)
    BY <2>1, <2>2, Appended
  <2> QED
    BY <1>4, <2>1, <2>2, <2>3, Appended DEF E
<1>10. TypeOK'
  <2>1. task \in EntryType'
    BY <1>1, <1>8
  <2>2. /\ workerFlowpipe' \in Flowpipes(LatestTime(par) + NumSegments(par))
        /\ flowpipe' \in Flowpipes(LatestTime(par) + NumSegments(par))
        /\ pending' \in Seq(SuccessorType) /\ result' \in {"none", "success", "failure"}
        /\ task' = task /\ pc' = "children"
    BY <1>1, <1>3, <1>4 DEF TypeOK
  <2> QED
    BY <1>4, <1>6, <1>9, <2>1, <2>2, TypeKept
<1>11. ControlInv'
  <2>1. current' = current
    <3>1. task.node \in DOMAIN nodes
      BY <1>1 DEF EntryType
    <3> QED
      BY <1>4, <1>6, <3>1 DEF current
  <2>2. \A n \in DOMAIN nodes' : nodes'[n].depth <= par.jumpDepth
    <3>1. node.depth <= par.jumpDepth
      BY <1>1, <1>2
    <3> QED
      BY <1>6, <3>1 DEF TypeInv, ControlInv
  <2>3. task' \in EntryType' /\ pc' = "children" /\ result' = "none" /\ par' = par
    BY <1>1, <1>4, <1>8 DEF settings
  <2> QED
    BY <1>1, <2>1, <2>2, <2>3 DEF ControlInv
<1>12. IsChild(sets, deps)
  BY <1>4, <1>6, <1>7, <1>9 DEF IsChild
<1> QED
  BY <1>10, <1>11, <1>12 DEF TypeInv

LEMMA PendingIs ==
  ASSUME TypeInv, pending # << >>
  PROVE  /\ Head(pending) = pending[1] /\ 1 \in DOMAIN pending
         /\ pending[1].sets \in StateSets(LatestTime(par))
         /\ pending[1].transition \in DOMAIN ha.transition
<1>1. Head(pending) = pending[1] /\ 1 \in DOMAIN pending /\ pending[1] \in SuccessorType
  BY Dequeued DEF TypeInv, TypeOK
<1> QED
  BY <1>1 DEF SuccessorType

LEMMA AddTyped ==
  ASSUME TypeInv, AddSuccessor
  PROVE  TypeInv' /\ IsChild(pending[1].sets, dependencies)
<1>1. /\ pc = "children" /\ pending # << >> /\ dependencies' = dependencies
      /\ AddChild(Head(pending).sets, dependencies, task.clockIndex + 1)
  BY DEF AddSuccessor
<1>2. Head(pending) = pending[1] /\ pending[1].sets \in StateSets(LatestTime(par))
  BY <1>1, PendingIs
<1>3. task.clockIndex + 1 \in Nat
  <2>1. task \in EntryType
    BY <1>1 DEF TypeInv, ControlInv, Busy
  <2> QED
    BY <2>1 DEF EntryType
<1>4. dependencies \subseteq NoDependencies(ha)
  BY DEF TypeInv, TypeOK
<1> QED
  BY <1>1, <1>2, <1>3, <1>4, ChildTyped

Synchronized == SynchronizeAndResetClocks(ha, pending[1].sets, dependencies, par.clockCount)

LEMMA AddSynchronizedTyped ==
  ASSUME TypeInv, AddSynchronizedSuccessor
  PROVE  /\ TypeInv' /\ IsChild(Synchronized.sets, Synchronized.dependencies)
         /\ dependencies' = Synchronized.dependencies
<1>1. pc = "children" /\ pending # << >>
  BY DEF AddSynchronizedSuccessor
<1>2. Head(pending) = pending[1] /\ pending[1].sets \in StateSets(LatestTime(par))
  BY <1>1, PendingIs
<1>3. /\ dependencies' = Synchronized.dependencies
      /\ AddChild(Synchronized.sets, Synchronized.dependencies, 0)
  BY <1>2 DEF AddSynchronizedSuccessor, Synchronized
<1>4. /\ Synchronized.sets \in StateSets(LatestTime(par))
      /\ Synchronized.dependencies \subseteq NoDependencies(ha)
  BY <1>2, SynchronizedIsTyped DEF TypeInv, Synchronized
<1> QED
  BY <1>1, <1>3, <1>4, ChildTyped

LEMMA TypeNext == TypeInv /\ [Next]_vars => TypeInv'
<1> SUFFICES ASSUME TypeInv, [Next]_vars PROVE TypeInv'
  OBVIOUS
<1>1. CASE UNCHANGED vars
  <2>1. UNCHANGED settings
    BY <1>1 DEF vars, settings
  <2>2. EntryType' = EntryType /\ current' = current /\ Discrete' = Discrete
    BY <1>1, <2>1, CurrentKept, TypesKept DEF vars, EntryType
  <2>3. TypeOK'
    BY <1>1, <2>1, <2>2, TypeKept DEF vars, TypeInv, TypeOK
  <2>4. ControlInv'
    BY <1>1, <2>2 DEF vars, TypeInv, ControlInv, Busy
  <2> QED
    BY <2>3, <2>4 DEF TypeInv
<1>2. CASE ReportConflict \/ PassCheck \/ SkipSuccessor \/ FinishNode \/ Succeed
  BY <1>2, ControlTyped
<1> QED
  BY <1>1, <1>2, DequeueTyped, TimeTyped, ClockTyped, JumpsTyped, AddTyped, AddSynchronizedTyped DEF Next

LEMMA TypeInvariance == VerificationSpec => []TypeInv
<1>1. VerificationInit => TypeInv
  BY TypeInit DEF VerificationInit
<1>2. TypeInv /\ [VerificationNext]_verificationVars => TypeInv'
  <2> SUFFICES ASSUME TypeInv, [VerificationNext]_verificationVars PROVE TypeInv'
    OBVIOUS
  <2>1. [Next]_vars
    BY DEF VerificationNext, Analyze, RunMoves, Finished, verificationVars
  <2> QED
    BY <2>1, TypeNext
<1> QED
  BY <1>1, <1>2, PTL DEF VerificationSpec

(* State sets of the right subspaces, without clock times beyond the last *)
(* one the analyzer looks at, and entries that point to nodes: along the  *)
(* whole loop.                                                            *)
THEOREM DecompositionIsTyped == VerificationSpec => []TypeOK
<1>1. TypeInv => TypeOK
  BY DEF TypeInv
<1> QED
  BY <1>1, TypeInvariance, PTL
--------------------------------------------------------------------------
(* Instants, and what the subspaces see of them.                          *)
LEMMA InstantIs ==
  ASSUME NEW i \in Instant
  PROVE  /\ i = [x |-> i.x, x0 |-> i.x0, clock |-> i.clock]
         /\ i.x \in Product /\ i.x0 \in NoDependencies(ha) /\ i.clock \in [0..par.clockCount - 1 -> Nat]
<1> DEFINE X0 == NoDependencies(ha)
           D == [0..par.clockCount - 1 -> Nat]
<1>1. i \in [x : Product, x0 : X0, clock : D]
  BY DEF Instant
<1> HIDE DEF X0, D
<1>2. /\ i = [x |-> i.x, x0 |-> i.x0, clock |-> i.clock]
      /\ i.x \in Product /\ i.x0 \in X0 /\ i.clock \in D
  BY <1>1
<1> QED
  BY <1>2 DEF X0, D

LEMMA IsInstant ==
  ASSUME NEW x \in Product, NEW x0 \in NoDependencies(ha), NEW clock \in [0..par.clockCount - 1 -> Nat]
  PROVE  [x |-> x, x0 |-> x0, clock |-> clock] \in Instant
BY DEF Instant

LEMMA ValuationOfIs ==
  ASSUME IsDecomposed(ha), par.clockCount \in Nat, NEW i \in Instant, NEW s \in Subspace
  PROVE  LET v == ValuationOf(i, s)
         IN  /\ v = [x |-> v.x, x0 |-> v.x0, clock |-> v.clock]
             /\ v.x = i.x[s] /\ i.x[s] \in Value
             /\ DOMAIN v.clock = 0..Clocks(ha, s, par.clockCount) - 1
             /\ \A k \in DOMAIN v.clock : k \in 0..par.clockCount - 1 /\ v.clock[k] = i.clock[k]
             /\ s \in Clocked(ha) => v.clock = i.clock
             /\ s \in Clocked(ha) /\ par.clockCount > 0 => v.x0 = i.x0[s] /\ i.x0[s] \in Value
             /\ ~(s \in Clocked(ha) /\ par.clockCount > 0) => v.x0 = Unset /\ DOMAIN v.clock = {}
<1> DEFINE v == ValuationOf(i, s)
           C == par.clockCount
<1>1. i.x \in Product /\ i.x0 \in NoDependencies(ha) /\ i.clock \in [0..C - 1 -> Nat]
  BY InstantIs
<1>2. i.x[s] \in Value
  BY <1>1 DEF Product
<1>3. Clocks(ha, s, C) = IF s \in Clocked(ha) THEN C ELSE 0
  BY Subspaces
<1>4. CASE s \in Clocked(ha) /\ C > 0
  <2>1. v = [x |-> i.x[s], x0 |-> i.x0[s], clock |-> i.clock]
    BY <1>4 DEF ValuationOf
  <2>2. i.x0[s] \in Value
    BY <1>1, <1>4 DEF NoDependencies
  <2> HIDE DEF v
  <2> QED
    BY <1>1, <1>2, <1>3, <1>4, <2>1, <2>2 DEF v
<1>5. CASE ~(s \in Clocked(ha) /\ C > 0)
  <2> DEFINE none == [k \in 0..0 - 1 |-> 0]
  <2>1. v = [x |-> i.x[s], x0 |-> Unset, clock |-> none]
    BY <1>5 DEF ValuationOf, AddClocksAndInitial
  <2>2. DOMAIN none = {} /\ 0..0 - 1 = {}
    OBVIOUS
  <2>3. Clocks(ha, s, C) = 0
    BY <1>3, <1>5
  <2>4. s \in Clocked(ha) => none = i.clock
    <3>1. s \in Clocked(ha) => DOMAIN i.clock = {} /\ i.clock = [k \in DOMAIN i.clock |-> i.clock[k]]
      BY <1>1, <1>5
    <3> QED
      BY <2>2, <3>1
  <2> HIDE DEF v, none
  <2> QED
    BY <1>2, <1>5, <2>1, <2>2, <2>3, <2>4 DEF v
<1> QED
  BY <1>4, <1>5

LEMMA ElapsedIs ==
  ASSUME IsDecomposed(ha), par.clockCount \in Nat, NEW i \in Instant, NEW l \in Location
  PROVE  /\ Elapsed(i, l) \in Instant
         /\ Elapsed(i, l).x0 = i.x0
         /\ Elapsed(i, l).x = [s \in Subspace |-> ha.flow[s][l][i.x[s]]]
         /\ Elapsed(i, l).clock = [k \in 0..par.clockCount - 1 |-> i.clock[k] + 1]
<1> DEFINE x == [s \in Subspace |-> ha.flow[s][l][i.x[s]]]
           clock == [k \in 0..par.clockCount - 1 |-> i.clock[k] + 1]
<1>1. i.x \in Product /\ i.x0 \in NoDependencies(ha) /\ i.clock \in [0..par.clockCount - 1 -> Nat]
  BY InstantIs
<1>2. x \in Product
  <2>1. \A s \in Subspace : i.x[s] \in Value
    BY <1>1 DEF Product
  <2>2. \A s \in Subspace : ha.flow[s][l][i.x[s]] \in Value
    BY <2>1, AutomatonIs
  <2> QED
    BY <2>2 DEF Product
<1>3. clock \in [0..par.clockCount - 1 -> Nat]
  BY <1>1
<1>4. Elapsed(i, l) = [x |-> x, x0 |-> i.x0, clock |-> clock]
  BY DEF Elapsed
<1> HIDE DEF x, clock
<1>5. Elapsed(i, l) \in Instant
  BY <1>1, <1>2, <1>3, <1>4, IsInstant
<1> QED
  BY <1>4, <1>5 DEF x, clock

LEMMA ElapsedTicks ==
  ASSUME IsDecomposed(ha), par.clockCount \in Nat, NEW i \in Instant, NEW l \in Location, NEW s \in Subspace,
         NEW S, ValuationOf(i, s) \in S
  PROVE  /\ ValuationOf(Elapsed(i, l), s) \in Tick(ha, s, l, S)
         /\ s \in Discrete => ValuationOf(Elapsed(i, l), s) = ValuationOf(i, s)
<1> DEFINE v == ValuationOf(i, s)
           w == ValuationOf(Elapsed(i, l), s)
           C == par.clockCount
<1>1. /\ v = [x |-> v.x, x0 |-> v.x0, clock |-> v.clock] /\ v.x = i.x[s] /\ i.x[s] \in Value
      /\ s \in Clocked(ha) => v.clock = i.clock
      /\ s \in Clocked(ha) /\ C > 0 => v.x0 = i.x0[s]
      /\ ~(s \in Clocked(ha) /\ C > 0) => v.x0 = Unset /\ DOMAIN v.clock = {}
  BY ValuationOfIs
<1>2. /\ Elapsed(i, l).x0 = i.x0
      /\ Elapsed(i, l).x[s] = ha.flow[s][l][i.x[s]]
      /\ Elapsed(i, l).clock = [k \in 0..C - 1 |-> i.clock[k] + 1]
      /\ DOMAIN i.clock = 0..C - 1
  <2>1. Elapsed(i, l).x0 = i.x0 /\ Elapsed(i, l).clock = [k \in 0..C - 1 |-> i.clock[k] + 1]
    BY ElapsedIs
  <2>2. Elapsed(i, l).x = [u \in Subspace |-> ha.flow[u][l][i.x[u]]]
    BY ElapsedIs
  <2>3. i.clock \in [0..C - 1 -> Nat]
    BY InstantIs
  <2>4. Elapsed(i, l).x[s] = ha.flow[s][l][i.x[s]]
    BY <2>2
  <2>5. DOMAIN i.clock = 0..C - 1
    BY <2>3
  <2> QED
    BY <2>1, <2>4, <2>5
<1>a. Tick(ha, s, l, S) =
        {[u EXCEPT !.x = ha.flow[s][l][@], !.clock = [k \in DOMAIN @ |-> @[k] + 1]] : u \in S}
  BY DEF Tick
<1>b. v \in S
  OBVIOUS
<1> HIDE DEF v, w
<1>3. w = [x |-> ha.flow[s][l][v.x], x0 |-> v.x0, clock |-> [k \in DOMAIN v.clock |-> v.clock[k] + 1]]
  <2>1. CASE s \in Clocked(ha) /\ C > 0
    <3>1. w = [x |-> Elapsed(i, l).x[s], x0 |-> Elapsed(i, l).x0[s], clock |-> Elapsed(i, l).clock]
      BY <2>1 DEF w, ValuationOf
    <3>2. Elapsed(i, l).clock = [k \in DOMAIN v.clock |-> v.clock[k] + 1]
      BY <1>1, <1>2, <2>1
    <3> QED
      BY <1>1, <1>2, <2>1, <3>1, <3>2
  <2>2. CASE ~(s \in Clocked(ha) /\ C > 0)
    <3>1. w = [x |-> Elapsed(i, l).x[s], x0 |-> Unset, clock |-> [k \in 0..0 - 1 |-> 0]]
      BY <2>2 DEF w, ValuationOf, AddClocksAndInitial
    <3>2. [k \in 0..0 - 1 |-> 0] = [k \in DOMAIN v.clock |-> v.clock[k] + 1]
      <4>1. DOMAIN v.clock = {} /\ 0..0 - 1 = {}
        BY <1>1, <2>2
      <4> QED
        BY <4>1
    <3> QED
      BY <1>1, <1>2, <2>2, <3>1, <3>2
  <2> QED
    BY <2>1, <2>2
<1>4. w \in Tick(ha, s, l, S)
  <2>1. [v EXCEPT !.x = ha.flow[s][l][@], !.clock = [k \in DOMAIN @ |-> @[k] + 1]] = w
    BY <1>1, <1>3, TickedRecord
  <2> QED
    BY <1>a, <1>b, <2>1
<1>5. ASSUME s \in Discrete PROVE w = v
  <2>1. ha.flow[s][l][i.x[s]] = i.x[s]
    BY <1>1, <1>5, AutomatonIs DEF Discrete
  <2>2. s \notin Clocked(ha)
    BY <1>5, Subspaces
  <2>3. w = AddClocksAndInitial(Elapsed(i, l).x[s], 0) /\ v = AddClocksAndInitial(i.x[s], 0)
    BY <2>2 DEF v, w, ValuationOf
  <2> QED
    BY <1>2, <2>1, <2>3
<1> QED
  BY <1>4, <1>5 DEF v, w

LEMMA JumpedIs ==
  ASSUME IsDecomposed(ha), par.clockCount \in Nat, NEW i \in Instant, NEW t \in DOMAIN ha.transition
  PROVE  /\ Jumped(i, t) \in Instant
         /\ Jumped(i, t).x0 = i.x0 /\ Jumped(i, t).clock = i.clock
         /\ Jumped(i, t).x = [s \in Subspace |-> ha.transition[t].reset[s][i.x[s]]]
<1> DEFINE x == [s \in Subspace |-> ha.transition[t].reset[s][i.x[s]]]
<1>1. i.x \in Product /\ i.x0 \in NoDependencies(ha) /\ i.clock \in [0..par.clockCount - 1 -> Nat]
  BY InstantIs
<1>2. x \in Product
  <2>1. \A s \in Subspace : i.x[s] \in Value
    BY <1>1 DEF Product
  <2>2. \A s \in Subspace : ha.transition[t].reset[s][i.x[s]] \in Value
    BY <2>1, AutomatonIs
  <2> QED
    BY <2>2 DEF Product
<1>3. Jumped(i, t) = [x |-> x, x0 |-> i.x0, clock |-> i.clock]
  BY DEF Jumped
<1> HIDE DEF x
<1>4. Jumped(i, t) \in Instant
  BY <1>1, <1>2, <1>3, IsInstant
<1> QED
  BY <1>3, <1>4 DEF x

LEMMA JumpedIsImage ==
  ASSUME IsDecomposed(ha), par.clockCount \in Nat, NEW i \in Instant, NEW t \in DOMAIN ha.transition,
         CanTake(i, t), NEW s \in Subspace, NEW S, ValuationOf(i, s) \in S
  PROVE  /\ ValuationOf(i, s) \in Satisfying(S, ha.transition[t].guard[s])
         /\ ValuationOf(Jumped(i, t), s) \in JumpImage(t, s, S)
<1> DEFINE v == ValuationOf(i, s)
           w == ValuationOf(Jumped(i, t), s)
           C == par.clockCount
           G == Satisfying(S, ha.transition[t].guard[s])
<1>1. /\ v = [x |-> v.x, x0 |-> v.x0, clock |-> v.clock] /\ v.x = i.x[s]
      /\ s \in Clocked(ha) => v.clock = i.clock
      /\ s \in Clocked(ha) /\ C > 0 => v.x0 = i.x0[s]
  BY ValuationOfIs
<1>2. /\ Jumped(i, t).x0 = i.x0 /\ Jumped(i, t).clock = i.clock
      /\ Jumped(i, t).x[s] = ha.transition[t].reset[s][i.x[s]]
  <2>1. /\ Jumped(i, t).x0 = i.x0 /\ Jumped(i, t).clock = i.clock
        /\ Jumped(i, t).x = [r \in Subspace |-> ha.transition[t].reset[r][i.x[r]]]
    BY JumpedIs
  <2> QED
    BY <2>1
<1>3. v \in G
  <2>1. v.x \in ha.transition[t].guard[s]
    BY <1>1 DEF CanTake
  <2> QED
    BY <2>1, SatisfyingIsPart
<1>4. w = [x |-> ha.transition[t].reset[s][v.x], x0 |-> v.x0, clock |-> v.clock]
  <2>1. CASE s \in Clocked(ha) /\ C > 0
    <3>1. w = [x |-> Jumped(i, t).x[s], x0 |-> Jumped(i, t).x0[s], clock |-> Jumped(i, t).clock]
      BY <2>1 DEF ValuationOf
    <3> HIDE DEF v, w
    <3> QED
      BY <1>1, <1>2, <2>1, <3>1
  <2>2. CASE ~(s \in Clocked(ha) /\ C > 0)
    <3>1. w = AddClocksAndInitial(Jumped(i, t).x[s], 0) /\ v = AddClocksAndInitial(i.x[s], 0)
      BY <2>2 DEF ValuationOf
    <3> HIDE DEF v, w
    <3> QED
      BY <1>1, <1>2, <3>1 DEF AddClocksAndInitial
  <2> QED
    BY <2>1, <2>2
<1> HIDE DEF v, w, G
<1>5. [v EXCEPT !.x = ha.transition[t].reset[s][@]] = w
  BY <1>1, <1>4
<1>6. w \in ApplyReset(ha, s, t, G)
  BY <1>3, <1>5 DEF ApplyReset
<1>7. w.x \in ha.invariant[ha.transition[t].target][s]
  <2>1. w.x = Jumped(i, t).x[s]
    BY <1>1, <1>2, <1>4
  <2> QED
    BY <2>1 DEF CanTake, MeetsInvariant
<1>8. w \in Satisfying(ApplyReset(ha, s, t, G), ha.invariant[ha.transition[t].target][s])
  BY <1>6, <1>7, SatisfyingIsPart
<1> QED
  BY <1>3, <1>8 DEF v, w, G, JumpImage
--------------------------------------------------------------------------
(* Stays in a node.                                                       *)
LEMMA EarlierDepths ==
  ASSUME NEW h \in Nat, NEW a \in Nat, NEW b \in Nat, a <= b, NEW k \in 0..h
  PROVE  a * h + k \in Nat /\ a * h + k <= (a + 1) * h /\ (a + 1) * h \in Nat /\ a * h + k <= (b + 1) * h
<1>1. PICK d \in Nat : b = a + d
  <2>1. b - a \in Nat /\ b = a + (b - a)
    OBVIOUS
  <2> QED
    BY <2>1
<1>2. a * h \in Nat /\ d * h \in Nat
  OBVIOUS
<1>3. (a + 1) * h = a * h + h
  OBVIOUS
<1>4. (b + 1) * h = (a * h + d * h) + h
  BY <1>1
<1> QED
  BY <1>2, <1>3, <1>4

LEMMA StayIs ==
  ASSUME TypeInv, NEW n \in DOMAIN nodes, NEW steps, NEW g, IsStay(g, steps, n)
  PROVE  /\ steps \in Nat /\ steps <= par.horizon
         /\ \A k \in 0..steps :
              /\ g[k] \in Instant
              /\ g[k].x0 \in nodes[n].dependencies
              /\ ClocksAtMost(g[k], nodes[n].depth * par.horizon + k)
              /\ IsStay(g, k, n)
              /\ \A s \in Discrete : ValuationOf(g[k], s) = ValuationOf(g[0], s)
<1> DEFINE l == nodes[n].location
           d == nodes[n].depth * par.horizon
           C == par.clockCount
<1>1. /\ steps \in 0..par.horizon /\ IsEntry(g[0], n)
      /\ \A k \in 0..steps : MeetsInvariant(g[k], l)
      /\ \A k \in 1..steps : g[k] = Elapsed(g[k - 1], l)
  BY DEF IsStay
<1>2. IsDecomposed(ha) /\ C \in Nat /\ par.horizon \in Nat /\ l \in Location /\ nodes[n].depth \in Nat
  BY SettingsAre, NodeIs DEF TypeInv
<1>3. steps \in Nat /\ steps <= par.horizon
  BY <1>1, <1>2
<1>4. d \in Nat
  BY <1>2
<1> HIDE DEF l, d
<1> DEFINE Fits(k) == /\ g[k] \in Instant
                      /\ g[k].x0 \in nodes[n].dependencies
                      /\ ClocksAtMost(g[k], d + k)
                      /\ \A s \in Discrete : ValuationOf(g[k], s) = ValuationOf(g[0], s)
           T == {k \in 0..steps : Fits(k)}
<1>5. 0 \in T
  <2>1. g[0] \in Instant /\ g[0].x0 \in nodes[n].dependencies /\ ClocksAtMost(g[0], d + 0)
    BY <1>1, <1>4 DEF IsEntry, d
  <2> QED
    BY <1>3, <2>1
<1>6. ASSUME NEW k \in 0..steps - 1, k \in T PROVE k + 1 \in T
  <2>1. k + 1 \in 1..steps /\ k + 1 \in 0..steps /\ (k + 1) - 1 = k
    BY <1>3
  <2>2. g[k + 1] = Elapsed(g[k], l)
    BY <1>1, <2>1 DEF l
  <2>3. Fits(k)
    BY <1>6
  <2>4. /\ g[k + 1] \in Instant /\ g[k + 1].x0 = g[k].x0
        /\ g[k + 1].clock = [c \in 0..C - 1 |-> g[k].clock[c] + 1]
    <3>1. g[k] \in Instant
      BY <2>3
    <3>2. /\ Elapsed(g[k], l) \in Instant /\ Elapsed(g[k], l).x0 = g[k].x0
          /\ Elapsed(g[k], l).clock = [c \in 0..C - 1 |-> g[k].clock[c] + 1]
      BY <1>2, <3>1, ElapsedIs
    <3> QED
      BY <2>2, <3>2
  <2>5. ClocksAtMost(g[k + 1], d + (k + 1))
    <3>1. g[k].clock \in [0..C - 1 -> Nat] /\ \A c \in 0..C - 1 : g[k].clock[c] <= d + k
      BY <2>3, InstantIs DEF ClocksAtMost
    <3>2. \A c \in 0..C - 1 : g[k].clock[c] \in Nat /\ g[k + 1].clock[c] = g[k].clock[c] + 1
      BY <2>4, <3>1
    <3>3. \A c \in 0..C - 1 : g[k + 1].clock[c] <= d + (k + 1)
      <4>1. k \in Int
        OBVIOUS
      <4> QED
        BY <1>4, <3>1, <3>2, <4>1
    <3> QED
      BY <3>3 DEF ClocksAtMost
  <2>6. \A s \in Discrete : ValuationOf(g[k + 1], s) = ValuationOf(g[0], s)
    <3> TAKE s \in Discrete
    <3>1. s \in Subspace
      BY SubspaceSets
    <3>2. ValuationOf(g[k], s) \in {ValuationOf(g[k], s)}
      OBVIOUS
    <3>3. ValuationOf(Elapsed(g[k], l), s) = ValuationOf(g[k], s)
      BY <1>2, <2>3, <3>1, <3>2, ElapsedTicks
    <3> QED
      BY <2>2, <2>3, <3>3
  <2> QED
    BY <2>1, <2>3, <2>4, <2>5, <2>6
<1> HIDE DEF T
<1>7. 0..steps \subseteq T
  BY <1>3, <1>5, <1>6, InductionInInterval
<1>8. \A k \in 0..steps : Fits(k)
  BY <1>7 DEF T
<1>9. ASSUME NEW k \in 0..steps PROVE IsStay(g, k, n)
  <2>1. k \in 0..par.horizon /\ 0..k \subseteq 0..steps /\ 1..k \subseteq 1..steps
    BY <1>2, <1>3
  <2> QED
    BY <1>1, <2>1 DEF IsStay, l
<1> QED
  BY <1>3, <1>8, <1>9 DEF d

(* The clocks of a stay are within mGlobalTimeInterval.                   *)
LEMMA StayIsInTime ==
  ASSUME TypeInv, NEW n \in DOMAIN nodes, NEW steps, NEW g, IsStay(g, steps, n)
  PROVE  /\ \A k \in 0..par.clockCount - 1 : <<k, g[steps].clock[k]>> \in GlobalTime(par)
         /\ ClocksAtMost(g[steps], (nodes[n].depth + 1) * par.horizon)
<1>1. /\ steps \in 0..par.horizon /\ g[steps] \in Instant
      /\ ClocksAtMost(g[steps], nodes[n].depth * par.horizon + steps)
  <2>1. steps \in Nat /\ steps <= par.horizon
    BY StayIs
  <2>2. steps \in 0..steps
    BY <2>1
  <2> QED
    BY <2>1, <2>2, StayIs, SettingsAre DEF TypeInv
<1>2. /\ par.horizon \in Nat /\ par.jumpDepth \in Nat /\ nodes[n].depth \in Nat
      /\ nodes[n].depth <= par.jumpDepth
      /\ GlobalTime(par) = (0..par.clockCount - 1) \X (0..LatestTime(par))
  BY SettingsAre, NodeIs DEF TypeInv, ControlInv
<1> DEFINE a == nodes[n].depth * par.horizon + steps
           b == (nodes[n].depth + 1) * par.horizon
<1>3. a \in Nat /\ b \in Nat /\ a <= b /\ a <= LatestTime(par)
  BY <1>1, <1>2, EarlierDepths DEF LatestTime
<1>4. LatestTime(par) \in Nat
  BY SettingsAre DEF TypeInv
<1>5. \A k \in 0..par.clockCount - 1 : g[steps].clock[k] \in Nat /\ g[steps].clock[k] <= a
  BY <1>1, InstantIs DEF ClocksAtMost
<1> HIDE DEF a, b
<1>6. \A k \in 0..par.clockCount - 1 : g[steps].clock[k] \in 0..LatestTime(par) /\ g[steps].clock[k] <= b
  BY <1>3, <1>4, <1>5
<1> QED
  BY <1>2, <1>6 DEF ClocksAtMost, b
--------------------------------------------------------------------------
(* The flowpipes cover the stays.                                         *)
LEMMA SingularCovers ==
  ASSUME TypeInv, NEW n \in DOMAIN nodes, NEW steps, NEW g, IsStay(g, steps, n), NEW s \in Subspace
  PROVE  LET fp == SingularFlowpipe(ha, s, nodes[n].location, nodes[n].sets[s], par.horizon)
         IN  fp # << >> /\ 1 \in DOMAIN fp /\ ValuationOf(g[steps], s) \in fp[1]
<1> DEFINE l == nodes[n].location
           S0 == nodes[n].sets[s]
           inv == ha.invariant[l][s]
           fp == SingularFlowpipe(ha, s, l, S0, par.horizon)
           v(k) == ValuationOf(g[k], s)
<1>1. /\ steps \in Nat /\ steps <= par.horizon
      /\ \A k \in 0..steps : g[k] \in Instant
  BY StayIs
<1>2. IsDecomposed(ha) /\ par.clockCount \in Nat /\ par.horizon \in Nat /\ l \in Location
  BY SettingsAre, NodeIs DEF TypeInv
<1>3. /\ v(0) \in S0
      /\ \A k \in 1..steps : g[k] = Elapsed(g[k - 1], l)
      /\ \A k \in 0..steps : g[k].x[s] \in inv
  BY DEF IsStay, IsEntry, IsIn, MeetsInvariant
<1>4. \A k \in 0..steps : v(k).x \in inv
  BY <1>1, <1>2, <1>3, ValuationOfIs
<1>5. v(0) \in Satisfying(S0, inv)
  BY <1>1, <1>3, <1>4, SatisfyingIsPart
<1> HIDE DEF l, S0, inv
<1>6. PICK after : IsFlowpipeOf(ha, s, l, S0, par.horizon, after)
  <2>1. Satisfying(S0, ha.invariant[l][s]) # {}
    BY <1>5 DEF inv
  <2> QED
    BY <1>2, <2>1, SingularFlowpipeIs
<1>7. /\ after[0] = Satisfying(S0, inv)
      /\ \A k \in 1..par.horizon : after[k] = Tick(ha, s, l, after[k - 1])
      /\ fp = <<Satisfying(UNION {after[k] : k \in 0..par.horizon}, inv)>>
  BY <1>6 DEF IsFlowpipeOf, AreAfter, inv
<1> DEFINE T == {k \in 0..steps : v(k) \in after[k]}
<1>8. 0 \in T
  BY <1>1, <1>5, <1>7
<1>9. ASSUME NEW k \in 0..steps - 1, k \in T PROVE k + 1 \in T
  <2>1. k + 1 \in 1..steps /\ k + 1 \in 0..steps /\ k + 1 \in 1..par.horizon /\ (k + 1) - 1 = k /\ k \in 0..steps
    BY <1>1, <1>2
  <2>2. g[k + 1] = Elapsed(g[k], l) /\ after[k + 1] = Tick(ha, s, l, after[k])
    BY <1>3, <1>7, <2>1
  <2>3. v(k) \in after[k] /\ g[k] \in Instant
    BY <1>1, <1>9, <2>1
  <2>4. ValuationOf(Elapsed(g[k], l), s) \in Tick(ha, s, l, after[k])
    BY <1>2, <2>3, ElapsedTicks
  <2> QED
    BY <2>1, <2>2, <2>4
<1> HIDE DEF T
<1>10. 0..steps \subseteq T
  BY <1>1, <1>8, <1>9, InductionInInterval
<1>11. v(steps) \in after[steps] /\ steps \in 0..par.horizon /\ steps \in 0..steps
  <2>1. steps \in 0..par.horizon /\ steps \in 0..steps
    BY <1>1, <1>2
  <2> QED
    BY <1>10, <2>1 DEF T
<1>12. v(steps) \in Satisfying(UNION {after[k] : k \in 0..par.horizon}, inv)
  <2>1. v(steps) \in UNION {after[k] : k \in 0..par.horizon}
    BY <1>11
  <2> QED
    BY <1>4, <1>11, <2>1, SatisfyingIsPart
<1> HIDE DEF fp, v
<1>13. fp # << >> /\ 1 \in DOMAIN fp /\ v(steps) \in fp[1]
  BY <1>7, <1>12
<1> QED
  BY <1>13 DEF fp, v, l, S0

LEMMA SegmentedCovers ==
  ASSUME TypeInv, NEW n \in DOMAIN nodes, NEW steps, NEW g, IsStay(g, steps, n), NEW s \in Subspace,
         NEW count \in Nat, steps + 1 <= count
  PROVE  LET fp == SegmentedFlowpipe(ha, s, nodes[n].location, nodes[n].sets[s], count)
         IN  steps + 1 \in DOMAIN fp /\ steps + 1 <= Len(fp) /\ ValuationOf(g[steps], s) \in fp[steps + 1]
<1> DEFINE l == nodes[n].location
           S0 == nodes[n].sets[s]
           inv == ha.invariant[l][s]
           fp == SegmentedFlowpipe(ha, s, l, S0, count)
           v(k) == ValuationOf(g[k], s)
<1>1. /\ steps \in Nat
      /\ \A k \in 0..steps : g[k] \in Instant
  BY StayIs
<1>2. IsDecomposed(ha) /\ par.clockCount \in Nat /\ l \in Location
  BY SettingsAre, NodeIs DEF TypeInv
<1>c. count # 0
  BY <1>1
<1>3. /\ v(0) \in S0
      /\ \A k \in 1..steps : g[k] = Elapsed(g[k - 1], l)
      /\ \A k \in 0..steps : g[k].x[s] \in inv
  BY DEF IsStay, IsEntry, IsIn, MeetsInvariant
<1>4. \A k \in 0..steps : v(k).x \in inv
  BY <1>1, <1>2, <1>3, ValuationOfIs
<1> HIDE DEF l, S0, inv, fp
<1>5. PICK segment : AreSegments(ha, s, l, S0, count, segment) /\ AreLeading(fp, segment, count)
  BY <1>2, <1>c, SegmentedFlowpipeIs DEF fp
<1>6. /\ segment[1] = Satisfying(S0 \cup Tick(ha, s, l, S0), inv)
      /\ \A k \in 2..count : segment[k] = Satisfying(Tick(ha, s, l, segment[k - 1]), inv)
  BY <1>5 DEF AreSegments, inv
<1> DEFINE T == {k \in 0..steps : v(k) \in segment[k + 1]}
<1>7. 0 \in T
  <2>1. v(0) \in S0 \cup Tick(ha, s, l, S0) /\ v(0).x \in inv
    BY <1>1, <1>3, <1>4
  <2>2. v(0) \in segment[1]
    BY <1>6, <2>1, SatisfyingIsPart
  <2> QED
    BY <1>1, <2>2
<1>8. ASSUME NEW k \in 0..steps - 1, k \in T PROVE k + 1 \in T
  <2>1. k + 1 \in 1..steps /\ k + 1 \in 0..steps /\ (k + 1) + 1 \in 2..count /\ (k + 1) - 1 = k /\ k \in 0..steps
        /\ ((k + 1) + 1) - 1 = k + 1
    BY <1>1
  <2>2. g[k + 1] = Elapsed(g[k], l) /\ segment[(k + 1) + 1] = Satisfying(Tick(ha, s, l, segment[k + 1]), inv)
    BY <1>3, <1>6, <2>1
  <2>3. v(k) \in segment[k + 1] /\ g[k] \in Instant
    BY <1>1, <1>8, <2>1
  <2>4. ValuationOf(Elapsed(g[k], l), s) \in Tick(ha, s, l, segment[k + 1])
    BY <1>2, <2>3, ElapsedTicks
  <2>5. v(k + 1) \in Satisfying(Tick(ha, s, l, segment[k + 1]), inv)
    BY <1>4, <2>1, <2>2, <2>4, SatisfyingIsPart
  <2> QED
    BY <2>1, <2>2, <2>5
<1> HIDE DEF T
<1>9. 0..steps \subseteq T
  BY <1>1, <1>7, <1>8, InductionInInterval
<1>10. \A k \in 0..steps : v(k) \in segment[k + 1]
  BY <1>9 DEF T
<1>11. \A k \in 2..steps + 1 : segment[k] # {}
  <2> TAKE k \in 2..steps + 1
  <2>1. k - 1 \in 0..steps /\ (k - 1) + 1 = k
    BY <1>1
  <2>2. v(k - 1) \in segment[(k - 1) + 1]
    BY <1>10, <2>1
  <2> QED
    BY <2>1, <2>2
<1> HIDE DEF v
<1>12. /\ steps + 1 <= Len(fp) /\ Len(fp) \in 1..count /\ DOMAIN fp = 1..Len(fp)
       /\ \A k \in 1..Len(fp) : fp[k] = segment[k]
  <2>1. steps + 1 \in 1..count
    BY <1>1
  <2>2. /\ Len(fp) \in 1..count /\ DOMAIN fp = 1..Len(fp) /\ fp = [k \in 1..Len(fp) |-> segment[k]]
        /\ \A m \in 1..count : (\A k \in 2..m : segment[k] # {}) => m <= Len(fp)
    BY <1>5 DEF AreLeading
  <2>3. steps + 1 <= Len(fp)
    BY <1>11, <2>1, <2>2
  <2>4. \A k \in 1..Len(fp) : fp[k] = segment[k]
    BY <2>2
  <2> QED
    BY <2>2, <2>3, <2>4
<1>13. steps + 1 \in DOMAIN fp /\ v(steps) \in fp[steps + 1]
  <2>1. steps + 1 \in 1..Len(fp) /\ steps \in 0..steps
    BY <1>1, <1>12
  <2> QED
    BY <1>10, <1>12, <2>1
<1> QED
  BY <1>12, <1>13 DEF fp, v, l, S0

LEMMA HorizonCovers ==
  ASSUME TypeInv, task \in EntryType, NEW steps, NEW g, IsStay(g, steps, task.node)
  PROVE  \A s \in 0..Cardinality(Subspace) : steps + 1 <= SegmentHorizon[s]
<1> DEFINE n == Cardinality(Subspace)
           T == {s \in 0..n : steps + 1 <= SegmentHorizon[s]}
<1>1. n \in Nat /\ Subspace = 1..n
  BY SubspaceAssumption, FS_CardinalityType
<1>2. task.node \in DOMAIN nodes /\ TypeOK
  BY DEF EntryType, TypeInv
<1>3. steps \in Nat /\ steps <= par.horizon
  BY <1>2, StayIs
<1>4. NumSegments(par) = par.horizon + 1 /\ par.horizon \in Nat
  BY <1>2, SettingsAre
<1>5. \A s \in 0..n : SegmentHorizon[s] \in 1..NumSegments(par)
  BY <1>2, SegmentHorizonIsTyped
<1> HIDE DEF n
<1>6. 0 \in T
  BY <1>1, <1>3, <1>4, SegmentHorizonIs
<1>7. ASSUME NEW s \in 0..n - 1, s \in T PROVE s + 1 \in T
  <2>1. s + 1 \in Subspace /\ s + 1 \in 0..n /\ (s + 1) - 1 = s /\ s \in 0..n
    BY <1>1
  <2>2. CASE s + 1 \notin Segmented
    BY <1>7, <2>1, <2>2, SegmentHorizonIs
  <2>3. CASE s + 1 \in Segmented
    <3>1. SegmentHorizon[s + 1] =
            Len(SegmentedFlowpipe(ha, s + 1, current.location, current.sets[s + 1], SegmentHorizon[s]))
      BY <2>1, <2>3, SegmentHorizonIs
    <3>2. SegmentHorizon[s] \in Nat /\ steps + 1 <= SegmentHorizon[s]
      BY <1>4, <1>5, <1>7, <2>1
    <3>3. steps + 1 <= Len(SegmentedFlowpipe(ha, s + 1, nodes[task.node].location, nodes[task.node].sets[s + 1], SegmentHorizon[s]))
      BY <1>2, <2>1, <3>2, SegmentedCovers
    <3> QED
      BY <2>1, <3>1, <3>3 DEF current
  <2> QED
    BY <2>2, <2>3
<1> HIDE DEF T
<1>8. 0..n \subseteq T
  BY <1>1, <1>6, <1>7, InductionInInterval
<1> QED
  BY <1>8 DEF T, n

LEMMA TimeCovers ==
  ASSUME TypeInv, ComputeTimeSuccessors, NEW steps, NEW g, IsStay(g, steps, task.node)
  PROVE  /\ \A s \in Subspace : Holds(flowpipe', s, steps, g[steps])
         /\ \A s \in Singular : Holds(workerFlowpipe', s, steps, g[steps])
<1> DEFINE l == current.location
           Pipe(s) == SegmentedFlowpipe(ha, s, l, current.sets[s], SegmentHorizon[s - 1])
           Single(s) == SingularFlowpipe(ha, s, l, current.sets[s], par.horizon)
           v(s) == ValuationOf(g[steps], s)
<1>1. task \in EntryType /\ TypeOK
  BY DEF TypeInv, ControlInv, Busy, ComputeTimeSuccessors
<1>2. task.node \in DOMAIN nodes
  BY <1>1 DEF EntryType
<1>3. /\ steps \in Nat /\ \A k \in 0..steps : g[k] \in Instant
      /\ \A s \in Discrete : v(s) = ValuationOf(g[0], s)
  <2>1. steps \in Nat
    BY <1>2, StayIs
  <2>2. steps \in 0..steps
    BY <2>1
  <2> QED
    BY <1>2, <2>1, <2>2, StayIs
<1>4. IsDecomposed(ha) /\ par.clockCount \in Nat /\ par.horizon \in Nat
  BY <1>1, SettingsAre
<1>5. workerFlowpipe' = [s \in Subspace |-> IF s \in Singular THEN Single(s) ELSE << >>]
  BY DEF ComputeTimeSuccessors
<1>6. flowpipe' = [s \in Subspace |->
        IF s \in Discrete THEN DiscreteFlowpipe(ha, s, l, current.sets[s])
        ELSE IF s \in Singular THEN workerFlowpipe'[s] ELSE Pipe(s)]
  BY DEF ComputeTimeSuccessors
<1>7. ASSUME NEW s \in Singular
      PROVE  Holds(flowpipe', s, steps, g[steps]) /\ Holds(workerFlowpipe', s, steps, g[steps])
  <2>1. s \in Subspace /\ s \notin Discrete /\ s \notin Segmented
    BY <1>4, <1>7, SubspaceSets, Subspaces
  <2>2. 1 \in DOMAIN Single(s) /\ v(s) \in Single(s)[1]
    BY <1>2, <2>1, SingularCovers DEF current
  <2> HIDE DEF Single
  <2>3. workerFlowpipe'[s] = Single(s) /\ flowpipe'[s] = Single(s)
    BY <1>5, <1>6, <2>1
  <2> QED
    BY <2>1, <2>2, <2>3 DEF Holds, SegmentAt
<1>8. ASSUME NEW s \in Segmented
      PROVE  Holds(flowpipe', s, steps, g[steps])
  <2>1. s \in Subspace /\ s \notin Discrete /\ s \notin Singular
    BY <1>4, <1>8, SubspaceSets, Subspaces
  <2>2. s - 1 \in 0..Cardinality(Subspace)
    BY <2>1, SubspaceAssumption, FS_CardinalityType
  <2>3. steps + 1 <= SegmentHorizon[s - 1] /\ SegmentHorizon[s - 1] \in 1..NumSegments(par)
    BY <1>1, <2>2, HorizonCovers, SegmentHorizonIsTyped
  <2>4. SegmentHorizon[s - 1] \in Nat
    BY <2>3
  <2>5. steps + 1 \in DOMAIN Pipe(s) /\ v(s) \in Pipe(s)[steps + 1]
    BY <1>2, <2>1, <2>3, <2>4, SegmentedCovers DEF current
  <2> HIDE DEF Pipe
  <2>6. flowpipe'[s] = Pipe(s)
    BY <1>6, <2>1
  <2> QED
    BY <1>8, <2>5, <2>6 DEF Holds, SegmentAt
<1>9. ASSUME NEW s \in Discrete
      PROVE  Holds(flowpipe', s, steps, g[steps])
  <2>1. s \in Subspace /\ s \notin Segmented
    BY <1>4, <1>9, SubspaceSets, Subspaces
  <2>2. ValuationOf(g[0], s) \in current.sets[s] /\ g[0].x[s] \in ha.invariant[l][s]
    <3>1. 0 \in 0..steps
      BY <1>3
    <3> QED
      BY <2>1, <3>1 DEF IsStay, IsEntry, IsIn, MeetsInvariant, current
  <2>3. ValuationOf(g[0], s).x = g[0].x[s]
    <3>1. g[0] \in Instant
      BY <1>3
    <3> QED
      BY <1>4, <2>1, <3>1, ValuationOfIs
  <2>4. v(s) \in Satisfying(current.sets[s], ha.invariant[l][s])
    BY <1>3, <1>9, <2>2, <2>3, SatisfyingIsPart
  <2>5. flowpipe'[s] = <<Satisfying(current.sets[s], ha.invariant[l][s])>>
    BY <1>6, <1>9, <2>1 DEF DiscreteFlowpipe
  <2> QED
    BY <2>1, <2>4, <2>5 DEF Holds, SegmentAt
<1> QED
  BY <1>4, <1>7, <1>8, <1>9, Subspaces

(* The segments that all segmented flowpipes have.                        *)
LEMMA MinSegmentsCover ==
  ASSUME TypeInv, NEW steps \in Nat, NEW i, \A s \in Subspace : Holds(flowpipe, s, steps, i)
  PROVE  Segmented # {} => steps + 1 <= MinSegments
<1>1. LatestTime(par) + NumSegments(par) \in Nat /\ flowpipe \in Flowpipes(LatestTime(par) + NumSegments(par))
  BY FlowpipesAtHand DEF TypeInv, TypeOK
<1>2. ASSUME NEW s \in Segmented PROVE steps + 1 <= Len(flowpipe[s])
  <2>1. s \in Subspace
    BY SubspaceSets
  <2>2. steps + 1 \in DOMAIN flowpipe[s]
    BY <2>1 DEF Holds, SegmentAt
  <2>3. DOMAIN flowpipe[s] = 1..Len(flowpipe[s]) /\ Len(flowpipe[s]) \in Nat
    BY <1>1, <2>1, FlowpipeIs
  <2> QED
    BY <2>2, <2>3
<1>3. steps + 1 \in Int /\ steps + 1 >= 1
  OBVIOUS
<1> QED
  BY <1>1, <1>2, <1>3, MinSegmentsIs

(* Members of the sets of a clocked subspace have all clocks.             *)
LEMMA ClockedSetsAreTimed ==
  ASSUME IsDecomposed(ha), NEW s \in Clocked(ha), NEW latest, NEW S, S \subseteq Valuations(s, latest)
  PROVE  AreTimed(S, par.clockCount, latest)
<1>1. s \in Subspace /\ s \notin Discrete
  BY SubspaceSets DEF Clocked, Discrete
<1>2. Clocks(ha, s, par.clockCount) = par.clockCount
  BY <1>1, Subspaces
<1> QED
  BY <1>2, ValuationIs DEF Valuations, AreTimed

(* The clock times of an instant are those of its valuations.             *)
LEMMA InstantTimes ==
  ASSUME IsDecomposed(ha), par.clockCount \in Nat, NEW i \in Instant, NEW s \in Clocked(ha),
         NEW latest \in Nat, NEW S, S \subseteq Valuations(s, latest), ValuationOf(i, s) \in S
  PROVE  \A c \in 0..par.clockCount - 1 : <<c, i.clock[c]>> \in GetClockValues(S, par)
<1>1. AreTimed(S, par.clockCount, latest)
  BY ClockedSetsAreTimed
<1>2. ValuationOf(i, s).clock = i.clock
  BY SubspaceSets, ValuationOfIs
<1>3. \A c \in 0..par.clockCount - 1 : <<c, ValuationOf(i, s).clock[c]>> \in GetClockValues(S, par)
  BY <1>1, ClockValues
<1> QED
  BY <1>2, <1>3

LEMMA InstantIsAt ==
  ASSUME IsDecomposed(ha), par.clockCount \in Nat, NEW i \in Instant, NEW s \in Subspace, NEW time,
         \A c \in 0..par.clockCount - 1 : <<c, i.clock[c]>> \in time, NEW S, ValuationOf(i, s) \in S
  PROVE  ValuationOf(i, s) \in Cut(S, time)
<1>1. \A k \in DOMAIN ValuationOf(i, s).clock :
        k \in 0..par.clockCount - 1 /\ ValuationOf(i, s).clock[k] = i.clock[k]
  BY ValuationOfIs
<1>2. IsAt(ValuationOf(i, s).clock, time)
  BY <1>1 DEF IsAt
<1> QED
  BY <1>2, CutKeeps

LEMMA SatisfyingTimeCovers ==
  ASSUME TypeInv, TimesAreBracketed, pc = "clock", NEW i \in Instant, NEW steps \in Nat,
         \A s \in Subspace : Holds(flowpipe, s, steps, i),
         NEW s \in Clocked(ha), NEW c \in 0..par.clockCount - 1
  PROVE  <<c, i.clock[c]>> \in SatisfyingTime(s)
<1> DEFINE B == LatestTime(par) + NumSegments(par)
           at == SegmentAt(s, steps)
<1>1. IsDecomposed(ha) /\ par.clockCount \in Nat
  BY SettingsAre DEF TypeInv
<1>2. s \in Subspace /\ (s \in Singular \/ s \in Segmented) /\ ~(s \in Singular /\ s \in Segmented)
  BY <1>1, SubspaceSets, Subspaces DEF Clocked, Discrete
<1>3. /\ B \in Nat /\ flowpipe[s] \in Seq(SUBSET Valuations(s, B))
      /\ DOMAIN flowpipe[s] = 1..Len(flowpipe[s]) /\ Len(flowpipe[s]) \in Nat
  BY <1>2, FlowpipesAtHand DEF TypeInv
<1> HIDE DEF B
<1>4. at \in DOMAIN flowpipe[s] /\ ValuationOf(i, s) \in flowpipe[s][at]
  BY <1>2 DEF Holds
<1>5. \A k \in DOMAIN flowpipe[s] : flowpipe[s][k] \subseteq Valuations(s, B)
  BY <1>3
<1>6. <<c, i.clock[c]>> \in GetClockValues(flowpipe[s][at], par)
  BY <1>1, <1>3, <1>4, <1>5, InstantTimes
<1>7. CASE s \in Segmented
  <2>1. at = steps + 1 /\ steps + 1 <= MinSegments /\ MinSegments \in Nat
    BY <1>7, MinSegmentsCover, FlowpipesAtHand DEF SegmentAt, TypeInv
  <2>2. at \in 1..MinSegments
    BY <2>1
  <2> QED
    BY <1>6, <1>7, <2>2 DEF TimesAreBracketed
<1>8. CASE s \in Singular
  <2> DEFINE first == GetClockValues(flowpipe[s][1], par)
             last == GetClockValues(flowpipe[s][Len(flowpipe[s])], par)
  <2>1. at = 1 /\ 1 \in DOMAIN flowpipe[s] /\ Len(flowpipe[s]) \in DOMAIN flowpipe[s] /\ flowpipe[s] # << >>
    BY <1>2, <1>3, <1>4, <1>8 DEF SegmentAt
  <2>2. \A k \in DOMAIN flowpipe[s] : GetClockValues(flowpipe[s][k], par) \in SUBSET ((0..par.clockCount - 1) \X (0..B))
    BY <1>1, <1>3, <1>5, ClockedSetsAreTimed, ClockValues
  <2>3. first \in SUBSET ((0..par.clockCount - 1) \X (0..B)) /\ last \in SUBSET ((0..par.clockCount - 1) \X (0..B))
    BY <2>1, <2>2
  <2>4. <<c, i.clock[c]>> \in first
    BY <1>6, <2>1
  <2>5. SatisfyingTime(s) = UniteTime(first, last, par)
    BY <2>1 DEF SatisfyingTime
  <2> HIDE DEF first, last
  <2> QED
    BY <1>1, <1>3, <2>3, <2>4, <2>5, UniteTimeContains
<1> QED
  BY <1>2, <1>7, <1>8

LEMMA ClockCovers ==
  ASSUME TypeInv, TimesAreBracketed, IntersectSubspacesWithClock,
         NEW steps, NEW g, IsStay(g, steps, task.node),
         \A k \in 0..steps : \A s \in Subspace : Holds(flowpipe, s, k, g[k])
  PROVE  \A s \in Subspace : Holds(flowpipe', s, steps, g[steps])
<1> DEFINE B == LatestTime(par) + NumSegments(par)
           time == InvariantSatisfyingTime
<1>1. pc = "clock" /\ task \in EntryType /\ TypeOK
  BY DEF TypeInv, ControlInv, Busy, IntersectSubspacesWithClock
<1>2. task.node \in DOMAIN nodes /\ IsDecomposed(ha) /\ par.clockCount \in Nat
  BY <1>1, SettingsAre DEF EntryType
<1>3. steps \in Nat /\ \A k \in 0..steps : g[k] \in Instant /\ IsStay(g, k, task.node)
  BY <1>2, StayIs
<1>4. ASSUME NEW k \in 0..steps, NEW c \in 0..par.clockCount - 1
      PROVE  <<c, g[k].clock[c]>> \in time
  <2>1. k \in Nat /\ g[k] \in Instant /\ IsStay(g, k, task.node)
    BY <1>3
  <2>2. <<c, g[k].clock[c]>> \in GlobalTime(par)
    BY <1>2, <2>1, StayIsInTime
  <2>3. \A s \in Clocked(ha) : <<c, g[k].clock[c]>> \in SatisfyingTime(s)
    BY <1>1, <2>1, SatisfyingTimeCovers
  <2> QED
    BY <2>2, <2>3 DEF InvariantSatisfyingTime
<1>5. flowpipe' = [s \in Subspace |->
        IF s \in Discrete THEN flowpipe[s] ELSE IntersectFlowpipeWithClock(RemoveRedundantSegments(s), time)]
  BY DEF IntersectSubspacesWithClock
<1> HIDE DEF time
<1>6. ASSUME NEW s \in Subspace, NEW k \in 0..steps
      PROVE  SegmentAt(s, k) \in DOMAIN flowpipe[s] /\ ValuationOf(g[k], s) \in Cut(flowpipe[s][SegmentAt(s, k)], time)
  <2>1. SegmentAt(s, k) \in DOMAIN flowpipe[s] /\ ValuationOf(g[k], s) \in flowpipe[s][SegmentAt(s, k)]
    BY DEF Holds
  <2> QED
    BY <1>2, <1>3, <1>4, <2>1, InstantIsAt
<1>7. steps \in 0..steps
  BY <1>3
<1>8. ASSUME NEW s \in Subspace PROVE Holds(flowpipe', s, steps, g[steps])
  <2> DEFINE fp == RemoveRedundantSegments(s)
             at == SegmentAt(s, steps)
             V == Valuations(s, B)
  <2>1. CASE s \in Discrete
    <3>1. flowpipe'[s] = flowpipe[s]
      BY <1>5, <2>1
    <3>2. Holds(flowpipe, s, steps, g[steps])
      BY <1>7
    <3> QED
      BY <3>1, <3>2 DEF Holds
  <2>2. CASE s \notin Discrete
    <3>1. /\ flowpipe[s] \in Seq(SUBSET V) /\ MinSegments \in Nat
          /\ s \in Segmented => MinSegments <= Len(flowpipe[s])
          /\ DOMAIN flowpipe[s] = 1..Len(flowpipe[s]) /\ Len(flowpipe[s]) \in Nat
      BY <1>1, FlowpipesAtHand
    <3>2. at \in DOMAIN flowpipe[s] /\ (s \in Segmented => at = steps + 1 /\ steps + 1 <= MinSegments)
      <4>1. \A u \in Subspace : Holds(flowpipe, u, steps, g[steps])
        BY <1>7
      <4> QED
        BY <1>3, <1>6, <1>7, <4>1, MinSegmentsCover DEF SegmentAt
    <3> HIDE DEF V
    <3>3. /\ fp \in Seq(SUBSET V) /\ at \in DOMAIN fp
          /\ \A k \in DOMAIN fp : k \in DOMAIN flowpipe[s] /\ fp[k] = flowpipe[s][k]
      <4>1. CASE s \in Segmented
        <5>1. fp = SubSeq(flowpipe[s], 1, MinSegments)
          BY <4>1 DEF RemoveRedundantSegments
        <5>2. at \in 1..MinSegments /\ MinSegments \in Nat /\ MinSegments <= Len(flowpipe[s])
          BY <1>3, <3>1, <3>2, <4>1
        <5> HIDE DEF fp, at
        <5>3. /\ SubSeq(flowpipe[s], 1, MinSegments) \in Seq(SUBSET V)
              /\ DOMAIN SubSeq(flowpipe[s], 1, MinSegments) = 1..MinSegments
              /\ \A k \in 1..MinSegments : SubSeq(flowpipe[s], 1, MinSegments)[k] = flowpipe[s][k]
          BY <3>1, <5>2
        <5>4. \A k \in 1..MinSegments : k \in DOMAIN flowpipe[s]
          BY <3>1, <5>2
        <5> QED
          BY <5>1, <5>2, <5>3, <5>4
      <4>2. CASE s \notin Segmented
        BY <3>1, <3>2, <4>2 DEF RemoveRedundantSegments
      <4> QED
        BY <4>1, <4>2
    <3>4. \A k \in 1..at : Cut(fp[k], time) # {}
      <4> TAKE k \in 1..at
      <4>1. k - 1 \in 0..steps /\ SegmentAt(s, k - 1) = k
        BY <1>3 DEF SegmentAt
      <4>2. k \in DOMAIN flowpipe[s] /\ Cut(flowpipe[s][k], time) # {}
        BY <1>6, <4>1
      <4>3. k \in DOMAIN fp
        <5>1. DOMAIN fp = 1..Len(fp) /\ Len(fp) \in Nat
          BY <3>3
        <5> QED
          BY <3>3, <5>1
      <4> QED
        BY <3>3, <4>2, <4>3
    <3> DEFINE cut == IntersectFlowpipeWithClock(fp, time)
    <3>5. at \in DOMAIN cut /\ cut[at] = Cut(fp[at], time)
      <4>1. /\ \A k \in DOMAIN cut : cut[k] = Cut(fp[k], time)
            /\ \A m \in DOMAIN fp : (\A k \in 1..m : Cut(fp[k], time) # {}) => m \in DOMAIN cut
        <5>1. fp \in Seq(SUBSET V)
          BY <3>3
        <5> HIDE DEF fp
        <5>2. IsCut(cut, fp, time, V)
          BY <5>1, IntersectedIs
        <5> QED
          BY <5>2 DEF IsCut
      <4> QED
        BY <3>3, <3>4, <4>1
    <3>6. ValuationOf(g[steps], s) \in Cut(fp[at], time)
      BY <1>6, <1>7, <3>3
    <3>7. flowpipe'[s] = cut
      BY <1>5, <2>2
    <3> QED
      BY <3>5, <3>6, <3>7 DEF Holds
  <2> QED
    BY <2>1, <2>2
<1> QED
  BY <1>8
--------------------------------------------------------------------------
(* What isSafe finds.                                                     *)
IsCovered(i, steps) ==
  /\ i \in Instant /\ steps \in Nat
  /\ \A s \in Subspace : Holds(flowpipe, s, steps, i)
  /\ \A c \in 0..par.clockCount - 1 : <<c, i.clock[c]>> \in GlobalTime(par)

(* The segment of the segmented subspaces at that time.                   *)
CommonSegment(steps) == IF Segmented = {} THEN 1 ELSE steps + 1

LEMMA CommonSegmentIs ==
  ASSUME TypeInv, NEW i, NEW steps, IsCovered(i, steps)
  PROVE  /\ CommonSegment(steps) \in 1..MinSegments
         /\ \A s \in Segmented : SegmentAt(s, steps) = CommonSegment(steps)
<1>1. steps \in Nat /\ \A s \in Subspace : Holds(flowpipe, s, steps, i)
  BY DEF IsCovered
<1>2. MinSegments \in Nat /\ (Segmented # {} => steps + 1 <= MinSegments)
  BY <1>1, MinSegmentsCover, FlowpipesAtHand DEF TypeInv
<1>3. Segmented = {} => MinSegments = 1
  BY DEF MinSegments
<1> QED
  BY <1>1, <1>2, <1>3 DEF CommonSegment, SegmentAt

LEMMA CoveredSegment ==
  ASSUME TypeInv, NEW i, NEW steps, IsCovered(i, steps), NEW s \in Subspace
  PROVE  /\ SegmentAt(s, steps) \in DOMAIN flowpipe[s]
         /\ ValuationOf(i, s) \in flowpipe[s][SegmentAt(s, steps)]
         /\ flowpipe[s][SegmentAt(s, steps)] \subseteq Valuations(s, LatestTime(par) + NumSegments(par))
         /\ ValuationOf(i, s).x = i.x[s]
<1>1. i \in Instant /\ Holds(flowpipe, s, steps, i)
  BY DEF IsCovered
<1>2. SegmentAt(s, steps) \in DOMAIN flowpipe[s] /\ ValuationOf(i, s) \in flowpipe[s][SegmentAt(s, steps)]
  BY <1>1 DEF Holds
<1>3. flowpipe[s] \in Seq(SUBSET Valuations(s, LatestTime(par) + NumSegments(par)))
  BY FlowpipesAtHand DEF TypeInv
<1>4. ValuationOf(i, s).x = i.x[s]
  BY <1>1, SettingsAre, ValuationOfIs DEF TypeInv
<1> QED
  BY <1>2, <1>3, <1>4

LEMMA BadTimeCovers ==
  ASSUME TypeInv, NEW i, NEW steps, IsCovered(i, steps),
         NEW bad, \A s \in Subspace : i.x[s] \in bad[s]
  PROVE  /\ \A s \in Discrete \cup Singular : ValuationOf(i, s) \in BadSet(bad, s)
         /\ \A s \in 0..Cardinality(Subspace) : \A c \in 0..par.clockCount - 1 :
              <<c, i.clock[c]>> \in BadTime(bad)[s]
<1> DEFINE n == Cardinality(Subspace)
           B == LatestTime(par) + NumSegments(par)
           T == {s \in 0..n : \A c \in 0..par.clockCount - 1 : <<c, i.clock[c]>> \in BadTime(bad)[s]}
<1>1. n \in Nat /\ Subspace = 1..n
  BY SubspaceAssumption, FS_CardinalityType
<1>2. IsDecomposed(ha) /\ par.clockCount \in Nat /\ B \in Nat
  BY SettingsAre, FlowpipesAtHand DEF TypeInv
<1> HIDE DEF n, B
<1>3. i \in Instant /\ \A c \in 0..par.clockCount - 1 : <<c, i.clock[c]>> \in GlobalTime(par)
  BY DEF IsCovered
<1>4. ASSUME NEW s \in Discrete \cup Singular
      PROVE  ValuationOf(i, s) \in BadSet(bad, s) /\ BadSet(bad, s) \subseteq Valuations(s, B)
  <2>1. s \in Subspace /\ s \notin Segmented
    BY <1>2, SubspaceSets, Subspaces
  <2>2. SegmentAt(s, steps) = 1
    BY <2>1 DEF SegmentAt
  <2>3. ValuationOf(i, s) \in flowpipe[s][1] /\ flowpipe[s][1] \subseteq Valuations(s, B) /\ ValuationOf(i, s).x \in bad[s]
    BY <2>1, <2>2, CoveredSegment DEF B
  <2> QED
    BY <2>3, SatisfyingIsPart DEF BadSet
<1>5. 0 \in T
  BY <1>1, <1>3, BadTimeIs
<1>6. ASSUME NEW s \in 0..n - 1, s \in T PROVE s + 1 \in T
  <2>1. s + 1 \in Subspace /\ s + 1 \in 0..n /\ (s + 1) - 1 = s
    BY <1>1
  <2>2. CASE s + 1 \notin Singular
    BY <1>6, <2>1, <2>2, BadTimeIs
  <2>3. CASE s + 1 \in Singular
    <3> DEFINE S == Cut(BadSet(bad, s + 1), BadTime(bad)[s])
    <3>1. BadTime(bad)[s + 1] = BadTime(bad)[s] \cap GetClockValues(S, par)
      <4>1. BadTime(bad)[s + 1] =
              BadTime(bad)[(s + 1) - 1]
                \cap GetClockValues(Cut(BadSet(bad, s + 1), BadTime(bad)[(s + 1) - 1]), par)
        BY <2>1, <2>3, BadTimeIs
      <4> QED
        BY <2>1, <4>1
    <3>2. \A c \in 0..par.clockCount - 1 : <<c, i.clock[c]>> \in BadTime(bad)[s]
      BY <1>6
    <3>3. ValuationOf(i, s + 1) \in BadSet(bad, s + 1) /\ BadSet(bad, s + 1) \subseteq Valuations(s + 1, B)
      BY <1>4, <2>3
    <3>4. ValuationOf(i, s + 1) \in S
      BY <1>2, <1>3, <2>1, <3>2, <3>3, InstantIsAt
    <3>5. S \subseteq Valuations(s + 1, B)
      BY <3>3, CutIsPart
    <3>6. s + 1 \in Clocked(ha)
      BY <1>2, <2>1, <2>3, Subspaces
    <3> HIDE DEF S
    <3>7. \A c \in 0..par.clockCount - 1 : <<c, i.clock[c]>> \in GetClockValues(S, par)
      BY <1>2, <1>3, <3>4, <3>5, <3>6, InstantTimes
    <3> QED
      BY <2>1, <3>1, <3>2, <3>7
  <2> QED
    BY <2>2, <2>3
<1> HIDE DEF T
<1>7. 0..n \subseteq T
  BY <1>1, <1>5, <1>6, InductionInInterval
<1> QED
  BY <1>4, <1>7 DEF T, n

(* The valuations of an instant belong together.                          *)
LEMMA InstantIsComposed ==
  ASSUME IsDecomposed(ha), par.clockCount \in Nat, par.clockCount > 0, NEW i \in Instant,
         NEW sets, \A s \in Clocked(ha) : ValuationOf(i, s) \in sets[s], NEW deps, i.x0 \in deps
  PROVE  [s \in Clocked(ha) |-> ValuationOf(i, s)] \in ComposeSubspaces(ha, sets, deps)
<1> DEFINE f == [s \in Clocked(ha) |-> ValuationOf(i, s)]
<1>1. \A s \in Clocked(ha) : /\ f[s] = ValuationOf(i, s) /\ f[s] \in sets[s] /\ s \in Subspace
                             /\ ValuationOf(i, s).clock = i.clock /\ ValuationOf(i, s).x0 = i.x0[s]
  BY SubspaceSets, ValuationOfIs
<1> HIDE DEF f
<1>2. f = [s \in Clocked(ha) |-> f[s]]
  BY DEF f
<1>3. f \in [Clocked(ha) -> UNION {sets[s] : s \in Clocked(ha)}]
  BY <1>1, <1>2
<1>4. [s \in Clocked(ha) |-> f[s].x0] = i.x0
  <2>1. i.x0 \in [Clocked(ha) -> Value]
    BY InstantIs DEF NoDependencies
  <2>2. \A s \in Clocked(ha) : f[s].x0 = i.x0[s]
    BY <1>1
  <2> QED
    BY <2>1, <2>2
<1>5. \A s, u \in Clocked(ha) : f[s].clock = f[u].clock
  BY <1>1
<1> QED
  BY <1>1, <1>3, <1>4, <1>5 DEF ComposeSubspaces, f

LEMMA BadInstantIsFound ==
  ASSUME TypeInv, NEW i, NEW steps, IsCovered(i, steps), i.x0 \in dependencies,
         NEW bad, \A s \in Subspace : i.x[s] \in bad[s]
  PROVE  ~IsSafe(bad)
<1> DEFINE n == Cardinality(Subspace)
           time == BadTime(bad)[n]
           k == CommonSegment(steps)
           C == par.clockCount
           sets == [s \in Clocked(ha) |-> BadSegment(bad, s, k)]
<1>1. n \in Nat /\ Subspace = 1..n
  BY SubspaceAssumption, FS_CardinalityType
<1>2. IsDecomposed(ha) /\ C \in Nat
  BY SettingsAre DEF TypeInv
<1>3. i \in Instant
  BY DEF IsCovered
<1>4. /\ \A s \in Discrete \cup Singular : ValuationOf(i, s) \in BadSet(bad, s)
      /\ \A s \in 0..n : \A c \in 0..C - 1 : <<c, i.clock[c]>> \in BadTime(bad)[s]
  BY BadTimeCovers
<1>5. \A c \in 0..C - 1 : <<c, i.clock[c]>> \in time
  BY <1>1, <1>4
<1>6. ASSUME NEW s \in Segmented
      PROVE  ValuationOf(i, s) \in Cut(Satisfying(flowpipe[s][k], bad[s]), time)
  <2>1. s \in Subspace /\ SegmentAt(s, steps) = k
    BY SubspaceSets, CommonSegmentIs
  <2>2. ValuationOf(i, s) \in Satisfying(flowpipe[s][k], bad[s])
    BY <2>1, CoveredSegment, SatisfyingIsPart
  <2> QED
    BY <1>2, <1>3, <1>5, <2>1, <2>2, InstantIsAt
<1>7. k \in 1..MinSegments
  BY CommonSegmentIs
<1>8. k \in CommonSegments(bad, time)
  BY <1>6, <1>7 DEF CommonSegments
<1>9. ~IsEmptyTime(time, par)
  <2> HIDE DEF time
  <2>1. ASSUME NEW c \in 0..C - 1 PROVE TimesOf(c, time) # {}
    <3>1. <<c, i.clock[c]>> \in time /\ <<c, i.clock[c]>>[1] = c
      BY <1>5
    <3> QED
      BY <3>1 DEF TimesOf
  <2> QED
    BY <2>1 DEF IsEmptyTime
<1>10. ASSUME NEW s \in Clocked(ha) PROVE ValuationOf(i, s) \in sets[s]
  <2>1. s \in Subspace /\ (s \in Singular \/ s \in Segmented)
    BY <1>2, SubspaceSets, Subspaces DEF Clocked, Discrete
  <2>2. CASE s \in Singular
    <3>1. s - 1 \in 0..n
      BY <1>1, <2>1
    <3>2. \A c \in 0..C - 1 : <<c, i.clock[c]>> \in BadTime(bad)[s - 1]
      BY <1>4, <3>1
    <3>3. ValuationOf(i, s) \in Cut(BadSet(bad, s), BadTime(bad)[s - 1])
      BY <1>2, <1>3, <1>4, <2>1, <2>2, <3>2, InstantIsAt
    <3> QED
      BY <2>2, <3>3 DEF BadSegment
  <2>3. CASE s \notin Singular
    BY <1>6, <2>1, <2>3 DEF BadSegment
  <2> QED
    BY <2>2, <2>3
<1>11. C > 0 => ComposeSubspaces(ha, sets, dependencies) # {}
  <2> HIDE DEF sets
  <2> QED
    BY <1>2, <1>3, <1>10, InstantIsComposed
<1>12. \A s \in Discrete \cup Singular : BadSet(bad, s) # {}
  BY <1>4
<1> HIDE DEF time, k
<1> QED
  BY <1>8, <1>9, <1>11, <1>12 DEF IsSafe, time

(***************************************************************************)
(* What can jump is among the jump successors.                             *)
(***************************************************************************)
CanJumpFrom(i, steps, t) ==
  /\ IsCovered(i, steps)
  /\ \A s \in Singular : Holds(workerFlowpipe, s, steps, i)
  /\ t \in DOMAIN ha.transition
  /\ CanTake(i, t)

(* The singular subspaces can all take the transition at the time.        *)
LEMMA SingularCanJump ==
  ASSUME TypeInv, NEW i, NEW steps, NEW t, CanJumpFrom(i, steps, t)
  PROVE  /\ \A s \in Singular : ValuationOf(Jumped(i, t), s) \in SingularSuccessor(t, s)
         /\ \A c \in 0..par.clockCount - 1 : <<c, i.clock[c]>> \in SingularEnabledTime(t)
         /\ CanJump(t)
<1>1. /\ IsDecomposed(ha) /\ par.clockCount \in Nat /\ i \in Instant /\ t \in DOMAIN ha.transition
      /\ CanTake(i, t) /\ TypeOK
  BY SettingsAre DEF TypeInv, CanJumpFrom, IsCovered
<1>2. Jumped(i, t) \in Instant /\ Jumped(i, t).clock = i.clock
  BY <1>1, JumpedIs
<1>3. LatestTime(par) + NumSegments(par) \in Nat
  BY <1>1, FlowpipesAtHand
<1>4. ASSUME NEW s \in Singular
      PROVE  /\ ValuationOf(Jumped(i, t), s) \in SingularSuccessor(t, s)
             /\ SingularSuccessor(t, s) \subseteq Valuations(s, LatestTime(par) + NumSegments(par))
  <2>1. s \in Subspace /\ s \notin Segmented /\ s \in Clocked(ha)
    BY <1>1, SubspaceSets, Subspaces
  <2>2. 1 \in DOMAIN workerFlowpipe[s] /\ ValuationOf(i, s) \in workerFlowpipe[s][1]
    BY <2>1 DEF CanJumpFrom, Holds, SegmentAt
  <2>3. workerFlowpipe[s] # << >>
    BY <2>2
  <2>4. workerFlowpipe[s][1] \subseteq Valuations(s, LatestTime(par) + NumSegments(par))
    <3>1. workerFlowpipe[s] \in Seq(SUBSET Valuations(s, LatestTime(par) + NumSegments(par)))
      BY <1>1, <2>1, FlowpipesAtHand
    <3> QED
      BY <2>2, <3>1
  <2>5. SingularSuccessor(t, s) = JumpImage(t, s, workerFlowpipe[s][1])
    BY <2>3 DEF SingularSuccessor, ResetUnusedClocks
  <2> QED
    BY <1>1, <1>3, <2>1, <2>2, <2>4, <2>5, JumpedIsImage, JumpImageIsTyped
<1>5. ASSUME NEW s \in Singular, NEW c \in 0..par.clockCount - 1
      PROVE  <<c, i.clock[c]>> \in GetClockValues(SingularSuccessor(t, s), par)
  <2>1. s \in Clocked(ha)
    BY <1>1, SubspaceSets, Subspaces
  <2> QED
    BY <1>1, <1>2, <1>3, <1>4, <2>1, InstantTimes
<1>6. ASSUME NEW c \in 0..par.clockCount - 1
      PROVE  <<c, i.clock[c]>> \in SingularEnabledTime(t)
  <2>1. <<c, i.clock[c]>> \in GlobalTime(par)
    BY DEF CanJumpFrom, IsCovered
  <2> QED
    BY <1>5, <2>1 DEF SingularEnabledTime
<1>7. ~IsEmptyTime(SingularEnabledTime(t), par)
  <2>1. ASSUME NEW c \in 0..par.clockCount - 1 PROVE TimesOf(c, SingularEnabledTime(t)) # {}
    <3>1. <<c, i.clock[c]>> \in SingularEnabledTime(t) /\ <<c, i.clock[c]>>[1] = c
      BY <1>6
    <3> QED
      BY <3>1 DEF TimesOf
  <2> QED
    BY <2>1 DEF IsEmptyTime
<1> QED
  BY <1>4, <1>6, <1>7 DEF CanJump

LEMMA SegmentsCanJump ==
  ASSUME TypeInv, NEW i, NEW steps, NEW t, CanJumpFrom(i, steps, t), NEW s \in Segmented
  PROVE  LET k == CommonSegment(steps)
         IN  ValuationOf(i, s) \in
               Cut(Satisfying(flowpipe[s][k], ha.transition[t].guard[s]), SingularEnabledTime(t))
<1>1. /\ IsDecomposed(ha) /\ par.clockCount \in Nat /\ i \in Instant /\ t \in DOMAIN ha.transition
      /\ CanTake(i, t) /\ IsCovered(i, steps)
  BY SettingsAre DEF TypeInv, CanJumpFrom, IsCovered
<1>2. s \in Subspace /\ SegmentAt(s, steps) = CommonSegment(steps)
  BY <1>1, SubspaceSets, CommonSegmentIs
<1>3. ValuationOf(i, s) \in flowpipe[s][CommonSegment(steps)]
  BY <1>1, <1>2, CoveredSegment
<1>4. ValuationOf(i, s) \in Satisfying(flowpipe[s][CommonSegment(steps)], ha.transition[t].guard[s])
  BY <1>1, <1>2, <1>3, JumpedIsImage
<1>5. \A c \in 0..par.clockCount - 1 : <<c, i.clock[c]>> \in SingularEnabledTime(t)
  BY SingularCanJump
<1> QED
  BY <1>1, <1>2, <1>4, <1>5, InstantIsAt

LEMMA SegmentIsEnabled ==
  ASSUME TypeInv, NEW i, NEW steps, NEW t, CanJumpFrom(i, steps, t)
  PROVE  CommonSegment(steps) \in EnabledSegments(t)
<1>1. CommonSegment(steps) \in 1..MinSegments
  BY CommonSegmentIs DEF CanJumpFrom
<1>2. \A s \in Segmented :
        Cut(Satisfying(flowpipe[s][CommonSegment(steps)], ha.transition[t].guard[s]), SingularEnabledTime(t)) # {}
  BY SegmentsCanJump
<1> QED
  BY <1>1, <1>2 DEF EnabledSegments, CommonSegments

(* Every subspace has the valuation among its successors.                 *)
LEMMA SubspacesJump ==
  ASSUME TypeInv, NEW i, NEW steps, NEW t, CanJumpFrom(i, steps, t),
         NEW block, CommonSegment(steps) \in block, NEW s \in Subspace
  PROVE  ValuationOf(Jumped(i, t), s) \in SubspaceSuccessor(t, s, block)
<1>1. /\ IsDecomposed(ha) /\ par.clockCount \in Nat /\ i \in Instant /\ t \in DOMAIN ha.transition
      /\ CanTake(i, t) /\ IsCovered(i, steps)
  BY SettingsAre DEF TypeInv, CanJumpFrom, IsCovered
<1>2. Jumped(i, t) \in Instant /\ Jumped(i, t).clock = i.clock
  BY <1>1, JumpedIs
<1>3. CASE s \in Discrete
  <2>1. s \notin Segmented
    BY <1>1, <1>3, Subspaces
  <2>2. ValuationOf(i, s) \in flowpipe[s][1]
    BY <1>1, <2>1, CoveredSegment DEF SegmentAt
  <2> QED
    BY <1>1, <1>3, <2>2, JumpedIsImage DEF SubspaceSuccessor, DiscreteSuccessor
<1>4. CASE s \in Singular
  <2>1. s \notin Discrete
    BY <1>1, <1>4, Subspaces
  <2>2. ValuationOf(Jumped(i, t), s) \in SingularSuccessor(t, s)
    BY <1>4, SingularCanJump
  <2>3. \A c \in 0..par.clockCount - 1 : <<c, Jumped(i, t).clock[c]>> \in SingularEnabledTime(t)
    BY <1>2, SingularCanJump
  <2>4. ValuationOf(Jumped(i, t), s) \in Cut(SingularSuccessor(t, s), SingularEnabledTime(t))
    BY <1>1, <1>2, <2>2, <2>3, InstantIsAt
  <2> QED
    BY <1>4, <2>1, <2>4 DEF SubspaceSuccessor
<1>5. CASE s \in Segmented
  <2>1. s \notin Discrete /\ s \notin Singular
    BY <1>1, <1>5, Subspaces
  <2> DEFINE guarded(k) ==
               Cut(Satisfying(flowpipe[s][k], ha.transition[t].guard[s]), SingularEnabledTime(t))
             united == UNION {ResetUnusedClocks(guarded(k), task.clockIndex) : k \in block}
  <2>2. ValuationOf(i, s) \in ResetUnusedClocks(guarded(CommonSegment(steps)), task.clockIndex)
    BY <1>5, SegmentsCanJump DEF ResetUnusedClocks
  <2> HIDE DEF guarded
  <2>3. ValuationOf(i, s) \in united
    BY <2>2
  <2>4. SegmentedSuccessor(t, s, block) = JumpImage(t, s, united)
    BY DEF SegmentedSuccessor, guarded
  <2> HIDE DEF united
  <2> QED
    BY <1>1, <2>1, <2>3, <2>4, JumpedIsImage DEF SubspaceSuccessor
<1> QED
  BY <1>1, <1>3, <1>4, <1>5, Subspaces

(* The times of all subspaces once more.                                  *)
LEMMA JumpIsInTime ==
  ASSUME TypeInv, \A s \in Discrete : flowpipe[s] # << >>,
         NEW i, NEW steps, NEW t, CanJumpFrom(i, steps, t),
         NEW block \in SUBSET (1..MinSegments), CommonSegment(steps) \in block
  PROVE  /\ \A c \in 0..par.clockCount - 1 : <<c, i.clock[c]>> \in EnabledTime(t, block)
         /\ ~IsEmptyTime(EnabledTime(t, block), par)
<1>1. /\ IsDecomposed(ha) /\ par.clockCount \in Nat /\ i \in Instant /\ t \in DOMAIN ha.transition /\ TypeOK
  BY SettingsAre DEF TypeInv, CanJumpFrom, IsCovered
<1>2. Jumped(i, t) \in Instant /\ Jumped(i, t).clock = i.clock
  BY <1>1, JumpedIs
<1>3. LatestTime(par) + NumSegments(par) \in Nat
  BY <1>1, FlowpipesAtHand
<1>4. ASSUME NEW s \in Segmented, NEW c \in 0..par.clockCount - 1
      PROVE  <<c, i.clock[c]>> \in GetClockValues(SubspaceSuccessor(t, s, block), par)
  <2>1. s \in Clocked(ha) /\ s \in Subspace
    BY <1>1, SubspaceSets, Subspaces
  <2>2. SubspaceSuccessor(t, s, block) \subseteq Valuations(s, LatestTime(par) + NumSegments(par))
    BY <1>1, <2>1, SubspaceSuccessorIsTyped
  <2>3. ValuationOf(Jumped(i, t), s) \in SubspaceSuccessor(t, s, block)
    BY <2>1, SubspacesJump
  <2> QED
    BY <1>1, <1>2, <1>3, <2>1, <2>2, <2>3, InstantTimes
<1>5. ASSUME NEW c \in 0..par.clockCount - 1
      PROVE  <<c, i.clock[c]>> \in EnabledTime(t, block)
  <2>1. <<c, i.clock[c]>> \in SingularEnabledTime(t)
    BY SingularCanJump
  <2> QED
    BY <1>4, <2>1 DEF EnabledTime
<1>6. ~IsEmptyTime(EnabledTime(t, block), par)
  <2>1. ASSUME NEW c \in 0..par.clockCount - 1 PROVE TimesOf(c, EnabledTime(t, block)) # {}
    <3>1. <<c, i.clock[c]>> \in EnabledTime(t, block) /\ <<c, i.clock[c]>>[1] = c
      BY <1>5
    <3> QED
      BY <3>1 DEF TimesOf
  <2> QED
    BY <2>1 DEF IsEmptyTime
<1> QED
  BY <1>5, <1>6

LEMMA JumpSuccessorCovers ==
  ASSUME TypeInv, \A s \in Discrete : flowpipe[s] # << >>,
         NEW i, NEW steps, NEW t, CanJumpFrom(i, steps, t),
         NEW block \in SUBSET (1..MinSegments), CommonSegment(steps) \in block
  PROVE  JumpSuccessor(t, block).transition = t /\ IsIn(Jumped(i, t), JumpSuccessor(t, block).sets)
<1> DEFINE time == EnabledTime(t, block)
           sets == JumpSuccessor(t, block).sets
<1>1. /\ IsDecomposed(ha) /\ par.clockCount \in Nat /\ i \in Instant /\ t \in DOMAIN ha.transition
  BY SettingsAre DEF TypeInv, CanJumpFrom, IsCovered
<1>2. Jumped(i, t) \in Instant /\ Jumped(i, t).clock = i.clock
  BY <1>1, JumpedIs
<1>3. /\ \A c \in 0..par.clockCount - 1 : <<c, i.clock[c]>> \in time
      /\ ~IsEmptyTime(time, par)
  BY JumpIsInTime
<1>4. /\ JumpSuccessor(t, block).transition = t
      /\ \A s \in Subspace : sets[s] = IF IsEmptyTime(time, par) THEN {}
                                       ELSE IF s \in Discrete THEN SubspaceSuccessor(t, s, block)
                                       ELSE Cut(SubspaceSuccessor(t, s, block), time)
  BY DEF JumpSuccessor
<1> HIDE DEF time, sets
<1>5. ASSUME NEW s \in Subspace PROVE ValuationOf(Jumped(i, t), s) \in sets[s]
  <2>1. ValuationOf(Jumped(i, t), s) \in SubspaceSuccessor(t, s, block)
    BY SubspacesJump
  <2>2. ValuationOf(Jumped(i, t), s) \in Cut(SubspaceSuccessor(t, s, block), time)
    BY <1>1, <1>2, <1>3, <2>1, InstantIsAt
  <2> QED
    BY <1>3, <1>4, <2>1, <2>2
<1> QED
  BY <1>4, <1>5 DEF IsIn, sets

(* A block with the segment is in the list.                               *)
LEMMA JumpIsListed ==
  ASSUME TypeInv, NEW i, NEW steps, NEW t \in TransitionsFrom(ha, current.location),
         CanJumpFrom(i, steps, t)
  PROVE  \E k \in DOMAIN AllJumpSuccessors : \E block \in SUBSET (1..MinSegments) :
           CommonSegment(steps) \in block /\ AllJumpSuccessors[k] = JumpSuccessor(t, block)
<1> DEFINE E == EnabledSegments(t)
<1>1. E \subseteq 1..MinSegments /\ MinSegments \in Nat
  BY FlowpipesAtHand DEF EnabledSegments, CommonSegments, TypeInv
<1>2. CommonSegment(steps) \in E
  BY SegmentIsEnabled
<1>3. CanJump(t)
  BY SingularCanJump
<1> HIDE DEF E
<1>4. \E b \in E : <<t, b>> \in Jumps /\ CommonSegment(steps) \in Block(t, b)
  <2>1. CASE par.aggregate
    <3>1. \E b \in E : \A k \in E : b <= k
      BY <1>1, <1>2, LeastNumber
    <3>2. PICK b \in E : \A k \in E : b <= k
      BY <3>1
    <3>3. <<t, b>> \in Jumps
      BY <1>1, <1>3, <3>2 DEF Jumps, E
    <3> QED
      BY <1>2, <2>1, <3>3 DEF Block, E
  <2>2. CASE ~par.aggregate
    <3>1. <<t, CommonSegment(steps)>> \in Jumps
      BY <1>1, <1>2, <1>3, <2>2 DEF Jumps, E
    <3> QED
      BY <1>2, <2>2, <3>1 DEF Block
  <2> QED
    BY <2>1, <2>2
<1>5. PICK b \in E : <<t, b>> \in Jumps /\ CommonSegment(steps) \in Block(t, b)
  BY <1>4
<1> DEFINE jumps == AscendingPairs(Jumps)
<1>6. /\ DOMAIN AllJumpSuccessors = DOMAIN jumps
      /\ \A k \in DOMAIN jumps :
           AllJumpSuccessors[k] = JumpSuccessor(jumps[k][1], Block(jumps[k][1], jumps[k][2]))
  BY DEF AllJumpSuccessors
<1>7. /\ \E k \in DOMAIN jumps : jumps[k] = <<t, b>>
      /\ Block(<<t, b>>[1], <<t, b>>[2]) \in SUBSET (1..MinSegments)
  BY <1>5, JumpsAreListed DEF TypeInv
<1> HIDE DEF jumps
<1>8. PICK k \in DOMAIN jumps : jumps[k] = <<t, b>>
  BY <1>7
<1>9. AllJumpSuccessors[k] = JumpSuccessor(t, Block(t, b)) /\ Block(t, b) \in SUBSET (1..MinSegments)
  BY <1>6, <1>7, <1>8
<1> QED
  BY <1>5, <1>6, <1>9

LEMMA JumpCovers ==
  ASSUME TypeInv, \A s \in Discrete : flowpipe[s] # << >>,
         NEW i, NEW steps, NEW t \in TransitionsFrom(ha, current.location), CanJumpFrom(i, steps, t)
  PROVE  \E k \in DOMAIN AllJumpSuccessors :
           /\ AllJumpSuccessors[k].transition = t
           /\ IsIn(Jumped(i, t), AllJumpSuccessors[k].sets)
<1>1. PICK k \in DOMAIN AllJumpSuccessors, block \in SUBSET (1..MinSegments) :
        CommonSegment(steps) \in block /\ AllJumpSuccessors[k] = JumpSuccessor(t, block)
  BY JumpIsListed
<1> QED
  BY <1>1, JumpSuccessorCovers

--------------------------------------------------------------------------
(* What instants mean does not depend on where the loop stands.           *)
LEMMA MeaningKept ==
  ASSUME UNCHANGED settings
  PROVE  /\ Instant' = Instant /\ Product' = Product
         /\ \A i, s : ValuationOf(i, s)' = ValuationOf(i, s)
         /\ \A i, sets : IsIn(i, sets)' <=> IsIn(i, sets)
         /\ \A i, latest : ClocksAtMost(i, latest)' <=> ClocksAtMost(i, latest)
         /\ \A i, l : MeetsInvariant(i, l)' <=> MeetsInvariant(i, l)
         /\ \A i, l : Elapsed(i, l)' = Elapsed(i, l)
         /\ \A i, t : Jumped(i, t)' = Jumped(i, t)
         /\ \A i, t : CanTake(i, t)' <=> CanTake(i, t)
         /\ \A i, l : IsGood(i, l)' <=> IsGood(i, l)
         /\ \A l : TransitionsFrom(ha, l)' = TransitionsFrom(ha, l)
<1> USE DEF settings
<1>1. Instant' = Instant /\ Product' = Product
  BY DEF Instant, Product, NoDependencies, Clocked, OfType
<1>2. \A i, s : ValuationOf(i, s)' = ValuationOf(i, s)
  BY DEF ValuationOf, Clocked, OfType
<1>3. \A i, sets : IsIn(i, sets)' <=> IsIn(i, sets)
  BY <1>2 DEF IsIn
<1>4. \A i, latest : ClocksAtMost(i, latest)' <=> ClocksAtMost(i, latest)
  BY DEF ClocksAtMost
<1>5. \A i, l : MeetsInvariant(i, l)' <=> MeetsInvariant(i, l)
  BY DEF MeetsInvariant
<1>6. \A i, l : Elapsed(i, l)' = Elapsed(i, l)
  BY DEF Elapsed
<1>7. \A i, t : Jumped(i, t)' = Jumped(i, t)
  BY DEF Jumped
<1>8. \A i, t : CanTake(i, t)' <=> CanTake(i, t)
  BY DEF CanTake, MeetsInvariant, Jumped
<1>9. \A i, l : IsGood(i, l)' <=> IsGood(i, l)
  BY DEF IsGood, CollectBadStates
<1>10. \A l : TransitionsFrom(ha, l)' = TransitionsFrom(ha, l)
  BY DEF TransitionsFrom
<1> QED
  BY <1>1, <1>2, <1>3, <1>4, <1>5, <1>6, <1>7, <1>8, <1>9, <1>10

(* Stays in a node, and what was done about it, last.                     *)
LEMMA StaysKept ==
  ASSUME UNCHANGED settings, NEW n, UNCHANGED nodes[n]
  PROVE  /\ \A i : IsEntry(i, n)' <=> IsEntry(i, n)
         /\ \A g, steps : IsStay(g, steps, n)' <=> IsStay(g, steps, n)
<1>1. \A i : IsEntry(i, n)' <=> IsEntry(i, n)
  <2>1. par' = par
    BY DEF settings
  <2> QED
    BY <2>1, MeaningKept DEF IsEntry
<1>2. \A g, steps : IsStay(g, steps, n)' <=> IsStay(g, steps, n)
  <2>1. par' = par
    BY DEF settings
  <2> QED
    BY <1>1, <2>1, MeaningKept DEF IsStay
<1> QED
  BY <1>1, <1>2

NodesKept == DOMAIN nodes \subseteq DOMAIN nodes' /\ \A n \in DOMAIN nodes : nodes'[n] = nodes[n]

LEMMA ChildrenKept ==
  ASSUME UNCHANGED settings, NodesKept, NEW n \in DOMAIN nodes
  PROVE  \A i, t : HasChildFor(i, t, n) => HasChildFor(i, t, n)'
<1> SUFFICES ASSUME NEW i, NEW t, HasChildFor(i, t, n) PROVE HasChildFor(i, t, n)'
  OBVIOUS
<1>1. PICK c \in DOMAIN nodes : nodes[c].depth = nodes[n].depth + 1 /\ LandsIn(i, t, c)
  BY DEF HasChildFor
<1>2. c \in DOMAIN nodes' /\ nodes'[c] = nodes[c] /\ nodes'[n] = nodes[n] /\ ha' = ha
  BY <1>1 DEF NodesKept, settings
<1>3. PICK j : IsEntry(j, c) /\ j.x = Jumped(i, t).x
  BY <1>1 DEF LandsIn
<1>4. IsEntry(j, c)'
  BY <1>2, <1>3, StaysKept
<1>5. LandsIn(i, t, c)'
  BY <1>1, <1>2, <1>3, <1>4, MeaningKept DEF LandsIn
<1> QED
  BY <1>1, <1>2, <1>5 DEF HasChildFor

LEMMA DoneKept ==
  ASSUME UNCHANGED settings, NodesKept, NEW n \in DOMAIN nodes, IsDone(n)
  PROVE  IsDone(n)'
<1>1. nodes'[n] = nodes[n] /\ par' = par
  BY DEF NodesKept, settings
<1> SUFFICES ASSUME NEW steps \in Nat, NEW g, IsStay(g, steps, n)'
             PROVE  /\ IsGood(g[steps], nodes[n].location)'
                    /\ nodes'[n].depth < par'.jumpDepth =>
                         \A t \in TransitionsFrom(ha, nodes[n].location)' :
                           CanTake(g[steps], t)' => HasChildFor(g[steps], t, n)'
  BY DEF IsDone
<1>2. IsStay(g, steps, n)
  BY <1>1, StaysKept
<1>3. /\ IsGood(g[steps], nodes[n].location)
      /\ nodes[n].depth < par.jumpDepth =>
           \A t \in TransitionsFrom(ha, nodes[n].location) :
             CanTake(g[steps], t) => HasChildFor(g[steps], t, n)
  BY <1>2 DEF IsDone
<1>4. IsGood(g[steps], nodes[n].location)'
  BY <1>1, <1>3, MeaningKept DEF settings
<1>5. TransitionsFrom(ha, nodes[n].location)' = TransitionsFrom(ha, nodes[n].location)
  BY <1>1, MeaningKept DEF TransitionsFrom, settings
<1> QED
  BY <1>1, <1>3, <1>4, <1>5, MeaningKept, ChildrenKept

(* Nothing to be done about a node that cannot be entered.                *)
LEMMA EmptyIsDone ==
  ASSUME NEW n, HasEmptySet(nodes[n].sets)
  PROVE  IsDone(n)
<1>1. ASSUME NEW g, NEW steps, IsStay(g, steps, n) PROVE FALSE
  <2>1. IsIn(g[0], nodes[n].sets)
    BY <1>1 DEF IsStay, IsEntry
  <2> QED
    BY <2>1 DEF IsIn, HasEmptySet
<1> QED
  BY <1>1 DEF IsDone

(* A step that leaves nodes and the meaning of the queue alone.           *)
LEMMA RootKept ==
  ASSUME UNCHANGED settings, NodesKept, nodes' # << >>, TypeOK, RootInv
  PROVE  RootInv'
<1>1. 1 \in DOMAIN nodes /\ nodes'[1] = nodes[1]
  BY DEF RootInv, NodesKept, TypeOK
<1>2. ha' = ha
  BY DEF settings
<1>3. Composed(ha.initial.set)' = Composed(ha.initial.set)
  BY <1>2 DEF Composed, Product
<1>4. \A i : IsEntry(i, 1) => IsEntry(i, 1)'
  BY <1>1, StaysKept
<1> QED
  BY <1>1, <1>2, <1>3, <1>4 DEF RootInv

--------------------------------------------------------------------------
(* Each action keeps what is known of the stays in the nodes.             *)
LEMMA HoldsKept ==
  ASSUME UNCHANGED settings
  PROVE  /\ Singular' = Singular /\ Segmented' = Segmented
         /\ \A s, steps, i : Holds(flowpipe, s, steps, i)' <=> Holds(flowpipe', s, steps, i)
         /\ \A s, steps, i : Holds(workerFlowpipe, s, steps, i)' <=> Holds(workerFlowpipe', s, steps, i)
<1>1. Singular' = Singular /\ Segmented' = Segmented
  BY DEF settings, Singular, Segmented, OfType
<1>2. \A s, steps : SegmentAt(s, steps)' = SegmentAt(s, steps)
  BY <1>1 DEF SegmentAt
<1> QED
  BY <1>1, <1>2, MeaningKept DEF Holds

LEMMA CoverKept ==
  ASSUME UNCHANGED settings, CoverInv, NodesKept, result = "failure" => result' = "failure",
         \A n \in DOMAIN nodes : IsOpen(n) => IsDone(n)' \/ IsOpen(n)',
         \A n \in DOMAIN nodes' : n \in DOMAIN nodes \/ IsOpen(n)'
  PROVE  CoverInv'
<1> SUFFICES ASSUME result' # "failure", NEW n \in DOMAIN nodes' PROVE IsDone(n)' \/ IsOpen(n)'
  BY DEF CoverInv
<1>1. CASE n \notin DOMAIN nodes
  BY <1>1
<1>2. CASE n \in DOMAIN nodes
  <2>1. IsDone(n) \/ IsOpen(n)
    BY <1>2 DEF CoverInv
  <2> QED
    BY <1>2, <2>1, DoneKept
<1> QED
  BY <1>1, <1>2

LEMMA SameNodes ==
  ASSUME UNCHANGED <<settings, nodes>>, TypeOK, RootInv
  PROVE  NodesKept /\ RootInv'
<1>1. NodesKept /\ UNCHANGED settings
  BY DEF NodesKept, settings
<1>2. nodes' # << >>
  BY DEF RootInv
<1> QED
  BY <1>1, <1>2, RootKept

(* What a stay in the current node was, it is as long as the node stays.  *)
LEMMA CurrentStays ==
  ASSUME UNCHANGED settings, UNCHANGED task, UNCHANGED nodes[task.node]
  PROVE  \A g, steps : IsStay(g, steps, task.node)' <=> IsStay(g, steps, task.node)
BY StaysKept

LEMMA DequeueCovers ==
  ASSUME AnalysisInv, Dequeue
  PROVE  RootInv' /\ CoverInv' /\ (Busy' => StageInv')
<1>1. /\ workQueue # << >> /\ task' = Head(workQueue) /\ workQueue' = Tail(workQueue)
      /\ pc = "dequeue"
      /\ pc' = IF HasEmptySet(nodes[Head(workQueue).node].sets) THEN "dequeue" ELSE "time"
      /\ UNCHANGED <<settings, nodes>> /\ UNCHANGED result
  BY DEF Dequeue
<1>2. TypeOK /\ RootInv /\ CoverInv /\ workQueue \in Seq(EntryType)
  BY DEF AnalysisInv, TypeOK
<1>3. NodesKept /\ RootInv' /\ UNCHANGED settings
  BY <1>1, <1>2, SameNodes
<1>4. ASSUME NEW n \in DOMAIN nodes, IsOpen(n) PROVE IsDone(n)' \/ IsOpen(n)'
  <2>1. PICK k \in DOMAIN workQueue : workQueue[k].node = n
    BY <1>1, <1>4 DEF IsOpen, Busy
  <2>2. CASE k # 1
    <3>1. \E m \in DOMAIN Tail(workQueue) : Tail(workQueue)[m] = workQueue[k]
      BY <1>1, <1>2, <2>2, Dequeued
    <3> QED
      BY <1>1, <2>1, <3>1 DEF IsOpen
  <2>3. CASE k = 1
    <3>1. Head(workQueue).node = n
      BY <1>1, <1>2, <2>1, <2>3, Dequeued
    <3>2. CASE HasEmptySet(nodes[n].sets)
      BY <1>3, <3>2, EmptyIsDone, DoneKept
    <3>3. CASE ~HasEmptySet(nodes[n].sets)
      BY <1>1, <3>1, <3>3 DEF IsOpen, Busy
    <3> QED
      BY <3>2, <3>3
  <2> QED
    BY <2>2, <2>3
<1>5. CoverInv'
  BY <1>1, <1>2, <1>3, <1>4, CoverKept
<1>6. pc' \in {"dequeue", "time"}
  BY <1>1
<1>7. StageInv'
  BY <1>6 DEF StageInv
<1> QED
  BY <1>3, <1>5, <1>7

(* Steps with the same node at hand and the same queue.                   *)
LEMMA SameTask ==
  ASSUME AnalysisInv, UNCHANGED <<settings, nodes, workQueue, task>>, UNCHANGED result, Busy, Busy'
  PROVE  /\ RootInv' /\ CoverInv' /\ UNCHANGED settings /\ current' = current
         /\ TypeInv /\ task \in EntryType /\ task.node \in DOMAIN nodes /\ StageInv
         /\ \A g, steps : IsStay(g, steps, task.node)' <=> IsStay(g, steps, task.node)
<1>1. TypeOK /\ RootInv /\ CoverInv /\ TypeInv /\ task \in EntryType /\ StageInv
  BY DEF AnalysisInv, TypeInv, ControlInv
<1>2. task.node \in DOMAIN nodes
  BY <1>1 DEF EntryType
<1>3. NodesKept /\ RootInv' /\ UNCHANGED settings
  BY <1>1, SameNodes
<1>4. \A n : IsOpen(n) => IsOpen(n)'
  BY DEF IsOpen
<1>5. CoverInv'
  BY <1>1, <1>3, <1>4, CoverKept DEF NodesKept
<1>6. current' = current
  BY DEF current
<1>7. \A g, steps : IsStay(g, steps, task.node)' <=> IsStay(g, steps, task.node)
  BY <1>3, CurrentStays
<1> QED
  BY <1>1, <1>2, <1>3, <1>5, <1>6, <1>7

LEMMA TimeStage ==
  ASSUME AnalysisInv, ComputeTimeSuccessors
  PROVE  RootInv' /\ CoverInv' /\ (Busy' => StageInv')
<1>1. /\ UNCHANGED <<settings, nodes, workQueue, task>> /\ UNCHANGED result /\ pc = "time" /\ pc' = "clock"
  BY DEF ComputeTimeSuccessors
<1>2. Busy /\ Busy'
  BY <1>1 DEF Busy
<1>3. /\ RootInv' /\ CoverInv' /\ UNCHANGED settings /\ TypeInv
      /\ \A g, steps : IsStay(g, steps, task.node)' <=> IsStay(g, steps, task.node)
  BY <1>1, <1>2, SameTask
<1>4. ASSUME NEW steps \in Nat, NEW g, IsStay(g, steps, task.node)' PROVE StayIsCovered(g, steps)'
  <2>1. /\ \A s \in Subspace : Holds(flowpipe', s, steps, g[steps])
        /\ \A s \in Singular : Holds(workerFlowpipe', s, steps, g[steps])
    BY <1>3, <1>4, TimeCovers
  <2> QED
    BY <1>3, <2>1, HoldsKept DEF StayIsCovered
<1> QED
  BY <1>1, <1>3, <1>4 DEF StageInv

LEMMA ClockStage ==
  ASSUME AnalysisInv, TimesAreBracketed, IntersectSubspacesWithClock
  PROVE  RootInv' /\ CoverInv' /\ (Busy' => StageInv')
<1>1. /\ UNCHANGED <<settings, nodes, workQueue, task, workerFlowpipe>> /\ UNCHANGED result
      /\ pc = "clock" /\ pc' = "safety"
  BY DEF IntersectSubspacesWithClock
<1>2. Busy /\ Busy'
  BY <1>1 DEF Busy
<1>3. /\ RootInv' /\ CoverInv' /\ UNCHANGED settings /\ TypeInv /\ task.node \in DOMAIN nodes /\ StageInv
      /\ \A g, steps : IsStay(g, steps, task.node)' <=> IsStay(g, steps, task.node)
  BY <1>1, <1>2, SameTask
<1>4. ASSUME NEW steps \in Nat, NEW g, IsStay(g, steps, task.node)' PROVE StayIsCovered(g, steps)'
  <2>1. IsStay(g, steps, task.node)
    BY <1>3, <1>4
  <2>2. ASSUME NEW k \in 0..steps PROVE StayIsCovered(g, k)
    <3>1. IsStay(g, k, task.node)
      BY <1>3, <2>1, StayIs
    <3> QED
      BY <1>1, <1>3, <3>1 DEF StageInv
  <2>3. \A s \in Subspace : Holds(flowpipe', s, steps, g[steps])
    BY <1>3, <2>1, <2>2, ClockCovers DEF StayIsCovered
  <2>4. \A s \in Singular : Holds(workerFlowpipe', s, steps, g[steps])
    BY <1>1, <2>2 DEF StayIsCovered
  <2> QED
    BY <1>3, <2>3, <2>4, HoldsKept DEF StayIsCovered
<1> QED
  BY <1>1, <1>3, <1>4 DEF StageInv

LEMMA StayIsFound ==
  ASSUME TypeInv, task.node \in DOMAIN nodes, NEW steps, NEW g, IsStay(g, steps, task.node),
         StayIsCovered(g, steps)
  PROVE  /\ IsCovered(g[steps], steps)
         /\ g[steps].x0 \in current.dependencies
         /\ \A t \in TransitionsFrom(ha, current.location) :
              CanTake(g[steps], t) => CanJumpFrom(g[steps], steps, t)
<1>1. steps \in Nat /\ g[steps] \in Instant /\ g[steps].x0 \in nodes[task.node].dependencies
  BY StayIs
<1>2. \A c \in 0..par.clockCount - 1 : <<c, g[steps].clock[c]>> \in GlobalTime(par)
  BY StayIsInTime
<1>3. IsCovered(g[steps], steps)
  BY <1>1, <1>2 DEF IsCovered, StayIsCovered
<1>4. \A t \in TransitionsFrom(ha, current.location) :
        CanTake(g[steps], t) => CanJumpFrom(g[steps], steps, t)
  BY <1>3 DEF CanJumpFrom, StayIsCovered, TransitionsFrom
<1> QED
  BY <1>1, <1>3, <1>4 DEF current

LEMMA CheckStage ==
  ASSUME AnalysisInv, PassCheck
  PROVE  RootInv' /\ CoverInv' /\ (Busy' => StageInv')
<1>1. /\ UNCHANGED <<settings, nodes, workQueue, task, workerFlowpipe>> /\ UNCHANGED <<result, flowpipe>>
      /\ pc = "safety" /\ pc' = IF current.depth = par.jumpDepth THEN "dequeue" ELSE "jumps"
      /\ \A bad \in CollectBadStates(current.location) : IsSafe(bad)
  BY DEF PassCheck
<1>2. /\ TypeInv /\ TypeOK /\ RootInv /\ CoverInv /\ StageInv /\ Busy
      /\ task.node \in DOMAIN nodes /\ dependencies = current.dependencies
  BY <1>1 DEF AnalysisInv, TypeInv, ControlInv, Busy, EntryType
<1>3. UNCHANGED settings /\ NodesKept /\ RootInv'
  BY <1>1, <1>2, SameNodes
<1>4. \A g, steps : IsStay(g, steps, task.node)' <=> IsStay(g, steps, task.node)
  BY <1>1, <1>3, CurrentStays
<1>5. current' = current
  BY <1>1 DEF current
<1>6. ASSUME NEW steps \in Nat, NEW g, IsStay(g, steps, task.node)
      PROVE  StayIsCovered(g, steps) /\ IsGood(g[steps], current.location)
  <2>1. StayIsCovered(g, steps)
    BY <1>1, <1>2, <1>6 DEF StageInv
  <2>2. IsCovered(g[steps], steps) /\ g[steps].x0 \in dependencies
    BY <1>2, <1>6, <2>1, StayIsFound
  <2>3. ASSUME NEW bad \in CollectBadStates(current.location)
        PROVE  \E s \in Subspace : g[steps].x[s] \notin bad[s]
    <3>1. IsSafe(bad)
      BY <1>1
    <3> QED
      BY <1>2, <2>2, <3>1, BadInstantIsFound
  <2> QED
    BY <2>1, <2>3 DEF IsGood
<1>7. CASE current.depth = par.jumpDepth
  <2>1. pc' = "dequeue" /\ par.jumpDepth \in Nat
    BY <1>1, <1>2, <1>7, SettingsAre
  <2>2. IsDone(task.node)
    <3>1. ~(nodes[task.node].depth < par.jumpDepth)
      BY <1>7, <2>1 DEF current
    <3> QED
      BY <1>6, <3>1 DEF IsDone, current
  <2>3. \A n \in DOMAIN nodes : IsOpen(n) => IsDone(n)' \/ IsOpen(n)'
    <3> SUFFICES ASSUME NEW n \in DOMAIN nodes, IsOpen(n) PROVE IsDone(n)' \/ IsOpen(n)'
      OBVIOUS
    <3>1. n = task.node \/ \E k \in DOMAIN workQueue : workQueue[k].node = n
      BY DEF IsOpen
    <3>2. CASE n = task.node
      <4>1. IsDone(n)'
        BY <1>2, <1>3, <2>2, <3>2, DoneKept
      <4> QED
        BY <4>1
    <3>3. CASE \E k \in DOMAIN workQueue : workQueue[k].node = n
      BY <1>1, <3>3 DEF IsOpen
    <3> QED
      BY <3>1, <3>2, <3>3
  <2>4. CoverInv'
    BY <1>1, <1>2, <1>3, <2>3, CoverKept
  <2> QED
    BY <1>3, <2>1, <2>4 DEF Busy
<1>8. CASE current.depth # par.jumpDepth
  <2>1. pc' = "jumps"
    BY <1>1, <1>8
  <2>2. Busy'
    BY <2>1 DEF Busy
  <2>3. RootInv' /\ CoverInv'
    BY <1>1, <1>2, <2>2, SameTask
  <2>4. ASSUME NEW steps \in Nat, NEW g, IsStay(g, steps, task.node)'
        PROVE  StayIsCovered(g, steps)' /\ IsGood(g[steps], current.location)'
    <3>1. StayIsCovered(g, steps) /\ IsGood(g[steps], current.location)
      BY <1>4, <1>6, <2>4
    <3>2. StayIsCovered(g, steps)'
      BY <1>1, <1>3, <3>1, HoldsKept DEF StayIsCovered
    <3>3. IsGood(g[steps], current.location)'
      BY <1>3, <1>5, <3>1 DEF IsGood, CollectBadStates, settings
    <3> QED
      BY <3>2, <3>3
  <2> QED
    BY <2>1, <2>3, <2>4 DEF StageInv
<1> QED
  BY <1>7, <1>8

LEMMA JumpsStage ==
  ASSUME AnalysisInv, ComputeJumpSuccessors
  PROVE  RootInv' /\ CoverInv' /\ (Busy' => StageInv')
<1>1. /\ UNCHANGED <<settings, nodes, workQueue, task>> /\ UNCHANGED <<result, dependencies>>
      /\ pc = "jumps" /\ pc' = "children" /\ pending' = AllJumpSuccessors
  BY DEF ComputeJumpSuccessors
<1>2. Busy /\ Busy'
  BY <1>1 DEF Busy
<1>3. /\ RootInv' /\ CoverInv' /\ UNCHANGED settings /\ TypeInv /\ task.node \in DOMAIN nodes /\ StageInv
      /\ current' = current
      /\ \A g, steps : IsStay(g, steps, task.node)' <=> IsStay(g, steps, task.node)
  BY <1>1, <1>2, SameTask
<1>4. dependencies = current.dependencies /\ \A s \in Discrete : flowpipe[s] # << >>
  BY <1>1, <1>3 DEF TypeInv, ControlInv
<1>5. ASSUME NEW steps \in Nat, NEW g, IsStay(g, steps, task.node)'
      PROVE  IsGood(g[steps], current.location)' /\ StayIsLeft(g, steps)'
  <2>1. IsStay(g, steps, task.node) /\ StayIsCovered(g, steps) /\ IsGood(g[steps], current.location)
    BY <1>1, <1>3, <1>5 DEF StageInv
  <2>2. IsGood(g[steps], current.location)'
    BY <1>3, <2>1 DEF IsGood, CollectBadStates, settings
  <2>3. ASSUME NEW t \in TransitionsFrom(ha, current.location), CanTake(g[steps], t)
        PROVE  IsPending(g[steps], t)'
    <3>1. CanJumpFrom(g[steps], steps, t) /\ g[steps].x0 \in dependencies
      BY <1>3, <1>4, <2>1, <2>3, StayIsFound
    <3>2. PICK k \in DOMAIN AllJumpSuccessors :
            /\ AllJumpSuccessors[k].transition = t
            /\ IsIn(Jumped(g[steps], t), AllJumpSuccessors[k].sets)
      BY <1>3, <1>4, <3>1, JumpCovers
    <3>3. IsIn(Jumped(g[steps], t), pending[k].sets)'
      BY <1>1, <1>3, <3>2, MeaningKept DEF IsIn
    <3> QED
      BY <1>1, <3>1, <3>2, <3>3 DEF IsPending
  <2>4. TransitionsFrom(ha, current.location)' = TransitionsFrom(ha, current.location)
    BY <1>3 DEF TransitionsFrom, settings
  <2>5. \A t : CanTake(g[steps], t)' <=> CanTake(g[steps], t)
    BY <1>3, MeaningKept
  <2> QED
    BY <2>2, <2>3, <2>4, <2>5 DEF StayIsLeft
<1> QED
  BY <1>1, <1>3, <1>5 DEF StageInv

(* The first successor is settled: what can jump to it finds a child, and *)
(* the other ones are left as they are.                                   *)
LEMMA SuccessorSettled ==
  ASSUME AnalysisInv, pc = "children", pending # << >>, UNCHANGED settings, UNCHANGED <<task, pc, result>>,
         NodesKept, nodes' # << >>, pending' = Tail(pending),
         \A n \in DOMAIN nodes : IsOpen(n) => IsOpen(n)',
         \A n \in DOMAIN nodes' : n \in DOMAIN nodes \/ IsOpen(n)',
         dependencies' = dependencies \/ \A k \in 2..Len(pending) : HasEmptySet(pending[k].sets),
         \A i \in Instant : \A t :
           /\ t = pending[1].transition
           /\ IsIn(Jumped(i, t), pending[1].sets)
           /\ i.x0 \in dependencies
           /\ ClocksAtMost(i, (current.depth + 1) * par.horizon)
           => HasChildFor(i, t, task.node)'
  PROVE  RootInv' /\ CoverInv' /\ (Busy' => StageInv')
<1>1. /\ TypeInv /\ TypeOK /\ RootInv /\ CoverInv /\ StageInv /\ Busy
      /\ task \in EntryType /\ task.node \in DOMAIN nodes
  BY DEF AnalysisInv, TypeInv, ControlInv, Busy, EntryType
<1>2. RootInv'
  BY <1>1, RootKept
<1>3. CoverInv'
  BY <1>1, CoverKept
<1>4. nodes'[task.node] = nodes[task.node] /\ task' = task /\ current' = current
  BY <1>1 DEF NodesKept, current
<1>5. pending \in Seq(SuccessorType)
  BY <1>1 DEF TypeOK
<1>6. ASSUME NEW k \in DOMAIN pending, k # 1
      PROVE  k \in 2..Len(pending) /\ \E m \in DOMAIN pending' : pending'[m] = pending[k]
  BY <1>5, <1>6, Dequeued
<1>7. ASSUME NEW steps \in Nat, NEW g, IsStay(g, steps, task.node)'
      PROVE  IsGood(g[steps], current.location)' /\ StayIsLeft(g, steps)'
  <2>1. IsStay(g, steps, task.node)
    BY <1>4, <1>7, CurrentStays
  <2>2. IsGood(g[steps], current.location) /\ StayIsLeft(g, steps)
    BY <1>1, <2>1 DEF StageInv
  <2>3. IsGood(g[steps], current.location)'
    BY <1>4, <2>2 DEF IsGood, CollectBadStates, settings
  <2>4. g[steps] \in Instant /\ ClocksAtMost(g[steps], (current.depth + 1) * par.horizon)
    <3>1. g[steps] \in Instant
      BY <1>1, <2>1, StayIs
    <3> QED
      BY <1>1, <2>1, <3>1, StayIsInTime DEF current
  <2>5. ASSUME NEW t \in TransitionsFrom(ha, current.location), CanTake(g[steps], t)
        PROVE  IsPending(g[steps], t)' \/ HasChildFor(g[steps], t, task.node)'
    <3>1. CASE HasChildFor(g[steps], t, task.node)
      BY <1>1, <1>4, <3>1, ChildrenKept
    <3>2. CASE IsPending(g[steps], t)
      <4>1. PICK k \in DOMAIN pending :
              /\ pending[k].transition = t
              /\ IsIn(Jumped(g[steps], t), pending[k].sets)
              /\ g[steps].x0 \in dependencies
        BY <3>2 DEF IsPending
      <4>2. CASE k = 1
        BY <2>4, <4>1, <4>2
      <4>3. CASE k # 1
        <5>1. k \in 2..Len(pending)
          BY <1>6, <4>3
        <5>2. PICK m \in DOMAIN pending' : pending'[m] = pending[k]
          BY <1>6, <4>3
        <5>3. ~HasEmptySet(pending[k].sets)
          BY <4>1 DEF HasEmptySet, IsIn
        <5>4. dependencies' = dependencies
          BY <5>1, <5>3
        <5>5. IsIn(Jumped(g[steps], t), pending[m].sets)'
          BY <4>1, <5>2, MeaningKept DEF IsIn
        <5> QED
          BY <4>1, <5>2, <5>4, <5>5 DEF IsPending
      <4> QED
        BY <4>2, <4>3
    <3> QED
      BY <2>2, <2>5, <3>1, <3>2 DEF StayIsLeft
  <2>6. TransitionsFrom(ha, current.location)' = TransitionsFrom(ha, current.location)
    BY <1>4 DEF TransitionsFrom, settings
  <2>7. \A t : CanTake(g[steps], t)' <=> CanTake(g[steps], t)
    BY MeaningKept
  <2> QED
    BY <2>3, <2>5, <2>6, <2>7 DEF StayIsLeft
<1>8. StageInv'
  BY <1>7 DEF StageInv
<1> QED
  BY <1>2, <1>3, <1>8

LEMMA SkipStage ==
  ASSUME AnalysisInv, SkipSuccessor
  PROVE  RootInv' /\ CoverInv' /\ (Busy' => StageInv')
<1>1. /\ UNCHANGED <<settings, nodes, workQueue, task>> /\ UNCHANGED <<result, dependencies, pc>>
      /\ pc = "children" /\ pending # << >> /\ pending' = Tail(pending)
      /\ HasEmptySet(Head(pending).sets)
  BY DEF SkipSuccessor
<1>2. Busy /\ Busy'
  BY <1>1 DEF Busy
<1>3. TypeOK /\ TypeInv /\ RootInv
  BY DEF AnalysisInv, TypeInv
<1>4. NodesKept /\ UNCHANGED settings /\ nodes' # << >>
  BY <1>1, <1>3, SameNodes DEF RootInv
<1>5. \A n \in DOMAIN nodes : IsOpen(n) => IsOpen(n)'
  BY <1>1, <1>2 DEF IsOpen
<1>6. ASSUME NEW i PROVE ~IsIn(i, pending[1].sets)
  <2>1. HasEmptySet(pending[1].sets)
    BY <1>1, <1>3, PendingIs
  <2> QED
    BY <2>1 DEF IsIn, HasEmptySet
<1> QED
  BY <1>1, <1>4, <1>5, <1>6, SuccessorSettled

LEMMA FinishStage ==
  ASSUME AnalysisInv, FinishNode
  PROVE  RootInv' /\ CoverInv' /\ (Busy' => StageInv')
<1>1. /\ UNCHANGED <<settings, nodes, workQueue, task>> /\ UNCHANGED result
      /\ pc = "children" /\ pending = << >> /\ pc' = "dequeue"
  BY DEF FinishNode
<1>2. /\ TypeInv /\ TypeOK /\ RootInv /\ CoverInv /\ StageInv /\ task.node \in DOMAIN nodes
  BY <1>1 DEF AnalysisInv, TypeInv, ControlInv, Busy, EntryType
<1>3. UNCHANGED settings /\ NodesKept /\ RootInv'
  BY <1>1, <1>2, SameNodes
<1>4. ASSUME NEW i, NEW t PROVE ~IsPending(i, t)
  BY <1>1 DEF IsPending
<1>5. IsDone(task.node)
  BY <1>1, <1>2, <1>4 DEF IsDone, StageInv, StayIsLeft, current
<1>6. ASSUME NEW n \in DOMAIN nodes, IsOpen(n) PROVE IsDone(n)' \/ IsOpen(n)'
  <2>1. CASE n = task.node
    <3>1. IsDone(n)'
      BY <1>2, <1>3, <1>5, <2>1, DoneKept
    <3> QED
      BY <3>1
  <2>2. CASE \E k \in DOMAIN workQueue : workQueue[k].node = n
    BY <1>1, <2>2 DEF IsOpen
  <2> QED
    BY <1>6, <2>1, <2>2 DEF IsOpen
<1>7. CoverInv'
  BY <1>1, <1>2, <1>3, <1>6, CoverKept DEF NodesKept
<1> QED
  BY <1>1, <1>3, <1>7 DEF Busy

(* A verdict.                                                             *)
LEMMA VerdictStage ==
  ASSUME AnalysisInv, ReportConflict \/ Succeed
  PROVE  RootInv' /\ CoverInv' /\ (Busy' => StageInv')
<1>1. TypeOK /\ RootInv /\ CoverInv
  BY DEF AnalysisInv
<1>2. UNCHANGED <<settings, nodes, workQueue, task>> /\ pc' = "done"
  BY DEF ReportConflict, Succeed
<1>3. NodesKept /\ RootInv' /\ UNCHANGED settings
  BY <1>1, <1>2, SameNodes
<1>4. CASE ReportConflict
  BY <1>2, <1>3, <1>4 DEF ReportConflict, CoverInv, Busy
<1>5. CASE Succeed
  <2>1. result' # "failure" /\ pc = "dequeue" /\ result = "none"
    BY <1>5 DEF Succeed, AnalysisInv, ControlInv, TypeOK
  <2>2. \A n : IsOpen(n) => IsOpen(n)'
    BY <1>2, <2>1 DEF IsOpen, Busy
  <2>3. CoverInv'
    BY <1>1, <1>2, <1>3, <2>1, <2>2, CoverKept DEF NodesKept
  <2> QED
    BY <1>2, <1>3, <2>3 DEF Busy
<1> QED
  BY <1>4, <1>5

LEMMA ChildIsOpen ==
  ASSUME TypeInv, pc = "children", NEW sets, NEW deps, IsChild(sets, deps), UNCHANGED settings, UNCHANGED <<task, pc>>
  PROVE  /\ NodesKept /\ nodes' # << >>
         /\ \A n \in DOMAIN nodes : IsOpen(n) => IsOpen(n)'
         /\ \A n \in DOMAIN nodes' : n \in DOMAIN nodes \/ IsOpen(n)'
<1>1. NodesKept
  BY DEF IsChild, NodesKept
<1>2. nodes' # << >>
  BY DEF IsChild
<1>3. ASSUME NEW n \in DOMAIN nodes, IsOpen(n) PROVE IsOpen(n)'
  <2>1. CASE \E k \in DOMAIN workQueue : workQueue[k].node = n
    <3>1. PICK k \in DOMAIN workQueue : workQueue[k].node = n
      BY <2>1
    <3>2. k \in DOMAIN workQueue' /\ workQueue'[k].node = n
      BY <3>1 DEF IsChild
    <3> QED
      BY <3>2 DEF IsOpen
  <2>2. CASE task.node = n
    BY <2>2 DEF IsOpen, Busy
  <2> QED
    BY <1>3, <2>1, <2>2 DEF IsOpen
<1>4. ASSUME NEW n \in DOMAIN nodes', n \notin DOMAIN nodes PROVE IsOpen(n)'
  <2>1. n = Len(nodes) + 1
    BY <1>4 DEF IsChild
  <2>2. Len(workQueue) + 1 \in DOMAIN workQueue' /\ workQueue'[Len(workQueue) + 1].node = n
    BY <2>1 DEF IsChild
  <2> QED
    BY <2>2 DEF IsOpen
<1> QED
  BY <1>1, <1>2, <1>3, <1>4

LEMMA LandsInChild ==
  ASSUME TypeInv, task.node \in DOMAIN nodes, NEW sets, NEW deps, IsChild(sets, deps),
         UNCHANGED settings, UNCHANGED task, NEW i, NEW t, t = pending[1].transition,
         NEW j \in Instant, IsIn(j, sets), j.x0 \in deps, ClocksAtMost(j, (current.depth + 1) * par.horizon),
         j.x = Jumped(i, t).x
  PROVE  HasChildFor(i, t, task.node)'
<1> DEFINE c == Len(nodes) + 1
<1>1. /\ c \in DOMAIN nodes'
      /\ nodes'[c].location = ha.transition[t].target /\ nodes'[c].depth = current.depth + 1
      /\ nodes'[c].sets = sets /\ nodes'[c].dependencies = deps
      /\ nodes'[task.node] = nodes[task.node] /\ task' = task
  BY DEF IsChild
<1> HIDE DEF c
<1>2. PICK d : d = c
  OBVIOUS
<1>3. ha' = ha /\ par' = par
  BY DEF settings
<1>4. IsEntry(j, d)'
  BY <1>1, <1>2, <1>3, MeaningKept DEF IsEntry, IsIn, ClocksAtMost
<1>5. LandsIn(i, t, d)'
  BY <1>1, <1>2, <1>3, <1>4, MeaningKept DEF LandsIn
<1>6. d \in DOMAIN nodes' /\ nodes'[d].depth = nodes'[task'.node].depth + 1
  BY <1>1, <1>2 DEF current
<1> QED
  BY <1>5, <1>6 DEF HasChildFor

LEMMA AddStage ==
  ASSUME AnalysisInv, AddSuccessor
  PROVE  RootInv' /\ CoverInv' /\ (Busy' => StageInv')
<1>1. /\ pc = "children" /\ pending # << >> /\ UNCHANGED settings /\ UNCHANGED <<task, pc, result>>
      /\ dependencies' = dependencies /\ pending' = Tail(pending)
  BY DEF AddSuccessor, AddChild, settings
<1>2. TypeInv /\ task.node \in DOMAIN nodes
  BY <1>1 DEF AnalysisInv, TypeInv, ControlInv, Busy, EntryType
<1>3. IsChild(pending[1].sets, dependencies)
  BY <1>2, AddTyped
<1>4. /\ NodesKept /\ nodes' # << >>
      /\ \A n \in DOMAIN nodes : IsOpen(n) => IsOpen(n)'
      /\ \A n \in DOMAIN nodes' : n \in DOMAIN nodes \/ IsOpen(n)'
  BY <1>1, <1>2, <1>3, ChildIsOpen
<1>5. ASSUME NEW i \in Instant, NEW t, t = pending[1].transition,
             IsIn(Jumped(i, t), pending[1].sets), i.x0 \in dependencies,
             ClocksAtMost(i, (current.depth + 1) * par.horizon)
      PROVE  HasChildFor(i, t, task.node)'
  <2>1. t \in DOMAIN ha.transition /\ IsDecomposed(ha) /\ par.clockCount \in Nat
    BY <1>1, <1>2, <1>5, PendingIs, SettingsAre DEF TypeInv
  <2>2. /\ Jumped(i, t) \in Instant /\ Jumped(i, t).x0 \in dependencies
        /\ ClocksAtMost(Jumped(i, t), (current.depth + 1) * par.horizon)
    BY <1>5, <2>1, JumpedIs DEF ClocksAtMost
  <2> QED
    BY <1>1, <1>2, <1>3, <1>5, <2>2, LandsInChild
<1> QED
  BY <1>1, <1>4, <1>5, SuccessorSettled

(* The instant after the synchronisation.                                 *)
Restarted(i) ==
  [x |-> i.x, x0 |-> [s \in Clocked(ha) |-> i.x[s]], clock |-> [k \in 0..par.clockCount - 1 |-> 0]]

LEMMA RestartedIs ==
  ASSUME IsDecomposed(ha), par.clockCount \in Nat, par.clockCount > 0, NEW i \in Instant
  PROVE  /\ Restarted(i) \in Instant
         /\ Restarted(i).x = i.x
         /\ Restarted(i).x0 = [s \in Clocked(ha) |-> i.x[s]]
         /\ \A latest \in Nat : ClocksAtMost(Restarted(i), latest)
         /\ \A s \in Clocked(ha) : ValuationOf(Restarted(i), s) = AddClocksAndInitial(i.x[s], par.clockCount)
         /\ \A s \in Subspace : s \notin Clocked(ha) => ValuationOf(Restarted(i), s) = ValuationOf(i, s)
<1>1. i.x \in Product
  BY InstantIs
<1>2. \A s \in Subspace : i.x[s] \in Value
  BY <1>1 DEF Product
<1>3. [s \in Clocked(ha) |-> i.x[s]] \in NoDependencies(ha)
  BY <1>2, SubspaceSets DEF NoDependencies
<1>4. [k \in 0..par.clockCount - 1 |-> 0] \in [0..par.clockCount - 1 -> Nat]
  OBVIOUS
<1>5. /\ Restarted(i) \in Instant
      /\ Restarted(i).x = i.x /\ Restarted(i).x0 = [s \in Clocked(ha) |-> i.x[s]]
      /\ Restarted(i).clock = [k \in 0..par.clockCount - 1 |-> 0]
  BY <1>1, <1>3, <1>4, IsInstant DEF Restarted
<1>6. \A latest \in Nat : ClocksAtMost(Restarted(i), latest)
  BY <1>5 DEF ClocksAtMost
<1>7. ASSUME NEW s \in Clocked(ha)
      PROVE  ValuationOf(Restarted(i), s) = AddClocksAndInitial(i.x[s], par.clockCount)
  BY <1>5, <1>7 DEF ValuationOf, AddClocksAndInitial
<1>8. ASSUME NEW s \in Subspace, s \notin Clocked(ha)
      PROVE  ValuationOf(Restarted(i), s) = ValuationOf(i, s)
  BY <1>5, <1>8 DEF ValuationOf
<1> QED
  BY <1>5, <1>6, <1>7, <1>8

(* The constraints between subspaces admit what they were made from.      *)
LEMMA DependenciesAdmit ==
  ASSUME NEW A, NEW set, NEW f \in set,
         \A g \in set : g \in [Clocked(A) -> Value]
  PROVE  f \in GetDependencies(A, set)
<1>1. PICK low \in Value, high \in Value : \A v \in Value : low <= v /\ v <= high
  BY ValueAssumption
<1>2. low \in Int /\ high \in Int /\ Value \subseteq Int
  BY <1>1, ValueAssumption
<1>3. f \in [Clocked(A) -> Value]
  OBVIOUS
<1>4. ASSUME NEW r \in Rows(A)
      PROVE  RowValue(r, f) <= Bound(r, set)
  <2> DEFINE T == {RowValue(r, g) : g \in set}
             m == IF low < 0 THEN -low ELSE low
             k == IF high < 0 THEN -high ELSE high
             most == 2 * (m + k)
  <2>1. most \in Int /\ -most \in Int
    BY <1>2
  <2>2. r[1] \in Clocked(A) /\ r[2] \in Clocked(A) /\ r[3] \in {-1, 1} /\ r[4] \in {-1, 1}
    BY DEF Rows
  <2>3. ASSUME NEW g \in set PROVE RowValue(r, g) \in (-most)..most
    <3>1. g[r[1]] \in Value /\ g[r[2]] \in Value
      BY <2>2
    <3>2. /\ low <= g[r[1]] /\ g[r[1]] <= high /\ g[r[1]] \in Int
          /\ low <= g[r[2]] /\ g[r[2]] <= high /\ g[r[2]] \in Int
      BY <1>1, <1>2, <3>1
    <3> QED
      BY <1>2, <2>2, <3>2 DEF RowValue
  <2>4. T \in SUBSET ((-most)..most)
    BY <2>3
  <2>5. RowValue(r, f) \in T
    OBVIOUS
  <2> HIDE DEF T, most
  <2>6. RowValue(r, f) <= Max(T)
    BY <2>1, <2>4, <2>5, ExtremesExist
  <2> QED
    BY <2>6 DEF T, Bound
<1> QED
  BY <1>3, <1>4 DEF GetDependencies

LEMMA SynchronizedCovers ==
  ASSUME TypeInv, NEW sets \in StateSets(LatestTime(par)), NEW i \in Instant, par.clockCount > 0,
         IsIn(i, sets), i.x0 \in dependencies
  PROVE  LET synchronized == SynchronizeAndResetClocks(ha, sets, dependencies, par.clockCount)
         IN  IsIn(Restarted(i), synchronized.sets) /\ Restarted(i).x0 \in synchronized.dependencies
<1> DEFINE f == [s \in Clocked(ha) |-> ValuationOf(i, s)]
           h == [s \in Clocked(ha) |-> i.x[s]]
           all == ComposeSubspaces(ha, sets, dependencies)
           composed == Projected(all)
           synchronized == SynchronizeAndResetClocks(ha, sets, dependencies, par.clockCount)
<1>1. /\ IsDecomposed(ha) /\ par.clockCount \in Nat /\ TypeOK /\ LatestTime(par) \in Nat
      /\ Clocked(ha) \subseteq Subspace
  BY SettingsAre, SubspaceSets DEF TypeInv
<1>2. f \in all
  BY <1>1, InstantIsComposed DEF IsIn
<1>3. h = [s \in DOMAIN f |-> f[s].x]
  <2>1. ASSUME NEW s \in Clocked(ha) PROVE f[s].x = i.x[s]
    BY <1>1, ValuationOfIs
  <2> QED
    BY <2>1
<1>4. \A g \in all : DOMAIN g = Clocked(ha) /\ \A s \in Clocked(ha) : g[s] \in sets[s]
  BY DEF ComposeSubspaces
<1> HIDE DEF f, h, all
<1>5. h \in composed
  BY <1>2, <1>3 DEF Projected
<1>6. ASSUME NEW p \in composed PROVE p \in [Clocked(ha) -> Value]
  <2>1. PICK g \in all : p = [s \in DOMAIN g |-> g[s].x]
    BY DEF Projected
  <2>2. DOMAIN g = Clocked(ha) /\ \A s \in Clocked(ha) : g[s] \in sets[s]
    BY <1>4
  <2>3. ASSUME NEW s \in Clocked(ha) PROVE g[s].x \in Value
    <3>1. g[s] \in Valuations(s, LatestTime(par))
      BY <1>1, <2>2, StateSetsIs
    <3> QED
      BY <3>1, ValuationIs DEF Valuations
  <2> QED
    BY <2>1, <2>2, <2>3
<1> HIDE DEF composed
<1>7. h \in GetDependencies(ha, composed)
  BY <1>5, <1>6, DependenciesAdmit
<1>8. /\ synchronized.dependencies = GetDependencies(ha, composed)
      /\ \A s \in Subspace : synchronized.sets[s] =
           IF s \in Clocked(ha) THEN Decompose(composed, s, par.clockCount) ELSE sets[s]
  BY <1>5 DEF SynchronizeAndResetClocks, composed, all
<1> HIDE DEF synchronized
<1>9. ASSUME NEW s \in Subspace PROVE ValuationOf(Restarted(i), s) \in synchronized.sets[s]
  <2>1. CASE s \in Clocked(ha)
    <3>1. ValuationOf(Restarted(i), s) = AddClocksAndInitial(h[s], par.clockCount)
      BY <1>1, <2>1, RestartedIs DEF h
    <3>2. ValuationOf(Restarted(i), s) \in Decompose(composed, s, par.clockCount)
      BY <1>5, <3>1 DEF Decompose
    <3> QED
      BY <1>8, <2>1, <3>2
  <2>2. CASE s \notin Clocked(ha)
    <3>1. ValuationOf(Restarted(i), s) = ValuationOf(i, s)
      BY <1>1, <2>2, RestartedIs
    <3> QED
      BY <1>8, <2>2, <3>1 DEF IsIn
  <2> QED
    BY <2>1, <2>2
<1>10. Restarted(i).x0 = h
  BY <1>1, RestartedIs DEF h
<1> QED
  BY <1>7, <1>8, <1>9, <1>10 DEF IsIn, synchronized

LEMMA AddSynchronizedStage ==
  ASSUME AnalysisInv, NothingOverwritten, AddSynchronizedSuccessor
  PROVE  RootInv' /\ CoverInv' /\ (Busy' => StageInv')
<1>1. /\ pc = "children" /\ pending # << >> /\ UNCHANGED settings /\ UNCHANGED <<task, pc, result>>
      /\ pending' = Tail(pending) /\ ClocksAreUsedUp /\ ~HasEmptySet(Head(pending).sets)
  BY DEF AddSynchronizedSuccessor, AddChild, settings
<1>2. TypeInv /\ TypeOK /\ task.node \in DOMAIN nodes
  BY <1>1 DEF AnalysisInv, TypeInv, ControlInv, Busy, EntryType
<1>3. IsChild(Synchronized.sets, Synchronized.dependencies)
  BY <1>2, AddSynchronizedTyped
<1>4. /\ NodesKept /\ nodes' # << >>
      /\ \A n \in DOMAIN nodes : IsOpen(n) => IsOpen(n)'
      /\ \A n \in DOMAIN nodes' : n \in DOMAIN nodes \/ IsOpen(n)'
  <2> DEFINE sets == Synchronized.sets
             deps == Synchronized.dependencies
  <2>1. IsChild(sets, deps)
    BY <1>3
  <2> HIDE DEF sets, deps
  <2> QED
    BY <1>1, <1>2, <2>1, ChildIsOpen
<1>5. \A k \in 2..Len(pending) : HasEmptySet(pending[k].sets)
  BY <1>1 DEF NothingOverwritten
<1>6. ASSUME NEW i \in Instant, NEW t, t = pending[1].transition,
             IsIn(Jumped(i, t), pending[1].sets), i.x0 \in dependencies,
             ClocksAtMost(i, (current.depth + 1) * par.horizon)
      PROVE  HasChildFor(i, t, task.node)'
  <2>1. /\ t \in DOMAIN ha.transition /\ IsDecomposed(ha) /\ par.clockCount \in Nat /\ par.clockCount > 0
        /\ pending[1].sets \in StateSets(LatestTime(par)) /\ par.horizon \in Nat
    BY <1>1, <1>2, <1>6, PendingIs, SettingsAre DEF ClocksAreUsedUp
  <2>2. Jumped(i, t) \in Instant /\ Jumped(i, t).x0 \in dependencies
    BY <1>6, <2>1, JumpedIs
  <2>3. /\ IsIn(Restarted(Jumped(i, t)), Synchronized.sets)
        /\ Restarted(Jumped(i, t)).x0 \in Synchronized.dependencies
    BY <1>2, <1>6, <2>1, <2>2, SynchronizedCovers DEF Synchronized
  <2>4. (current.depth + 1) * par.horizon \in Nat
    <3>1. nodes[task.node].depth \in Nat
      BY <1>2, NodeIs
    <3>2. current.depth + 1 \in Nat
      BY <3>1 DEF current
    <3> QED
      BY <2>1, <3>2
  <2>5. /\ Restarted(Jumped(i, t)) \in Instant /\ Restarted(Jumped(i, t)).x = Jumped(i, t).x
        /\ ClocksAtMost(Restarted(Jumped(i, t)), (current.depth + 1) * par.horizon)
    BY <2>1, <2>2, <2>4, RestartedIs
  <2> QED
    BY <1>1, <1>2, <1>3, <1>6, <2>3, <2>5, LandsInChild
<1> QED
  BY <1>1, <1>4, <1>5, <1>6, SuccessorSettled

--------------------------------------------------------------------------
(***************************************************************************)
(* The invariant of the analysis.                                          *)
(***************************************************************************)
LEMMA RootIs ==
  ASSUME Init, IsDecomposed(ha), par.clockCount \in Nat, par.horizon \in Nat, NEW p \in Composed(ha.initial.set)
  PROVE  \E i : IsEntry(i, 1) /\ i.x = p
<1> DEFINE clock == [k \in 0..par.clockCount - 1 |-> 0]
           x0 == [s \in Clocked(ha) |-> p[s]]
           i == [x |-> p, x0 |-> x0, clock |-> clock]
<1>1. /\ nodes[1].depth = 0 /\ nodes[1].dependencies = NoDependencies(ha)
      /\ \A s \in Subspace : nodes[1].sets[s] =
           {AddClocksAndInitial(x, Clocks(ha, s, par.clockCount)) : x \in ha.initial.set[s]}
  BY DEF Init
<1>2. p \in Product /\ \A s \in Subspace : p[s] \in ha.initial.set[s] /\ p[s] \in Value
  BY DEF Composed, Product
<1>3. x0 \in NoDependencies(ha)
  BY <1>2, SubspaceSets DEF NoDependencies
<1>4. clock \in [0..par.clockCount - 1 -> Nat]
  OBVIOUS
<1>5. i \in Instant /\ i.x = p /\ i.x0 = x0 /\ i.clock = clock
  BY <1>2, <1>3, <1>4, IsInstant
<1>6. ASSUME NEW s \in Subspace PROVE ValuationOf(i, s) \in nodes[1].sets[s]
  <2>1. ValuationOf(i, s) = AddClocksAndInitial(p[s], Clocks(ha, s, par.clockCount))
    BY DEF ValuationOf, AddClocksAndInitial, Clocks
  <2> HIDE DEF i
  <2> QED
    BY <1>1, <1>2, <2>1
<1>7. \A k \in 0..par.clockCount - 1 : i.clock[k] <= 0 * par.horizon
  <2>1. 0 * par.horizon = 0
    OBVIOUS
  <2> QED
    BY <1>5, <2>1
<1> HIDE DEF i, x0
<1>8. IsEntry(i, 1)
  BY <1>1, <1>3, <1>5, <1>6, <1>7 DEF IsEntry, IsIn, ClocksAtMost
<1> QED
  BY <1>5, <1>8

LEMMA AnalysisInit == Init => AnalysisInv
<1> SUFFICES ASSUME Init PROVE AnalysisInv
  OBVIOUS
<1>1. TypeInv
  BY TypeInit
<1>2. IsDecomposed(ha) /\ par.clockCount \in Nat /\ par.horizon \in Nat
  BY <1>1, SettingsAre DEF TypeInv
<1>3. RootInv
  BY <1>2, RootIs DEF RootInv, Init
<1>4. CoverInv
  <2>1. DOMAIN nodes = {1} /\ 1 \in DOMAIN workQueue /\ workQueue[1].node = 1
    BY DEF Init
  <2> QED
    BY <2>1 DEF CoverInv, IsOpen
<1>5. ~Busy
  BY DEF Init, Busy
<1> QED
  BY <1>1, <1>3, <1>4, <1>5 DEF AnalysisInv, TypeInv

LEMMA AnalysisStutters ==
  ASSUME AnalysisInv, UNCHANGED vars
  PROVE  AnalysisInv'
<1>1. /\ UNCHANGED <<settings, nodes, workQueue, task>> /\ UNCHANGED <<result, pc, dependencies, pending>>
      /\ UNCHANGED <<flowpipe, workerFlowpipe>>
  BY DEF vars, settings
<1>2. TypeInv'
  BY TypeNext DEF AnalysisInv, TypeInv
<1>3. TypeOK /\ RootInv /\ CoverInv
  BY DEF AnalysisInv
<1>4. NodesKept /\ RootInv' /\ UNCHANGED settings
  BY <1>1, <1>3, SameNodes
<1>5. \A n : IsOpen(n) => IsOpen(n)'
  BY <1>1 DEF IsOpen, Busy
<1>6. CoverInv'
  BY <1>1, <1>3, <1>4, <1>5, CoverKept DEF NodesKept
<1>7. ASSUME Busy', NEW steps \in Nat, NEW g, IsStay(g, steps, task.node)'
      PROVE  /\ pc \in {"clock", "safety", "jumps"} => StayIsCovered(g, steps)'
             /\ pc \in {"jumps", "children"} => IsGood(g[steps], current.location)'
             /\ pc = "children" => StayIsLeft(g, steps)'
  <2>1. Busy /\ IsStay(g, steps, task.node) /\ current' = current /\ task' = task
    BY <1>1, <1>4, <1>7, CurrentStays DEF Busy, current
  <2>2. task.node \in DOMAIN nodes
    BY <2>1 DEF AnalysisInv, ControlInv, EntryType
  <2>3. /\ pc \in {"clock", "safety", "jumps"} => StayIsCovered(g, steps)
        /\ pc \in {"jumps", "children"} => IsGood(g[steps], current.location)
        /\ pc = "children" => StayIsLeft(g, steps)
    BY <2>1 DEF AnalysisInv, StageInv
  <2>4. StayIsCovered(g, steps) => StayIsCovered(g, steps)'
    BY <1>1, <1>4, HoldsKept DEF StayIsCovered
  <2>5. IsGood(g[steps], current.location) => IsGood(g[steps], current.location)'
    BY <1>4, <2>1 DEF IsGood, CollectBadStates, settings
  <2>6. ASSUME NEW t PROVE IsPending(g[steps], t) => IsPending(g[steps], t)'
    BY <1>1, <1>4, MeaningKept DEF IsPending, IsIn
  <2>7. ASSUME NEW t PROVE HasChildFor(g[steps], t, task.node) => HasChildFor(g[steps], t, task.node)'
    BY <1>4, <2>1, <2>2, ChildrenKept
  <2>8. /\ TransitionsFrom(ha, current.location)' = TransitionsFrom(ha, current.location)
        /\ \A t : CanTake(g[steps], t)' <=> CanTake(g[steps], t)
    BY <1>4, <2>1, MeaningKept DEF TransitionsFrom, settings
  <2>9. StayIsLeft(g, steps) => StayIsLeft(g, steps)'
    BY <2>6, <2>7, <2>8 DEF StayIsLeft
  <2> QED
    BY <2>3, <2>4, <2>5, <2>9
<1>8. Busy' => StageInv'
  BY <1>1, <1>7 DEF StageInv
<1> QED
  BY <1>2, <1>4, <1>6, <1>8 DEF AnalysisInv, TypeInv

LEMMA AnalysisNext == AnalysisInv /\ TimesAreBracketed /\ NothingOverwritten /\ [Next]_vars => AnalysisInv'
<1> SUFFICES ASSUME AnalysisInv, TimesAreBracketed, NothingOverwritten, [Next]_vars PROVE AnalysisInv'
  OBVIOUS
<1>1. TypeInv'
  BY TypeNext DEF AnalysisInv, TypeInv
<1>2. CASE Next
  <2>1. RootInv' /\ CoverInv' /\ (Busy' => StageInv')
    BY <1>2, DequeueCovers, TimeStage, ClockStage, CheckStage, JumpsStage, SkipStage, AddStage,
       AddSynchronizedStage, FinishStage, VerdictStage DEF Next
  <2> QED
    BY <1>1, <2>1 DEF AnalysisInv, TypeInv
<1>3. CASE UNCHANGED vars
  BY <1>3, AnalysisStutters
<1> QED
  BY <1>2, <1>3

--------------------------------------------------------------------------
(***************************************************************************)
(* Runs of the undecomposed automaton follow the stays in the nodes.       *)
(***************************************************************************)
LEMMA ProductIs ==
  LET A == ProductAutomaton(ha)
  IN  /\ \A l \in Location, p \in Product :
           /\ A.flow[l][p] = [s \in Subspace |-> ha.flow[s][l][p[s]]]
           /\ A.during[l][p] = {p}
      /\ \A l \in Location :
           /\ A.invariant[l] = Composed(ha.invariant[l])
           /\ A.localBad[l] = UNION {Composed(b) : b \in ha.localBad[l]}
      /\ DOMAIN A.initial = {1} /\ A.initial[1].loc = ha.initial.loc
      /\ A.initial[1].set = Composed(ha.initial.set)
      /\ A.globalBad = UNION {Composed(b) : b \in ha.globalBad}
      /\ DOMAIN A.transition = DOMAIN ha.transition
      /\ \A t \in DOMAIN ha.transition :
           /\ A.transition[t].source = ha.transition[t].source
           /\ A.transition[t].target = ha.transition[t].target
           /\ A.transition[t].guard = Composed(ha.transition[t].guard)
           /\ \A p \in Product : A.transition[t].reset[p] = [s \in Subspace |-> ha.transition[t].reset[s][p[s]]]
<1> DEFINE A == ProductAutomaton(ha)
<1>1. \A l \in Location, p \in Product : A.flow[l][p] = [s \in Subspace |-> ha.flow[s][l][p[s]]]
  BY DEF ProductAutomaton
<1>2. \A l \in Location, p \in Product : A.during[l][p] = {p}
  BY DEF ProductAutomaton
<1>3. \A l \in Location :
           /\ A.invariant[l] = Composed(ha.invariant[l])
           /\ A.localBad[l] = UNION {Composed(b) : b \in ha.localBad[l]}
  BY DEF ProductAutomaton
<1>4. /\ DOMAIN A.initial = {1} /\ A.initial[1].loc = ha.initial.loc
      /\ A.initial[1].set = Composed(ha.initial.set)
      /\ A.globalBad = UNION {Composed(b) : b \in ha.globalBad}
  BY DEF ProductAutomaton
<1>5. /\ DOMAIN A.transition = DOMAIN ha.transition
      /\ \A t \in DOMAIN ha.transition :
           /\ A.transition[t].source = ha.transition[t].source
           /\ A.transition[t].target = ha.transition[t].target
           /\ A.transition[t].guard = Composed(ha.transition[t].guard)
           /\ A.transition[t].reset = [p \in Product |-> [s \in Subspace |-> ha.transition[t].reset[s][p[s]]]]
  BY DEF ProductAutomaton
<1> HIDE DEF A
<1>6. \A t \in DOMAIN ha.transition : \A p \in Product :
        A.transition[t].reset[p] = [s \in Subspace |-> ha.transition[t].reset[s][p[s]]]
  BY <1>5
<1> QED
  BY <1>1, <1>2, <1>3, <1>4, <1>5, <1>6 DEF A

LEMMA ComposedIs ==
  ASSUME NEW p \in Product, NEW condition
  PROVE  p \in Composed(condition) <=> \A s \in Subspace : p[s] \in condition[s]
BY DEF Composed

(* A stay that has just begun.                                            *)
LEMMA StayBegins ==
  ASSUME TypeOK, NEW n \in DOMAIN nodes, NEW i, IsEntry(i, n), MeetsInvariant(i, nodes[n].location)
  PROVE  \E g : IsStay(g, 0, n) /\ g[0] = i
<1> DEFINE g == [k \in {0} |-> i]
<1>1. g[0] = i
  OBVIOUS
<1> HIDE DEF g
<1>2. 0 \in 0..par.horizon /\ (\A k \in 0..0 : k = 0) /\ (\A k \in 1..0 : FALSE)
  BY SettingsAre
<1>3. IsStay(g, 0, n)
  BY <1>1, <1>2 DEF IsStay
<1> QED
  BY <1>1, <1>3

LEMMA StayGoesOn ==
  ASSUME TypeInv, NEW n \in DOMAIN nodes, NEW steps, NEW g, IsStay(g, steps, n), steps + 1 <= par.horizon,
         MeetsInvariant(Elapsed(g[steps], nodes[n].location), nodes[n].location)
  PROVE  \E f : IsStay(f, steps + 1, n) /\ f[steps + 1] = Elapsed(g[steps], nodes[n].location)
<1> DEFINE next == Elapsed(g[steps], nodes[n].location)
           f == [k \in 0..steps + 1 |-> IF k = steps + 1 THEN next ELSE g[k]]
<1>1. steps \in Nat /\ steps + 1 \in 0..par.horizon
  BY StayIs, SettingsAre DEF TypeInv
<1>2. f[steps + 1] = next /\ \A k \in 0..steps : f[k] = g[k]
  BY <1>1
<1> HIDE DEF f, next
<1>3. IsEntry(f[0], n)
  BY <1>1, <1>2 DEF IsStay
<1>4. ASSUME NEW k \in 0..steps + 1 PROVE MeetsInvariant(f[k], nodes[n].location)
  <2>1. k = steps + 1 \/ k \in 0..steps
    BY <1>1
  <2> QED
    BY <1>2, <2>1 DEF IsStay, next
<1>5. ASSUME NEW k \in 1..steps + 1 PROVE f[k] = Elapsed(f[k - 1], nodes[n].location)
  <2>1. CASE k = steps + 1
    <3>1. k - 1 = steps /\ steps \in 0..steps
      BY <1>1, <2>1
    <3> QED
      BY <1>2, <2>1, <3>1 DEF next
  <2>2. CASE k # steps + 1
    <3>1. k \in 1..steps /\ k \in 0..steps /\ k - 1 \in 0..steps
      BY <1>1, <2>2
    <3> QED
      BY <1>2, <3>1 DEF IsStay
  <2> QED
    BY <2>1, <2>2
<1>6. IsStay(f, steps + 1, n)
  BY <1>1, <1>3, <1>4, <1>5 DEF IsStay
<1> QED
  BY <1>2, <1>6 DEF next

(* After a success every node has been looked at.                         *)
LEMMA SuccessIsComplete ==
  ASSUME AnalysisInv, result = "success"
  PROVE  pc = "done" /\ \A n \in DOMAIN nodes : IsDone(n)
<1>1. pc = "done" /\ workQueue = << >>
  BY DEF AnalysisInv, ControlInv
<1>2. \A n : ~IsOpen(n)
  BY <1>1 DEF IsOpen, Busy
<1> QED
  BY <1>1, <1>2 DEF AnalysisInv, CoverInv

LEMMA FollowedKept ==
  ASSUME UNCHANGED vars, NEW r
  PROVE  IsFollowed(r) => IsFollowed(r)'
<1>1. UNCHANGED settings /\ nodes' = nodes
  BY DEF vars, settings
<1>2. Product' = Product
  BY DEF Product
<1>3. ASSUME NEW n, NEW g PROVE IsStay(g, r.steps, n) => IsStay(g, r.steps, n)'
  BY <1>1, StaysKept
<1> QED
  BY <1>1, <1>2, <1>3 DEF IsFollowed

LEMMA StartIsFollowed ==
  ASSUME AnalysisInv, ProductRun!Start(ProductAutomaton(ha))
  PROVE  IsFollowed(run')
<1> DEFINE A == ProductAutomaton(ha)
<1>1. TypeInv /\ TypeOK /\ RootInv /\ IsDecomposed(ha)
  BY SettingsAre DEF AnalysisInv, TypeInv
<1>2. PICK i, p, q :
        /\ i \in DOMAIN A.initial /\ q \in Product
        /\ p \in A.initial[i].set
        /\ ProductRun!Enters(A, A.initial[i].loc, p, q)
        /\ run' = [location |-> A.initial[i].loc, valuation |-> q, steps |-> 0, jumps |-> 0,
                   path |-> << >>, earliest |-> 0, latest |-> 0]
  BY DEF ProductRun!Start
<1>3. ha.initial.loc \in Location
  BY <1>1, AutomatonIs
<1> HIDE DEF A
<1>4. A.initial[i].loc = ha.initial.loc /\ p \in Composed(ha.initial.set)
  BY <1>2, ProductIs DEF A
<1>5. p \in Product
  BY <1>4 DEF Composed
<1>6. q = p /\ p \in Composed(ha.invariant[ha.initial.loc])
  <2>1. p \in A.invariant[ha.initial.loc] /\ q \in A.during[ha.initial.loc][p]
    BY <1>2, <1>4 DEF ProductRun!Enters
  <2>2. A.invariant[ha.initial.loc] = Composed(ha.invariant[ha.initial.loc])
    BY <1>3, ProductIs DEF A
  <2>3. A.during[ha.initial.loc][p] = {p}
    BY <1>3, <1>5, ProductIs DEF A
  <2> QED
    BY <2>1, <2>2, <2>3
<1>7. PICK e : IsEntry(e, 1) /\ e.x = p
  BY <1>1, <1>4 DEF RootInv
<1>8. 1 \in DOMAIN nodes /\ nodes[1].location = ha.initial.loc /\ nodes[1].depth = 0
  BY <1>1 DEF RootInv, TypeOK
<1>9. MeetsInvariant(e, nodes[1].location)
  BY <1>5, <1>6, <1>7, <1>8, ComposedIs DEF MeetsInvariant
<1>10. PICK g : IsStay(g, 0, 1) /\ g[0] = e
  BY <1>1, <1>7, <1>8, <1>9, StayBegins
<1>11. /\ run'.location = ha.initial.loc /\ run'.valuation = p /\ run'.steps = 0 /\ run'.jumps = 0
       /\ run' \in [location : Location, valuation : Product, steps : Nat, jumps : Nat,
                    path : Seq(Nat), earliest : Int, latest : Int]
  BY <1>2, <1>3, <1>4, <1>5, <1>6
<1> QED
  BY <1>7, <1>8, <1>10, <1>11 DEF IsFollowed

LEMMA ElapseIsFollowed ==
  ASSUME AnalysisInv, RunInv, ProductRun!Elapse(ProductAutomaton(ha), par.horizon, 1)
  PROVE  IsFollowed(run')
<1> DEFINE A == ProductAutomaton(ha)
<1>1. TypeInv /\ TypeOK /\ IsDecomposed(ha) /\ par.clockCount \in Nat
  BY SettingsAre DEF AnalysisInv, TypeInv
<1>2. /\ run # ProductRun!NoRun
      /\ (run.steps + 1) * 1 <= par.horizon
      /\ A.flow[run.location][run.valuation] \in A.invariant[run.location]
      /\ run' = [run EXCEPT !.valuation = A.flow[run.location][@], !.steps = @ + 1]
  BY DEF ProductRun!Elapse
<1>3. IsFollowed(run)
  BY <1>2 DEF RunInv
<1>4. PICK n, g :
        /\ n \in DOMAIN nodes
        /\ IsStay(g, run.steps, n) /\ run.location = nodes[n].location
        /\ run.jumps = nodes[n].depth /\ run.valuation = g[run.steps].x
  BY <1>3 DEF IsFollowed
<1>5. run \in [location : Location, valuation : Product, steps : Nat, jumps : Nat,
               path : Seq(Nat), earliest : Int, latest : Int]
  BY <1>3 DEF IsFollowed
<1> DEFINE l == run.location
           i == g[run.steps]
           v == A.flow[l][run.valuation]
<1>6. l \in Location /\ run.valuation \in Product /\ run.steps \in Nat /\ run.steps + 1 <= par.horizon
  BY <1>2, <1>5
<1>7. i \in Instant
  BY <1>1, <1>4, <1>6, StayIs
<1>8. v = Elapsed(i, l).x /\ Elapsed(i, l) \in Instant
  <2>1. v = [s \in Subspace |-> ha.flow[s][l][run.valuation[s]]]
    BY <1>6, ProductIs
  <2>2. Elapsed(i, l).x = [s \in Subspace |-> ha.flow[s][l][i.x[s]]] /\ Elapsed(i, l) \in Instant
    BY <1>1, <1>6, <1>7, ElapsedIs
  <2> QED
    BY <1>4, <2>1, <2>2
<1>9. A.invariant[l] = Composed(ha.invariant[l])
  BY <1>6, ProductIs
<1> HIDE DEF A
<1>10. v \in Product /\ v \in Composed(ha.invariant[l])
  BY <1>2, <1>9 DEF Composed
<1>11. /\ run'.location = l /\ run'.valuation = v /\ run'.steps = run.steps + 1 /\ run'.jumps = run.jumps
       /\ run' \in [location : Location, valuation : Product, steps : Nat, jumps : Nat,
                    path : Seq(Nat), earliest : Int, latest : Int]
  <2> HIDE DEF v, l
  <2>1. run' = [[run EXCEPT !.valuation = v] EXCEPT !.steps = run.steps + 1]
    BY <1>2, <1>5 DEF v, l
  <2> DEFINE moved == [run EXCEPT !.valuation = v]
  <2>2. v \in Product
    BY <1>10
  <2>3. /\ moved.location = l /\ moved.valuation = v /\ moved.jumps = run.jumps
        /\ moved \in [location : Location, valuation : Product, steps : Nat, jumps : Nat,
                      path : Seq(Nat), earliest : Int, latest : Int]
    BY <1>5, <2>2 DEF l
  <2>4. run' = [moved EXCEPT !.steps = run.steps + 1]
    BY <2>1
  <2> HIDE DEF moved
  <2>5. run.steps + 1 \in Nat
    BY <1>6
  <2>6. ASSUME NEW m, NEW k \in Nat,
               m \in [location : Location, valuation : Product, steps : Nat, jumps : Nat,
                      path : Seq(Nat), earliest : Int, latest : Int]
        PROVE  /\ [m EXCEPT !.steps = k].location = m.location
               /\ [m EXCEPT !.steps = k].valuation = m.valuation
               /\ [m EXCEPT !.steps = k].steps = k
               /\ [m EXCEPT !.steps = k].jumps = m.jumps
               /\ [m EXCEPT !.steps = k] \in
                    [location : Location, valuation : Product, steps : Nat, jumps : Nat,
                     path : Seq(Nat), earliest : Int, latest : Int]
    BY <2>6
  <2> QED
    BY <2>3, <2>4, <2>5, <2>6
<1> HIDE DEF v
<1>12. MeetsInvariant(Elapsed(i, l), l)
  BY <1>8, <1>10, ComposedIs DEF MeetsInvariant
<1>13. PICK f : IsStay(f, run.steps + 1, n) /\ f[run.steps + 1] = Elapsed(i, l)
  BY <1>1, <1>4, <1>6, <1>12, StayGoesOn
<1> QED
  BY <1>4, <1>8, <1>11, <1>13 DEF IsFollowed

LEMMA JumpIsFollowed ==
  ASSUME AnalysisInv, RunInv, ProductRun!Jump(ProductAutomaton(ha), par.jumpDepth, 1)
  PROVE  IsFollowed(run')
<1> DEFINE A == ProductAutomaton(ha)
<1>1. TypeInv /\ TypeOK /\ IsDecomposed(ha) /\ par.clockCount \in Nat
  BY SettingsAre DEF AnalysisInv, TypeInv
<1>2. PICK t, q :
        /\ run # ProductRun!NoRun /\ run.jumps < par.jumpDepth
        /\ t \in ProductRun!TransitionsFrom(A, run.location) /\ q \in Product
        /\ run.valuation \in A.transition[t].guard
        /\ ProductRun!Enters(A, A.transition[t].target, A.transition[t].reset[run.valuation], q)
        /\ run' = [location |-> A.transition[t].target, valuation |-> q, steps |-> 0,
                   jumps |-> run.jumps + 1, path |-> Append(run.path, t),
                   earliest |-> run.earliest + run.steps * 1,
                   latest |-> run.latest + (run.steps + 1) * 1]
  BY DEF ProductRun!Jump
<1>3. IsFollowed(run) /\ result = "success"
  BY <1>2 DEF RunInv
<1>4. PICK n, g :
        /\ n \in DOMAIN nodes
        /\ IsStay(g, run.steps, n) /\ run.location = nodes[n].location
        /\ run.jumps = nodes[n].depth /\ run.valuation = g[run.steps].x
  BY <1>3 DEF IsFollowed
<1>5. run \in [location : Location, valuation : Product, steps : Nat, jumps : Nat,
               path : Seq(Nat), earliest : Int, latest : Int]
  BY <1>3 DEF IsFollowed
<1> DEFINE l == run.location
           i == g[run.steps]
           target == ha.transition[t].target
<1>6. l \in Location /\ run.valuation \in Product /\ run.steps \in Nat /\ run.jumps \in Nat
  BY <1>5
<1>7. i \in Instant
  BY <1>1, <1>4, <1>6, StayIs
<1>8. t \in TransitionsFrom(ha, l) /\ t \in DOMAIN ha.transition /\ target \in Location /\ t \in Nat
  <2>1. t \in DOMAIN ha.transition /\ ha.transition[t].source = l
    BY <1>2, ProductIs DEF ProductRun!TransitionsFrom
  <2> QED
    BY <1>1, <2>1, AutomatonIs DEF TransitionsFrom
<1>9. /\ A.transition[t].target = target
      /\ A.transition[t].guard = Composed(ha.transition[t].guard)
      /\ A.transition[t].reset[run.valuation] =
           [s \in Subspace |-> ha.transition[t].reset[s][run.valuation[s]]]
  BY <1>6, <1>8, ProductIs
<1>10. /\ Jumped(i, t) \in Instant
       /\ Jumped(i, t).x = A.transition[t].reset[run.valuation]
  BY <1>1, <1>4, <1>7, <1>8, <1>9, JumpedIs
<1>11. Jumped(i, t).x \in Product
  BY <1>10, InstantIs
<1>12. q = Jumped(i, t).x /\ Jumped(i, t).x \in Composed(ha.invariant[target])
  <2>1. Jumped(i, t).x \in A.invariant[target] /\ q \in A.during[target][Jumped(i, t).x]
    BY <1>2, <1>9, <1>10 DEF ProductRun!Enters
  <2>2. A.invariant[target] = Composed(ha.invariant[target])
    BY <1>8, ProductIs
  <2>3. A.during[target][Jumped(i, t).x] = {Jumped(i, t).x}
    BY <1>8, <1>11, ProductIs
  <2> QED
    BY <2>1, <2>2, <2>3
<1> HIDE DEF A
<1>13. MeetsInvariant(Jumped(i, t), target)
  BY <1>11, <1>12, ComposedIs DEF MeetsInvariant
<1>14. CanTake(i, t)
  <2>1. \A s \in Subspace : i.x[s] \in ha.transition[t].guard[s]
    BY <1>2, <1>4, <1>6, <1>9, ComposedIs
  <2> QED
    BY <1>13, <2>1 DEF CanTake
<1>15. HasChildFor(i, t, n)
  <2>1. IsDone(n) /\ nodes[n].depth < par.jumpDepth
    BY <1>2, <1>3, <1>4, SuccessIsComplete
  <2> QED
    BY <1>4, <1>6, <1>8, <1>14, <2>1 DEF IsDone
<1>16. PICK c, j :
         /\ c \in DOMAIN nodes
         /\ nodes[c].depth = nodes[n].depth + 1 /\ nodes[c].location = target
         /\ IsEntry(j, c) /\ j.x = Jumped(i, t).x
  BY <1>15 DEF HasChildFor, LandsIn
<1>17. MeetsInvariant(j, nodes[c].location)
  BY <1>13, <1>16 DEF MeetsInvariant
<1>18. PICK f : IsStay(f, 0, c) /\ f[0] = j
  BY <1>1, <1>16, <1>17, StayBegins
<1>19. /\ run'.location = target /\ run'.valuation = q /\ run'.steps = 0 /\ run'.jumps = run.jumps + 1
       /\ run' \in [location : Location, valuation : Product, steps : Nat, jumps : Nat,
                    path : Seq(Nat), earliest : Int, latest : Int]
  <2>1. /\ run.path \in Seq(Nat) /\ run.earliest \in Int /\ run.latest \in Int
    BY <1>5
  <2>2. Append(run.path, t) \in Seq(Nat)
    BY <1>8, <2>1
  <2>3. run.earliest + run.steps * 1 \in Int /\ run.latest + (run.steps + 1) * 1 \in Int
    BY <1>6, <2>1
  <2>4. /\ run' = [location |-> target, valuation |-> q, steps |-> 0, jumps |-> run.jumps + 1,
                    path |-> Append(run.path, t), earliest |-> run.earliest + run.steps * 1,
                    latest |-> run.latest + (run.steps + 1) * 1]
        /\ q \in Product
    BY <1>2, <1>9
  <2>5. run.jumps + 1 \in Nat /\ target \in Location
    BY <1>6, <1>8
  <2> HIDE DEF target
  <2> QED
    BY <2>2, <2>3, <2>4, <2>5
<1> QED
  BY <1>4, <1>12, <1>16, <1>18, <1>19 DEF IsFollowed

(* While it has no verdict the loop goes on, and then it has stopped.     *)
LEMMA LoopSteps ==
  ASSUME TypeInv, Next
  PROVE  /\ result = "none" /\ result' \in {"none", "success", "failure"}
         /\ ha' = ha /\ par' = par
<1>1. pc # "done"
  BY DEF Next, Dequeue, ComputeTimeSuccessors, IntersectSubspacesWithClock, ReportConflict, PassCheck,
     ComputeJumpSuccessors, SkipSuccessor, AddSuccessor, AddSynchronizedSuccessor, FinishNode, Succeed
<1>2. result = "none"
  BY <1>1 DEF TypeInv, ControlInv
<1>3. result' = result \/ result' \in {"success", "failure"}
  BY DEF Next, Dequeue, ComputeTimeSuccessors, IntersectSubspacesWithClock, ReportConflict, PassCheck,
     ComputeJumpSuccessors, SkipSuccessor, AddSuccessor, AddSynchronizedSuccessor, FinishNode, Succeed,
     AddChild
<1>4. ha' = ha /\ par' = par
  BY DEF Next, Dequeue, ComputeTimeSuccessors, IntersectSubspacesWithClock, ReportConflict, PassCheck,
     ComputeJumpSuccessors, SkipSuccessor, AddSuccessor, AddSynchronizedSuccessor, FinishNode, Succeed,
     AddChild, settings
<1> QED
  BY <1>2, <1>3, <1>4

LEMMA RunNext ==
  ASSUME AnalysisInv, RunInv, [VerificationNext]_verificationVars
  PROVE  RunInv'
<1>1. TypeInv
  BY DEF AnalysisInv, TypeInv
<1>2. CASE Analyze
  <2>1. result = "none" /\ run' = run
    BY <1>1, <1>2, LoopSteps DEF Analyze
  <2> QED
    BY <2>1 DEF RunInv
<1>3. CASE RunMoves
  <2>1. UNCHANGED vars /\ result' = "success"
    BY <1>3 DEF RunMoves, vars
  <2>2. IsFollowed(run')
    BY <1>3, StartIsFollowed, ElapseIsFollowed, JumpIsFollowed DEF RunMoves
  <2>3. PICK r : r = run'
    OBVIOUS
  <2>4. IsFollowed(r)'
    BY <2>1, <2>2, <2>3, FollowedKept
  <2> QED
    BY <2>1, <2>3, <2>4 DEF RunInv
<1>4. CASE UNCHANGED verificationVars
  <2>1. UNCHANGED vars /\ run' = run /\ result' = result
    BY <1>4 DEF verificationVars, vars
  <2>2. PICK r : r = run
    OBVIOUS
  <2>3. IsFollowed(r) => IsFollowed(r)'
    BY <2>1, FollowedKept
  <2>4. ProductRun!NoRun' = ProductRun!NoRun
    BY DEF ProductRun!NoRun
  <2> QED
    BY <2>1, <2>2, <2>3, <2>4 DEF RunInv
<1> QED
  BY <1>2, <1>3, <1>4 DEF VerificationNext, Finished

SoundInv == AnalysisInv /\ RunInv

LEMMA SoundNow == SoundInv => Soundness
<1> SUFFICES ASSUME SoundInv, run # ProductRun!NoRun
             PROVE  run.valuation \notin ProductRun!BadStates(ProductAutomaton(ha), run.location)
  BY DEF Soundness, ProductRun!RunIsBad
<1> DEFINE A == ProductAutomaton(ha)
<1>1. AnalysisInv /\ result = "success" /\ IsFollowed(run)
  BY DEF SoundInv, RunInv
<1>2. PICK n, g :
        /\ n \in DOMAIN nodes
        /\ IsStay(g, run.steps, n) /\ run.location = nodes[n].location /\ run.valuation = g[run.steps].x
  BY <1>1 DEF IsFollowed
<1>3. run.location \in Location /\ run.valuation \in Product /\ run.steps \in Nat
  BY <1>1 DEF IsFollowed
<1>4. IsGood(g[run.steps], run.location)
  BY <1>1, <1>2, <1>3, SuccessIsComplete DEF IsDone
<1>5. ASSUME NEW bad \in CollectBadStates(run.location) PROVE run.valuation \notin Composed(bad)
  BY <1>2, <1>3, <1>4, ComposedIs DEF IsGood
<1>6. /\ A.localBad[run.location] = UNION {Composed(b) : b \in ha.localBad[run.location]}
      /\ A.globalBad = UNION {Composed(b) : b \in ha.globalBad}
  BY <1>3, ProductIs
<1> HIDE DEF A
<1>7. run.valuation \notin A.localBad[run.location] /\ run.valuation \notin A.globalBad
  BY <1>5, <1>6 DEF CollectBadStates
<1> QED
  BY <1>7 DEF ProductRun!BadStates, A

LEMMA SoundInit == VerificationInit => SoundInv
BY AnalysisInit DEF VerificationInit, SoundInv, RunInv

LEMMA SoundNext ==
  SoundInv /\ TimesAreBracketed /\ NothingOverwritten /\ [VerificationNext]_verificationVars => SoundInv'
<1> SUFFICES ASSUME SoundInv, TimesAreBracketed, NothingOverwritten, [VerificationNext]_verificationVars
             PROVE  SoundInv'
  OBVIOUS
<1>1. [Next]_vars
  BY DEF VerificationNext, Analyze, RunMoves, Finished, verificationVars, vars
<1> QED
  BY <1>1, AnalysisNext, RunNext DEF SoundInv

LEMMA SoundInvariance ==
  VerificationSpec /\ []TimesAreBracketed /\ []NothingOverwritten => []SoundInv
BY SoundInit, SoundNext, PTL DEF VerificationSpec

(* If no segment has clock times outside those of the first and the last  *)
(* one, and no dependencies are used after they were overwritten, then no *)
(* run of the undecomposed automaton visits a bad state after a success.  *)
THEOREM DecompositionIsSound ==
  VerificationSpec /\ []TimesAreBracketed /\ []NothingOverwritten => []Soundness
BY SoundInvariance, SoundNow, PTL

--------------------------------------------------------------------------
(***************************************************************************)
(* Settings for which nothing is taken for granted: no clocks, or a clock  *)
(* for every jump and no segmented subspace.                               *)
(***************************************************************************)
ClocksSuffice(a) ==
  \/ a[2].clockCount = 0
  \/ a[2].clockCount > a[2].jumpDepth /\ OfType(a[1], "segmented") = {}

(* Each jump uses at most one more clock.                                 *)
IndexInv ==
  /\ \A k \in DOMAIN workQueue : workQueue[k].clockIndex <= nodes[workQueue[k].node].depth
  /\ Busy => task.clockIndex <= current.depth

LEMMA EntriesAre ==
  ASSUME TypeOK
  PROVE  workQueue \in Seq(EntryType) /\ \A k \in DOMAIN workQueue : workQueue[k].node \in DOMAIN nodes
<1>1. workQueue \in Seq(EntryType)
  BY DEF TypeOK
<1>2. \A k \in DOMAIN workQueue : workQueue[k] \in EntryType
  BY <1>1
<1> QED
  BY <1>1, <1>2 DEF EntryType

LEMMA IndexIsKept ==
  ASSUME TypeInv, IndexInv, NodesKept, UNCHANGED <<workQueue, task>>, Busy' => Busy
  PROVE  IndexInv'
<1>1. \A k \in DOMAIN workQueue : workQueue[k].node \in DOMAIN nodes
  BY EntriesAre DEF TypeInv
<1>2. \A k \in DOMAIN workQueue' : workQueue'[k].clockIndex <= nodes'[workQueue'[k].node].depth
  BY <1>1 DEF IndexInv, NodesKept
<1>3. ASSUME Busy' PROVE task'.clockIndex <= current'.depth
  <2>1. Busy /\ task.node \in DOMAIN nodes /\ task' = task
    BY <1>3 DEF TypeInv, ControlInv, EntryType
  <2>2. current' = current
    BY <2>1 DEF NodesKept, current
  <2> QED
    BY <2>1, <2>2 DEF IndexInv
<1> QED
  BY <1>2, <1>3 DEF IndexInv

LEMMA IndexChild ==
  ASSUME TypeInv, IndexInv, pc = "children", NEW sets, NEW deps, IsChild(sets, deps), UNCHANGED <<task, pc>>,
         NEW index \in Nat, index <= current.depth + 1,
         workQueue' = Append(workQueue, [node |-> Len(nodes) + 1, clockIndex |-> index])
  PROVE  IndexInv'
<1>1. /\ \A k \in DOMAIN workQueue : workQueue[k].node \in DOMAIN nodes
      /\ workQueue \in Seq(EntryType) /\ task.node \in DOMAIN nodes
  <2>1. TypeOK /\ task \in EntryType
    BY DEF TypeInv, ControlInv, Busy
  <2> QED
    BY <2>1, EntriesAre DEF EntryType
<1>2. \A n \in DOMAIN nodes : nodes'[n] = nodes[n]
  BY DEF IsChild
<1>3. nodes'[Len(nodes) + 1].depth = current.depth + 1
  BY DEF IsChild
<1>4. ASSUME NEW k \in DOMAIN workQueue'
      PROVE  workQueue'[k].clockIndex <= nodes'[workQueue'[k].node].depth
  <2>1. k \in DOMAIN workQueue \/ k = Len(workQueue) + 1
    BY <1>4 DEF IsChild
  <2>2. CASE k \in DOMAIN workQueue
    <3>1. workQueue'[k] = workQueue[k]
      BY <2>2 DEF IsChild
    <3> QED
      BY <1>1, <1>2, <2>2, <3>1 DEF IndexInv
  <2>3. CASE k = Len(workQueue) + 1
    <3>1. workQueue'[k] = [node |-> Len(nodes) + 1, clockIndex |-> index]
      BY <1>1, <2>3
    <3> QED
      BY <1>3, <3>1
  <2> QED
    BY <2>1, <2>2, <2>3
<1>5. task'.clockIndex <= current'.depth
  BY <1>1, <1>2 DEF IndexInv, Busy, current
<1> QED
  BY <1>4, <1>5 DEF IndexInv

LEMMA IndexNext == TypeInv /\ IndexInv /\ [Next]_vars => IndexInv'
<1> SUFFICES ASSUME TypeInv, IndexInv, [Next]_vars PROVE IndexInv'
  OBVIOUS
<1>1. CASE Dequeue
  <2>1. /\ workQueue \in Seq(EntryType) /\ workQueue # << >> /\ task' = Head(workQueue)
        /\ workQueue' = Tail(workQueue) /\ nodes' = nodes
    BY <1>1 DEF Dequeue, TypeInv, TypeOK
  <2>2. Head(workQueue) = workQueue[1] /\ 1 \in DOMAIN workQueue
    BY <2>1, Dequeued
  <2>3. \A k \in DOMAIN Tail(workQueue) : \E m \in DOMAIN workQueue : Tail(workQueue)[k] = workQueue[m]
    BY <2>1, Dequeued
  <2> QED
    BY <2>1, <2>2, <2>3 DEF IndexInv, current
<1>2. CASE \/ ComputeTimeSuccessors \/ IntersectSubspacesWithClock \/ ReportConflict \/ PassCheck
           \/ ComputeJumpSuccessors \/ SkipSuccessor \/ FinishNode \/ Succeed
  <2>1. UNCHANGED <<nodes, workQueue, task>> /\ (Busy' => Busy)
    BY <1>2 DEF ComputeTimeSuccessors, IntersectSubspacesWithClock, ReportConflict, PassCheck,
       ComputeJumpSuccessors, SkipSuccessor, FinishNode, Succeed, Busy
  <2> QED
    BY <2>1, IndexIsKept DEF NodesKept
<1>3. CASE AddSuccessor
  <2>1. /\ pc = "children" /\ UNCHANGED <<task, pc>>
        /\ workQueue' = Append(workQueue, [node |-> Len(nodes) + 1, clockIndex |-> task.clockIndex + 1])
    BY <1>3 DEF AddSuccessor, AddChild
  <2>2. task.clockIndex + 1 \in Nat /\ task.clockIndex + 1 <= current.depth + 1
    <3>1. task \in EntryType /\ Busy /\ TypeOK
      BY <2>1 DEF Busy, TypeInv, ControlInv
    <3>2. task.clockIndex \in Nat /\ task.node \in DOMAIN nodes
      BY <3>1 DEF EntryType
    <3>3. nodes[task.node].depth \in Nat
      BY <3>1, <3>2, NodeIs
    <3> QED
      BY <3>1, <3>2, <3>3 DEF IndexInv, current
  <2> QED
    BY <1>3, <2>1, <2>2, AddTyped, IndexChild
<1>4. CASE AddSynchronizedSuccessor
  <2>1. /\ pc = "children" /\ UNCHANGED <<task, pc>>
        /\ workQueue' = Append(workQueue, [node |-> Len(nodes) + 1, clockIndex |-> 0])
    BY <1>4 DEF AddSynchronizedSuccessor, AddChild
  <2>2. 0 <= current.depth + 1
    <3>1. task.node \in DOMAIN nodes /\ TypeOK
      BY <2>1 DEF Busy, TypeInv, ControlInv, EntryType
    <3>2. nodes[task.node].depth \in Nat
      BY <3>1, NodeIs
    <3> QED
      BY <3>2 DEF current
  <2>3. IsChild(Synchronized.sets, Synchronized.dependencies)
    BY <1>4, AddSynchronizedTyped
  <2> QED
    BY <2>1, <2>2, <2>3, IndexChild
<1>5. CASE UNCHANGED vars
  <2>1. UNCHANGED <<nodes, workQueue, task>> /\ (Busy' => Busy)
    BY <1>5 DEF vars, Busy
  <2> QED
    BY <2>1, IndexIsKept DEF NodesKept
<1> QED
  BY <1>1, <1>2, <1>3, <1>4, <1>5 DEF Next

LEMMA IndexInvariance == VerificationSpec => [](TypeInv /\ IndexInv)
<1>1. Init => IndexInv
  <2> SUFFICES ASSUME Init PROVE IndexInv
    OBVIOUS
  <2>1. /\ DOMAIN workQueue = {1} /\ workQueue[1].clockIndex = 0 /\ workQueue[1].node = 1
        /\ nodes[1].depth = 0 /\ pc = "dequeue"
    BY DEF Init
  <2> QED
    BY <2>1 DEF IndexInv, Busy
<1>2. [VerificationNext]_verificationVars => [Next]_vars
  BY DEF VerificationNext, Analyze, RunMoves, Finished, verificationVars, vars
<1> QED
  BY <1>1, <1>2, TypeInit, TypeNext, IndexNext, PTL DEF VerificationSpec, VerificationInit

LEMMA NothingTakenForGranted ==
  ASSUME \A a \in Analyses : ClocksSuffice(a), TypeInv, IndexInv
  PROVE  TimesAreBracketed /\ NothingOverwritten
<1>1. <<ha, par>> \in Analyses
  BY DEF TypeInv, TypeOK
<1>2. par.clockCount = 0 \/ (par.clockCount > par.jumpDepth /\ Segmented = {})
  <2>1. ClocksSuffice(<<ha, par>>)
    BY <1>1
  <2> QED
    BY <2>1 DEF ClocksSuffice, Segmented
<1>3. par.clockCount \in Nat /\ par.jumpDepth \in Nat
  BY SettingsAre DEF TypeInv
<1>4. TimesAreBracketed
  <2>1. CASE par.clockCount = 0
    <3>1. \A S : GetClockValues(S, par) = {}
      BY <2>1 DEF GetClockValues
    <3> QED
      BY <3>1 DEF TimesAreBracketed
  <2> QED
    BY <1>2, <2>1 DEF TimesAreBracketed
<1>5. NothingOverwritten
  <2> SUFFICES ASSUME pc = "children", ClocksAreUsedUp PROVE FALSE
    BY DEF NothingOverwritten
  <2>1. Busy /\ task \in EntryType /\ TypeOK /\ current.depth < par.jumpDepth
    BY DEF Busy, TypeInv, ControlInv
  <2>2. task.clockIndex \in Nat /\ task.node \in DOMAIN nodes /\ task.clockIndex <= current.depth
    BY <2>1 DEF EntryType, IndexInv
  <2>3. nodes[task.node].depth \in Nat
    BY <2>1, <2>2, NodeIs
  <2>4. current.depth \in Nat
    BY <2>3 DEF current
  <2>5. par.clockCount > 0 /\ task.clockIndex + 1 >= par.clockCount
    BY DEF ClocksAreUsedUp
  <2> QED
    BY <1>2, <1>3, <2>1, <2>2, <2>4, <2>5
<1> QED
  BY <1>4, <1>5

(* Without clocks, or with a clock for every jump and no segmented        *)
(* subspace, no run of the undecomposed automaton visits a bad state      *)
(* after a success.                                                       *)
THEOREM EnoughClocksAreSound ==
  ASSUME \A a \in Analyses : ClocksSuffice(a)
  PROVE  VerificationSpec => []Soundness
<1>1. TypeInv /\ IndexInv => TimesAreBracketed /\ NothingOverwritten
  BY NothingTakenForGranted
<1> QED
  BY <1>1, IndexInvariance, DecompositionIsSound, PTL
--------------------------------------------------------------------------
(* Why the first segments exist.  What happens to equal clocks.           *)
AreEqual(fp) == \A k \in DOMAIN fp : HasEqualClocks(fp[k])

LEMMA EqualPart ==
  ASSUME NEW T, NEW S, S \subseteq T, HasEqualClocks(T)
  PROVE  HasEqualClocks(S)
BY DEF HasEqualClocks

LEMMA TickKeepsEqual ==
  ASSUME NEW A, NEW s, NEW l, NEW count, NEW latest \in Nat, NEW S \in SUBSET Valuation(A, s, count, latest),
         HasEqualClocks(S)
  PROVE  HasEqualClocks(Tick(A, s, l, S))
<1> DEFINE Ticked(v) == [v EXCEPT !.x = A.flow[s][l][@], !.clock = [i \in DOMAIN @ |-> @[i] + 1]]
<1>1. ASSUME NEW v \in S, NEW k \in DOMAIN Ticked(v).clock, NEW m \in DOMAIN Ticked(v).clock
      PROVE  Ticked(v).clock[k] = Ticked(v).clock[m]
  <2>1. v = [x |-> v.x, x0 |-> v.x0, clock |-> v.clock]
    BY ValuationIs
  <2>2. Ticked(v) =
          [x |-> A.flow[s][l][v.x], x0 |-> v.x0, clock |-> [i \in DOMAIN v.clock |-> v.clock[i] + 1]]
    BY <2>1, TickedRecord
  <2>3. Ticked(v).clock = [i \in DOMAIN v.clock |-> v.clock[i] + 1]
    BY <2>2
  <2> HIDE DEF Ticked
  <2>4. k \in DOMAIN v.clock /\ m \in DOMAIN v.clock /\ v.clock[k] = v.clock[m]
    BY <1>1, <2>3 DEF HasEqualClocks
  <2> QED
    BY <2>3, <2>4
<1>2. Tick(A, s, l, S) = {Ticked(v) : v \in S}
  BY DEF Tick
<1> HIDE DEF Ticked
<1> QED
  BY <1>1, <1>2 DEF HasEqualClocks

(* A jump keeps the clocks, and leads into the invariant.                 *)
LEMMA JumpImageIs ==
  ASSUME IsDecomposed(ha), NEW t, NEW s, NEW latest, NEW S \in SUBSET Valuations(s, latest)
  PROVE  \A w \in JumpImage(t, s, S) :
           /\ w.x \in ha.invariant[ha.transition[t].target][s]
           /\ \E v \in S : w.clock = v.clock
<1> DEFINE After(v) == [v EXCEPT !.x = ha.transition[t].reset[s][@]]
<1>1. ASSUME NEW v \in S PROVE After(v).clock = v.clock
  <2>1. v = [x |-> v.x, x0 |-> v.x0, clock |-> v.clock]
    BY ValuationIs DEF Valuations
  <2>2. After(v) = [x |-> ha.transition[t].reset[s][v.x], x0 |-> v.x0, clock |-> v.clock]
    BY <2>1
  <2> QED
    BY <2>2
<1>2. ApplyReset(ha, s, t, Satisfying(S, ha.transition[t].guard[s])) \subseteq {After(v) : v \in S}
  BY DEF ApplyReset, Satisfying
<1> HIDE DEF After
<1> QED
  BY <1>1, <1>2 DEF JumpImage, Satisfying

LEMMA JumpImageKeepsEqual ==
  ASSUME IsDecomposed(ha), NEW t, NEW s, NEW latest, NEW S \in SUBSET Valuations(s, latest), HasEqualClocks(S)
  PROVE  HasEqualClocks(JumpImage(t, s, S))
<1>1. \A w \in JumpImage(t, s, S) : \E v \in S : w.clock = v.clock
  BY JumpImageIs
<1> QED
  BY <1>1 DEF HasEqualClocks

(* Discrete subspaces have no clocks at all.                              *)
LEMMA DiscreteAreEqual ==
  ASSUME IsDecomposed(ha), NEW s \in Discrete, NEW latest, NEW S \in SUBSET Valuations(s, latest)
  PROVE  HasEqualClocks(S)
<1>1. s \in Subspace
  BY SubspaceSets
<1>2. 0..Clocks(ha, s, par.clockCount) - 1 = {}
  BY <1>1, Subspaces
<1>3. \A v \in S : v.clock \in [0..Clocks(ha, s, par.clockCount) - 1 -> 0..latest]
  BY ValuationIs DEF Valuations
<1>4. \A v \in S : DOMAIN v.clock = {}
  BY <1>2, <1>3
<1> QED
  BY <1>4 DEF HasEqualClocks

LEMMA SingularKeepsEqual ==
  ASSUME NEW A, IsDecomposed(A), NEW s \in Subspace, NEW l \in Location, NEW count \in Nat,
         NEW latest \in Nat, NEW horizon \in Nat, NEW S0 \in SUBSET Valuation(A, s, count, latest),
         HasEqualClocks(S0), S0 # {}, \A v \in S0 : v.x \in A.invariant[l][s]
  PROVE  LET fp == SingularFlowpipe(A, s, l, S0, horizon)
         IN  AreEqual(fp) /\ fp # << >> /\ S0 \subseteq fp[1]
<1> DEFINE inv == A.invariant[l][s]
           V(n) == Valuation(A, s, count, n)
<1>1. Satisfying(S0, inv) = S0
  BY DEF Satisfying
<1>2. PICK after : IsFlowpipeOf(A, s, l, S0, horizon, after)
  BY <1>1, SingularFlowpipeIs
<1>3. /\ AreAfter(A, s, l, S0, horizon, after)
      /\ SingularFlowpipe(A, s, l, S0, horizon) = <<Satisfying(UNION {after[k] : k \in 0..horizon}, inv)>>
  BY <1>1, <1>2 DEF IsFlowpipeOf
<1> DEFINE T == {k \in 0..horizon : after[k] \subseteq V(latest + k) /\ HasEqualClocks(after[k])}
<1>4. 0 \in T
  <2>1. after[0] \subseteq V(latest) /\ HasEqualClocks(after[0])
    BY <1>3 DEF AreAfter
  <2> QED
    BY <2>1
<1>5. ASSUME NEW k \in 0..horizon - 1, k \in T PROVE k + 1 \in T
  <2>1. k + 1 \in 1..horizon /\ k + 1 \in 0..horizon /\ (k + 1) - 1 = k /\ latest + k \in Nat
        /\ (latest + k) + 1 = latest + (k + 1)
    OBVIOUS
  <2>2. after[k + 1] = Tick(A, s, l, after[k])
    BY <1>3, <2>1 DEF AreAfter
  <2>3. after[k] \subseteq V(latest + k) /\ HasEqualClocks(after[k])
    BY <1>5
  <2>4. Tick(A, s, l, after[k]) \subseteq V((latest + k) + 1) /\ HasEqualClocks(Tick(A, s, l, after[k]))
    BY <2>1, <2>3, TickIsTyped, TickKeepsEqual
  <2> HIDE DEF V
  <2> QED
    BY <2>1, <2>2, <2>4
<1> HIDE DEF T
<1>6. 0..horizon \subseteq T
  BY <1>4, <1>5, InductionInInterval
<1> DEFINE all == UNION {after[k] : k \in 0..horizon}
<1>7. HasEqualClocks(all)
  <2>1. \A k \in 0..horizon : HasEqualClocks(after[k])
    BY <1>6 DEF T
  <2> QED
    BY <2>1 DEF HasEqualClocks
<1>8. S0 \subseteq all
  <2>1. 0 \in 0..horizon /\ after[0] = S0
    BY <1>3 DEF AreAfter
  <2> QED
    BY <2>1
<1> HIDE DEF all
<1>9. HasEqualClocks(Satisfying(all, inv)) /\ S0 \subseteq Satisfying(all, inv)
  BY <1>7, <1>8, SatisfyingIsPart, EqualPart
<1>10. SingularFlowpipe(A, s, l, S0, horizon) = <<Satisfying(all, inv)>>
  BY <1>3 DEF all
<1> DEFINE fp == SingularFlowpipe(A, s, l, S0, horizon)
<1>11. DOMAIN fp = {1} /\ fp[1] = Satisfying(all, inv) /\ fp # << >>
  BY <1>10
<1> HIDE DEF fp
<1>12. AreEqual(fp) /\ fp # << >> /\ S0 \subseteq fp[1]
  BY <1>9, <1>11 DEF AreEqual
<1> QED
  BY <1>12 DEF fp

LEMMA SegmentedKeepsEqual ==
  ASSUME NEW A, IsDecomposed(A), NEW s \in Subspace, NEW l \in Location, NEW count \in Nat,
         NEW latest \in Nat, NEW n \in Nat, n # 0, NEW S0 \in SUBSET Valuation(A, s, count, latest),
         HasEqualClocks(S0), \A v \in S0 : v.x \in A.invariant[l][s]
  PROVE  LET fp == SegmentedFlowpipe(A, s, l, S0, n)
         IN  AreEqual(fp) /\ fp # << >> /\ S0 \subseteq fp[1]
<1> DEFINE inv == A.invariant[l][s]
           V(m) == Valuation(A, s, count, m)
           fp == SegmentedFlowpipe(A, s, l, S0, n)
<1>1. PICK segment : AreSegments(A, s, l, S0, n, segment) /\ AreLeading(fp, segment, n)
  BY SegmentedFlowpipeIs
<1> HIDE DEF fp
<1> DEFINE T == {k \in 1..n : segment[k] \subseteq V(latest + k) /\ HasEqualClocks(segment[k])}
<1>2. segment[1] = Satisfying(S0 \cup Tick(A, s, l, S0), inv)
  BY <1>1 DEF AreSegments
<1>3. 1 \in T
  <2>1. Tick(A, s, l, S0) \subseteq V(latest + 1) /\ HasEqualClocks(Tick(A, s, l, S0))
    BY TickIsTyped, TickKeepsEqual
  <2>2. V(latest) \subseteq V(latest + 1)
    BY ValuationGrows
  <2>3. HasEqualClocks(S0 \cup Tick(A, s, l, S0))
    BY <2>1 DEF HasEqualClocks
  <2>4. segment[1] \subseteq S0 \cup Tick(A, s, l, S0)
    BY <1>2, SatisfyingIsPart
  <2>5. HasEqualClocks(segment[1])
    BY <2>3, <2>4, EqualPart
  <2>6. segment[1] \subseteq V(latest + 1)
    BY <2>1, <2>2, <2>4
  <2> QED
    BY <2>5, <2>6
<1>4. ASSUME NEW k \in 1..n - 1, k \in T PROVE k + 1 \in T
  <2>1. k + 1 \in 2..n /\ k + 1 \in 1..n /\ (k + 1) - 1 = k /\ latest + k \in Nat
        /\ (latest + k) + 1 = latest + (k + 1)
    OBVIOUS
  <2>2. segment[k + 1] \subseteq Tick(A, s, l, segment[k])
    BY <1>1, <2>1, SatisfyingIsPart DEF AreSegments
  <2>3. segment[k] \subseteq V(latest + k) /\ HasEqualClocks(segment[k])
    BY <1>4
  <2>4. Tick(A, s, l, segment[k]) \subseteq V((latest + k) + 1) /\ HasEqualClocks(Tick(A, s, l, segment[k]))
    BY <2>1, <2>3, TickIsTyped, TickKeepsEqual
  <2>5. HasEqualClocks(segment[k + 1])
    BY <2>2, <2>4, EqualPart
  <2> HIDE DEF V
  <2> QED
    BY <2>1, <2>2, <2>4, <2>5
<1> HIDE DEF T
<1>5. 1..n \subseteq T
  BY <1>3, <1>4, InductionInInterval
<1>6. Len(fp) \in 1..n /\ fp = [k \in 1..Len(fp) |-> segment[k]]
  BY <1>1 DEF AreLeading
<1>7. \A k \in 1..Len(fp) : fp[k] = segment[k] /\ k \in T
  BY <1>5, <1>6
<1>8. AreEqual(fp)
  BY <1>6, <1>7 DEF AreEqual, T
<1>9. 1 \in DOMAIN fp /\ fp[1] = segment[1] /\ fp # << >>
  BY <1>6, <1>7
<1>10. S0 \subseteq fp[1]
  BY <1>2, <1>9, SatisfyingIsPart
<1> QED
  BY <1>8, <1>9, <1>10 DEF fp

(* The node being processed, and the sets of all nodes as they are kept.  *)
LEMMA CurrentIs ==
  ASSUME TypeOK, task \in EntryType
  PROVE  /\ task.node \in DOMAIN nodes /\ current.location \in Location
         /\ \A s \in Subspace : current.sets[s] \in SUBSET Valuations(s, LatestTime(par))
BY NodeIs DEF EntryType, current

NodesAligned == \A n \in DOMAIN nodes : IsAligned(nodes[n].sets, nodes[n].location)

PendingAligned ==
  \A k \in DOMAIN pending : IsAligned(pending[k].sets, ha.transition[pending[k].transition].target)

FlowpipesEqual == \A s \in Subspace : AreEqual(flowpipe[s]) /\ AreEqual(workerFlowpipe[s])

FirstCovers == \A s \in Subspace : flowpipe[s] # << >> /\ current.sets[s] \subseteq flowpipe[s][1]

LEMMA AlignedIs ==
  AlignedInv <=>
    /\ NodesAligned
    /\ pc = "children" => PendingAligned
    /\ Busy => ~HasEmptySet(current.sets)
    /\ pc \in {"clock", "safety", "jumps"} => FlowpipesEqual
    /\ pc = "clock" => FirstCovers
    /\ FirstSegmentsExist
BY DEF AlignedInv, NodesAligned, PendingAligned, FlowpipesEqual, AreEqual, FirstCovers

LEMMA AlignedKept ==
  ASSUME ha' = ha, NEW sets, NEW l, IsAligned(sets, l)
  PROVE  IsAligned(sets, l)'
BY DEF IsAligned, Clocked, HaveCommonTimes

LEMMA NodesStayAligned ==
  ASSUME NodesAligned, ha' = ha, nodes' = nodes
  PROVE  NodesAligned'
BY AlignedKept DEF NodesAligned

(* The flowpipes of a node begin with its sets.                           *)
LEMMA TimeKeepsEqual ==
  ASSUME TypeInv, AlignedInv, ComputeTimeSuccessors, NEW s \in Subspace
  PROVE  /\ AreEqual(flowpipe'[s]) /\ AreEqual(workerFlowpipe'[s])
         /\ flowpipe'[s] # << >> /\ current.sets[s] \subseteq flowpipe'[s][1]
<1> DEFINE S0 == current.sets[s]
           l == current.location
           worker == SingularFlowpipe(ha, s, l, S0, par.horizon)
           segments == SegmentedFlowpipe(ha, s, l, S0, SegmentHorizon[s - 1])
<1>1. pc = "time" /\ TypeOK /\ task \in EntryType /\ Busy
  BY DEF TypeInv, ControlInv, Busy, ComputeTimeSuccessors
<1>2. /\ IsDecomposed(ha) /\ par.clockCount \in Nat /\ LatestTime(par) \in Nat /\ par.horizon \in Nat
      /\ l \in Location /\ S0 \in SUBSET Valuation(ha, s, par.clockCount, LatestTime(par))
  BY <1>1, SettingsAre, CurrentIs DEF Valuations
<1>3. IsAligned(current.sets, l) /\ ~HasEmptySet(current.sets)
  BY <1>1, AlignedIs, CurrentIs DEF NodesAligned, current
<1>4. S0 # {} /\ (\A v \in S0 : v.x \in ha.invariant[l][s]) /\ (s \in Clocked(ha) => HasEqualClocks(S0))
  BY <1>3 DEF IsAligned, HasEmptySet
<1>5. /\ workerFlowpipe'[s] = IF s \in Singular THEN worker ELSE << >>
      /\ flowpipe'[s] = IF s \in Discrete THEN DiscreteFlowpipe(ha, s, l, S0)
                        ELSE IF s \in Singular THEN workerFlowpipe'[s] ELSE segments
  BY DEF ComputeTimeSuccessors
<1> HIDE DEF l
<1>6. AreEqual(<< >>)
  BY DEF AreEqual
<1>7. CASE s \in Discrete
  <2>1. DiscreteFlowpipe(ha, s, l, S0) = <<S0>>
    BY <1>4 DEF DiscreteFlowpipe, Satisfying
  <2>2. HasEqualClocks(S0)
    BY <1>2, <1>7, DiscreteAreEqual DEF Valuations
  <2>3. flowpipe'[s] = <<S0>>
    BY <1>5, <1>7, <2>1
  <2>4. s \notin Singular
    BY <1>2, <1>7, Subspaces
  <2> HIDE DEF S0
  <2>5. AreEqual(<<S0>>)
    BY <2>2 DEF AreEqual
  <2>6. workerFlowpipe'[s] = << >>
    BY <1>5, <2>4
  <2>7. <<S0>> # << >> /\ <<S0>>[1] = S0
    OBVIOUS
  <2>8. AreEqual(flowpipe'[s]) /\ AreEqual(workerFlowpipe'[s])
    BY <1>6, <2>3, <2>5, <2>6
  <2>9. flowpipe'[s] # << >> /\ current.sets[s] \subseteq flowpipe'[s][1]
    BY <2>3, <2>7 DEF S0
  <2> QED
    BY <2>8, <2>9
<1>8. CASE s \in Singular
  <2>1. s \notin Discrete /\ s \in Clocked(ha)
    BY <1>2, <1>8, Subspaces
  <2>2. AreEqual(worker) /\ worker # << >> /\ S0 \subseteq worker[1]
    BY <1>2, <1>4, <2>1, SingularKeepsEqual
  <2> HIDE DEF worker, S0
  <2> QED
    BY <1>5, <1>8, <2>1, <2>2 DEF S0
<1>9. CASE s \notin Discrete /\ s \notin Singular
  <2>1. s \in Clocked(ha)
    BY <1>2, <1>9, Subspaces
  <2>2. SegmentHorizon[s - 1] \in Nat /\ SegmentHorizon[s - 1] # 0
    <3>1. s - 1 \in 0..Cardinality(Subspace)
      BY SubspaceAssumption, FS_CardinalityType
    <3>2. SegmentHorizon[s - 1] \in 1..NumSegments(par) /\ NumSegments(par) \in Nat
      BY <1>1, <3>1, SegmentHorizonIsTyped, SettingsAre
    <3> QED
      BY <3>2
  <2>3. AreEqual(segments) /\ segments # << >> /\ S0 \subseteq segments[1]
    BY <1>2, <1>4, <2>1, <2>2, SegmentedKeepsEqual
  <2> HIDE DEF segments, S0
  <2> QED
    BY <1>5, <1>6, <1>9, <2>3 DEF S0
<1> QED
  BY <1>7, <1>8, <1>9

LEMMA TimeAligned ==
  ASSUME TypeInv, AlignedInv, ComputeTimeSuccessors
  PROVE  AlignedInv'
<1>1. /\ pc = "time" /\ pc' = "clock" /\ UNCHANGED <<settings, nodes, task>>
  BY DEF ComputeTimeSuccessors
<1>2. current' = current /\ ha' = ha
  BY <1>1, CurrentKept DEF settings
<1>3. NodesAligned'
  BY <1>1, <1>2, AlignedIs, NodesStayAligned
<1>4. ~HasEmptySet(current.sets)
  BY <1>1, AlignedIs DEF Busy
<1>5. (FlowpipesEqual /\ FirstCovers)'
  BY <1>2, TimeKeepsEqual DEF FlowpipesEqual, FirstCovers, AreEqual
<1>6. FirstSegmentsExist'
  BY <1>1 DEF FirstSegmentsExist
<1>7. (/\ NodesAligned
       /\ pc = "children" => PendingAligned
       /\ Busy => ~HasEmptySet(current.sets)
       /\ pc \in {"clock", "safety", "jumps"} => FlowpipesEqual
       /\ pc = "clock" => FirstCovers
       /\ FirstSegmentsExist)'
  BY <1>1, <1>2, <1>3, <1>4, <1>5, <1>6 DEF HasEmptySet
<1> QED
  BY <1>7 DEF AlignedInv, NodesAligned, PendingAligned, FlowpipesEqual, FirstCovers, AreEqual

LEMMA ClockedAre ==
  ASSUME TypeOK, NEW u \in Clocked(ha), NEW latest \in Nat, NEW v \in Valuations(u, latest)
  PROVE  /\ u \in Subspace /\ (u \in Singular \/ u \in Segmented)
         /\ v.clock \in [0..par.clockCount - 1 -> 0..latest] /\ DOMAIN v.clock = 0..par.clockCount - 1
<1>1. IsDecomposed(ha)
  BY SettingsAre
<1>2. u \in Subspace /\ u \notin Discrete
  BY <1>1, SubspaceSets, Subspaces
<1>3. Clocks(ha, u, par.clockCount) = par.clockCount /\ (u \in Singular \/ u \in Segmented)
  BY <1>1, <1>2, Subspaces
<1>4. v.clock \in [0..par.clockCount - 1 -> 0..latest]
  BY <1>3, ValuationIs DEF Valuations
<1> QED
  BY <1>2, <1>3, <1>4

(* A first segment that is left after the cut to a time at which its      *)
(* subspace satisfies the invariant.                                      *)
LEMMA FirstSegmentTimes ==
  ASSUME TypeOK, NEW u \in Clocked(ha), flowpipe[u] # << >>, NEW v \in flowpipe[u][1],
         NEW i \in 0..par.clockCount - 1
  PROVE  <<i, v.clock[i]>> \in SatisfyingTime(u)
<1> DEFINE B == LatestTime(par) + NumSegments(par)
           first == GetClockValues(flowpipe[u][1], par)
           last == GetClockValues(flowpipe[u][Len(flowpipe[u])], par)
<1>1. IsDecomposed(ha) /\ par.clockCount \in Nat /\ u \in Subspace
  BY SettingsAre, SubspaceSets
<1>2. B \in Nat /\ flowpipe[u] \in Seq(SUBSET Valuations(u, B))
  BY <1>1, FlowpipesAtHand
<1> HIDE DEF B
<1>3. /\ 1 \in DOMAIN flowpipe[u] /\ Len(flowpipe[u]) \in DOMAIN flowpipe[u]
      /\ \A k \in DOMAIN flowpipe[u] : flowpipe[u][k] \subseteq Valuations(u, B)
  BY <1>2
<1>4. \A k \in DOMAIN flowpipe[u] :
        /\ GetClockValues(flowpipe[u][k], par) \in SUBSET ((0..par.clockCount - 1) \X (0..B))
        /\ \A w \in flowpipe[u][k] : <<i, w.clock[i]>> \in GetClockValues(flowpipe[u][k], par)
  BY <1>1, <1>2, <1>3, ClockedSetsAreTimed, ClockValues
<1>5. first \in SUBSET ((0..par.clockCount - 1) \X (0..B)) /\ last \in SUBSET ((0..par.clockCount - 1) \X (0..B))
      /\ <<i, v.clock[i]>> \in first
  BY <1>3, <1>4
<1>6. SatisfyingTime(u) = UniteTime(first, last, par)
  BY DEF SatisfyingTime
<1> HIDE DEF first, last
<1>7. first \subseteq UniteTime(first, last, par)
  BY <1>1, <1>2, <1>5, UniteTimeContains
<1> QED
  BY <1>5, <1>6, <1>7

(* All clocked subspaces can be at the time of any one of them.           *)
LEMMA CommonTimeIsCut ==
  ASSUME TypeInv, AlignedInv, pc = "clock", NEW s \in Clocked(ha), NEW v \in current.sets[s]
  PROVE  IsAt(v.clock, InvariantSatisfyingTime)
<1>1. TypeOK /\ task \in EntryType /\ Busy
  BY DEF TypeInv, ControlInv, Busy
<1>2. LatestTime(par) \in Nat /\ s \in Subspace /\ current.sets[s] \in SUBSET Valuations(s, LatestTime(par))
  BY <1>1, SettingsAre, SubspaceSets, CurrentIs
<1>3. v.clock \in [0..par.clockCount - 1 -> 0..LatestTime(par)] /\ DOMAIN v.clock = 0..par.clockCount - 1
  BY <1>1, <1>2, ClockedAre
<1>4. FirstCovers /\ HaveCommonTimes(current.sets)
  BY <1>1, AlignedIs, CurrentIs DEF NodesAligned, IsAligned, current
<1>5. ASSUME NEW i \in 0..par.clockCount - 1, NEW u \in Clocked(ha)
      PROVE  <<i, v.clock[i]>> \in SatisfyingTime(u)
  <2>1. PICK w \in current.sets[u] : w.clock = v.clock
    BY <1>4 DEF HaveCommonTimes
  <2>2. flowpipe[u] # << >> /\ w \in flowpipe[u][1]
    BY <1>4, SubspaceSets DEF FirstCovers
  <2> QED
    BY <1>1, <2>1, <2>2, FirstSegmentTimes
<1>6. ASSUME NEW i \in 0..par.clockCount - 1 PROVE <<i, v.clock[i]>> \in InvariantSatisfyingTime
  <2>1. <<i, v.clock[i]>> \in GlobalTime(par)
    BY <1>1, <1>3, SettingsAre
  <2> QED
    BY <1>5, <2>1 DEF InvariantSatisfyingTime
<1> QED
  BY <1>3, <1>6 DEF IsAt

LEMMA RedundantSegmentsRemoved ==
  ASSUME TypeOK, \A u \in Subspace : flowpipe[u] # << >>, NEW s \in Subspace
  PROVE  LET fp == RemoveRedundantSegments(s)
             V == Valuations(s, LatestTime(par) + NumSegments(par))
         IN  /\ fp \in Seq(SUBSET V) /\ 1 \in DOMAIN fp
             /\ \A k \in DOMAIN fp : k \in DOMAIN flowpipe[s] /\ fp[k] = flowpipe[s][k]
<1> DEFINE B == LatestTime(par) + NumSegments(par)
           V == Valuations(s, B)
           fp == RemoveRedundantSegments(s)
<1>1. /\ B \in Nat /\ flowpipe[s] \in Seq(SUBSET V) /\ MinSegments \in Nat
      /\ \A u \in Segmented : MinSegments <= Len(flowpipe[u])
      /\ \A u \in Subspace : flowpipe[u] \in Seq(SUBSET Valuations(u, B))
      /\ DOMAIN flowpipe[s] = 1..Len(flowpipe[s]) /\ Len(flowpipe[s]) \in Nat
  BY FlowpipesAtHand
<1>2. ASSUME Segmented # {} PROVE 1 <= MinSegments
  <2>1. \A u \in Segmented : 1 <= Len(flowpipe[u])
    <3> TAKE u \in Segmented
    <3> DEFINE W == SUBSET Valuations(u, B)
    <3>1. flowpipe[u] # << >> /\ flowpipe[u] \in Seq(W)
      BY <1>1, SubspaceSets
    <3> HIDE DEF W
    <3> QED
      BY <3>1
  <2>2. flowpipe \in Flowpipes(B)
    BY DEF TypeOK
  <2> HIDE DEF B
  <2> QED
    BY <1>1, <1>2, <2>1, <2>2, MinSegmentsIs
<1> HIDE DEF V
<1>3. CASE s \in Segmented
  <2>1. fp = SubSeq(flowpipe[s], 1, MinSegments)
    BY <1>3 DEF RemoveRedundantSegments
  <2>2. MinSegments \in 1..Len(flowpipe[s])
    BY <1>1, <1>2, <1>3
  <2> HIDE DEF fp
  <2>3. /\ SubSeq(flowpipe[s], 1, MinSegments) \in Seq(SUBSET V)
        /\ DOMAIN SubSeq(flowpipe[s], 1, MinSegments) = 1..MinSegments
        /\ \A k \in 1..MinSegments : SubSeq(flowpipe[s], 1, MinSegments)[k] = flowpipe[s][k]
    BY <1>1, <2>2
  <2>4. \A k \in 1..MinSegments : k \in DOMAIN flowpipe[s]
    BY <1>1, <2>2
  <2>5. 1 \in 1..MinSegments
    BY <2>2
  <2> QED
    BY <2>1, <2>3, <2>4, <2>5 DEF fp, V
<1>4. CASE s \notin Segmented
  <2>1. fp = flowpipe[s]
    BY <1>4 DEF RemoveRedundantSegments
  <2>2. 1 \in DOMAIN flowpipe[s]
    BY <1>1
  <2> QED
    BY <1>1, <2>1, <2>2 DEF V
<1> QED
  BY <1>3, <1>4

LEMMA ClockKeepsFirst ==
  ASSUME TypeInv, AlignedInv, IntersectSubspacesWithClock, NEW s \in Subspace
  PROVE  AreEqual(flowpipe'[s]) /\ flowpipe'[s] # << >>
<1> DEFINE time == InvariantSatisfyingTime
           fp == RemoveRedundantSegments(s)
           V == Valuations(s, LatestTime(par) + NumSegments(par))
           cut == IntersectFlowpipeWithClock(fp, time)
<1>1. pc = "clock" /\ TypeOK /\ task \in EntryType /\ Busy
  BY DEF TypeInv, ControlInv, Busy, IntersectSubspacesWithClock
<1>2. IsDecomposed(ha) /\ FlowpipesEqual /\ FirstCovers /\ ~HasEmptySet(current.sets) /\ HaveCommonTimes(current.sets)
  BY <1>1, AlignedIs, SettingsAre, CurrentIs DEF NodesAligned, IsAligned, current
<1>3. flowpipe'[s] = IF s \in Discrete THEN flowpipe[s] ELSE cut
  BY DEF IntersectSubspacesWithClock
<1>4. AreEqual(flowpipe[s]) /\ flowpipe[s] # << >>
  BY <1>2 DEF FlowpipesEqual, FirstCovers
<1>5. CASE s \in Discrete
  BY <1>3, <1>4, <1>5
<1>6. CASE s \notin Discrete
  <2>1. s \in Clocked(ha)
    BY <1>2, <1>6, Subspaces
  <2>2. /\ fp \in Seq(SUBSET V) /\ 1 \in DOMAIN fp
        /\ \A k \in DOMAIN fp : k \in DOMAIN flowpipe[s] /\ fp[k] = flowpipe[s][k]
    BY <1>1, <1>2, RedundantSegmentsRemoved DEF FirstCovers
  <2>3. PICK v \in current.sets[s] : TRUE
    BY <1>2 DEF HasEmptySet
  <2>4. v \in fp[1]
    BY <1>2, <2>2, <2>3 DEF FirstCovers
  <2>5. IsAt(v.clock, time)
    BY <1>1, <2>1, <2>3, CommonTimeIsCut
  <2> HIDE DEF fp, V, time
  <2>6. IsCut(cut, fp, time, V)
    BY <2>2, IntersectedIs
  <2> HIDE DEF cut
  <2>7. Cut(fp[1], time) # {}
    BY <2>4, <2>5, CutKeeps
  <2>8. \A k \in 1..1 : Cut(fp[k], time) # {}
    BY <2>7
  <2>9. 1 \in DOMAIN cut
    BY <2>2, <2>6, <2>8 DEF IsCut
  <2>10. ASSUME NEW k \in DOMAIN cut PROVE HasEqualClocks(cut[k])
    <3>1. k \in DOMAIN fp /\ cut[k] = Cut(fp[k], time)
      BY <2>6 DEF IsCut
    <3>2. HasEqualClocks(fp[k])
      BY <1>4, <2>2, <3>1 DEF AreEqual
    <3> QED
      BY <3>1, <3>2, CutIsPart, EqualPart
  <2>11. cut # << >>
    BY <2>6, <2>9 DEF IsCut
  <2> QED
    BY <1>3, <1>6, <2>10, <2>11 DEF AreEqual
<1> QED
  BY <1>5, <1>6

LEMMA ClockAligned ==
  ASSUME TypeInv, AlignedInv, IntersectSubspacesWithClock
  PROVE  AlignedInv'
<1>1. /\ pc = "clock" /\ pc' = "safety" /\ UNCHANGED <<settings, nodes, task, workerFlowpipe>>
  BY DEF IntersectSubspacesWithClock
<1>2. current' = current /\ ha' = ha
  BY <1>1, CurrentKept DEF settings
<1>3. NodesAligned'
  BY <1>1, <1>2, AlignedIs, NodesStayAligned
<1>4. ~HasEmptySet(current.sets) /\ FlowpipesEqual
  BY <1>1, AlignedIs DEF Busy
<1>5. (FlowpipesEqual /\ FirstSegmentsExist)'
  BY <1>1, <1>4, ClockKeepsFirst DEF FlowpipesEqual, FirstSegmentsExist, AreEqual
<1>6. (/\ NodesAligned
       /\ pc = "children" => PendingAligned
       /\ Busy => ~HasEmptySet(current.sets)
       /\ pc \in {"clock", "safety", "jumps"} => FlowpipesEqual
       /\ pc = "clock" => FirstCovers
       /\ FirstSegmentsExist)'
  BY <1>1, <1>2, <1>3, <1>4, <1>5 DEF HasEmptySet
<1> QED
  BY <1>6 DEF AlignedInv, NodesAligned, PendingAligned, FlowpipesEqual, FirstCovers, AreEqual

(* What a jump reaches in each subspace: equal clocks, in the invariant of *)
(* its target.                                                            *)
ReachesInvariant(S, t, s) ==
  HasEqualClocks(S) /\ \A v \in S : v.x \in ha.invariant[ha.transition[t].target][s]

LEMMA ImageReaches ==
  ASSUME IsDecomposed(ha), NEW t, NEW s, NEW latest, NEW S \in SUBSET Valuations(s, latest), HasEqualClocks(S)
  PROVE  ReachesInvariant(JumpImage(t, s, S), t, s)
BY JumpImageIs, JumpImageKeepsEqual DEF ReachesInvariant

LEMMA PartReaches ==
  ASSUME NEW t, NEW s, NEW S, ReachesInvariant(S, t, s), NEW T, T \subseteq S
  PROVE  ReachesInvariant(T, t, s)
BY EqualPart DEF ReachesInvariant

LEMMA SingularReaches ==
  ASSUME TypeOK, FlowpipesEqual, NEW t \in DOMAIN ha.transition, NEW s \in Subspace
  PROVE  /\ ReachesInvariant(SingularSuccessor(t, s), t, s)
         /\ SingularSuccessor(t, s) \subseteq Valuations(s, LatestTime(par) + NumSegments(par))
<1> DEFINE V == Valuations(s, LatestTime(par) + NumSegments(par))
<1>1. CASE workerFlowpipe[s] = << >>
  BY <1>1 DEF SingularSuccessor, ReachesInvariant, HasEqualClocks
<1>2. CASE workerFlowpipe[s] # << >>
  <2>1. /\ IsDecomposed(ha) /\ par.clockCount \in Nat /\ LatestTime(par) + NumSegments(par) \in Nat
        /\ workerFlowpipe[s] \in Seq(SUBSET V) /\ AreEqual(workerFlowpipe[s])
    BY SettingsAre, FlowpipesAtHand DEF FlowpipesEqual
  <2>2. \A S \in SUBSET V : /\ HasEqualClocks(S) => ReachesInvariant(JumpImage(t, s, S), t, s)
                           /\ JumpImage(t, s, S) \subseteq V
    BY <2>1, ImageReaches, JumpImageIsTyped
  <2> HIDE DEF V
  <2>3. 1 \in DOMAIN workerFlowpipe[s] /\ workerFlowpipe[s][1] \in SUBSET V
    BY <1>2, <2>1
  <2>4. HasEqualClocks(workerFlowpipe[s][1])
    BY <2>1, <2>3 DEF AreEqual
  <2>5. SingularSuccessor(t, s) = JumpImage(t, s, workerFlowpipe[s][1])
    BY <1>2 DEF SingularSuccessor, ResetUnusedClocks
  <2> QED
    BY <2>2, <2>3, <2>4, <2>5 DEF V
<1> QED
  BY <1>1, <1>2

LEMMA SuccessorReaches ==
  ASSUME TypeOK, FlowpipesEqual, \A u \in Discrete : flowpipe[u] # << >>,
         NEW t \in DOMAIN ha.transition, NEW s \in Subspace, NEW block \in SUBSET (1..MinSegments)
  PROVE  ReachesInvariant(SubspaceSuccessor(t, s, block), t, s)
<1> DEFINE B == LatestTime(par) + NumSegments(par)
           V == Valuations(s, B)
           enabled == SingularEnabledTime(t)
           guard == ha.transition[t].guard[s]
<1>1. /\ IsDecomposed(ha)
      /\ flowpipe[s] \in Seq(SUBSET V) /\ workerFlowpipe[s] \in Seq(SUBSET V)
      /\ Len(flowpipe[s]) \in Nat /\ DOMAIN flowpipe[s] = 1..Len(flowpipe[s])
  BY SettingsAre, FlowpipesAtHand
<1>2. AreEqual(flowpipe[s]) /\ AreEqual(workerFlowpipe[s])
  BY DEF FlowpipesEqual
<1>3. \A S \in SUBSET V : HasEqualClocks(S) => ReachesInvariant(JumpImage(t, s, S), t, s)
  BY <1>1, ImageReaches
<1> HIDE DEF V
<1>4. CASE s \in Discrete
  <2>1. 1 \in DOMAIN flowpipe[s] /\ flowpipe[s][1] \in SUBSET V
    <3>1. flowpipe[s] # << >>
      BY <1>4
    <3> QED
      BY <1>1, <3>1
  <2> QED
    BY <1>2, <1>3, <1>4, <2>1 DEF SubspaceSuccessor, DiscreteSuccessor, AreEqual
<1>5. CASE s \in Singular
  <2>1. ReachesInvariant(SingularSuccessor(t, s), t, s)
    BY SingularReaches
  <2>2. s \notin Discrete
    BY <1>1, <1>5, Subspaces
  <2>3. SubspaceSuccessor(t, s, block) = Cut(SingularSuccessor(t, s), enabled)
    BY <1>5, <2>2 DEF SubspaceSuccessor
  <2> QED
    BY <2>1, <2>3, CutIsPart, PartReaches
<1>6. CASE s \in Segmented
  <2> DEFINE guarded(k) == Cut(Satisfying(flowpipe[s][k], guard), enabled)
             S == UNION {ResetUnusedClocks(guarded(k), task.clockIndex) : k \in block}
  <2>1. \A k \in block : k \in DOMAIN flowpipe[s] /\ flowpipe[s][k] \in SUBSET V
    <3>1. MinSegments \in Nat /\ MinSegments <= Len(flowpipe[s])
      BY <1>6, FlowpipesAtHand
    <3>2. \A k \in block : k \in DOMAIN flowpipe[s]
      BY <1>1, <3>1
    <3> QED
      BY <1>1, <3>2
  <2>2. ASSUME NEW k \in block PROVE guarded(k) \in SUBSET V /\ HasEqualClocks(guarded(k))
    <3>1. guarded(k) \subseteq flowpipe[s][k]
      BY SatisfyingIsPart, CutIsPart
    <3>2. HasEqualClocks(flowpipe[s][k])
      BY <1>2, <2>1 DEF AreEqual
    <3> QED
      BY <2>1, <3>1, <3>2, EqualPart
  <2> HIDE DEF guarded
  <2>3. S \in SUBSET V
    BY <2>2 DEF ResetUnusedClocks
  <2>4. HasEqualClocks(S)
    BY <2>2 DEF ResetUnusedClocks, HasEqualClocks
  <2>5. SegmentedSuccessor(t, s, block) = JumpImage(t, s, S)
    BY DEF SegmentedSuccessor, guarded
  <2> HIDE DEF S
  <2>6. s \notin Discrete /\ s \notin Singular
    BY <1>1, <1>6, Subspaces
  <2> QED
    BY <1>3, <1>6, <2>3, <2>4, <2>5, <2>6 DEF SubspaceSuccessor
<1> QED
  BY <1>1, <1>4, <1>5, <1>6, Subspaces

(* A time at which all can jump is one of every clocked subspace, and its *)
(* clocks are all at it.                                                  *)
LEMMA TimeIsMet ==
  ASSUME TypeOK, pc = "jumps", SuccessorsHaveNoGaps, NEW j \in Jumps,
         NEW u \in Clocked(ha), NEW p \in EnabledTime(j[1], Block(j[1], j[2]))
  PROVE  \E w : /\ w \in IF u \in Singular THEN SingularSuccessor(j[1], u)
                         ELSE SubspaceSuccessor(j[1], u, Block(j[1], j[2]))
                /\ w.clock[p[1]] = p[2]
<1> DEFINE t == j[1]
           block == Block(j[1], j[2])
<1>1. t \in TransitionsFrom(ha, current.location)
  BY DEF Jumps
<1>2. IsDecomposed(ha) /\ u \in Subspace /\ u \notin Discrete /\ (u \in Singular \/ u \in Segmented)
  BY SettingsAre, SubspaceSets, Subspaces
<1>3. CASE u \in Singular
  <2>1. p \in SingularEnabledTime(t)
    BY EnabledTimes
  <2>2. p \in GetClockValues(SingularSuccessor(t, u), par)
    BY <1>3, <2>1 DEF SingularEnabledTime
  <2>3. HasNoGaps(SingularSuccessor(t, u))
    BY <1>1, <1>3 DEF SuccessorsHaveNoGaps
  <2> QED
    BY <1>3, <2>2, <2>3 DEF HasNoGaps
<1>4. CASE u \notin Singular
  <2>1. u \in Segmented
    BY <1>2, <1>4
  <2>2. p \in GetClockValues(SubspaceSuccessor(t, u, block), par)
    BY <2>1 DEF EnabledTime
  <2>3. SubspaceSuccessor(t, u, block) = SegmentedSuccessor(t, u, block)
    BY <1>2, <1>4 DEF SubspaceSuccessor
  <2>4. HasNoGaps(SegmentedSuccessor(t, u, block))
    BY <2>1 DEF SuccessorsHaveNoGaps
  <2> QED
    BY <1>4, <2>2, <2>3, <2>4 DEF HasNoGaps
<1> QED
  BY <1>3, <1>4

LEMMA SuccessorHasCommonTimes ==
  ASSUME TypeOK, FlowpipesEqual, \A u \in Discrete : flowpipe[u] # << >>,
         pc = "jumps", SuccessorsHaveNoGaps, NEW j \in Jumps,
         ~HasEmptySet(JumpSuccessor(j[1], Block(j[1], j[2])).sets)
  PROVE  HaveCommonTimes(JumpSuccessor(j[1], Block(j[1], j[2])).sets)
<1> DEFINE t == j[1]
           block == Block(j[1], j[2])
           time == EnabledTime(t, block)
           sets == JumpSuccessor(t, block).sets
           B == LatestTime(par) + NumSegments(par)
           Reached(u) == IF u \in Singular THEN SingularSuccessor(t, u) ELSE SubspaceSuccessor(t, u, block)
<1>1. t \in DOMAIN ha.transition /\ block \in SUBSET (1..MinSegments) /\ IsDecomposed(ha)
      /\ par.clockCount \in Nat /\ LatestTime(par) \in Nat /\ B \in Nat
  BY JumpsAreListed, SettingsAre, FlowpipesAtHand
<1>2. \A s \in Subspace : sets[s] = IF IsEmptyTime(time, par) THEN {}
                                    ELSE IF s \in Discrete THEN SubspaceSuccessor(t, s, block)
                                    ELSE Cut(SubspaceSuccessor(t, s, block), time)
  BY DEF JumpSuccessor
<1>3. \A s \in Subspace : sets[s] \subseteq Valuations(s, LatestTime(par))
  <2>1. JumpSuccessor(t, block) \in SuccessorType
    BY <1>1, JumpSuccessorIsTyped
  <2>2. sets \in StateSets(LatestTime(par))
    BY <2>1 DEF SuccessorType
  <2> QED
    BY <2>2, StateSetsIs
<1>4. ASSUME NEW u \in Clocked(ha)
      PROVE  HasEqualClocks(Reached(u)) /\ Reached(u) \subseteq Valuations(u, B)
  BY <1>1, SubspaceSets, SingularReaches, SuccessorReaches, SubspaceSuccessorIsTyped DEF ReachesInvariant
<1>5. time \subseteq SingularEnabledTime(t)
  BY EnabledTimes
<1>6. \A u \in Clocked(ha) : \A p \in time : \E w \in Reached(u) : w.clock[p[1]] = p[2]
  BY TimeIsMet
<1>7. \A u \in Clocked(ha) : u \in Subspace /\ sets[u] # {}
  BY SubspaceSets DEF HasEmptySet
<1> HIDE DEF sets, time, B
<1> SUFFICES ASSUME NEW s \in Clocked(ha), NEW u \in Clocked(ha), NEW v \in sets[s]
             PROVE  \E w \in sets[u] : w.clock = v.clock
  BY DEF HaveCommonTimes, sets
<1>8. s \in Subspace /\ u \in Subspace /\ s \notin Discrete /\ u \notin Discrete
  BY <1>1, SubspaceSets, Subspaces
<1>9. DOMAIN v.clock = 0..par.clockCount - 1 /\ v.clock = [k \in 0..par.clockCount - 1 |-> v.clock[k]]
  <2>1. v \in Valuations(s, LatestTime(par))
    BY <1>3, <1>8
  <2>2. v.clock \in [0..par.clockCount - 1 -> 0..LatestTime(par)]
    BY <1>1, <2>1, ClockedAre
  <2> QED
    BY <2>2
<1>10. \A k, m \in DOMAIN v.clock : v.clock[k] = v.clock[m]
  <2>1. sets[s] \subseteq SubspaceSuccessor(t, s, block)
    BY <1>2, <1>8, CutIsPart
  <2>2. HasEqualClocks(SubspaceSuccessor(t, s, block))
    BY <1>1, <1>8, SuccessorReaches DEF ReachesInvariant
  <2> QED
    BY <2>1, <2>2 DEF HasEqualClocks
<1>11. ~IsEmptyTime(time, par)
  BY <1>2, <1>8
<1>12. IsAt(v.clock, time)
  <2>1. v \in Cut(SubspaceSuccessor(t, s, block), time)
    BY <1>2, <1>8, <1>11
  <2>2. \A k \in DOMAIN v.clock : <<k, v.clock[k]>> \in time \/ TimesOf(k, time) = {}
    BY <2>1 DEF Cut, IntersectWithClock
  <2>3. \A k \in DOMAIN v.clock : TimesOf(k, time) # {}
    BY <1>9, <1>11 DEF IsEmptyTime
  <2> QED
    BY <2>2, <2>3 DEF IsAt
<1>13. CASE par.clockCount = 0
  <2>1. PICK w \in sets[u] : TRUE
    BY <1>7
  <2>2. w \in Valuations(u, LatestTime(par))
    BY <1>3, <1>8
  <2>3. w.clock \in [0..par.clockCount - 1 -> 0..LatestTime(par)]
    BY <1>1, <2>2, ClockedAre
  <2>4. 0..par.clockCount - 1 = {}
    BY <1>13
  <2>5. w.clock = v.clock
    BY <1>9, <2>3, <2>4
  <2> QED
    BY <2>5
<1>14. CASE par.clockCount # 0
  <2>1. 0 \in 0..par.clockCount - 1
    BY <1>1, <1>14
  <2>2. <<0, v.clock[0]>> \in time
    BY <1>9, <1>12, <2>1 DEF IsAt
  <2>3. PICK w \in Reached(u) : w.clock[0] = v.clock[0]
    BY <1>6, <2>2
  <2>4. w.clock \in [0..par.clockCount - 1 -> 0..B] /\ w \in Valuations(u, B)
    BY <1>1, <1>4, ClockedAre
  <2>5. \A k, m \in 0..par.clockCount - 1 : w.clock[k] = w.clock[m]
    BY <1>4, <2>4 DEF HasEqualClocks
  <2>6. \A k \in 0..par.clockCount - 1 : w.clock[k] = v.clock[k]
    BY <1>9, <1>10, <2>1, <2>3, <2>5
  <2>7. w.clock = v.clock
    BY <1>9, <2>4, <2>6
  <2>8. w \in SubspaceSuccessor(t, u, block)
    <3>1. CASE u \in Singular
      <4>1. SubspaceSuccessor(t, u, block) = Cut(SingularSuccessor(t, u), SingularEnabledTime(t))
        BY <1>8, <3>1 DEF SubspaceSuccessor
      <4>2. IsAt(w.clock, SingularEnabledTime(t))
        BY <1>5, <1>12, <2>7 DEF IsAt
      <4> QED
        BY <2>3, <3>1, <4>1, <4>2, CutKeeps
    <3>2. CASE u \notin Singular
      BY <2>3, <3>2
    <3> QED
      BY <3>1, <3>2
  <2>9. w \in Cut(SubspaceSuccessor(t, u, block), time)
    BY <1>12, <2>7, <2>8, CutKeeps
  <2> QED
    BY <1>2, <1>8, <1>11, <2>7, <2>9
<1> QED
  BY <1>13, <1>14

LEMMA SuccessorAligned ==
  ASSUME TypeOK, FlowpipesEqual, \A u \in Discrete : flowpipe[u] # << >>,
         pc = "jumps", SuccessorsHaveNoGaps, NEW j \in Jumps
  PROVE  LET successor == JumpSuccessor(j[1], Block(j[1], j[2]))
         IN  IsAligned(successor.sets, ha.transition[successor.transition].target)
<1> DEFINE t == j[1]
           block == Block(j[1], j[2])
           time == EnabledTime(t, block)
           sets == JumpSuccessor(t, block).sets
<1>1. t \in DOMAIN ha.transition /\ block \in SUBSET (1..MinSegments)
  BY JumpsAreListed
<1>2. /\ JumpSuccessor(t, block).transition = t
      /\ \A s \in Subspace : sets[s] \subseteq SubspaceSuccessor(t, s, block)
  <2>1. \A s \in Subspace : sets[s] = IF IsEmptyTime(time, par) THEN {}
                                      ELSE IF s \in Discrete THEN SubspaceSuccessor(t, s, block)
                                      ELSE Cut(SubspaceSuccessor(t, s, block), time)
    BY DEF JumpSuccessor
  <2> HIDE DEF sets, time
  <2>2. \A s \in Subspace : sets[s] \subseteq SubspaceSuccessor(t, s, block)
    BY <2>1, CutIsPart
  <2> QED
    BY <2>2 DEF JumpSuccessor
<1>3. HasEmptySet(sets) \/ HaveCommonTimes(sets)
  BY SuccessorHasCommonTimes
<1> HIDE DEF sets
<1>4. \A s \in Subspace : ReachesInvariant(sets[s], t, s)
  BY <1>1, <1>2, SuccessorReaches, PartReaches
<1>5. IsAligned(sets, ha.transition[t].target)
  BY <1>3, <1>4, SubspaceSets DEF IsAligned, ReachesInvariant
<1> QED
  BY <1>2, <1>5 DEF sets

LEMMA JumpsAligned ==
  ASSUME TypeInv, AlignedInv, SuccessorsHaveNoGaps, ComputeJumpSuccessors
  PROVE  AlignedInv'
<1>1. /\ pc = "jumps" /\ pc' = "children" /\ pending' = AllJumpSuccessors
      /\ UNCHANGED <<settings, nodes, task>>
  BY DEF ComputeJumpSuccessors
<1>2. current' = current /\ ha' = ha
  BY <1>1, CurrentKept DEF settings
<1>3. NodesAligned'
  BY <1>1, <1>2, AlignedIs, NodesStayAligned
<1>4. TypeOK /\ FlowpipesEqual /\ (\A u \in Discrete : flowpipe[u] # << >>) /\ ~HasEmptySet(current.sets)
  BY <1>1, AlignedIs DEF Busy, TypeInv, ControlInv
<1>5. \A k \in DOMAIN pending' :
        IsAligned(pending'[k].sets, ha.transition[pending'[k].transition].target)
  <2> DEFINE jumps == AscendingPairs(Jumps)
  <2>1. jumps \in Seq(Jumps)
    BY <1>4, JumpsAreListed
  <2>2. pending' = [i \in DOMAIN jumps |-> JumpSuccessor(jumps[i][1], Block(jumps[i][1], jumps[i][2]))]
    BY <1>1 DEF AllJumpSuccessors
  <2> HIDE DEF jumps
  <2>3. \A i \in DOMAIN jumps : jumps[i] \in Jumps
    BY <2>1
  <2> QED
    BY <1>1, <1>4, <2>2, <2>3, SuccessorAligned
<1>6. PendingAligned'
  BY <1>2, <1>5, AlignedKept DEF PendingAligned
<1>7. FirstSegmentsExist'
  BY <1>1 DEF FirstSegmentsExist
<1>8. (/\ NodesAligned
       /\ pc = "children" => PendingAligned
       /\ Busy => ~HasEmptySet(current.sets)
       /\ pc \in {"clock", "safety", "jumps"} => FlowpipesEqual
       /\ pc = "clock" => FirstCovers
       /\ FirstSegmentsExist)'
  BY <1>1, <1>2, <1>3, <1>4, <1>6, <1>7 DEF HasEmptySet
<1> QED
  BY <1>8 DEF AlignedInv, NodesAligned, PendingAligned, FlowpipesEqual, FirstCovers, AreEqual

LEMMA DequeueAligned ==
  ASSUME TypeInv, AlignedInv, Dequeue
  PROVE  AlignedInv'
<1>1. /\ workQueue # << >> /\ task' = Head(workQueue) /\ UNCHANGED <<settings, nodes>>
      /\ pc' = IF HasEmptySet(nodes[Head(workQueue).node].sets) THEN "dequeue" ELSE "time"
  BY DEF Dequeue
<1>2. ha' = ha /\ current' = nodes[Head(workQueue).node]
  BY <1>1 DEF settings, current
<1>3. NodesAligned'
  BY <1>1, <1>2, AlignedIs, NodesStayAligned
<1>4. (/\ NodesAligned
       /\ pc = "children" => PendingAligned
       /\ Busy => ~HasEmptySet(current.sets)
       /\ pc \in {"clock", "safety", "jumps"} => FlowpipesEqual
       /\ pc = "clock" => FirstCovers
       /\ FirstSegmentsExist)'
  BY <1>1, <1>2, <1>3 DEF HasEmptySet, FirstSegmentsExist, Busy
<1> QED
  BY <1>4 DEF AlignedInv, NodesAligned, PendingAligned, FlowpipesEqual, FirstCovers, AreEqual

(* The steps that do little more than to move on.                         *)
LEMMA ControlAligned ==
  ASSUME TypeInv, AlignedInv, ReportConflict \/ PassCheck \/ SkipSuccessor \/ FinishNode \/ Succeed
  PROVE  AlignedInv'
<1>1. /\ UNCHANGED <<settings, nodes, task, workerFlowpipe, flowpipe>>
      /\ Busy' => Busy
      /\ pc' = "children" => pc = "children" /\ pending # << >> /\ pending' = Tail(pending)
      /\ pc' \in {"clock", "safety", "jumps"} => pc = "safety"
      /\ pc' # "clock"
  BY DEF ReportConflict, PassCheck, SkipSuccessor, FinishNode, Succeed, Busy
<1>2. current' = current /\ ha' = ha
  BY <1>1, CurrentKept DEF settings
<1>3. NodesAligned'
  BY <1>1, <1>2, AlignedIs, NodesStayAligned
<1>4. (Busy => ~HasEmptySet(current.sets))'
  BY <1>1, <1>2, AlignedIs DEF HasEmptySet
<1>5. (pc = "children" => PendingAligned)'
  <2> SUFFICES ASSUME pc' = "children" PROVE PendingAligned'
    OBVIOUS
  <2>1. PendingAligned /\ pending # << >> /\ pending' = Tail(pending) /\ pending \in Seq(SuccessorType)
    BY <1>1, AlignedIs DEF TypeInv, TypeOK
  <2>2. \A k \in DOMAIN Tail(pending) : \E m \in DOMAIN pending : Tail(pending)[k] = pending[m]
    BY <2>1, Dequeued
  <2>3. \A k \in DOMAIN Tail(pending) :
          IsAligned(Tail(pending)[k].sets, ha.transition[Tail(pending)[k].transition].target)
    BY <2>1, <2>2 DEF PendingAligned
  <2> QED
    BY <1>2, <2>1, <2>3, AlignedKept DEF PendingAligned
<1>6. (pc \in {"clock", "safety", "jumps"} => FlowpipesEqual)' /\ FirstSegmentsExist'
  BY <1>1, AlignedIs DEF FlowpipesEqual, FirstSegmentsExist, AreEqual
<1> QED
  BY <1>1, <1>3, <1>4, <1>5, <1>6
  DEF AlignedInv, NodesAligned, PendingAligned, FlowpipesEqual, FirstCovers, AreEqual

LEMMA ChildAligned ==
  ASSUME TypeInv, AlignedInv, pc = "children", pending # << >>, NEW sets, NEW deps, IsChild(sets, deps),
         UNCHANGED <<settings, task, pc>>,
         IsAligned(sets, ha.transition[pending[1].transition].target)
  PROVE  AlignedInv'
<1>1. task.node \in DOMAIN nodes
  BY DEF TypeInv, ControlInv, Busy, EntryType
<1>2. current' = current /\ ha' = ha
  BY <1>1 DEF current, IsChild, settings
<1>3. NodesAligned'
  <2>1. \A n \in DOMAIN nodes' : IsAligned(nodes'[n].sets, nodes'[n].location)
    <3>1. NodesAligned
      BY AlignedIs
    <3> QED
      BY <3>1 DEF IsChild, NodesAligned
  <2> QED
    BY <1>2, <2>1, AlignedKept DEF NodesAligned
<1>4. (Busy => ~HasEmptySet(current.sets))'
  BY <1>2, AlignedIs DEF HasEmptySet, Busy
<1>5. PendingAligned'
  <2>1. PendingAligned /\ pending \in Seq(SuccessorType) /\ pending' = Tail(pending)
    BY AlignedIs DEF TypeInv, TypeOK, IsChild
  <2>2. \A k \in DOMAIN Tail(pending) : \E m \in DOMAIN pending : Tail(pending)[k] = pending[m]
    BY <2>1, Dequeued
  <2>3. \A k \in DOMAIN Tail(pending) :
          IsAligned(Tail(pending)[k].sets, ha.transition[Tail(pending)[k].transition].target)
    BY <2>1, <2>2 DEF PendingAligned
  <2> QED
    BY <1>2, <2>1, <2>3, AlignedKept DEF PendingAligned
<1> QED
  BY <1>3, <1>4, <1>5
  DEF AlignedInv, NodesAligned, PendingAligned, FlowpipesEqual, FirstCovers, FirstSegmentsExist, AreEqual

LEMMA AddAligned ==
  ASSUME TypeInv, AlignedInv, AddSuccessor
  PROVE  AlignedInv'
<1>1. pc = "children" /\ pending # << >> /\ UNCHANGED <<settings, task, pc>>
  BY DEF AddSuccessor, AddChild
<1>2. IsChild(pending[1].sets, dependencies)
  BY AddTyped
<1>3. IsAligned(pending[1].sets, ha.transition[pending[1].transition].target)
  BY <1>1, AlignedIs, PendingIs DEF PendingAligned
<1> QED
  BY <1>1, <1>2, <1>3, ChildAligned

(* Synchronised subspaces start their clocks together.                    *)
LEMMA SynchronizedAligned ==
  ASSUME TypeInv, AlignedInv, pc = "children", pending # << >>
  PROVE  IsAligned(Synchronized.sets, ha.transition[pending[1].transition].target)
<1> DEFINE sets == pending[1].sets
           C == par.clockCount
           l == ha.transition[pending[1].transition].target
           whole == ComposeSubspaces(ha, sets, dependencies)
           composed == Projected(whole)
<1>1. \A s \in Subspace : \A v \in sets[s] : v.x \in ha.invariant[l][s]
  BY AlignedIs, PendingIs DEF PendingAligned, IsAligned
<1>2. \A f \in composed : \A s \in Clocked(ha) : \E v \in sets[s] : f[s] = v.x
  <2>1. \A h \in whole : DOMAIN h = Clocked(ha) /\ \A s \in Clocked(ha) : h[s] \in sets[s]
    BY DEF ComposeSubspaces
  <2> HIDE DEF whole
  <2>2. \A f \in composed : \E h \in whole : f = [s \in DOMAIN h |-> h[s].x]
    BY DEF Projected
  <2> QED
    BY <2>1, <2>2
<1>3. Synchronized = SynchronizeAndResetClocks(ha, sets, dependencies, C)
  BY DEF Synchronized
<1>4. CASE composed = {}
  <2>1. Synchronized.sets = [s \in Subspace |-> {}]
    BY <1>3, <1>4 DEF SynchronizeAndResetClocks
  <2> QED
    BY <2>1, SubspaceSets DEF IsAligned, HasEqualClocks, HaveCommonTimes
<1>5. CASE composed # {}
  <2>1. Synchronized.sets = [s \in Subspace |-> IF s \in Clocked(ha) THEN Decompose(composed, s, C) ELSE sets[s]]
    BY <1>3, <1>5 DEF SynchronizeAndResetClocks
  <2> HIDE DEF whole, composed, sets, l
  <2>2. \A s \in Clocked(ha) : Synchronized.sets[s] = {AddClocksAndInitial(f[s], C) : f \in composed}
    BY <2>1, SubspaceSets DEF Decompose
  <2>3. \A s \in Subspace : s \notin Clocked(ha) => Synchronized.sets[s] = sets[s]
    BY <2>1
  <2>4. \A x : AddClocksAndInitial(x, C).x = x /\ AddClocksAndInitial(x, C).clock = [i \in 0..C - 1 |-> 0]
    BY DEF AddClocksAndInitial
  <2>5. \A s \in Clocked(ha) : \A v \in Synchronized.sets[s] :
          v.clock = [i \in 0..C - 1 |-> 0] /\ \E f \in composed : v.x = f[s]
    <3> TAKE s \in Clocked(ha)
    <3> TAKE v \in Synchronized.sets[s]
    <3>1. PICK f \in composed : v = AddClocksAndInitial(f[s], C)
      BY <2>2
    <3>2. v.x = f[s] /\ v.clock = [i \in 0..C - 1 |-> 0]
      BY <2>4, <3>1
    <3> QED
      BY <3>2
  <2>6. \A s \in Clocked(ha) : HasEqualClocks(Synchronized.sets[s])
    <3>1. \A k, m \in DOMAIN [i \in 0..C - 1 |-> 0] : [i \in 0..C - 1 |-> 0][k] = [i \in 0..C - 1 |-> 0][m]
      OBVIOUS
    <3> QED
      BY <2>5, <3>1 DEF HasEqualClocks
  <2>7. \A u \in Clocked(ha) : Synchronized.sets[u] # {}
    BY <1>5, <2>2
  <2>8. HaveCommonTimes(Synchronized.sets)
    BY <2>5, <2>7 DEF HaveCommonTimes
  <2>9. \A s \in Subspace : \A v \in Synchronized.sets[s] : v.x \in ha.invariant[l][s]
    BY <1>1, <1>2, <2>3, <2>5
  <2> QED
    BY <2>6, <2>8, <2>9 DEF IsAligned, l
<1> QED
  BY <1>4, <1>5

LEMMA AddSynchronizedAligned ==
  ASSUME TypeInv, AlignedInv, AddSynchronizedSuccessor
  PROVE  AlignedInv'
<1>1. pc = "children" /\ pending # << >> /\ UNCHANGED <<settings, task, pc>>
  BY DEF AddSynchronizedSuccessor, AddChild
<1>2. IsChild(Synchronized.sets, Synchronized.dependencies)
  BY AddSynchronizedTyped
<1> QED
  BY <1>1, <1>2, SynchronizedAligned, ChildAligned

LEMMA AlignedInit ==
  ASSUME Init, StartsInInvariant
  PROVE  AlignedInv
<1> DEFINE n(s) == Clocks(ha, s, par.clockCount)
           sets == [s \in Subspace |-> {AddClocksAndInitial(x, n(s)) : x \in ha.initial.set[s]}]
<1>1. /\ DOMAIN nodes = {1} /\ nodes[1].sets = sets /\ nodes[1].location = ha.initial.loc /\ pc = "dequeue"
  <2>1. /\ nodes = <<[location |-> ha.initial.loc, depth |-> 0, sets |-> sets, dependencies |-> NoDependencies(ha)]>>
        /\ pc = "dequeue"
    BY DEF Init
  <2> HIDE DEF sets
  <2> QED
    BY <2>1
<1>2. \A x, k : AddClocksAndInitial(x, k).x = x /\ AddClocksAndInitial(x, k).clock = [i \in 0..k - 1 |-> 0]
  BY DEF AddClocksAndInitial
<1>3. \A s \in Clocked(ha) : s \in Subspace /\ n(s) = par.clockCount
  BY SubspaceSets DEF Clocks
<1>4. \A s \in Subspace : sets[s] = {AddClocksAndInitial(x, n(s)) : x \in ha.initial.set[s]}
  OBVIOUS
<1> HIDE DEF n, sets
<1>5. \A s \in Clocked(ha) : \A v \in sets[s] : v.clock = [i \in 0..par.clockCount - 1 |-> 0]
  BY <1>2, <1>3, <1>4
<1>6. \A s \in Clocked(ha) : HasEqualClocks(sets[s])
  <2> DEFINE zero == [i \in 0..par.clockCount - 1 |-> 0]
  <2>1. \A k, m \in DOMAIN zero : zero[k] = zero[m]
    OBVIOUS
  <2> HIDE DEF zero
  <2>2. \A s \in Clocked(ha) : \A v \in sets[s] : v.clock = zero
    BY <1>5 DEF zero
  <2> QED
    BY <2>1, <2>2 DEF HasEqualClocks
<1>7. HasEmptySet(sets) \/ HaveCommonTimes(sets)
  BY <1>3, <1>5 DEF HasEmptySet, HaveCommonTimes
<1>8. \A s \in Subspace : \A v \in sets[s] : v.x \in ha.invariant[ha.initial.loc][s]
  BY <1>2, <1>4 DEF StartsInInvariant
<1>9. IsAligned(sets, ha.initial.loc)
  BY <1>6, <1>7, <1>8 DEF IsAligned
<1> QED
  BY <1>1, <1>9 DEF AlignedInv, Busy, FirstSegmentsExist

LEMMA AlignedNext == TypeInv /\ AlignedInv /\ SuccessorsHaveNoGaps /\ [Next]_vars => AlignedInv'
<1> SUFFICES ASSUME TypeInv, AlignedInv, SuccessorsHaveNoGaps, [Next]_vars PROVE AlignedInv'
  OBVIOUS
<1>1. CASE UNCHANGED vars
  <2>1. /\ UNCHANGED <<ha, par, nodes, task, workerFlowpipe, flowpipe, pending, pc>>
        /\ current' = current
    BY <1>1, CurrentKept DEF vars
  <2>2. NodesAligned'
    BY <2>1, AlignedIs, NodesStayAligned
  <2>3. (pc = "children" => PendingAligned)'
    BY <2>1, AlignedIs, AlignedKept DEF PendingAligned
  <2>4. (Busy => ~HasEmptySet(current.sets))'
    BY <2>1, AlignedIs DEF Busy, HasEmptySet
  <2>5. (/\ pc \in {"clock", "safety", "jumps"} => FlowpipesEqual
         /\ pc = "clock" => FirstCovers
         /\ FirstSegmentsExist)'
    BY <2>1, AlignedIs DEF FlowpipesEqual, FirstCovers, FirstSegmentsExist, AreEqual
  <2> QED
    BY <2>2, <2>3, <2>4, <2>5
    DEF AlignedInv, NodesAligned, PendingAligned, FlowpipesEqual, FirstCovers, AreEqual
<1> QED
  BY <1>1, DequeueAligned, TimeAligned, ClockAligned, JumpsAligned, ControlAligned, AddAligned,
     AddSynchronizedAligned DEF Next

(* If the initial states satisfy the invariant, and the clock times of    *)
(* the successors of a jump have no gaps, then the first segments that    *)
(* isSafe and getDiscreteJumpSuccessors read without a test are there.    *)
THEOREM FirstSegmentsAreThere ==
  VerificationSpec /\ []StartsInInvariant /\ []SuccessorsHaveNoGaps => []FirstSegmentsExist
<1>1. VerificationInit /\ StartsInInvariant => AlignedInv
  BY AlignedInit DEF VerificationInit
<1>2. [VerificationNext]_verificationVars => [Next]_vars
  BY DEF VerificationNext, Analyze, RunMoves, Finished, verificationVars, vars
<1>3. AlignedInv => FirstSegmentsExist
  BY AlignedIs
<1> QED
  BY <1>1, <1>2, <1>3, TypeInvariance, AlignedNext, PTL DEF VerificationSpec
=============================================================================
