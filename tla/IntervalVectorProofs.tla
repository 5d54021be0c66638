------------------------ MODULE IntervalVectorProofs ------------------------
(***************************************************************************)
(* A HierarchicalIntervalVector stays sane and stands for a timeline, and  *)
(* every operation does to that timeline what it is called for.            *)
(***************************************************************************)
EXTENDS IntervalVector, Induction, SequenceTheorems

(* Time points increase, except that the last two may coincide.           *)
Increasing(s) ==
  \A k \in 2..Len(s) :
    \/ Previous(s, k) < TimePoint(s, k)
    \/ Previous(s, k) = TimePoint(s, k) /\ k = Len(s)

(* The interval of end point k contains c.                                *)
Spans(s, k, c) == Begin(s, k) <= c /\ c < TimePoint(s, k)

(* A vector has type x at c.                                              *)
HasType(s, c, x) == \E k \in DOMAIN s : s[k].type = x /\ Spans(s, k, c)

LEMMA EndPoints ==
  ASSUME NEW s \in Seq(EndPointType), NEW k \in DOMAIN s
  PROVE  /\ k \in Nat /\ 1 <= k /\ k <= Len(s) /\ Len(s) \in Nat
         /\ s[k].type \in Type /\ s[k].timePoint \in Nat /\ s[k].timePoint \in Times
         /\ s[k] = [type |-> s[k].type, timePoint |-> s[k].timePoint]
         /\ TimePoint(s, k) = s[k].timePoint
         /\ Begin(s, k) \in Nat
         /\ k = 1 => Begin(s, k) = 0
         /\ k # 1 => k - 1 \in DOMAIN s /\ Begin(s, k) = s[k - 1].timePoint
<1>1. k \in Nat /\ 1 <= k /\ k <= Len(s) /\ Len(s) \in Nat /\ DOMAIN s = 1..Len(s)
  OBVIOUS
<1>2. \A i \in DOMAIN s : s[i] \in EndPointType
  OBVIOUS
<1>3. \A i \in DOMAIN s :
        /\ s[i].type \in Type /\ s[i].timePoint \in Times
        /\ s[i] = [type |-> s[i].type, timePoint |-> s[i].timePoint]
  BY <1>2 DEF EndPointType
<1>4. \A i \in DOMAIN s : s[i].timePoint \in Nat
  BY <1>3, HorizonAssumption DEF Times
<1>5. k # 1 => k - 1 \in DOMAIN s
  BY <1>1
<1> QED
  BY <1>1, <1>3, <1>4, <1>5 DEF TimePoint, Begin, Previous

LEMMA TimesIncrease ==
  ASSUME NEW s \in Seq(EndPointType), Increasing(s), NEW i \in DOMAIN s, NEW j \in DOMAIN s, i <= j
  PROVE  s[i].timePoint <= s[j].timePoint
<1> DEFINE S == {k \in i..Len(s) : s[i].timePoint <= s[k].timePoint}
<1>1. /\ i \in Nat /\ 1 <= i /\ j \in i..Len(s) /\ Len(s) \in Nat
      /\ \A k \in i..Len(s) : k \in DOMAIN s
  BY EndPoints
<1>2. \A k \in i..Len(s) : s[k].timePoint \in Nat
  BY <1>1, EndPoints
<1>3. i \in S
  BY <1>1, <1>2
<1>4. ASSUME NEW k \in i..Len(s) - 1, k \in S PROVE k + 1 \in S
  <2>1. k + 1 \in 2..Len(s) /\ k + 1 \in i..Len(s) /\ (k + 1) - 1 = k /\ k \in i..Len(s)
    BY <1>1
  <2>2. s[k].timePoint <= s[k + 1].timePoint
    BY <1>2, <2>1 DEF Increasing, Previous, TimePoint
  <2>3. s[i].timePoint <= s[k].timePoint
    BY <1>4
  <2>4. s[i].timePoint <= s[k + 1].timePoint
    BY <1>1, <1>2, <2>1, <2>2, <2>3
  <2> QED
    BY <2>1, <2>4
<1> HIDE DEF S
<1>5. i..Len(s) \subseteq S
  <2>1. i \in Int /\ Len(s) \in Int
    BY <1>1
  <2> QED
    BY <1>3, <1>4, <2>1, InductionInInterval
<1> QED
  BY <1>1, <1>5 DEF S

(* No instant is in two intervals, and none before the end is in none.    *)
LEMMA OneInterval ==
  ASSUME NEW s \in Seq(EndPointType), Increasing(s), NEW c \in Nat,
         NEW i \in DOMAIN s, NEW j \in DOMAIN s, Spans(s, i, c), Spans(s, j, c)
  PROVE  i = j
<1>1. ASSUME NEW a \in DOMAIN s, NEW b \in DOMAIN s, Spans(s, a, c), Spans(s, b, c), a < b
      PROVE  FALSE
  <2>a. /\ a \in Nat /\ 1 <= a
        /\ TimePoint(s, a) = s[a].timePoint
    BY EndPoints
  <2>b. /\ b \in Nat
        /\ b # 1 => b - 1 \in DOMAIN s /\ Begin(s, b) = s[b - 1].timePoint
    BY EndPoints
  <2>c. b # 1 /\ a <= b - 1
    BY <1>1, <2>a, <2>b
  <2>1. a \in Nat /\ b \in Nat /\ b # 1 /\ b - 1 \in DOMAIN s /\ a <= b - 1
        /\ Begin(s, b) = s[b - 1].timePoint
        /\ TimePoint(s, a) = s[a].timePoint
    BY <2>a, <2>b, <2>c
  <2>2. s[a].timePoint <= s[b - 1].timePoint
    BY <2>1, TimesIncrease
  <2>3. s[a].timePoint \in Nat /\ s[b - 1].timePoint \in Nat
    BY <2>1, EndPoints
  <2> QED
    BY <1>1, <2>1, <2>2, <2>3 DEF Spans
<1>2. i \in Nat /\ j \in Nat
  BY EndPoints
<1> QED
  BY <1>1, <1>2

LEMMA SomeInterval ==
  ASSUME NEW s \in Seq(EndPointType), s # << >>, NEW c \in Nat, c < s[Len(s)].timePoint
  PROVE  \E k \in DOMAIN s : Spans(s, k, c)
<1> DEFINE T == {k \in DOMAIN s : c < s[k].timePoint}
<1>1. Len(s) \in DOMAIN s
  OBVIOUS
<1>2. T \in SUBSET Nat /\ T # {}
  BY <1>1
<1>3. PICK k \in T : \A m \in T : k <= m
  BY <1>2, LeastNumber
<1>4. k \in DOMAIN s /\ c < s[k].timePoint
  BY <1>3
<1>5. k # 1 => k - 1 \notin T
  BY <1>3, <1>4
<1>6. Begin(s, k) <= c
  <2>1. CASE k = 1
    BY <1>4, <2>1, EndPoints
  <2>2. CASE k # 1
    <3>1. k - 1 \in DOMAIN s /\ Begin(s, k) = s[k - 1].timePoint
      BY <1>4, <2>2, EndPoints
    <3>2. s[k - 1].timePoint \in Nat /\ ~(c < s[k - 1].timePoint)
      BY <1>5, <2>2, <3>1, EndPoints
    <3> QED
      BY <3>1, <3>2
  <2> QED
    BY <2>1, <2>2
<1> QED
  BY <1>4, <1>6 DEF Spans, TimePoint

LEMMA TypeAtIsUnique ==
  ASSUME NEW s \in Seq(EndPointType), Increasing(s), NEW c \in Nat, NEW k \in DOMAIN s, Spans(s, k, c)
  PROVE  TypeAt(s, c) = s[k].type
<1> DEFINE j == CHOOSE j \in DOMAIN s : Spans(s, j, c)
<1>1. j \in DOMAIN s /\ Spans(s, j, c)
  OBVIOUS
<1>2. TypeAt(s, c) = s[j].type
  BY DEF TypeAt, Spans
<1> HIDE DEF j
<1>3. j = k
  BY <1>1, OneInterval
<1> QED
  BY <1>2, <1>3

LEMMA TypeAtIs ==
  ASSUME NEW s \in Seq(EndPointType), Increasing(s), NEW c \in Nat, NEW x, HasType(s, c, x)
  PROVE  TypeAt(s, c) = x
BY TypeAtIsUnique DEF HasType

LEMMA TypeAtExists ==
  ASSUME NEW s \in Seq(EndPointType), s # << >>, Increasing(s),
         NEW c \in Nat, c < s[Len(s)].timePoint
  PROVE  /\ \E k \in DOMAIN s : Spans(s, k, c) /\ s[k].type = TypeAt(s, c)
         /\ TypeAt(s, c) \in Type
<1>1. PICK k \in DOMAIN s : Spans(s, k, c)
  BY SomeInterval
<1>2. TypeAt(s, c) = s[k].type /\ s[k].type \in Type
  BY <1>1, TypeAtIsUnique, EndPoints
<1> QED
  BY <1>1, <1>2

--------------------------------------------------------------------------
(* Inserting.  The type that prevails at c once type is inserted from     *)
(* lower to upper where old was.                                          *)
Won(order, old, type, lower, upper, c) ==
  IF lower <= c /\ c < upper /\ IsLess(order, old, type) THEN type ELSE old

(* The end points p take the place of the k-th one of s.                  *)
Replaces(p, s, k, order, type, lower, upper) ==
  /\ p \in Seq(EndPointType) /\ p # << >>
  /\ p[Len(p)].timePoint = s[k].timePoint
  /\ \A i \in 2..Len(p) : p[i - 1].timePoint < p[i].timePoint
  /\ Begin(s, k) < s[k].timePoint /\ k # 1 => Begin(s, k) < p[1].timePoint
  /\ Begin(s, k) = s[k].timePoint => Len(p) = 1
  /\ \A c \in Nat : Spans(s, k, c) =>
       \E i \in DOMAIN p :
         /\ p[i].type = Won(order, s[k].type, type, lower, upper, c)
         /\ i # 1 => p[i - 1].timePoint <= c
         /\ c < p[i].timePoint

LEMMA Joined ==
  ASSUME NEW x, NEW y, NEW z
  PROVE  /\ <<x>> \o <<y>> = <<x, y>>
         /\ <<x>> \o <<y, z>> = <<x, y, z>>
<1> DEFINE S == {x, y, z}
<1>1. /\ <<x>> \in Seq(S) /\ <<y>> \in Seq(S)
      /\ <<x, y>> \in Seq(S) /\ <<y, z>> \in Seq(S) /\ <<x, y, z>> \in Seq(S)
  OBVIOUS
<1>2. <<x>> \o <<y>> = <<x, y>>
  <2> DEFINE s == <<x>> \o <<y>>
             t == <<x, y>>
  <2>1. s \in Seq(S) /\ t \in Seq(S) /\ Len(s) = 2 /\ Len(t) = 2
    BY <1>1
  <2>2. \A i \in 1..2 : s[i] = t[i]
    BY <1>1
  <2> HIDE DEF s, t
  <2>3. s = t
    BY <2>1, <2>2, SeqEqual
  <2> QED
    BY <2>3 DEF s, t
<1>3. <<x>> \o <<y, z>> = <<x, y, z>>
  <2> DEFINE s == <<x>> \o <<y, z>>
             t == <<x, y, z>>
  <2>1. s \in Seq(S) /\ t \in Seq(S) /\ Len(s) = 3 /\ Len(t) = 3
    BY <1>1
  <2>2. \A i \in 1..3 : s[i] = t[i]
    BY <1>1
  <2> HIDE DEF s, t
  <2>3. s = t
    BY <2>1, <2>2, SeqEqual
  <2> QED
    BY <2>3 DEF s, t
<1> QED
  BY <1>2, <1>3

LEMMA SplitReplaces ==
  ASSUME NEW s \in Seq(EndPointType), Increasing(s), NEW k \in DOMAIN s, NEW order,
         NEW type \in Type, NEW lower \in Times, NEW upper \in Times, lower <= upper
  PROVE  Replaces(Split(order, s, k, type, lower, upper), s, k, order, type, lower, upper)
<1> DEFINE p == Split(order, s, k, type, lower, upper)
           old == s[k].type
           e == s[k].timePoint
           b == Begin(s, k)
           E(x, t) == [type |-> x, timePoint |-> t]
           less == IsLess(order, old, type)
           skipped == e <= lower
           done == k > 1 /\ Previous(s, k) >= upper
           hasLeft == lower > 0 /\ (k = 1 \/ Previous(s, k) < lower)
<1>1. /\ k \in Nat /\ 1 <= k /\ old \in Type /\ e \in Nat /\ e \in Times /\ b \in Nat
      /\ s[k] = E(old, e) /\ TimePoint(s, k) = e
      /\ k = 1 => b = 0
      /\ k # 1 => b = Previous(s, k)
  BY EndPoints DEF Begin
<1>2. lower \in Nat /\ upper \in Nat
  BY HorizonAssumption DEF Times
<1>3. b <= e
  <2>1. CASE k = 1
    BY <1>1, <2>1
  <2>2. CASE k # 1
    <3>1. k - 1 \in DOMAIN s /\ b = s[k - 1].timePoint
      BY <2>2, EndPoints
    <3>2. s[k - 1].timePoint <= e
      BY <1>1, <3>1, TimesIncrease
    <3> QED
      BY <3>1, <3>2
  <2> QED
    BY <2>1, <2>2
<1>4. hasLeft <=> b < lower
  BY <1>1, <1>2
<1>5. done <=> k # 1 /\ b >= upper
  BY <1>1, <1>2
<1>6. \A x \in Type, t \in Nat : t <= e => E(x, t) \in EndPointType
  <2> TAKE x \in Type, t \in Nat
  <2> HAVE t <= e
  <2>1. e \in Nat /\ e \in 0..Horizon /\ Horizon \in Nat
    BY <1>1, HorizonAssumption DEF Times
  <2> HIDE DEF e
  <2>2. t \in Times
    BY <2>1 DEF Times
  <2> QED
    BY <2>2 DEF EndPointType
<1>7. \A c \in Nat : Spans(s, k, c) <=> b <= c /\ c < e
  BY <1>1 DEF Spans
<1>8. \A t : [s[k] EXCEPT !.timePoint = t] = E(old, t)
  BY <1>1
<1>9. \A x : [s[k] EXCEPT !.type = x] = E(x, e)
  BY <1>1
<1>10. p = IF skipped \/ done \/ ~less THEN <<E(old, e)>>
           ELSE IF hasLeft
           THEN <<E(old, lower)>> \o (IF lower >= upper THEN <<E(old, e)>>
                                      ELSE IF upper >= e THEN <<E(type, e)>>
                                      ELSE <<E(type, upper), E(old, e)>>)
           ELSE IF upper >= e THEN <<E(type, e)>>
           ELSE <<E(type, upper), E(old, e)>>
  <2> DEFINE left == IF hasLeft THEN <<[s[k] EXCEPT !.timePoint = lower]>> ELSE << >>
             rest == IF left # << >> /\ lower >= upper THEN <<s[k]>>
                     ELSE IF upper >= e THEN <<[s[k] EXCEPT !.type = type]>>
                     ELSE <<[type |-> type, timePoint |-> upper], s[k]>>
  <2>1. p = IF skipped \/ done \/ ~less THEN <<s[k]>> ELSE left \o rest
    BY DEF Split
  <2>2. left = IF hasLeft THEN <<E(old, lower)>> ELSE << >>
    BY <1>8
  <2>3. (left # << >>) <=> hasLeft
    BY <2>2
  <2>4. rest = IF hasLeft /\ lower >= upper THEN <<E(old, e)>>
               ELSE IF upper >= e THEN <<E(type, e)>>
               ELSE <<E(type, upper), E(old, e)>>
    BY <1>1, <1>9, <2>3
  <2>5. ~hasLeft => left \o rest = rest
    <3>1. \A x : << >> \o <<x>> = <<x>>
      OBVIOUS
    <3>2. \A x, y : << >> \o <<x, y>> = <<x, y>>
      OBVIOUS
    <3> HIDE DEF hasLeft, left, E
    <3> QED
      BY <2>2, <2>4, <3>1, <3>2
  <2> HIDE DEF left, rest, E, hasLeft, done, skipped, less
  <2> QED
    BY <1>1, <2>1, <2>2, <2>4, <2>5
<1> DEFINE IsIt(q) == Replaces(q, s, k, order, type, lower, upper)
           W(c) == IF lower <= c /\ c < upper /\ less THEN type ELSE old
<1>11. \A c : Won(order, s[k].type, type, lower, upper, c) = W(c)
  BY DEF Won
<1> HIDE DEF p, old, e, b
<1>12. ASSUME NEW x \in Type, \A c \in Nat : b <= c /\ c < e => W(c) = x
       PROVE  IsIt(<<E(x, e)>>)
  <2> DEFINE q == <<E(x, e)>>
  <2>1. q \in Seq(EndPointType) /\ Len(q) = 1 /\ q # << >> /\ q[1].type = x /\ q[1].timePoint = e
        /\ DOMAIN q = {1}
    BY <1>1, <1>6
  <2>2. \A c \in Nat : Spans(s, k, c) => q[1].type = W(c) /\ c < q[1].timePoint
    BY <1>7, <1>12, <2>1
  <2> HIDE DEF q, W
  <2>3. Replaces(q, s, k, order, type, lower, upper)
    BY <1>11, <2>1, <2>2 DEF Replaces, e, b
  <2> QED
    BY <2>3 DEF q
<1>13. ASSUME NEW x \in Type, NEW y \in Type, NEW t \in Nat, b < t \/ k = 1, t < e,
              \A c \in Nat : b <= c /\ c < e => W(c) = IF c < t THEN x ELSE y
       PROVE  IsIt(<<E(x, t), E(y, e)>>)
  <2> DEFINE q == <<E(x, t), E(y, e)>>
  <2>1. /\ q \in Seq(EndPointType) /\ Len(q) = 2 /\ q # << >> /\ DOMAIN q = {1, 2}
        /\ q[1].type = x /\ q[1].timePoint = t
        /\ q[2].type = y /\ q[2].timePoint = e
    BY <1>1, <1>6, <1>13
  <2>2. ASSUME NEW c \in Nat, Spans(s, k, c)
        PROVE  \E i \in DOMAIN q : /\ q[i].type = W(c)
                                   /\ i # 1 => q[i - 1].timePoint <= c
                                   /\ c < q[i].timePoint
    <3>1. b <= c /\ c < e
      BY <1>7, <2>2
    <3>2. CASE c < t
      <4>1. W(c) = x
        BY <1>13, <3>1, <3>2
      <4> HIDE DEF q, W
      <4> QED
        BY <2>1, <3>2, <4>1
    <3>3. CASE ~(c < t)
      <4>1. W(c) = y
        BY <1>13, <3>1, <3>3
      <4>2. t <= c
        BY <3>3
      <4> HIDE DEF q, W
      <4>3. q[2].type = W(c) /\ q[2 - 1].timePoint <= c /\ c < q[2].timePoint
        BY <2>1, <3>1, <4>1, <4>2
      <4> QED
        BY <2>1, <4>3
    <3> QED
      BY <3>2, <3>3
  <2>3. \A i \in 2..Len(q) : q[i - 1].timePoint < q[i].timePoint
    BY <1>13, <2>1
  <2>4. b # e
    BY <1>1, <1>13
  <2> HIDE DEF q, W
  <2>5. Replaces(q, s, k, order, type, lower, upper)
    BY <1>11, <1>13, <2>1, <2>2, <2>3, <2>4 DEF Replaces, e, b
  <2> QED
    BY <2>5 DEF q
<1>14. ASSUME NEW x \in Type, NEW y \in Type, NEW z \in Type, NEW t \in Nat, NEW v \in Nat,
              b < t, t < v, v < e,
              \A c \in Nat : b <= c /\ c < e => W(c) = IF c < t THEN x ELSE IF c < v THEN y ELSE z
       PROVE  IsIt(<<E(x, t), E(y, v), E(z, e)>>)
  <2> DEFINE q == <<E(x, t), E(y, v), E(z, e)>>
  <2>1. /\ q \in Seq(EndPointType) /\ Len(q) = 3 /\ q # << >> /\ DOMAIN q = {1, 2, 3}
        /\ q[1].type = x /\ q[1].timePoint = t
        /\ q[2].type = y /\ q[2].timePoint = v
        /\ q[3].type = z /\ q[3].timePoint = e
    BY <1>1, <1>6, <1>14
  <2>2. ASSUME NEW c \in Nat, Spans(s, k, c)
        PROVE  \E i \in DOMAIN q : /\ q[i].type = W(c)
                                   /\ i # 1 => q[i - 1].timePoint <= c
                                   /\ c < q[i].timePoint
    <3>1. b <= c /\ c < e
      BY <1>7, <2>2
    <3>2. CASE c < t
      <4>1. W(c) = x
        BY <1>14, <3>1, <3>2
      <4> HIDE DEF q, W
      <4> QED
        BY <2>1, <3>2, <4>1
    <3>3. CASE ~(c < t) /\ c < v
      <4>1. W(c) = y
        BY <1>14, <3>1, <3>3
      <4>2. t <= c
        BY <3>3
      <4> HIDE DEF q, W
      <4>3. q[2].type = W(c) /\ q[2 - 1].timePoint <= c /\ c < q[2].timePoint
        BY <2>1, <3>1, <3>3, <4>1, <4>2
      <4> QED
        BY <2>1, <4>3
    <3>4. CASE ~(c < v)
      <4>1. W(c) = z
        BY <1>14, <3>1, <3>4
      <4>2. v <= c
        BY <3>4
      <4> HIDE DEF q, W
      <4>3. q[3].type = W(c) /\ q[3 - 1].timePoint <= c /\ c < q[3].timePoint
        BY <2>1, <3>1, <4>1, <4>2
      <4> QED
        BY <2>1, <4>3
    <3> QED
      BY <3>2, <3>3, <3>4
  <2>3. \A i \in 2..Len(q) : q[i - 1].timePoint < q[i].timePoint
    BY <1>14, <2>1
  <2>4. b # e
    BY <1>1, <1>14
  <2> HIDE DEF q, W
  <2>5. Replaces(q, s, k, order, type, lower, upper)
    BY <1>11, <1>14, <2>1, <2>2, <2>3, <2>4 DEF Replaces, e, b
  <2> QED
    BY <2>5 DEF q
<1> HIDE DEF E, IsIt, less
<1>15. CASE skipped \/ done \/ ~less
  <2>1. \A c \in Nat : b <= c /\ c < e => W(c) = old
    BY <1>1, <1>2, <1>5, <1>15
  <2>2. p = <<E(old, e)>>
    BY <1>10, <1>15
  <2> QED
    BY <1>1, <1>12, <2>1, <2>2 DEF IsIt, p
<1>16. CASE ~(skipped \/ done \/ ~less) /\ hasLeft
  <2>1. b < lower /\ lower < e /\ less
    BY <1>1, <1>2, <1>4, <1>16
  <2>2. /\ <<E(old, lower)>> \o <<E(old, e)>> = <<E(old, lower), E(old, e)>>
        /\ <<E(old, lower)>> \o <<E(type, e)>> = <<E(old, lower), E(type, e)>>
        /\ <<E(old, lower)>> \o <<E(type, upper), E(old, e)>> =
           <<E(old, lower), E(type, upper), E(old, e)>>
    BY Joined
  <2> HIDE DEF hasLeft, skipped, done
  <2>3. CASE lower >= upper
    <3>1. p = <<E(old, lower), E(old, e)>>
      BY <1>10, <1>16, <2>2, <2>3
    <3>2. \A c \in Nat : b <= c /\ c < e => W(c) = IF c < lower THEN old ELSE old
      BY <1>2, <2>3
    <3> QED
      BY <1>1, <1>2, <1>13, <2>1, <3>1, <3>2 DEF IsIt, p
  <2>4. CASE ~(lower >= upper) /\ upper >= e
    <3>1. p = <<E(old, lower), E(type, e)>>
      BY <1>10, <1>16, <2>2, <2>4
    <3>2. \A c \in Nat : b <= c /\ c < e => W(c) = IF c < lower THEN old ELSE type
      BY <1>1, <1>2, <2>1, <2>4
    <3> QED
      BY <1>1, <1>2, <1>13, <2>1, <3>1, <3>2 DEF IsIt, p
  <2>5. CASE ~(lower >= upper) /\ ~(upper >= e)
    <3>1. p = <<E(old, lower), E(type, upper), E(old, e)>>
      BY <1>10, <1>16, <2>2, <2>5
    <3>2. \A c \in Nat : b <= c /\ c < e =>
            W(c) = IF c < lower THEN old ELSE IF c < upper THEN type ELSE old
      BY <1>1, <1>2, <2>1, <2>5
    <3>3. lower < upper /\ upper < e
      BY <1>1, <1>2, <2>5
    <3> QED
      BY <1>1, <1>2, <1>14, <2>1, <3>1, <3>2, <3>3 DEF IsIt, p
  <2> QED
    BY <2>3, <2>4, <2>5
<1>17. CASE ~(skipped \/ done \/ ~less) /\ ~hasLeft
  <2>1. lower <= b /\ lower < e /\ less /\ (k = 1 \/ b < upper)
    BY <1>1, <1>2, <1>4, <1>5, <1>17
  <2> HIDE DEF hasLeft, skipped, done
  <2>2. CASE upper >= e
    <3>1. p = <<E(type, e)>>
      BY <1>10, <1>17, <2>2
    <3>2. \A c \in Nat : b <= c /\ c < e => W(c) = type
      BY <1>1, <1>2, <2>1, <2>2
    <3> QED
      BY <1>12, <3>1, <3>2 DEF IsIt, p
  <2>3. CASE ~(upper >= e)
    <3>1. p = <<E(type, upper), E(old, e)>>
      BY <1>10, <1>17, <2>3
    <3>2. \A c \in Nat : b <= c /\ c < e => W(c) = IF c < upper THEN type ELSE old
      BY <1>1, <1>2, <2>1
    <3>3. upper < e
      BY <1>1, <1>2, <2>3
    <3> QED
      BY <1>1, <1>2, <1>13, <2>1, <3>1, <3>2, <3>3 DEF IsIt, p
  <2> QED
    BY <2>2, <2>3
<1> HIDE DEF hasLeft, skipped, done
<1> QED
  BY <1>15, <1>16, <1>17 DEF IsIt, p

(* The recursions of FlattenSeq and InsertAll, spelled out.               *)
LEMMA FlattenSeqIsDefined ==
  ASSUME NEW seqs, NEW n \in Nat, n # 0, Len(seqs) = n
  PROVE  \E f : /\ f[1] = seqs[1]
                /\ \A i \in 2..n : f[i] = f[i - 1] \o seqs[i]
                /\ FlattenSeq(seqs) = f[n]
<1> DEFINE Val(f, k) == IF k = 1 THEN seqs[k] ELSE f[k - 1] \o seqs[k]
           IsFlat(f, m) == f = [k \in 1..m |-> Val(f, k)]
           S == {m \in Nat : \E f : f = [k \in 1..m + 1 |-> Val(f, k)]}
<1>a. FlattenSeq(seqs) = (CHOOSE f : IsFlat(f, n))[n]
  BY DEF FlattenSeq
<1>b. \A f : Val(f, 1) = seqs[1]
  OBVIOUS
<1>c. \A f, k : k # 1 => Val(f, k) = f[k - 1] \o seqs[k]
  OBVIOUS
<1>0. \A f, g, k : k = 1 \/ f[k - 1] = g[k - 1] => Val(f, k) = Val(g, k)
  OBVIOUS
<1> HIDE DEF Val
<1>1. 0 \in S
  <2> DEFINE f == [k \in 1..1 |-> Val(<< >>, k)]
  <2>1. \A k \in 1..1 : Val(<< >>, k) = Val(f, k)
    BY <1>0
  <2>2. f = [k \in 1..1 |-> Val(f, k)]
    BY <2>1
  <2> HIDE DEF f
  <2> QED
    BY <2>2
<1>2. ASSUME NEW m \in Nat, m \in S PROVE m + 1 \in S
  <2>1. PICK f : f = [k \in 1..m + 1 |-> Val(f, k)]
    BY <1>2
  <2> DEFINE g == [k \in 1..m + 2 |-> Val(f, k)]
  <2>2. \A k \in 1..m + 1 : g[k] = f[k]
    BY <2>1
  <2>3. ASSUME NEW k \in 1..m + 2 PROVE Val(f, k) = Val(g, k)
    <3>1. k = 1 \/ k - 1 \in 1..m + 1
      OBVIOUS
    <3> HIDE DEF g
    <3> QED
      BY <1>0, <2>2, <3>1
  <2>4. g = [k \in 1..m + 2 |-> Val(g, k)]
    BY <2>3
  <2> HIDE DEF g
  <2> QED
    BY <2>4
<1> HIDE DEF S
<1>3. n - 1 \in S
  BY <1>1, <1>2, InductionFromZero
<1>4. \E f : IsFlat(f, n)
  <2>1. (n - 1) + 1 = n
    OBVIOUS
  <2> QED
    BY <1>3, <2>1 DEF S
<1> DEFINE g == CHOOSE f : IsFlat(f, n)
<1>5. IsFlat(g, n)
  <2> HIDE DEF IsFlat
  <2> QED
    BY <1>4
<1> HIDE DEF g
<1>6. \A k \in 1..n : g[k] = Val(g, k)
  BY <1>5
<1>7. g[1] = seqs[1]
  BY <1>6, <1>b
<1>8. \A i \in 2..n : g[i] = g[i - 1] \o seqs[i]
  <2> TAKE i \in 2..n
  <2>1. i \in 1..n /\ i # 1
    OBVIOUS
  <2> QED
    BY <1>6, <1>c, <2>1
<1> QED
  BY <1>7, <1>8, <1>a DEF g

LEMMA InsertAllIsDefined ==
  ASSUME NEW order, NEW s, NEW other, Len(other) \in Nat
  PROVE  \E f : /\ f[0] = s
                /\ \A i \in 1..Len(other) :
                     f[i] = InsertInterval(order, f[i - 1], other[i].type,
                                           Begin(other, i), TimePoint(other, i))
                /\ InsertAll(order, s, other) = f[Len(other)]
<1> DEFINE n == Len(other)
           Val(f, k) == IF k = 0 THEN s
                        ELSE InsertInterval(order, f[k - 1], other[k].type,
                                            Begin(other, k), TimePoint(other, k))
           IsInserted(f, m) == f = [k \in 0..m |-> Val(f, k)]
           S == {m \in Nat : \E f : f = [k \in 0..m |-> Val(f, k)]}
<1>a. InsertAll(order, s, other) = (CHOOSE f : IsInserted(f, n))[n]
  BY DEF InsertAll
<1>b. \A f : Val(f, 0) = s
  OBVIOUS
<1>c. \A f, k : k # 0 => Val(f, k) = InsertInterval(order, f[k - 1], other[k].type,
                                                   Begin(other, k), TimePoint(other, k))
  OBVIOUS
<1>0. \A f, g, k : k = 0 \/ f[k - 1] = g[k - 1] => Val(f, k) = Val(g, k)
  OBVIOUS
<1> HIDE DEF Val
<1>1. 0 \in S
  <2> DEFINE f == [k \in 0..0 |-> Val(<< >>, k)]
  <2>1. \A k \in 0..0 : Val(<< >>, k) = Val(f, k)
    BY <1>0
  <2>2. f = [k \in 0..0 |-> Val(f, k)]
    BY <2>1
  <2> HIDE DEF f
  <2> QED
    BY <2>2
<1>2. ASSUME NEW m \in Nat, m \in S PROVE m + 1 \in S
  <2>1. PICK f : f = [k \in 0..m |-> Val(f, k)]
    BY <1>2
  <2> DEFINE g == [k \in 0..m + 1 |-> Val(f, k)]
  <2>2. \A k \in 0..m : g[k] = f[k]
    BY <2>1
  <2>3. ASSUME NEW k \in 0..m + 1 PROVE Val(f, k) = Val(g, k)
    <3>1. k = 0 \/ k - 1 \in 0..m
      OBVIOUS
    <3> HIDE DEF g
    <3> QED
      BY <1>0, <2>2, <3>1
  <2>4. g = [k \in 0..m + 1 |-> Val(g, k)]
    BY <2>3
  <2> HIDE DEF g
  <2> QED
    BY <2>4
<1> HIDE DEF S
<1>3. n \in S
  BY <1>1, <1>2, InductionFromZero
<1>4. \E f : IsInserted(f, n)
  BY <1>3 DEF S
<1> DEFINE g == CHOOSE f : IsInserted(f, n)
<1>5. IsInserted(g, n)
  <2> HIDE DEF IsInserted
  <2> QED
    BY <1>4
<1> HIDE DEF g
<1>6. \A k \in 0..n : g[k] = Val(g, k)
  BY <1>5
<1>7. g[0] = s
  BY <1>6, <1>b
<1>8. \A i \in 1..n : g[i] = InsertInterval(order, g[i - 1], other[i].type,
                                             Begin(other, i), TimePoint(other, i))
  <2> TAKE i \in 1..n
  <2>1. i \in 0..n /\ i # 0
    OBVIOUS
  <2> QED
    BY <1>6, <1>c, <2>1
<1> QED
  BY <1>7, <1>8, <1>a DEF g

(* Erasing end points before one of the same type.                        *)
LEMMA SanitizedKeeps ==
  ASSUME NEW s \in Seq(EndPointType), s # << >>, Increasing(s)
  PROVE  /\ IsSane(Sanitized(s)) /\ Sanitized(s) # << >>
         /\ Sanitized(s)[Len(Sanitized(s))].timePoint = s[Len(s)].timePoint
         /\ \A c \in Nat, k \in DOMAIN s : Spans(s, k, c) => HasType(Sanitized(s), c, s[k].type)
<1> DEFINE K == {k \in DOMAIN s : k = Len(s) \/ s[k + 1].type # s[k].type}
           kept == Ascending(K)
           r == [i \in DOMAIN kept |-> s[kept[i]]]
           n == Len(kept)
           low(i) == IF i = 1 THEN 0 ELSE kept[i - 1]
<1>1. Sanitized(s) = r
  BY DEF Sanitized
<1>2. Len(s) \in Nat /\ DOMAIN s = 1..Len(s) /\ Len(s) \in DOMAIN s
  OBVIOUS
<1>3. K \in SUBSET Nat /\ IsFiniteSet(K)
  <2>1. K \in SUBSET (1..Len(s)) /\ 1..Len(s) \in SUBSET Nat
    BY <1>2
  <2>2. IsFiniteSet(1..Len(s))
    BY <1>2, FS_Interval
  <2> HIDE DEF K
  <2>3. IsFiniteSet(K)
    BY <2>1, <2>2, FS_Subset
  <2> QED
    BY <2>1, <2>3
<1>4. \A k : k \in K <=> k \in DOMAIN s /\ (k = Len(s) \/ s[k + 1].type # s[k].type)
  OBVIOUS
<1> HIDE DEF K
<1>5. /\ kept \in Seq(K)
      /\ \A x \in K : \E k \in DOMAIN kept : kept[k] = x
      /\ \A i, j \in DOMAIN kept : i < j => kept[i] < kept[j]
  BY <1>3, AscendingLists
<1> HIDE DEF kept
<1>6. n \in Nat /\ DOMAIN kept = 1..n
  BY <1>5
<1>7. \A i \in DOMAIN kept : /\ kept[i] \in K /\ kept[i] \in DOMAIN s
                            /\ kept[i] \in Nat /\ 1 <= kept[i] /\ kept[i] <= Len(s)
  <2> TAKE i \in DOMAIN kept
  <2>1. kept[i] \in K
    BY <1>5
  <2> QED
    BY <1>2, <1>4, <2>1
<1> HIDE DEF n
<1>8. n \in DOMAIN kept /\ kept[n] = Len(s)
  <2>1. Len(s) \in K
    BY <1>2, <1>4
  <2>2. PICK j \in DOMAIN kept : kept[j] = Len(s)
    BY <1>5, <2>1
  <2>3. j \in Nat /\ 1 <= j /\ j <= n /\ n \in DOMAIN kept
    BY <1>6
  <2>4. kept[n] <= Len(s) /\ kept[n] \in Nat
    BY <1>7, <2>3
  <2>5. j < n => kept[j] < kept[n]
    BY <1>5, <2>3
  <2> QED
    BY <1>2, <1>6, <2>2, <2>3, <2>4, <2>5
<1>9. ASSUME NEW i \in DOMAIN kept
      PROVE  /\ low(i) \in Nat /\ low(i) < kept[i]
             /\ i # 1 => i - 1 \in DOMAIN kept /\ low(i) = kept[i - 1]
             /\ i \in Nat /\ 1 <= i /\ i <= n
  <2>1. i \in Nat /\ 1 <= i /\ i <= n
    BY <1>6
  <2>2. CASE i = 1
    BY <1>7, <2>1, <2>2
  <2>3. CASE i # 1
    <3>1. i - 1 \in DOMAIN kept /\ i - 1 < i
      BY <1>6, <2>1, <2>3
    <3> QED
      BY <1>5, <1>7, <2>1, <2>3, <3>1
  <2> QED
    BY <2>2, <2>3
<1>10. ASSUME NEW i \in DOMAIN kept, NEW m \in Nat, low(i) < m, m < kept[i]
       PROVE  m \notin K
  <2> SUFFICES ASSUME m \in K PROVE FALSE
    OBVIOUS
  <2>1. PICK j \in DOMAIN kept : kept[j] = m
    BY <1>5
  <2>2. j \in Nat /\ 1 <= j /\ i \in Nat
    BY <1>6
  <2>3. CASE i <= j
    <3>1. i = j \/ i < j
      BY <2>2, <2>3
    <3>2. kept[i] <= kept[j]
      BY <1>5, <1>7, <3>1
    <3> QED
      BY <1>7, <1>10, <2>1, <3>2
  <2>4. CASE j < i
    <3>1. i # 1 /\ i - 1 \in DOMAIN kept /\ low(i) = kept[i - 1]
      BY <1>9, <2>2, <2>4
    <3>2. j = i - 1 \/ j < i - 1
      BY <1>9, <2>2, <2>4
    <3>3. kept[j] <= kept[i - 1]
      BY <1>5, <1>7, <3>1, <3>2
    <3> QED
      BY <1>7, <1>10, <2>1, <3>1, <3>3
  <2> QED
    BY <2>2, <2>3, <2>4
<1>11. ASSUME NEW i \in DOMAIN kept, NEW m \in low(i) + 1..kept[i]
       PROVE  s[m].type = s[kept[i]].type
  <2> DEFINE a == low(i) + 1
             b == kept[i]
             T == {j \in a..b : s[j].type = s[a].type}
  <2>1. a \in Nat /\ b \in Nat /\ a <= b /\ 1 <= a /\ b <= Len(s) /\ b \in Int /\ a \in Int
    BY <1>7, <1>9
  <2>0. \A j : j \in T <=> j \in a..b /\ s[j].type = s[a].type
    OBVIOUS
  <2>2. a \in T
    BY <2>1
  <2>3. ASSUME NEW j \in a..b - 1, j \in T PROVE j + 1 \in T
    <3>1. j \in Nat /\ low(i) < j /\ j < kept[i] /\ j \in DOMAIN s /\ j + 1 \in a..b
      BY <1>2, <1>9, <2>1
    <3>2. j \notin K
      BY <1>10, <3>1
    <3>3. s[j + 1].type = s[j].type
      BY <1>4, <3>1, <3>2
    <3>4. s[j].type = s[a].type
      BY <2>0, <2>3
    <3> HIDE DEF T, a, b
    <3> QED
      BY <2>0, <3>1, <3>3, <3>4
  <2> HIDE DEF T
  <2>4. a..b \subseteq T
    BY <2>1, <2>2, <2>3, InductionInInterval
  <2>5. m \in a..b /\ b \in a..b
    BY <2>1
  <2>6. m \in T /\ b \in T
    BY <2>4, <2>5
  <2> QED
    BY <2>0, <2>6
<1>12. /\ r \in Seq(EndPointType) /\ Len(r) = n /\ DOMAIN r = DOMAIN kept
       /\ \A i \in DOMAIN kept : r[i] = s[kept[i]]
  <2>1. \A i \in DOMAIN kept : s[kept[i]] \in EndPointType
    BY <1>7
  <2> QED
    BY <1>6, <2>1
<1> HIDE DEF r
<1>13. r # << >> /\ r[Len(r)].timePoint = s[Len(s)].timePoint
  <2>1. n # 0
    BY <1>6, <1>8
  <2> QED
    BY <1>8, <1>12, <2>1
<1>14. ASSUME NEW i \in 2..Len(r)
       PROVE  /\ r[i].type # r[i - 1].type
              /\ \/ r[i - 1].timePoint < r[i].timePoint
                 \/ r[i - 1].timePoint = r[i].timePoint /\ i = Len(r)
  <2>1. /\ i \in DOMAIN kept /\ i # 1 /\ i - 1 \in DOMAIN kept /\ low(i) = kept[i - 1]
        /\ kept[i - 1] < kept[i] /\ i \in Nat /\ i <= n
    BY <1>6, <1>9, <1>12
  <2> DEFINE a == kept[i - 1]
             b == kept[i]
  <2>2. a \in K /\ a \in DOMAIN s /\ a \in Nat /\ 1 <= a /\ b \in DOMAIN s /\ b \in Nat /\ b <= Len(s)
    BY <1>7, <2>1
  <2>3. a + 1 \in low(i) + 1..kept[i] /\ a + 1 \in DOMAIN s /\ a # Len(s)
    BY <1>2, <2>1, <2>2
  <2>4. s[a + 1].type = s[b].type
    BY <1>11, <2>1, <2>3
  <2>5. s[a + 1].type # s[a].type
    BY <1>4, <2>2, <2>3
  <2>6. r[i].type # r[i - 1].type
    BY <1>12, <2>1, <2>4, <2>5
  <2>7. s[a + 1].timePoint <= s[b].timePoint
    BY <2>1, <2>2, <2>3, TimesIncrease
  <2>8. a + 1 \in 2..Len(s) /\ (a + 1) - 1 = a
    BY <1>2, <2>2, <2>3
  <2>9. \/ s[a].timePoint < s[a + 1].timePoint
        \/ s[a].timePoint = s[a + 1].timePoint /\ a + 1 = Len(s)
    BY <2>8 DEF Increasing, Previous, TimePoint
  <2>10. s[a].timePoint \in Nat /\ s[a + 1].timePoint \in Nat /\ s[b].timePoint \in Nat
    BY <2>2, <2>3, EndPoints
  <2>11. CASE s[a].timePoint < s[a + 1].timePoint
    <3>1. s[a].timePoint < s[b].timePoint
      BY <2>7, <2>10, <2>11
    <3> QED
      BY <1>12, <2>1, <2>6, <3>1
  <2>12. CASE s[a].timePoint = s[a + 1].timePoint /\ a + 1 = Len(s)
    <3>1. b = Len(s) /\ b = a + 1
      BY <2>1, <2>2, <2>12
    <3>2. i = n
      <4>1. i < n => kept[i] < kept[n]
        BY <1>5, <1>8, <2>1
      <4> QED
        BY <1>6, <1>8, <2>1, <2>2, <3>1, <4>1
    <3> QED
      BY <1>12, <2>1, <2>6, <2>12, <3>1, <3>2
  <2> QED
    BY <2>9, <2>11, <2>12
<1>15. IsSane(r)
  BY <1>12, <1>14 DEF IsSane, Previous, TimePoint
<1>16. ASSUME NEW c \in Nat, NEW k \in DOMAIN s, Spans(s, k, c)
       PROVE  HasType(r, c, s[k].type)
  <2> DEFINE T == {i \in DOMAIN kept : k <= kept[i]}
  <2>1. T \in SUBSET Nat /\ n \in T
    BY <1>2, <1>6, <1>8
  <2>2. PICK i \in T : \A m \in T : i <= m
    BY <2>1, LeastNumber
  <2>3. i \in DOMAIN kept /\ k <= kept[i] /\ i \in Nat
    BY <2>1, <2>2
  <2>4. low(i) < k
    <3>1. CASE i = 1
      BY <1>2, <3>1
    <3>2. CASE i # 1
      <4>1. i - 1 \in DOMAIN kept /\ low(i) = kept[i - 1] /\ ~(i <= i - 1)
        BY <1>9, <2>3, <3>2
      <4>2. i - 1 \notin T
        BY <2>2, <4>1
      <4>3. ~(k <= kept[i - 1]) /\ kept[i - 1] \in Nat /\ k \in Nat
        BY <1>2, <1>7, <4>1, <4>2
      <4> QED
        BY <4>1, <4>3
    <3> QED
      BY <3>1, <3>2
  <2> HIDE DEF T
  <2>5. k \in low(i) + 1..kept[i]
    BY <1>2, <1>7, <1>9, <2>3, <2>4
  <2>6. r[i].type = s[k].type /\ i \in DOMAIN r
    BY <1>11, <1>12, <2>3, <2>5
  <2>7. c < r[i].timePoint
    <3>1. s[k].timePoint <= s[kept[i]].timePoint
      BY <1>7, <2>3, TimesIncrease
    <3>2. c < s[k].timePoint
      BY <1>16, EndPoints DEF Spans
    <3>3. s[k].timePoint \in Nat /\ s[kept[i]].timePoint \in Nat /\ r[i] = s[kept[i]]
      BY <1>7, <1>12, <2>3, EndPoints
    <3> QED
      BY <3>1, <3>2, <3>3
  <2>8. Begin(r, i) <= c
    <3>1. CASE i = 1
      BY <3>1 DEF Begin
    <3>2. CASE i # 1
      <4>1. /\ i - 1 \in DOMAIN kept /\ low(i) = kept[i - 1] /\ kept[i - 1] \in DOMAIN s
            /\ kept[i - 1] \in Nat /\ 1 <= kept[i - 1] /\ kept[i - 1] < k
        BY <1>7, <1>9, <2>3, <2>4, <3>2
      <4>2. k # 1 /\ k - 1 \in DOMAIN s /\ kept[i - 1] <= k - 1 /\ Begin(s, k) = s[k - 1].timePoint
        BY <1>2, <4>1, EndPoints
      <4>3. s[kept[i - 1]].timePoint <= s[k - 1].timePoint
        BY <4>1, <4>2, TimesIncrease
      <4>4. s[kept[i - 1]].timePoint \in Nat /\ s[k - 1].timePoint \in Nat
        BY <4>1, <4>2, EndPoints
      <4>5. Begin(r, i) = s[kept[i - 1]].timePoint
        BY <1>12, <3>2, <4>1 DEF Begin, Previous
      <4>6. s[k - 1].timePoint <= c
        BY <1>16, <4>2 DEF Spans
      <4> QED
        BY <4>3, <4>4, <4>5, <4>6
    <3> QED
      BY <3>1, <3>2
  <2> QED
    BY <2>6, <2>7, <2>8 DEF HasType, Spans, TimePoint
<1> QED
  BY <1>1, <1>13, <1>15, <1>16

(* What inserting an interval does.                                       *)
LEMMA InsertIntervalInserts ==
  ASSUME NEW s, IsSane(s), s # << >>, NEW order,
         NEW type \in Type, NEW lower \in Times, NEW upper \in Times, lower <= upper
  PROVE  LET r == InsertInterval(order, s, type, lower, upper) IN
         /\ IsSane(r) /\ r # << >> /\ r[Len(r)].timePoint = s[Len(s)].timePoint
         /\ \A c \in Nat : c < s[Len(s)].timePoint =>
              TypeAt(r, c) = Won(order, TypeAt(s, c), type, lower, upper, c)
<1> DEFINE n == Len(s)
           piece(k) == Split(order, s, k, type, lower, upper)
           pieces == [k \in DOMAIN s |-> piece(k)]
           r == InsertInterval(order, s, type, lower, upper)
           W(x, c) == Won(order, x, type, lower, upper, c)
<1>1. s \in Seq(EndPointType) /\ Increasing(s)
  BY DEF IsSane, Increasing
<1>2. n \in Nat /\ n # 0 /\ DOMAIN s = 1..n
  BY <1>1
<1>3. \A k \in DOMAIN s : Replaces(piece(k), s, k, order, type, lower, upper)
  BY <1>1, SplitReplaces
<1>4. pieces \in Seq(Seq(EndPointType)) /\ Len(pieces) = n /\ \A k \in DOMAIN s : pieces[k] = piece(k)
  <2>1. \A k \in DOMAIN s : piece(k) \in Seq(EndPointType)
    BY <1>3 DEF Replaces
  <2> HIDE DEF piece
  <2> QED
    BY <1>2, <2>1
<1>5. PICK f : /\ f[1] = pieces[1]
               /\ \A i \in 2..n : f[i] = f[i - 1] \o pieces[i]
               /\ FlattenSeq(pieces) = f[n]
  <2> HIDE DEF pieces, n
  <2> QED
    BY <1>2, <1>4, FlattenSeqIsDefined
<1>6. r = Sanitized(f[n])
  BY <1>5 DEF InsertInterval
<1> HIDE DEF pieces, piece, n, r, W
(* What has been put together up to the m-th end point.                   *)
<1> DEFINE IsUpTo(t, m) ==
             /\ t \in Seq(EndPointType) /\ t # << >>
             /\ t[Len(t)].timePoint = s[m].timePoint
             /\ \A i \in 2..Len(t) :
                  \/ t[i - 1].timePoint < t[i].timePoint
                  \/ t[i - 1].timePoint = t[i].timePoint /\ i = Len(t) /\ m = n
             /\ \A k \in 1..m, c \in Nat : Spans(s, k, c) => HasType(t, c, W(s[k].type, c))
           S == {m \in 1..n : IsUpTo(f[m], m)}
<1>7. 1 \in S
  <2> DEFINE t == f[1]
  <2>1. 1 \in DOMAIN s /\ t = piece(1) /\ Replaces(t, s, 1, order, type, lower, upper)
    BY <1>2, <1>3, <1>4, <1>5
  <2>2. Begin(s, 1) = 0
    BY <1>1, <2>1, EndPoints
  <2> HIDE DEF t
  <2>3. ASSUME NEW c \in Nat, Spans(s, 1, c) PROVE HasType(t, c, W(s[1].type, c))
    <3>1. PICK i \in DOMAIN t : /\ t[i].type = W(s[1].type, c)
                                /\ i # 1 => t[i - 1].timePoint <= c
                                /\ c < t[i].timePoint
      BY <2>1, <2>3 DEF Replaces, W
    <3>2. t \in Seq(EndPointType)
      BY <2>1 DEF Replaces
    <3>3. Begin(t, i) <= c /\ c < TimePoint(t, i)
      BY <3>1, <3>2, EndPoints
    <3> QED
      BY <3>1, <3>3 DEF HasType, Spans
  <2>4. IsUpTo(t, 1)
    <3>1. \A k \in 1..1, c \in Nat : Spans(s, k, c) => HasType(t, c, W(s[k].type, c))
      BY <2>3
    <3> QED
      BY <2>1, <3>1 DEF Replaces
  <2> QED
    BY <1>2, <2>4 DEF t
<1>8. ASSUME NEW m \in 1..n - 1, m \in S PROVE m + 1 \in S
  <2> DEFINE t == f[m]
             p == piece(m + 1)
             u == f[m + 1]
  <2>1. /\ m \in Nat /\ m + 1 \in 2..n /\ m + 1 \in 1..n /\ (m + 1) - 1 = m /\ m \in DOMAIN s
        /\ m + 1 \in DOMAIN s /\ m # n /\ m + 1 # 1
    BY <1>2
  <2>2. u = t \o p
    BY <1>4, <1>5, <2>1
  <2>3. IsUpTo(t, m)
    BY <1>8
  <2>4. Replaces(p, s, m + 1, order, type, lower, upper)
    BY <1>3, <2>1
  <2>5. /\ t \in Seq(EndPointType) /\ t # << >>
        /\ p \in Seq(EndPointType) /\ p # << >>
    BY <2>3, <2>4 DEF Replaces
  <2> HIDE DEF t, p, u
  <2>6. /\ u \in Seq(EndPointType) /\ Len(u) = Len(t) + Len(p)
        /\ Len(t) \in Nat /\ Len(p) \in Nat /\ Len(t) # 0 /\ Len(p) # 0
        /\ \A i \in 1..Len(t) : u[i] = t[i] /\ i \in DOMAIN u
        /\ \A i \in 1..Len(p) : u[Len(t) + i] = p[i] /\ Len(t) + i \in DOMAIN u
    BY <2>2, <2>5
  <2>7. u # << >> /\ u[Len(u)].timePoint = s[m + 1].timePoint
    <3>1. Len(p) \in 1..Len(p)
      BY <2>6
    <3> QED
      BY <2>4, <2>6, <3>1 DEF Replaces
  <2>8. Begin(s, m + 1) = s[m].timePoint /\ s[m].timePoint \in Nat /\ s[m + 1].timePoint \in Nat
    BY <1>1, <2>1, EndPoints
  <2>9. \/ s[m].timePoint < s[m + 1].timePoint
        \/ s[m].timePoint = s[m + 1].timePoint /\ m + 1 = n
    BY <1>1, <2>1 DEF Increasing, Previous, TimePoint, n
  <2>10. ASSUME NEW i \in 2..Len(u)
         PROVE  \/ u[i - 1].timePoint < u[i].timePoint
                \/ u[i - 1].timePoint = u[i].timePoint /\ i = Len(u) /\ m + 1 = n
    <3>1. CASE i <= Len(t)
      <4>1. i \in 2..Len(t) /\ i \in 1..Len(t) /\ i - 1 \in 1..Len(t)
        BY <2>6, <3>1
      <4>2. t[i - 1].timePoint < t[i].timePoint
        BY <2>1, <2>3, <4>1
      <4> QED
        BY <2>6, <4>1, <4>2
    <3>2. CASE i = Len(t) + 1
      <4>1. i - 1 = Len(t) /\ Len(t) \in 1..Len(t) /\ 1 \in 1..Len(p)
        BY <2>6, <3>2
      <4>2. u[i - 1].timePoint = s[m].timePoint /\ u[i] = p[1]
        BY <2>3, <2>6, <3>2, <4>1
      <4>3. CASE s[m].timePoint < s[m + 1].timePoint
        BY <2>1, <2>4, <2>8, <4>2, <4>3 DEF Replaces
      <4>4. CASE s[m].timePoint = s[m + 1].timePoint /\ m + 1 = n
        <5>1. Len(p) = 1
          BY <2>4, <2>8, <4>4 DEF Replaces
        <5>2. p[1].timePoint = s[m + 1].timePoint
          BY <2>4, <5>1 DEF Replaces
        <5> QED
          BY <2>6, <3>2, <4>2, <4>4, <5>1, <5>2
      <4> QED
        BY <2>9, <4>3, <4>4
    <3>3. CASE i > Len(t) + 1
      <4> DEFINE j == i - Len(t)
      <4>1. j \in 2..Len(p) /\ j \in 1..Len(p) /\ j - 1 \in 1..Len(p)
            /\ Len(t) + j = i /\ Len(t) + (j - 1) = i - 1
        BY <2>6, <3>3
      <4> HIDE DEF j
      <4>2. p[j - 1].timePoint < p[j].timePoint
        BY <2>4, <4>1 DEF Replaces
      <4>3. u[i] = p[j] /\ u[i - 1] = p[j - 1]
        BY <2>6, <4>1
      <4> QED
        BY <4>2, <4>3
    <3>4. i \in Int /\ Len(t) \in Int
      BY <2>6
    <3> QED
      BY <3>1, <3>2, <3>3, <3>4
  <2>11. ASSUME NEW k \in 1..m + 1, NEW c \in Nat, Spans(s, k, c)
         PROVE  HasType(u, c, W(s[k].type, c))
    <3>1. CASE k \in 1..m
      <4>1. HasType(t, c, W(s[k].type, c))
        BY <2>3, <2>11, <3>1
      <4>2. PICK i \in DOMAIN t : t[i].type = W(s[k].type, c) /\ Spans(t, i, c)
        BY <4>1 DEF HasType
      <4>3. /\ i \in 1..Len(t)
            /\ i # 1 => i - 1 \in 1..Len(t)
        BY <2>5, EndPoints
      <4>4. i \in DOMAIN u /\ u[i] = t[i] /\ (i # 1 => u[i - 1] = t[i - 1])
        BY <2>6, <4>3
      <4>5. Spans(u, i, c)
        BY <4>2, <4>4 DEF Spans, Begin, Previous, TimePoint
      <4> QED
        BY <4>2, <4>4, <4>5 DEF HasType
    <3>2. CASE k = m + 1
      <4>1. PICK i \in DOMAIN p : /\ p[i].type = W(s[k].type, c)
                                  /\ i # 1 => p[i - 1].timePoint <= c
                                  /\ c < p[i].timePoint
        BY <2>4, <2>11, <3>2 DEF Replaces, W
      <4> DEFINE j == Len(t) + i
      <4>2. /\ i \in 1..Len(p) /\ i \in Nat
            /\ i # 1 => i - 1 \in 1..Len(p)
        BY <2>5, EndPoints
      <4>3. j \in DOMAIN u /\ u[j] = p[i]
        BY <2>6, <4>2
      <4>4. j # 1 /\ j - 1 = Len(t) + (i - 1) /\ (i = 1 => j - 1 = Len(t)) /\ Len(t) \in 1..Len(t)
        BY <2>6, <4>2
      <4> HIDE DEF j
      <4>5. u[j - 1].timePoint <= c
        <5>1. CASE i = 1
          <6>1. u[j - 1].timePoint = s[m].timePoint
            BY <2>3, <2>6, <4>4, <5>1
          <6>2. Begin(s, m + 1) <= c
            BY <2>11, <3>2 DEF Spans
          <6> QED
            BY <2>8, <6>1, <6>2
        <5>2. CASE i # 1
          BY <2>6, <4>1, <4>2, <4>4, <5>2
        <5> QED
          BY <5>1, <5>2
      <4>6. Spans(u, j, c)
        BY <4>1, <4>3, <4>4, <4>5 DEF Spans, Begin, Previous, TimePoint
      <4> QED
        BY <4>1, <4>3, <4>6 DEF HasType
    <3> QED
      BY <2>1, <3>1, <3>2
  <2>12. IsUpTo(u, m + 1)
    BY <2>6, <2>7, <2>10, <2>11
  <2> QED
    BY <2>1, <2>12 DEF u
<1> HIDE DEF S
<1>9. n \in S
  <2>1. 1 \in Int /\ n \in Int /\ 1 <= n
    BY <1>2
  <2>2. 1..n \subseteq S
    BY <1>7, <1>8, <2>1, InductionInInterval
  <2>3. n \in 1..n
    BY <1>2
  <2> QED
    BY <2>2, <2>3
<1> DEFINE t == f[n]
<1>10. IsUpTo(t, n)
  BY <1>9 DEF S
<1> HIDE DEF t
<1>11. t \in Seq(EndPointType) /\ t # << >> /\ Increasing(t)
  BY <1>10 DEF Increasing, Previous, TimePoint
<1>12. /\ IsSane(r) /\ r # << >>
       /\ r[Len(r)].timePoint = t[Len(t)].timePoint
       /\ \A c \in Nat, k \in DOMAIN t : Spans(t, k, c) => HasType(r, c, t[k].type)
  BY <1>6, <1>11, SanitizedKeeps DEF t
<1>13. r \in Seq(EndPointType) /\ Increasing(r)
  BY <1>12 DEF IsSane, Increasing
<1>14. ASSUME NEW c \in Nat, c < s[n].timePoint
       PROVE  TypeAt(r, c) = W(TypeAt(s, c), c)
  <2>1. PICK k \in DOMAIN s : Spans(s, k, c) /\ s[k].type = TypeAt(s, c)
    BY <1>1, <1>14, TypeAtExists DEF n
  <2>2. HasType(t, c, W(s[k].type, c))
    BY <1>2, <1>10, <2>1
  <2>3. PICK j \in DOMAIN t : t[j].type = W(s[k].type, c) /\ Spans(t, j, c)
    BY <2>2 DEF HasType
  <2>4. HasType(r, c, W(s[k].type, c))
    BY <1>12, <2>3
  <2> QED
    BY <1>13, <2>1, <2>4, TypeAtIs
<1>15. t[Len(t)].timePoint = s[n].timePoint
  BY <1>10
<1> QED
  BY <1>12, <1>14, <1>15 DEF n, r, W

(* What filling does.                                                     *)
LEMMA FillFromFills ==
  ASSUME NEW s, IsSane(s), s # << >>, NEW type \in Type, NEW start \in Times
  PROVE  LET r == FillFrom(s, type, start) IN
         /\ IsSane(r) /\ r # << >> /\ r[Len(r)].timePoint = s[Len(s)].timePoint
         /\ \A c \in Nat : c < s[Len(s)].timePoint =>
              TypeAt(r, c) = IF c >= start THEN type ELSE TypeAt(s, c)
<1> DEFINE r == FillFrom(s, type, start)
           end == s[Len(s)].timePoint
           E(x, t) == [type |-> x, timePoint |-> t]
<1>1. s \in Seq(EndPointType) /\ Increasing(s)
  BY DEF IsSane, Increasing
<1>2. Len(s) \in Nat /\ Len(s) # 0 /\ DOMAIN s = 1..Len(s) /\ Len(s) \in DOMAIN s
  BY <1>1
<1>3. start \in Nat /\ end \in Nat /\ end \in Times
  BY <1>1, <1>2, EndPoints, HorizonAssumption DEF Times
<1>4. CASE start > end
  <2>1. r = s
    BY <1>4 DEF FillFrom, Last
  <2>2. \A c \in Nat : c < end => ~(c >= start)
    BY <1>3, <1>4
  <2> QED
    BY <2>1, <2>2
<1>5. CASE ~(start > end)
  <2> DEFINE IsFirst(k) == s[k].timePoint >= start /\ \A j \in 1..k - 1 : s[j].timePoint < start
             T == {k \in DOMAIN s : s[k].timePoint >= start}
             k == CHOOSE k \in DOMAIN s : IsFirst(k)
             boundary == IF s[k].type = type THEN << >> ELSE <<[s[k] EXCEPT !.timePoint = start]>>
             pre == SubSeq(s, 1, k - 1)
             last == E(type, end)
  <2>1. r = pre \o boundary \o <<last>>
    BY <1>5 DEF FillFrom, Last
  <2>2. \E m \in DOMAIN s : IsFirst(m)
    <3>1. T \in SUBSET Nat /\ Len(s) \in T
      BY <1>2, <1>3, <1>5
    <3>2. PICK m \in T : \A j \in T : m <= j
      BY <3>1, LeastNumber
    <3>3. m \in DOMAIN s /\ s[m].timePoint >= start /\ m \in Nat /\ m <= Len(s)
      BY <1>2, <3>1, <3>2
    <3>4. ASSUME NEW j \in 1..m - 1 PROVE s[j].timePoint < start
      <4>1. j \in DOMAIN s /\ ~(m <= j)
        BY <1>2, <3>3
      <4>2. j \notin T
        BY <3>2, <4>1
      <4>3. s[j].timePoint \in Nat
        BY <1>1, <4>1, EndPoints
      <4> QED
        BY <1>3, <4>1, <4>2, <4>3
    <3> QED
      BY <3>3, <3>4
  <2> HIDE DEF IsFirst
  <2>3. k \in DOMAIN s /\ IsFirst(k)
    BY <2>2
  <2> HIDE DEF k
  <2>4. /\ k \in Nat /\ 1 <= k /\ k <= Len(s) /\ s[k].timePoint >= start
        /\ s[k].timePoint \in Nat /\ s[k].type \in Type
        /\ s[k] = E(s[k].type, s[k].timePoint)
        /\ \A j \in 1..k - 1 : j \in DOMAIN s /\ s[j].timePoint < start /\ s[j].timePoint \in Nat
    <3>1. \A j \in 1..k - 1 : j \in DOMAIN s
      BY <1>2, <2>3
    <3> QED
      BY <1>1, <2>3, <3>1, EndPoints DEF IsFirst
  <2>5. pre \in Seq(EndPointType) /\ Len(pre) = k - 1 /\ \A i \in 1..k - 1 : pre[i] = s[i]
    BY <1>1, <1>2, <2>4
  <2>6. last \in EndPointType /\ last.type = type /\ last.timePoint = end
    BY <1>3 DEF EndPointType
  <2>7. ASSUME NEW c \in Nat, c < start, c < end
        PROVE  \E j \in 1..k : s[j].type = TypeAt(s, c) /\ Spans(s, j, c)
    <3>1. PICK j \in DOMAIN s : Spans(s, j, c) /\ s[j].type = TypeAt(s, c)
      BY <1>1, <2>7, TypeAtExists
    <3>2. j <= k
      <4> SUFFICES ASSUME ~(j <= k) PROVE FALSE
        OBVIOUS
      <4>1. j # 1 /\ j - 1 \in DOMAIN s /\ k <= j - 1 /\ Begin(s, j) = s[j - 1].timePoint
            /\ s[j - 1].timePoint \in Nat
        BY <1>1, <1>2, <2>4, EndPoints
      <4>2. s[k].timePoint <= s[j - 1].timePoint
        BY <1>1, <2>3, <4>1, TimesIncrease
      <4> QED
        BY <1>3, <2>4, <2>7, <3>1, <4>1, <4>2 DEF Spans
    <3>3. j \in 1..k
      BY <1>2, <2>4, <3>2
    <3> QED
      BY <3>1, <3>3
  <2> HIDE DEF pre, last
  <2>8. CASE s[k].type = type
    <3>1. r = pre \o <<last>>
      BY <2>1, <2>5, <2>8, ConcatEmptySeq
    <3>2. /\ r \in Seq(EndPointType) /\ Len(r) = k /\ DOMAIN r = 1..k
          /\ \A i \in 1..k - 1 : r[i] = s[i]
          /\ r[k].type = type /\ r[k].timePoint = end
      BY <2>4, <2>5, <2>6, <3>1
    <3> HIDE DEF r
    <3>3. ASSUME NEW i \in 2..Len(r)
          PROVE  r[i].type # r[i - 1].type /\ r[i - 1].timePoint < r[i].timePoint
      <4>1. CASE i = k
        <5>1. k - 1 \in 1..k - 1 /\ k \in 2..Len(s)
          BY <2>4, <3>2, <4>1
        <5>2. s[k].type # s[k - 1].type
          BY <5>1 DEF IsSane
        <5> QED
          BY <1>3, <1>5, <2>4, <2>8, <3>2, <4>1, <5>1, <5>2
      <4>2. CASE i # k
        <5>1. i \in 1..k - 1 /\ i - 1 \in 1..k - 1 /\ i \in 2..Len(s) /\ i # Len(s)
          BY <2>4, <3>2, <4>2
        <5> QED
          BY <3>2, <5>1 DEF IsSane, Previous, TimePoint
      <4> QED
        BY <4>1, <4>2
    <3>4. IsSane(r)
      BY <3>2, <3>3 DEF IsSane, Previous, TimePoint
    <3>5. ASSUME NEW c \in Nat, c < end
          PROVE  HasType(r, c, IF c >= start THEN type ELSE TypeAt(s, c))
      <4>0. k \in DOMAIN r /\ k # 1 => k - 1 \in 1..k - 1
        BY <2>4
      <4>1. CASE c >= start
        <5>1. Spans(r, k, c)
          <6>1. CASE k = 1
            BY <3>2, <3>5, <6>1 DEF Spans, Begin, TimePoint
          <6>2. CASE k # 1
            <7>1. k - 1 \in 1..k - 1
              BY <2>4, <6>2
            <7>2. r[k - 1].timePoint <= c
              BY <1>3, <2>4, <3>2, <4>1, <7>1
            <7> QED
              BY <3>2, <3>5, <6>2, <7>2 DEF Spans, Begin, Previous, TimePoint
          <6> QED
            BY <6>1, <6>2
        <5>2. k \in DOMAIN r
          BY <2>4, <3>2
        <5> QED
          BY <3>2, <4>1, <5>1, <5>2 DEF HasType
      <4>2. CASE ~(c >= start)
        <5>1. PICK j \in 1..k : s[j].type = TypeAt(s, c) /\ Spans(s, j, c)
          BY <1>3, <2>7, <3>5, <4>2
        <5>2. r[j].type = s[j].type
          <6>1. j = k \/ j \in 1..k - 1
            BY <2>4
          <6> QED
            BY <2>8, <3>2, <6>1
        <5>3. Begin(r, j) <= c
          <6>1. CASE j = 1
            BY <6>1 DEF Begin
          <6>2. CASE j # 1
            <7>1. j - 1 \in 1..k - 1
              BY <2>4, <6>2
            <7> QED
              BY <3>2, <5>1, <6>2, <7>1 DEF Spans, Begin, Previous
          <6> QED
            BY <6>1, <6>2
        <5>4. c < TimePoint(r, j)
          <6>1. j = k \/ j \in 1..k - 1
            BY <2>4
          <6> QED
            BY <3>2, <3>5, <5>1, <6>1 DEF Spans, TimePoint
        <5> QED
          BY <3>2, <4>2, <5>1, <5>2, <5>3, <5>4 DEF HasType, Spans
      <4> QED
        BY <4>1, <4>2
    <3>6. ASSUME NEW c \in Nat, c < end
          PROVE  TypeAt(r, c) = IF c >= start THEN type ELSE TypeAt(s, c)
      <4>1. Increasing(r)
        BY <3>4 DEF IsSane, Increasing
      <4>2. HasType(r, c, IF c >= start THEN type ELSE TypeAt(s, c))
        BY <3>5, <3>6
      <4> QED
        BY <3>2, <4>1, <4>2, TypeAtIs
    <3>7. r # << >> /\ r[Len(r)].timePoint = end
      BY <2>4, <3>2
    <3> QED
      BY <3>4, <3>6, <3>7 DEF r
  <2>9. CASE s[k].type # type
    <3> DEFINE edge == E(s[k].type, start)
    <3>1. edge \in EndPointType /\ edge.type = s[k].type /\ edge.timePoint = start
      BY <2>4 DEF EndPointType
    <3>2. r = (pre \o <<edge>>) \o <<last>>
      <4>1. [s[k] EXCEPT !.timePoint = start] = edge
        BY <2>4
      <4> QED
        BY <2>1, <2>9, <4>1
    <3> HIDE DEF edge
    <3>3. /\ r \in Seq(EndPointType) /\ Len(r) = k + 1 /\ DOMAIN r = 1..k + 1
          /\ \A i \in 1..k - 1 : r[i] = s[i]
          /\ r[k].type = s[k].type /\ r[k].timePoint = start
          /\ r[k + 1].type = type /\ r[k + 1].timePoint = end
      <4> DEFINE q == pre \o <<edge>>
      <4>1. /\ q \in Seq(EndPointType) /\ Len(q) = k
            /\ \A i \in 1..k - 1 : q[i] = s[i]
            /\ q[k] = edge
        BY <2>4, <2>5, <3>1
      <4> HIDE DEF q
      <4>2. r = q \o <<last>>
        BY <3>2 DEF q
      <4>3. /\ r \in Seq(EndPointType) /\ Len(r) = k + 1
            /\ \A i \in 1..k : r[i] = q[i]
            /\ r[k + 1] = last
        BY <2>4, <2>6, <4>1, <4>2
      <4>4. \A i \in 1..k - 1 : i \in 1..k
        BY <2>4
      <4>5. k \in 1..k
        BY <2>4
      <4> QED
        BY <2>6, <3>1, <4>1, <4>3, <4>4, <4>5
    <3> HIDE DEF r
    <3>4. ASSUME NEW i \in 2..Len(r)
          PROVE  /\ r[i].type # r[i - 1].type
                 /\ \/ r[i - 1].timePoint < r[i].timePoint
                    \/ r[i - 1].timePoint = r[i].timePoint /\ i = Len(r)
      <4>1. CASE i = k + 1
        <5>1. i - 1 = k
          BY <2>4, <4>1
        <5> QED
          BY <1>3, <1>5, <2>9, <3>3, <4>1, <5>1
      <4>2. CASE i = k
        <5>1. k - 1 \in 1..k - 1 /\ k \in 2..Len(s)
          BY <2>4, <3>3, <4>2
        <5>2. s[k].type # s[k - 1].type
          BY <5>1 DEF IsSane
        <5> QED
          BY <1>3, <2>4, <3>3, <4>2, <5>1, <5>2
      <4>3. CASE i # k /\ i # k + 1
        <5>1. i \in 1..k - 1 /\ i - 1 \in 1..k - 1 /\ i \in 2..Len(s) /\ i # Len(s)
          BY <2>4, <3>3, <4>3
        <5> QED
          BY <3>3, <5>1 DEF IsSane, Previous, TimePoint
      <4> QED
        BY <4>1, <4>2, <4>3
    <3>5. IsSane(r)
      BY <3>3, <3>4 DEF IsSane, Previous, TimePoint
    <3>6. ASSUME NEW c \in Nat, c < end
          PROVE  HasType(r, c, IF c >= start THEN type ELSE TypeAt(s, c))
      <4>1. CASE c >= start
        <5>1. k + 1 \in DOMAIN r /\ k + 1 # 1 /\ (k + 1) - 1 = k
          BY <2>4, <3>3
        <5>2. Spans(r, k + 1, c)
          BY <1>3, <3>3, <3>6, <4>1, <5>1 DEF Spans, Begin, Previous, TimePoint
        <5> QED
          BY <3>3, <4>1, <5>1, <5>2 DEF HasType
      <4>2. CASE ~(c >= start)
        <5>1. PICK j \in 1..k : s[j].type = TypeAt(s, c) /\ Spans(s, j, c)
          BY <1>3, <2>7, <3>6, <4>2
        <5>0. (j = k \/ j \in 1..k - 1) /\ j \in DOMAIN r
          BY <2>4, <3>3
        <5>2. r[j].type = s[j].type
          BY <3>3, <5>0
        <5>3. Begin(r, j) <= c
          <6>1. CASE j = 1
            BY <6>1 DEF Begin
          <6>2. CASE j # 1
            <7>1. j - 1 \in 1..k - 1
              BY <2>4, <6>2
            <7> QED
              BY <3>3, <5>1, <6>2, <7>1 DEF Spans, Begin, Previous
          <6> QED
            BY <6>1, <6>2
        <5>4. c < TimePoint(r, j)
          BY <1>3, <3>3, <4>2, <5>0, <5>1 DEF Spans, TimePoint
        <5> QED
          BY <4>2, <5>0, <5>1, <5>2, <5>3, <5>4 DEF HasType, Spans
      <4> QED
        BY <4>1, <4>2
    <3>7. ASSUME NEW c \in Nat, c < end
          PROVE  TypeAt(r, c) = IF c >= start THEN type ELSE TypeAt(s, c)
      <4>1. Increasing(r)
        BY <3>5 DEF IsSane, Increasing
      <4>2. HasType(r, c, IF c >= start THEN type ELSE TypeAt(s, c))
        BY <3>6, <3>7
      <4> QED
        BY <3>3, <4>1, <4>2, TypeAtIs
    <3>8. r # << >> /\ r[Len(r)].timePoint = end
      BY <2>4, <3>3
    <3> QED
      BY <3>5, <3>7, <3>8 DEF r
  <2> QED
    BY <2>8, <2>9
<1> QED
  BY <1>4, <1>5

(* Inserting another vector entry by entry chooses between the types of   *)
(* both as long as the other one lasts.                                   *)
Best(order, old, new) == IF IsLess(order, old, new) THEN new ELSE old

LEMMA InsertAllCombines ==
  ASSUME NEW s, IsSane(s), s # << >>, NEW order, NEW other, IsSane(other)
  PROVE  LET r == InsertAll(order, s, other) IN
         /\ IsSane(r) /\ r # << >> /\ r[Len(r)].timePoint = s[Len(s)].timePoint
         /\ \A c \in Nat : c < s[Len(s)].timePoint =>
              TypeAt(r, c) = IF \E k \in DOMAIN other : c < other[k].timePoint
                             THEN Best(order, TypeAt(s, c), TypeAt(other, c))
                             ELSE TypeAt(s, c)
<1> DEFINE n == Len(other)
           end == s[Len(s)].timePoint
           within(m, c) == \E k \in 1..m : c < other[k].timePoint
           IsUpTo(t, m) ==
             /\ IsSane(t) /\ t # << >> /\ t[Len(t)].timePoint = end
             /\ \A c \in Nat : c < end =>
                  TypeAt(t, c) = IF within(m, c) THEN Best(order, TypeAt(s, c), TypeAt(other, c))
                                 ELSE TypeAt(s, c)
<1>1. other \in Seq(EndPointType) /\ Increasing(other) /\ n \in Nat /\ DOMAIN other = 1..n
  BY DEF IsSane, Increasing
<1>2. PICK f : /\ f[0] = s
               /\ \A i \in 1..Len(other) :
                    f[i] = InsertInterval(order, f[i - 1], other[i].type,
                                          Begin(other, i), TimePoint(other, i))
               /\ InsertAll(order, s, other) = f[Len(other)]
  <2>1. Len(other) \in Nat
    BY <1>1
  <2> HIDE DEF n, end, within, IsUpTo
  <2> QED
    BY <2>1, InsertAllIsDefined, SMTT(30)
<1> DEFINE S == {m \in 0..n : IsUpTo(f[m], m)}
<1> HIDE DEF n
<1>3. 0 \in S
  <2>1. \A c : ~within(0, c)
    OBVIOUS
  <2>2. IsUpTo(f[0], 0)
    BY <1>2, <2>1
  <2> QED
    BY <1>1, <2>2
<1>4. ASSUME NEW m \in 0..n - 1, m \in S PROVE m + 1 \in S
  <2> DEFINE t == f[m]
             i == m + 1
             lower == Begin(other, i)
             upper == TimePoint(other, i)
  <2>1. m \in Nat /\ i \in Nat /\ i \in 1..n /\ i \in 0..n /\ i - 1 = m /\ i \in DOMAIN other
    BY <1>1
  <2>2. IsUpTo(t, m)
    BY <1>4
  <2>3. f[i] = InsertInterval(order, t, other[i].type, lower, upper)
    BY <1>2, <2>1
  <2>4. /\ other[i].type \in Type /\ upper = other[i].timePoint /\ upper \in Times /\ upper \in Nat
        /\ i = 1 => lower = 0
        /\ i # 1 => m \in DOMAIN other /\ lower = other[m].timePoint
    <3> HIDE DEF i, t, IsUpTo, within
    <3>1. /\ other[i].type \in Type /\ other[i].timePoint \in Nat /\ other[i].timePoint \in Times
          /\ TimePoint(other, i) = other[i].timePoint
          /\ i = 1 => Begin(other, i) = 0
          /\ i # 1 => i - 1 \in DOMAIN other /\ Begin(other, i) = other[i - 1].timePoint
      BY <1>1, <2>1, EndPoints
    <3> QED
      BY <2>1, <3>1
  <2> HIDE DEF i
  <2>5. lower \in Times /\ lower \in Nat /\ lower <= upper
    <3>1. CASE i = 1
      BY <2>4, <3>1, HorizonAssumption DEF Times
    <3>2. CASE i # 1
      <4>1. other[m].timePoint \in Times /\ other[m].timePoint \in Nat
        BY <1>1, <2>4, <3>2, EndPoints
      <4>2. m <= i
        BY <2>1
      <4>3. other[m].timePoint <= other[i].timePoint
        BY <1>1, <2>1, <2>4, <3>2, <4>2, TimesIncrease
      <4> QED
        BY <2>4, <3>2, <4>1, <4>3
    <3> QED
      BY <3>1, <3>2
  <2> HIDE DEF lower, upper, t
  <2>6. /\ IsSane(f[i]) /\ f[i] # << >> /\ f[i][Len(f[i])].timePoint = t[Len(t)].timePoint
        /\ \A c \in Nat : c < t[Len(t)].timePoint =>
             TypeAt(f[i], c) = Won(order, TypeAt(t, c), other[i].type, lower, upper, c)
    <3>1. IsSane(t) /\ t # << >>
      BY <2>2
    <3> HIDE DEF IsUpTo
    <3> QED
      BY <2>3, <2>4, <2>5, <3>1, InsertIntervalInserts
  <2>7. ASSUME NEW c \in Nat, c < end
        PROVE  TypeAt(f[i], c) = IF within(i, c) THEN Best(order, TypeAt(s, c), TypeAt(other, c))
                                 ELSE TypeAt(s, c)
    <3>1. TypeAt(f[i], c) = Won(order, TypeAt(t, c), other[i].type, lower, upper, c)
      BY <2>2, <2>6, <2>7
    <3>2. TypeAt(t, c) = IF within(m, c) THEN Best(order, TypeAt(s, c), TypeAt(other, c))
                         ELSE TypeAt(s, c)
      BY <2>2, <2>7
    <3>3. within(m, c) <=> c < lower
      <4>1. ASSUME NEW k \in 1..m, c < other[k].timePoint PROVE c < lower
        <5>1. i # 1 /\ k \in DOMAIN other /\ m \in DOMAIN other /\ k <= m
          BY <1>1, <2>1
        <5>2. other[k].timePoint <= other[m].timePoint
          BY <1>1, <5>1, TimesIncrease
        <5>3. other[k].timePoint \in Nat /\ other[m].timePoint \in Nat
          BY <1>1, <5>1, EndPoints
        <5> QED
          BY <2>4, <4>1, <5>1, <5>2, <5>3
      <4>2. ASSUME c < lower PROVE within(m, c)
        <5>1. i # 1 /\ lower = other[m].timePoint
          BY <2>4, <4>2
        <5>2. m \in 1..m
          BY <2>1, <5>1
        <5> QED
          BY <4>2, <5>1, <5>2
      <4> QED
        BY <4>1, <4>2
    <3>4. within(i, c) <=> c < upper
      <4>1. ASSUME NEW k \in 1..i, c < other[k].timePoint PROVE c < upper
        <5>1. k \in DOMAIN other /\ k <= i
          BY <1>1, <2>1
        <5>2. other[k].timePoint <= other[i].timePoint
          BY <1>1, <2>1, <5>1, TimesIncrease
        <5>3. other[k].timePoint \in Nat
          BY <1>1, <5>1, EndPoints
        <5> QED
          BY <2>4, <4>1, <5>2, <5>3
      <4>2. i \in 1..i
        BY <2>1
      <4> QED
        BY <2>4, <4>1, <4>2
    <3> HIDE DEF within
    <3>5. CASE c < lower
      <4>1. ~(lower <= c) /\ c < upper
        BY <2>4, <2>5, <3>5
      <4> QED
        BY <3>1, <3>2, <3>3, <3>4, <3>5, <4>1 DEF Won
    <3>6. CASE ~(c < lower) /\ c < upper
      <4>1. lower <= c
        BY <2>5, <3>6
      <4>2. Spans(other, i, c)
        BY <3>6, <4>1 DEF Spans, lower, upper
      <4>3. TypeAt(other, c) = other[i].type
        BY <1>1, <2>1, <4>2, TypeAtIsUnique
      <4> QED
        BY <3>1, <3>2, <3>3, <3>4, <3>6, <4>1, <4>3 DEF Won, Best
    <3>7. CASE ~(c < upper)
      <4>1. ~(c < lower)
        BY <2>4, <2>5, <3>7
      <4> QED
        BY <3>1, <3>2, <3>3, <3>4, <3>7, <4>1 DEF Won
    <3> QED
      BY <3>5, <3>6, <3>7
  <2>8. IsUpTo(f[i], i)
    BY <2>2, <2>6, <2>7
  <2> QED
    BY <2>1, <2>8 DEF i
<1> HIDE DEF S
<1>5. n \in S
  <2>1. 0 \in Int /\ n \in Int /\ 0 <= n
    BY <1>1
  <2>2. 0..n \subseteq S
    BY <1>3, <1>4, <2>1, InductionInInterval
  <2>3. n \in 0..n
    BY <1>1
  <2> QED
    BY <2>2, <2>3
<1>6. IsUpTo(f[n], n)
  BY <1>5 DEF S
<1> QED
  BY <1>1, <1>2, <1>6 DEF n

--------------------------------------------------------------------------
(* The timelines.                                                         *)
LEMMA TimelineIs ==
  ASSUME NEW s, s # << >>
  PROVE  /\ TimelineOf(s) = [c \in 0..s[Len(s)].timePoint - 1 |-> TypeAt(s, c)]
         /\ DOMAIN TimelineOf(s) = 0..s[Len(s)].timePoint - 1
         /\ \A c \in 0..s[Len(s)].timePoint - 1 : TimelineOf(s)[c] = TypeAt(s, c)
<1>1. TimelineOf(s) = [c \in 0..s[Len(s)].timePoint - 1 |-> TypeAt(s, c)]
  BY DEF TimelineOf, Last
<1> QED
  BY <1>1

(* What another vector covers are the instants before one of its end     *)
(* points.                                                                *)
LEMMA TimelineCovers ==
  ASSUME NEW s, IsSane(s), NEW c \in Nat
  PROVE  /\ c \in DOMAIN TimelineOf(s) <=> \E k \in DOMAIN s : c < s[k].timePoint
         /\ c \in DOMAIN TimelineOf(s) => TimelineOf(s)[c] = TypeAt(s, c) /\ TypeAt(s, c) \in Type
<1>1. s \in Seq(EndPointType) /\ Increasing(s)
  BY DEF IsSane, Increasing
<1>2. CASE s = << >>
  <2>1. DOMAIN TimelineOf(s) = 0..-1
    BY <1>2 DEF TimelineOf
  <2>2. c \notin DOMAIN TimelineOf(s) /\ DOMAIN s = {}
    BY <1>2, <2>1
  <2> QED
    BY <2>2
<1>3. CASE s # << >>
  <2> DEFINE end == s[Len(s)].timePoint
  <2>1. Len(s) \in DOMAIN s /\ Len(s) \in Nat /\ end \in Nat
    BY <1>1, <1>3, EndPoints
  <2>2. DOMAIN TimelineOf(s) = 0..end - 1 /\ \A d \in 0..end - 1 : TimelineOf(s)[d] = TypeAt(s, d)
    BY <1>3, TimelineIs
  <2>3. c \in DOMAIN TimelineOf(s) <=> c < end
    BY <2>1, <2>2
  <2>4. ASSUME NEW k \in DOMAIN s, c < s[k].timePoint PROVE c < end
    <3>1. k <= Len(s)
      BY <1>1, EndPoints
    <3>2. s[k].timePoint <= end /\ s[k].timePoint \in Nat
      BY <1>1, <2>1, <3>1, TimesIncrease, EndPoints
    <3> QED
      BY <2>1, <2>4, <3>2
  <2>5. c < end => TypeAt(s, c) \in Type
    BY <1>1, <1>3, TypeAtExists
  <2> QED
    BY <2>1, <2>2, <2>3, <2>4, <2>5
<1> QED
  BY <1>2, <1>3

LEMMA RanksOrder ==
  ASSUME NEW t \in Type, NEW u \in Type
  PROVE  /\ IsLess(Order, t, u) <=> Abstraction!Rank(t) < Abstraction!Rank(u)
         /\ IsLess(Reverse(Order), t, u) <=> Abstraction!Rank(u) < Abstraction!Rank(t)
         /\ Abstraction!Rank(t) = Abstraction!Rank(u) => t = u
         /\ Abstraction!Rank(t) \in Nat /\ Abstraction!Rank(u) \in Nat
<1> DEFINE n == Len(Order)
           rank(x) == Abstraction!Rank(x)
           R == Reverse(Order)
<1>1. n \in Nat /\ DOMAIN Order = 1..n
  BY OrderAssumption
<1>2. ASSUME NEW x \in Type PROVE rank(x) \in 1..n /\ Order[rank(x)] = x
  <2>1. \E i \in DOMAIN Order : Order[i] = x
    BY DEF Type
  <2>2. rank(x) = CHOOSE i \in DOMAIN Order : Order[i] = x
    BY DEF Abstraction!Rank
  <2> QED
    BY <1>1, <2>1, <2>2
<1>3. \A i, j \in 1..n : Order[i] = Order[j] => i = j
  BY <1>1, OrderAssumption
<1>4. DOMAIN R = 1..n /\ \A i \in 1..n : R[i] = Order[(n - i) + 1]
  BY DEF Reverse
<1> HIDE DEF rank, n, R
<1>5. IsLess(Order, t, u) <=> rank(t) < rank(u)
  <2>1. ASSUME NEW i \in 1..n, NEW j \in 1..n, i < j, Order[i] = t, Order[j] = u
        PROVE  rank(t) < rank(u)
    <3>1. i = rank(t) /\ j = rank(u)
      BY <1>2, <1>3, <2>1
    <3> QED
      BY <2>1, <3>1
  <2> QED
    BY <1>1, <1>2, <2>1 DEF IsLess
<1>6. IsLess(R, t, u) <=> rank(u) < rank(t)
  <2>1. ASSUME NEW i \in 1..n, NEW j \in 1..n, i < j, R[i] = t, R[j] = u
        PROVE  rank(u) < rank(t)
    <3>1. (n - i) + 1 \in 1..n /\ (n - j) + 1 \in 1..n /\ (n - j) + 1 < (n - i) + 1
      BY <1>1, <2>1
    <3>2. (n - i) + 1 = rank(t) /\ (n - j) + 1 = rank(u)
      BY <1>2, <1>3, <1>4, <2>1, <3>1
    <3> QED
      BY <3>1, <3>2
  <2>2. ASSUME rank(u) < rank(t) PROVE IsLess(R, t, u)
    <3> DEFINE i == (n - rank(t)) + 1
               j == (n - rank(u)) + 1
    <3>1. rank(t) \in 1..n /\ rank(u) \in 1..n /\ Order[rank(t)] = t /\ Order[rank(u)] = u
      BY <1>2
    <3>2. i \in 1..n /\ j \in 1..n /\ i < j /\ (n - i) + 1 = rank(t) /\ (n - j) + 1 = rank(u)
      BY <1>1, <2>2, <3>1
    <3> HIDE DEF i, j
    <3>3. R[i] = t /\ R[j] = u
      BY <1>4, <3>1, <3>2
    <3> QED
      BY <1>4, <3>2, <3>3 DEF IsLess
  <2> QED
    BY <1>4, <2>1, <2>2 DEF IsLess
<1>7. rank(t) = rank(u) => t = u
  BY <1>2
<1>8. rank(t) \in Nat /\ rank(u) \in Nat
  BY <1>1, <1>2
<1> QED
  BY <1>5, <1>6, <1>7, <1>8 DEF rank, R

LEMMA BestIsHigherOrLower ==
  ASSUME NEW t \in Type, NEW u \in Type
  PROVE  /\ Best(Order, t, u) = Abstraction!Higher[<<t, u>>]
         /\ Best(Reverse(Order), t, u) = Abstraction!Lower[<<t, u>>]
<1>1. Abstraction!Type = Type
  BY DEF Abstraction!Type, Type
<1>2. /\ Abstraction!Higher[<<t, u>>] = IF Abstraction!Rank(t) < Abstraction!Rank(u) THEN u ELSE t
      /\ Abstraction!Lower[<<t, u>>] = IF Abstraction!Rank(t) < Abstraction!Rank(u) THEN t ELSE u
  BY <1>1 DEF Abstraction!Higher, Abstraction!Lower
<1> QED
  BY <1>2, RanksOrder DEF Best

--------------------------------------------------------------------------
(* The results.  Inserting, filling, merging and uniting keep end points  *)
(* of the same type apart and time points in order: every assertion of    *)
(* isSane holds (HierarchicalIntervalVector.tpp:11, 16, 66, 108).         *)
LEMMA ReversedOrCombined ==
  ASSUME NEW order, NEW other \in Others, Canonical, intervals # << >>
  PROVE  LET r == InsertAll(order, intervals, other) IN
         /\ IsSane(r)
         /\ TimelineOf(r) =
              [c \in DOMAIN TimelineOf(intervals) |->
                 IF c \in DOMAIN TimelineOf(other)
                 THEN Best(order, TimelineOf(intervals)[c], TimelineOf(other)[c])
                 ELSE TimelineOf(intervals)[c]]
<1> DEFINE s == intervals
           r == InsertAll(order, s, other)
           end == s[Len(s)].timePoint
<1>1. IsSane(s) /\ s # << >> /\ IsSane(other)
  BY OthersAssumption DEF Canonical
<1>2. /\ IsSane(r) /\ r # << >> /\ r[Len(r)].timePoint = end
      /\ \A c \in Nat : c < end =>
           TypeAt(r, c) = IF \E k \in DOMAIN other : c < other[k].timePoint
                          THEN Best(order, TypeAt(s, c), TypeAt(other, c))
                          ELSE TypeAt(s, c)
  BY <1>1, InsertAllCombines
<1>3. end \in Nat
  <2>1. s \in Seq(EndPointType) /\ Len(s) \in DOMAIN s
    BY <1>1 DEF IsSane
  <2> QED
    BY <2>1, EndPoints
<1> HIDE DEF s, r, end
<1>4. /\ TimelineOf(r) = [c \in 0..end - 1 |-> TypeAt(r, c)]
      /\ DOMAIN TimelineOf(s) = 0..end - 1
      /\ \A c \in 0..end - 1 : TimelineOf(s)[c] = TypeAt(s, c)
  BY <1>1, <1>2, TimelineIs DEF end
<1>5. ASSUME NEW c \in 0..end - 1
      PROVE  TypeAt(r, c) = IF c \in DOMAIN TimelineOf(other)
                            THEN Best(order, TimelineOf(s)[c], TimelineOf(other)[c])
                            ELSE TimelineOf(s)[c]
  <2>1. c \in Nat /\ c < end
    BY <1>3
  <2>2. TimelineOf(s)[c] = TypeAt(s, c)
    BY <1>4
  <2>3. /\ c \in DOMAIN TimelineOf(other) <=> \E k \in DOMAIN other : c < other[k].timePoint
        /\ c \in DOMAIN TimelineOf(other) => TimelineOf(other)[c] = TypeAt(other, c)
    BY <1>1, <2>1, TimelineCovers
  <2>4. TypeAt(r, c) = IF \E k \in DOMAIN other : c < other[k].timePoint
                       THEN Best(order, TypeAt(s, c), TypeAt(other, c))
                       ELSE TypeAt(s, c)
    BY <1>2, <2>1
  <2> QED
    BY <2>2, <2>3, <2>4
<1>6. TimelineOf(r) = [c \in DOMAIN TimelineOf(s) |->
                         IF c \in DOMAIN TimelineOf(other)
                         THEN Best(order, TimelineOf(s)[c], TimelineOf(other)[c])
                         ELSE TimelineOf(s)[c]]
  BY <1>4, <1>5
<1> QED
  BY <1>2, <1>6 DEF r, s

LEMMA TypeOfTimeline ==
  ASSUME Canonical, intervals # << >>
  PROVE  \A c \in DOMAIN TimelineOf(intervals) : c \in Nat /\ TimelineOf(intervals)[c] \in Type
<1> DEFINE s == intervals
           end == s[Len(s)].timePoint
<1>1. IsSane(s) /\ s \in Seq(EndPointType) /\ Len(s) \in DOMAIN s
  BY DEF Canonical, IsSane
<1>2. end \in Nat
  BY <1>1, EndPoints
<1>3. DOMAIN TimelineOf(s) = 0..end - 1
  BY TimelineIs
<1>4. \A c \in 0..end - 1 : c \in Nat
  BY <1>2
<1> QED
  BY <1>1, <1>3, <1>4, TimelineCovers

LEMMA ExactOperations ==
  ASSUME Canonical
  PROVE  OperationsAreExact
<1> SUFFICES ASSUME intervals # << >>
             PROVE  /\ \A type \in Type, lower, upper \in Times :
                         lower <= upper => TimelineOf(InsertInterval(Order, intervals, type, lower, upper)) =
                                           Abstraction!Inserted(type, lower, upper)
                    /\ \A type \in Type, start \in Times :
                         TimelineOf(FillFrom(intervals, type, start)) = Abstraction!Filled(type, start)
                    /\ \A other \in Others :
                         /\ TimelineOf(Merged(intervals, other)) =
                            Abstraction!Combined(TimelineOf(other), Abstraction!Higher)
                         /\ TimelineOf(United(intervals, other)) =
                            Abstraction!Combined(TimelineOf(other), Abstraction!Lower)
  BY DEF OperationsAreExact
<1> DEFINE s == intervals
           end == s[Len(s)].timePoint
           tl == TimelineOf(s)
<1>1. IsSane(s) /\ s # << >>
  BY DEF Canonical
<1>2. /\ DOMAIN tl = 0..end - 1
      /\ \A c \in 0..end - 1 : tl[c] = TypeAt(s, c)
      /\ \A c \in DOMAIN tl : c \in Nat /\ tl[c] \in Type
  BY TimelineIs, TypeOfTimeline
<1>3. ASSUME NEW c \in 0..end - 1 PROVE c \in Nat /\ c < end
  <2>1. end \in Nat
    <3>1. s \in Seq(EndPointType) /\ Len(s) \in DOMAIN s
      BY <1>1 DEF IsSane
    <3> QED
      BY <3>1, EndPoints
  <2> QED
    BY <2>1
<1> HIDE DEF end, tl
<1>4. ASSUME NEW type \in Type, NEW lower \in Times, NEW upper \in Times, lower <= upper
      PROVE  TimelineOf(InsertInterval(Order, s, type, lower, upper)) =
             Abstraction!Inserted(type, lower, upper)
  <2> DEFINE r == InsertInterval(Order, s, type, lower, upper)
  <2>1. /\ r # << >> /\ r[Len(r)].timePoint = end
        /\ \A c \in Nat : c < end =>
             TypeAt(r, c) = Won(Order, TypeAt(s, c), type, lower, upper, c)
    BY <1>1, <1>4, InsertIntervalInserts DEF end
  <2> HIDE DEF r
  <2>2. TimelineOf(r) = [c \in 0..end - 1 |-> TypeAt(r, c)]
    BY <2>1, TimelineIs
  <2>3. ASSUME NEW c \in DOMAIN tl
        PROVE  TypeAt(r, c) = IF lower <= c /\ c < upper THEN Abstraction!Higher[<<tl[c], type>>] ELSE tl[c]
    <3>1. TypeAt(r, c) = Won(Order, tl[c], type, lower, upper, c) /\ tl[c] \in Type
      BY <1>2, <1>3, <2>1
    <3>2. Best(Order, tl[c], type) = Abstraction!Higher[<<tl[c], type>>]
      BY <3>1, BestIsHigherOrLower
    <3> QED
      BY <3>1, <3>2 DEF Won, Best
  <2>4. Abstraction!Inserted(type, lower, upper) =
          [c \in DOMAIN tl |-> IF lower <= c /\ c < upper THEN Abstraction!Higher[<<tl[c], type>>] ELSE tl[c]]
    BY DEF Abstraction!Inserted, tl
  <2>5. TimelineOf(r) = Abstraction!Inserted(type, lower, upper)
    BY <1>2, <2>2, <2>3, <2>4
  <2> QED
    BY <2>5 DEF r
<1>5. ASSUME NEW type \in Type, NEW start \in Times
      PROVE  TimelineOf(FillFrom(s, type, start)) = Abstraction!Filled(type, start)
  <2> DEFINE r == FillFrom(s, type, start)
  <2>1. /\ r # << >> /\ r[Len(r)].timePoint = end
        /\ \A c \in Nat : c < end => TypeAt(r, c) = IF c >= start THEN type ELSE TypeAt(s, c)
    BY <1>1, FillFromFills DEF end
  <2> HIDE DEF r
  <2>2. TimelineOf(r) = [c \in 0..end - 1 |-> TypeAt(r, c)]
    BY <2>1, TimelineIs
  <2>3. ASSUME NEW c \in DOMAIN tl
        PROVE  TypeAt(r, c) = IF c >= start THEN type ELSE tl[c]
    BY <1>2, <1>3, <2>1
  <2>4. Abstraction!Filled(type, start) = [c \in DOMAIN tl |-> IF c >= start THEN type ELSE tl[c]]
    BY DEF Abstraction!Filled, tl
  <2>5. TimelineOf(r) = Abstraction!Filled(type, start)
    BY <1>2, <2>2, <2>3, <2>4
  <2> QED
    BY <2>5 DEF r
<1>6. ASSUME NEW other \in Others
      PROVE  /\ TimelineOf(Merged(s, other)) = Abstraction!Combined(TimelineOf(other), Abstraction!Higher)
             /\ TimelineOf(United(s, other)) = Abstraction!Combined(TimelineOf(other), Abstraction!Lower)
  <2> DEFINE ol == TimelineOf(other)
  <2>1. \A c \in DOMAIN tl : c \in DOMAIN ol => ol[c] \in Type
    BY <1>2, OthersAssumption, TimelineCovers
  <2>2. \A c \in DOMAIN tl : c \in DOMAIN ol =>
          /\ Best(Order, tl[c], ol[c]) = Abstraction!Higher[<<tl[c], ol[c]>>]
          /\ Best(Reverse(Order), tl[c], ol[c]) = Abstraction!Lower[<<tl[c], ol[c]>>]
    BY <1>2, <2>1, BestIsHigherOrLower
  <2>3. /\ TimelineOf(Merged(s, other)) =
             [c \in DOMAIN tl |-> IF c \in DOMAIN ol THEN Best(Order, tl[c], ol[c]) ELSE tl[c]]
        /\ TimelineOf(United(s, other)) =
             [c \in DOMAIN tl |-> IF c \in DOMAIN ol THEN Best(Reverse(Order), tl[c], ol[c]) ELSE tl[c]]
    BY <1>6, ReversedOrCombined DEF Merged, United, tl
  <2> HIDE DEF ol
  <2>4. \A choice : Abstraction!Combined(ol, choice) =
          [c \in DOMAIN tl |-> IF c \in DOMAIN ol THEN choice[<<tl[c], ol[c]>>] ELSE tl[c]]
    BY DEF Abstraction!Combined, tl
  <2>5. TimelineOf(Merged(s, other)) = Abstraction!Combined(ol, Abstraction!Higher)
    <3>1. Abstraction!Combined(ol, Abstraction!Higher) =
            [c \in DOMAIN tl |-> IF c \in DOMAIN ol THEN Abstraction!Higher[<<tl[c], ol[c]>>] ELSE tl[c]]
      BY <2>4
    <3> QED
      BY <2>2, <2>3, <3>1
  <2>6. TimelineOf(United(s, other)) = Abstraction!Combined(ol, Abstraction!Lower)
    <3>1. Abstraction!Combined(ol, Abstraction!Lower) =
            [c \in DOMAIN tl |-> IF c \in DOMAIN ol THEN Abstraction!Lower[<<tl[c], ol[c]>>] ELSE tl[c]]
      BY <2>4
    <3> QED
      BY <2>2, <2>3, <3>1
  <2> QED
    BY <2>5, <2>6 DEF ol
<1> QED
  BY <1>4, <1>5, <1>6

LEMMA CanonicalInvariant == Spec => []Canonical
<1>1. Init => Canonical
  BY DEF Init, Canonical, IsSane
<1>2. Canonical /\ [Next]_intervals => Canonical'
  <2> SUFFICES ASSUME Canonical, [Next]_intervals PROVE Canonical'
    OBVIOUS
  <2>1. ASSUME NEW type \in Type, NEW end \in Times \ {0}, Initialize(type, end)
        PROVE  IsSane(intervals')
    <3>1. [type |-> type, timePoint |-> end] \in EndPointType
      BY DEF EndPointType
    <3>2. intervals' \in Seq(EndPointType) /\ Len(intervals') = 1
      BY <2>1, <3>1 DEF Initialize
    <3> QED
      BY <3>2 DEF IsSane
  <2>2. ASSUME NEW type \in Type, NEW lower \in Times, NEW upper \in Times, lower <= upper,
               Insert(type, lower, upper)
        PROVE  IsSane(intervals')
    BY <2>2, InsertIntervalInserts DEF Insert, Canonical
  <2>3. ASSUME NEW type \in Type, NEW start \in Times, Fill(type, start)
        PROVE  IsSane(intervals')
    BY <2>3, FillFromFills DEF Fill, Canonical
  <2>4. ASSUME NEW other \in Others, Merge(other)
        PROVE  IsSane(intervals')
    BY <2>4, ReversedOrCombined DEF Merge, Merged
  <2>5. ASSUME NEW other \in Others, Unite(other)
        PROVE  IsSane(intervals')
    BY <2>5, ReversedOrCombined DEF Unite, United
  <2>6. CASE UNCHANGED intervals
    BY <2>6 DEF Canonical
  <2>7. Canonical' = IsSane(intervals')
    BY DEF Canonical, IsSane, EndPointType, Previous, TimePoint
  <2> QED
    BY <2>1, <2>2, <2>3, <2>4, <2>5, <2>6, <2>7 DEF Next
<1> QED
  BY <1>1, <1>2, PTL DEF Spec

(* Every vector that the operations lead to is sane.                      *)
THEOREM VectorsAreSane == Spec => []Canonical
BY CanonicalInvariant

(* Every operation does to the timeline a vector stands for what it is    *)
(* called for.                                                            *)
THEOREM VectorOperationsAreExact == Spec => []OperationsAreExact
<1>1. Canonical => OperationsAreExact
  BY ExactOperations
<1> QED
  BY <1>1, CanonicalInvariant, PTL

(* A vector implements a timeline, step by step.                          *)
THEOREM VectorsAreTimelines == Spec => Abstraction!Spec
<1>1. Init => Abstraction!Init
  <2> SUFFICES ASSUME Init PROVE TimelineOf(intervals) = << >>
    BY DEF Abstraction!Init
  <2>1. TimelineOf(intervals) = [c \in 0..-1 |-> TypeAt(intervals, c)]
    BY DEF Init, TimelineOf
  <2>2. 0..-1 = {}
    OBVIOUS
  <2> QED
    BY <2>1, <2>2
<1>2. Canonical /\ [Next]_intervals => [Abstraction!Next]_(TimelineOf(intervals))
  <2> SUFFICES ASSUME Canonical, [Next]_intervals
               PROVE  Abstraction!Next \/ UNCHANGED TimelineOf(intervals)
    OBVIOUS
  <2>0. OperationsAreExact
    BY ExactOperations
  <2>1. Abstraction!Type = Type /\ Abstraction!Times = Times
    BY DEF Abstraction!Type, Type, Abstraction!Times, Times
  <2>2. ASSUME NEW type \in Type, NEW end \in Times \ {0}, Initialize(type, end)
        PROVE  Abstraction!Initialize(type, end)
    <3> DEFINE s == <<[type |-> type, timePoint |-> end]>>
    <3>1. s # << >> /\ Len(s) = 1 /\ s[1].type = type /\ s[1].timePoint = end /\ DOMAIN s = {1}
      OBVIOUS
    <3>2. s \in Seq(EndPointType) /\ Increasing(s)
      <4>1. [type |-> type, timePoint |-> end] \in EndPointType
        BY DEF EndPointType
      <4> QED
        BY <4>1 DEF Increasing
    <3> HIDE DEF s
    <3>3. TimelineOf(s) = [c \in 0..end - 1 |-> TypeAt(s, c)]
      BY <3>1, TimelineIs
    <3>4. ASSUME NEW c \in 0..end - 1 PROVE TypeAt(s, c) = type
      <4>1. end \in Nat
        BY HorizonAssumption DEF Times
      <4>2. c \in Nat /\ Spans(s, 1, c) /\ 1 \in DOMAIN s
        BY <3>1, <4>1 DEF Spans, Begin, TimePoint
      <4> QED
        BY <3>1, <3>2, <4>2, TypeAtIsUnique
    <3>5. TimelineOf(s) = [c \in 0..end - 1 |-> type]
      BY <3>3, <3>4
    <3> QED
      BY <2>2, <3>5 DEF Initialize, Abstraction!Initialize, s
  <2>3. ASSUME NEW type \in Type, NEW lower \in Times, NEW upper \in Times, lower <= upper,
               Insert(type, lower, upper)
        PROVE  TimelineOf(intervals)' = Abstraction!Inserted(type, lower, upper)
    BY <2>0, <2>3 DEF Insert, OperationsAreExact
  <2>4. ASSUME NEW type \in Type, NEW start \in Times, Fill(type, start)
        PROVE  TimelineOf(intervals)' = Abstraction!Filled(type, start)
    BY <2>0, <2>4 DEF Fill, OperationsAreExact
  <2>5. ASSUME NEW other \in Others, Merge(other)
        PROVE  TimelineOf(intervals)' = Abstraction!Combined(TimelineOf(other), Abstraction!Higher)
    BY <2>0, <2>5 DEF Merge, OperationsAreExact
  <2>6. ASSUME NEW other \in Others, Unite(other)
        PROVE  TimelineOf(intervals)' = Abstraction!Combined(TimelineOf(other), Abstraction!Lower)
    BY <2>0, <2>6 DEF Unite, OperationsAreExact
  <2>7. CASE UNCHANGED intervals
    BY <2>7 DEF TimelineOf, TypeAt, Begin, Previous, TimePoint, Last
  <2> QED
    BY <2>1, <2>2, <2>3, <2>4, <2>5, <2>6, <2>7 DEF Next, Abstraction!Next
<1> QED
  BY <1>1, <1>2, CanonicalInvariant, PTL DEF Spec, Abstraction!Spec

(* Queries.  End points of the same type are apart: behind k, and before  *)
(* it, only those next to it can end or begin where k ends or begins.     *)
LEMMA SameTypeIsApart ==
  ASSUME NEW s, IsSane(s), NEW j \in DOMAIN s, NEW k \in DOMAIN s, j < k, s[j].type = s[k].type
  PROVE  k - 1 \in DOMAIN s /\ s[j].timePoint < s[k - 1].timePoint
<1>1. s \in Seq(EndPointType) /\ Increasing(s)
  BY DEF IsSane, Increasing
<1>2. /\ Len(s) \in Nat /\ DOMAIN s = 1..Len(s)
      /\ j \in Nat /\ k \in Nat /\ 1 <= j /\ k <= Len(s)
  BY <1>1
<1>3. k \in 2..Len(s) /\ k - 1 \in DOMAIN s
  BY <1>2
<1>4. s[k].type # s[k - 1].type
  BY <1>3 DEF IsSane
<1>5. j # k - 1
  BY <1>4
<1>6. j + 1 \in 2..Len(s) /\ (j + 1) - 1 = j /\ j + 1 # Len(s) /\ j + 1 <= k - 1 /\ j + 1 \in DOMAIN s
  BY <1>2, <1>5
<1>7. s[j].timePoint < s[j + 1].timePoint
  BY <1>6 DEF IsSane, Previous, TimePoint
<1>8. s[j + 1].timePoint <= s[k - 1].timePoint
  BY <1>1, <1>3, <1>6, TimesIncrease
<1>9. s[j].timePoint \in Nat /\ s[j + 1].timePoint \in Nat /\ s[k - 1].timePoint \in Nat
  BY <1>1, <1>3, <1>6, EndPoints
<1> QED
  BY <1>3, <1>7, <1>8, <1>9

LEMMA ExactCover ==
  ASSUME Canonical
  PROVE  CoverIsExact
<1> DEFINE s == intervals
           end == s[Len(s)].timePoint
<1>1. IsSane(s) /\ s \in Seq(EndPointType) /\ Increasing(s)
  BY DEF Canonical, IsSane, Increasing
<1> SUFFICES ASSUME NEW type \in Type, NEW iv \in Queries, Within(s, iv)
             PROVE  /\ CoversEntry(s, iv, type) <=>
                       \E k \in MeetingEntries(s, iv, type) :
                         MeetingEntries(s, iv, type) = {k} /\ Intersection(s, iv, k) = iv
                    /\ iv.lower < iv.upper =>
                         (CoversEntry(s, iv, type) <=>
                            \A c \in iv.lower..iv.upper - 1 : TypeAt(s, c) = type)
  BY DEF CoverIsExact
<1> DEFINE l == iv.lower
           u == iv.upper
           meeting == MeetingEntries(s, iv, type)
           covers == CoversEntry(s, iv, type)
<1>2. iv = [lower |-> l, upper |-> u] /\ l \in Nat /\ u \in Nat
  BY HorizonAssumption DEF Queries, Interval, Times
<1>3. s # << >> /\ l <= u /\ u <= end /\ Len(s) \in DOMAIN s /\ Len(s) \in Nat
  BY <1>1 DEF Within, Last
<1>4. ASSUME NEW k \in DOMAIN s
      PROVE  /\ k \in Nat /\ 1 <= k /\ k <= Len(s) /\ s[k].timePoint \in Nat /\ Begin(s, k) \in Nat
             /\ TimePoint(s, k) = s[k].timePoint
             /\ k = 1 => Begin(s, k) = 0
             /\ k # 1 => /\ k - 1 \in DOMAIN s /\ Begin(s, k) = s[k - 1].timePoint
                         /\ Previous(s, k) = s[k - 1].timePoint
             /\ k = 1 \/ Previous(s, k) <= l <=> Begin(s, k) <= l
             /\ k = 1 \/ Previous(s, k) <= u <=> Begin(s, k) <= u
  <2>1. /\ k \in Nat /\ 1 <= k /\ k <= Len(s) /\ s[k].timePoint \in Nat /\ Begin(s, k) \in Nat
        /\ TimePoint(s, k) = s[k].timePoint
        /\ k = 1 => Begin(s, k) = 0
        /\ k # 1 => k - 1 \in DOMAIN s /\ Begin(s, k) = s[k - 1].timePoint
    BY <1>1, EndPoints
  <2>2. Previous(s, k) = s[k - 1].timePoint
    BY DEF Previous
  <2> QED
    BY <1>2, <2>1, <2>2
<1> HIDE DEF s, end, l, u
<1>5. \A k : k \in meeting <=>
        k \in DOMAIN s /\ s[k].type = type /\ s[k].timePoint >= l /\ Begin(s, k) <= u
  BY <1>4 DEF MeetingEntries, l, u
<1>6. covers <=> \E k \in DOMAIN s : s[k].type = type /\ s[k].timePoint >= u /\ Begin(s, k) <= l
  BY <1>4 DEF CoversEntry, l, u
<1>7. ASSUME NEW k \in DOMAIN s
      PROVE  Intersection(s, iv, k) = iv <=> Begin(s, k) <= l /\ s[k].timePoint >= u
  <2>0. \A a, b \in Nat : (Max({a, b}) = b <=> a <= b) /\ (Min({a, b}) = b <=> b <= a)
    <3> TAKE a \in Nat, b \in Nat
    <3>1. Max({a, b}) = CHOOSE x \in {a, b} : \A y \in {a, b} : x >= y
      BY DEF Max
    <3>2. Min({a, b}) = CHOOSE x \in {a, b} : \A y \in {a, b} : x <= y
      BY DEF Min
    <3>3. (\E x \in {a, b} : \A y \in {a, b} : x >= y) /\ (\E x \in {a, b} : \A y \in {a, b} : x <= y)
      <4>1. CASE a <= b
        BY <4>1
      <4>2. CASE b <= a
        BY <4>2
      <4> QED
        BY <4>1, <4>2
    <3>4. Max({a, b}) \in {a, b} /\ \A y \in {a, b} : Max({a, b}) >= y
      BY <3>1, <3>3
    <3>5. Min({a, b}) \in {a, b} /\ \A y \in {a, b} : Min({a, b}) <= y
      BY <3>2, <3>3
    <3> QED
      BY <3>4, <3>5
  <2>1. Intersection(s, iv, k) =
          [lower |-> Max({Begin(s, k), l}), upper |-> Min({s[k].timePoint, u})]
    BY <1>4 DEF Intersection, Interval, l, u
  <2>2. Intersection(s, iv, k) = iv <=>
          Max({Begin(s, k), l}) = l /\ Min({s[k].timePoint, u}) = u
    BY <1>2, <2>1
  <2>3. Begin(s, k) \in Nat /\ s[k].timePoint \in Nat
    BY <1>4
  <2> QED
    BY <1>2, <2>0, <2>2, <2>3
<1> HIDE DEF meeting, covers
<1>8. ASSUME NEW k \in DOMAIN s, s[k].type = type, s[k].timePoint >= u, Begin(s, k) <= l
      PROVE  k \in meeting /\ \A j \in meeting : j = k
  <2>1. k \in meeting
    BY <1>2, <1>3, <1>4, <1>5, <1>8
  <2>2. ASSUME NEW j \in meeting PROVE j = k
    <3>1. j \in DOMAIN s /\ s[j].type = type /\ s[j].timePoint >= l /\ Begin(s, j) <= u
      BY <1>5
    <3>2. CASE j < k
      <4>1. k - 1 \in DOMAIN s /\ s[j].timePoint < s[k - 1].timePoint
        BY <1>1, <1>8, <3>1, <3>2, SameTypeIsApart
      <4>2. Begin(s, k) = s[k - 1].timePoint /\ s[k - 1].timePoint \in Nat /\ s[j].timePoint \in Nat
        BY <1>4, <3>1, <3>2, <4>1
      <4> QED
        BY <1>2, <1>8, <3>1, <4>1, <4>2
    <3>3. CASE k < j
      <4>1. j - 1 \in DOMAIN s /\ s[k].timePoint < s[j - 1].timePoint
        BY <1>1, <1>8, <3>1, <3>3, SameTypeIsApart
      <4>2. Begin(s, j) = s[j - 1].timePoint /\ s[j - 1].timePoint \in Nat /\ s[k].timePoint \in Nat
        BY <1>4, <3>1, <3>3, <4>1
      <4> QED
        BY <1>2, <1>8, <3>1, <4>1, <4>2
    <3>4. j \in Nat /\ k \in Nat
      BY <1>4, <3>1
    <3> QED
      BY <3>2, <3>3, <3>4
  <2> QED
    BY <2>1, <2>2
<1>9. covers <=> \E k \in meeting : meeting = {k} /\ Intersection(s, iv, k) = iv
  <2>1. ASSUME covers PROVE \E k \in meeting : meeting = {k} /\ Intersection(s, iv, k) = iv
    <3>1. PICK k \in DOMAIN s : s[k].type = type /\ s[k].timePoint >= u /\ Begin(s, k) <= l
      BY <1>6, <2>1
    <3>2. k \in meeting /\ \A j \in meeting : j = k
      BY <1>8, <3>1
    <3>3. meeting = {k} /\ Intersection(s, iv, k) = iv
      BY <1>7, <3>1, <3>2
    <3> QED
      BY <3>2, <3>3
  <2>2. ASSUME NEW k \in meeting, Intersection(s, iv, k) = iv PROVE covers
    BY <1>5, <1>6, <1>7, <2>2
  <2> QED
    BY <2>1, <2>2
<1>10. ASSUME l < u
       PROVE  covers <=> \A c \in l..u - 1 : TypeAt(s, c) = type
  <2>1. ASSUME covers, NEW c \in l..u - 1 PROVE TypeAt(s, c) = type
    <3>1. PICK k \in DOMAIN s : s[k].type = type /\ s[k].timePoint >= u /\ Begin(s, k) <= l
      BY <1>6, <2>1
    <3>2. c \in Nat /\ l <= c /\ c < u
      BY <1>2
    <3>3. Spans(s, k, c)
      BY <1>2, <1>4, <3>1, <3>2 DEF Spans
    <3> QED
      BY <1>1, <3>1, <3>2, <3>3, TypeAtIsUnique
  <2>2. ASSUME \A c \in l..u - 1 : TypeAt(s, c) = type PROVE covers
    <3>0. end \in Nat
      BY <1>3, <1>4 DEF end
    <3>1. l < end
      BY <1>2, <1>3, <1>10, <3>0
    <3>2. PICK k \in DOMAIN s : Spans(s, k, l) /\ s[k].type = TypeAt(s, l)
      BY <1>1, <1>2, <1>3, <3>1, TypeAtExists DEF end
    <3>3. s[k].type = type
      BY <1>2, <1>10, <2>2, <3>2
    <3>4. Begin(s, k) <= l /\ l < s[k].timePoint
      BY <1>4, <3>2 DEF Spans
    <3>5. s[k].timePoint >= u
      <4> SUFFICES ASSUME ~(s[k].timePoint >= u) PROVE FALSE
        OBVIOUS
      <4> DEFINE c == s[k].timePoint
      <4>1. c \in Nat /\ l < c /\ c < u /\ c \in l..u - 1
        BY <1>2, <1>4, <3>4
      <4>2. k # Len(s)
        BY <1>2, <1>3, <3>0, <4>1 DEF end
      <4>3. k + 1 \in DOMAIN s /\ k + 1 \in 2..Len(s) /\ (k + 1) - 1 = k /\ k + 1 # 1
        <5>1. DOMAIN s = 1..Len(s)
          BY <1>1
        <5> QED
          BY <1>3, <1>4, <4>2, <5>1
      <4>4. s[k + 1].type # s[k].type
        BY <1>1, <4>3 DEF IsSane
      <4>5. c < s[k + 1].timePoint
        <5>1. c < s[k + 1].timePoint \/ (c = s[k + 1].timePoint /\ k + 1 = Len(s))
          BY <1>1, <4>3 DEF Increasing, Previous, TimePoint
        <5> QED
          BY <1>2, <1>3, <3>0, <4>1, <5>1 DEF end
      <4>6. Spans(s, k + 1, c)
        BY <1>4, <4>1, <4>3, <4>5 DEF Spans
      <4>7. TypeAt(s, c) = s[k + 1].type
        BY <1>1, <4>1, <4>3, <4>6, TypeAtIsUnique
      <4>8. TypeAt(s, c) = type
        BY <2>2, <4>1
      <4> QED
        BY <3>3, <4>4, <4>7, <4>8
    <3> QED
      BY <1>6, <3>3, <3>4, <3>5
  <2> QED
    BY <2>1, <2>2
<1> QED
  BY <1>9, <1>10 DEF meeting, covers, s, l, u

LEMMA FoundIntersection ==
  ASSUME Canonical
  PROVE  IntersectionIsFound
<1> DEFINE s == intervals
<1>1. s \in Seq(EndPointType)
  BY DEF Canonical, IsSane
<1> SUFFICES ASSUME NEW type \in Type, NEW iv \in Queries, Within(s, iv),
                    iv.upper <= TimePoint(s, 1) \/ TimePoint(s, 1) < iv.lower
             PROVE  IntersectsEntry(s, iv, type) <=> \E k \in MeetingEntries(s, iv, type) : TRUE
  BY DEF IntersectionIsFound, HasEntry
<1>2. iv.lower \in Nat /\ iv.upper \in Nat /\ iv.lower <= iv.upper /\ s # << >>
  BY HorizonAssumption DEF Queries, Interval, Times, Within
<1>3. 1 \in DOMAIN s /\ TimePoint(s, 1) \in Nat
  BY <1>1, <1>2, EndPoints
<1>4. ASSUME NEW k \in DOMAIN s
      PROVE  (IF k = 1 THEN TimePoint(s, k) >= iv.upper
              ELSE TimePoint(s, k) >= iv.lower /\ Previous(s, k) <= iv.upper)
             <=> TimePoint(s, k) >= iv.lower /\ (k = 1 \/ Previous(s, k) <= iv.upper)
  BY <1>2, <1>3
<1> HIDE DEF s
<1> QED
  BY <1>4 DEF IntersectsEntry, MeetingEntries

(* A vector covers an interval exactly if the one time of that type that  *)
(* meets it is all of it, and what it covers is of that type throughout.  *)
THEOREM VectorCoverIsExact == Spec => []CoverIsExact
<1>1. Canonical => CoverIsExact
  BY ExactCover
<1> QED
  BY <1>1, CanonicalInvariant, PTL

(* An entry is found exactly if there is a common interval, unless the    *)
(* query begins in the first interval and ends behind it.                 *)
THEOREM VectorIntersectionIsFound == Spec => []IntersectionIsFound
<1>1. Canonical => IntersectionIsFound
  BY FoundIntersection
<1> QED
  BY <1>1, CanonicalInvariant, PTL
=============================================================================
