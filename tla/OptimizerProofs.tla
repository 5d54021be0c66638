-------------------------- MODULE OptimizerProofs --------------------------
(***************************************************************************)
(* What the queries of Optimizer answer, for every number of threads,      *)
(* constraints and constants: proofs about Optimizer.                      *)
(***************************************************************************)
EXTENDS Optimizer, Induction, SequenceTheorems

--------------------------------------------------------------------------
(* The inductive invariant.  A solver instance that may be used has the    *)
(* rows of the system as it is now.                                        *)
Built(t) ==
  /\ Complete
  /\ context[t] \in Instance
  /\ context[t].row = Fresh.row
  /\ Plain => context[t].sense = "MAX"

InstancesAreCurrent ==
  \A t \in Thread :
    /\ context[t] = Unset \/ Built(t)
    /\ pc[t] = "store" => Built(t)

(* Somebody relies on the stored answer, or may do so.                     *)
AnswerCounts ==
  \/ \E t \in Thread : pc[t] = "check"
  \/ checked /\ \A t \in Thread : pc[t] # "store"

AnswerIsReal == AnswerCounts /\ lastAnswer = "FEAS" => AllSolutions # {}

IInv == TypeOK /\ InstancesAreCurrent /\ AnswerIsReal

--------------------------------------------------------------------------
(* The solver.                                                            *)
LEMMA Constants ==
  /\ Infinity \in Nat \ {0} /\ -Infinity \in Int /\ 0 \in Number
  /\ \A c \in Number : c \in Int /\ -Infinity < c /\ c < Infinity
<1>1. \A c \in Number : c \in Int /\ -Infinity < c /\ c < Infinity
  BY NumberAssumption
<1>2. 0 \in Number /\ Infinity \in Nat
  BY NumberAssumption
<1> QED
  BY <1>1, <1>2

LEMMA MaxIsGreatest ==
  ASSUME NEW S \in SUBSET (-Infinity..Infinity), S # {}
  PROVE  Max(S) \in S /\ \A y \in S : y <= Max(S)
<1>1. S \in SUBSET Int /\ Infinity \in Int /\ \A x \in S : x <= Infinity
  BY Constants
<1>2. \E x \in S : \A y \in S : y <= x
  BY <1>1, GreatestExists
<1>3. \E x \in S : \A y \in S : x >= y
  BY <1>1, <1>2
<1>4. Max(S) \in S /\ \A y \in S : Max(S) >= y
  BY <1>3 DEF Max
<1> QED
  BY <1>1, <1>4

LEMMA MinIsLeast ==
  ASSUME NEW S \in SUBSET (-Infinity..Infinity), S # {}
  PROVE  Min(S) \in S /\ \A y \in S : Min(S) <= y
<1>1. S \in SUBSET Int /\ -Infinity \in Int /\ \A x \in S : -Infinity <= x
  BY Constants
<1>2. \E x \in S : \A y \in S : x <= y
  BY <1>1, LeastExists
<1> QED
  BY <1>2 DEF Min

LEMMA BoundsType ==
  ASSUME NEW bounds \in Bounds
  PROVE  /\ bounds = Interval(bounds.lower, bounds.upper)
         /\ bounds.lower \in -Infinity..Infinity
         /\ bounds.upper \in -Infinity..Infinity
BY DEF Bounds, Interval

(* The quotient of bounds holds the values whose products they hold.      *)
LEMMA QuotientMeans ==
  ASSUME NEW bounds \in Bounds, NEW a \in Coefficient
  PROVE  /\ Quotient(bounds, a) \in Bounds
         /\ \A x \in -Infinity..Infinity :
              /\ Quotient(bounds, a).lower <= x
              /\ x <= Quotient(bounds, a).upper
              <=> bounds.lower <= a * x /\ a * x <= bounds.upper
<1>1. bounds.lower \in -Infinity..Infinity /\ bounds.upper \in -Infinity..Infinity
  BY BoundsType
<1>2. CASE a = 1
  <2>1. Quotient(bounds, a) = bounds
    BY <1>2 DEF Quotient
  <2>2. \A x \in Int : a * x = x
    BY <1>2
  <2> QED
    BY <2>1, <2>2, Constants
<1>3. CASE a = -1
  <2>1. Quotient(bounds, a) = Interval(-bounds.upper, -bounds.lower)
    BY <1>3 DEF Quotient
  <2>2. \A x \in Int : a * x = -x
    BY <1>3
  <2> QED
    BY <1>1, <2>1, <2>2, Constants DEF Interval, Bounds
<1>4. CASE a = 0
  <2>1. Quotient(bounds, a) = IF bounds.lower <= 0 /\ 0 <= bounds.upper THEN Free
                              ELSE Interval(Infinity, -Infinity)
    BY <1>4 DEF Quotient
  <2>2. \A x \in Int : a * x = 0
    BY <1>4
  <2> QED
    BY <1>1, <2>1, <2>2, Constants DEF Interval, Bounds, Free
<1> QED
  BY <1>2, <1>3, <1>4 DEF Coefficient

(* The values that all bounds of an instance allow.                       *)
Feasible(lp) ==
  {x \in -Infinity..Infinity :
     /\ lp.column.lower <= x /\ x <= lp.column.upper
     /\ \A i \in DOMAIN lp.row : lp.row[i].lower <= matrix[i] * x /\ matrix[i] * x <= lp.row[i].upper}

Fitting(lp) ==
  /\ lp \in Instance /\ DOMAIN lp.row = DOMAIN matrix
  /\ \A i \in DOMAIN matrix : matrix[i] \in Coefficient
LEMMA FittingTypes ==
  ASSUME NEW lp, Fitting(lp)
  PROVE  /\ lp.column \in Bounds
         /\ \A i \in DOMAIN matrix : lp.row[i] \in Bounds /\ matrix[i] \in Coefficient
         /\ lp.objective \in Coefficient
         /\ lp.sense \in {"MAX", "MIN"}
<1>1. lp.row \in SeqOf(Bounds, MaxRows)
  BY DEF Fitting, Instance
<1>2. PICK n \in 0..MaxRows : lp.row \in [1..n -> Bounds]
  BY <1>1 DEF SeqOf
<1>3. \A i \in DOMAIN matrix : lp.row[i] \in Bounds
  BY <1>2 DEF Fitting
<1> QED
  BY <1>3 DEF Fitting, Instance

LEMMA LimitsBind ==
  ASSUME NEW lp, Fitting(lp)
  PROVE  /\ Limits(lp) \subseteq Bounds /\ Limits(lp) # {}
         /\ Feasible(lp) = {x \in -Infinity..Infinity :
              \A limit \in Limits(lp) : limit.lower <= x /\ x <= limit.upper}
<1>1. \A i \in DOMAIN lp.row :
        /\ Quotient(lp.row[i], matrix[i]) \in Bounds
        /\ \A x \in -Infinity..Infinity :
             /\ Quotient(lp.row[i], matrix[i]).lower <= x
             /\ x <= Quotient(lp.row[i], matrix[i]).upper
             <=> lp.row[i].lower <= matrix[i] * x /\ matrix[i] * x <= lp.row[i].upper
  BY FittingTypes, QuotientMeans DEF Fitting
<1>2. lp.column \in Bounds
  BY FittingTypes
<1>3. Limits(lp) \subseteq Bounds /\ Limits(lp) # {}
  BY <1>1, <1>2 DEF Limits
<1>4. ASSUME NEW x \in -Infinity..Infinity
      PROVE  x \in Feasible(lp) <=> \A limit \in Limits(lp) : limit.lower <= x /\ x <= limit.upper
  <2>1. (\A limit \in Limits(lp) : limit.lower <= x /\ x <= limit.upper) <=>
          /\ lp.column.lower <= x /\ x <= lp.column.upper
          /\ \A i \in DOMAIN lp.row : /\ Quotient(lp.row[i], matrix[i]).lower <= x
                                      /\ x <= Quotient(lp.row[i], matrix[i]).upper
    BY DEF Limits
  <2> QED
    BY <1>1, <2>1 DEF Feasible
<1>5. Feasible(lp) \subseteq -Infinity..Infinity
  BY DEF Feasible
<1> QED
  BY <1>3, <1>4, <1>5

(* The solver's limits are those of the feasible values, and are taken    *)
(* from rows or the column.                                               *)
LEMMA FeasibleIsARange ==
  ASSUME NEW lp, Fitting(lp)
  PROVE  /\ Lower(lp) \in -Infinity..Infinity /\ Upper(lp) \in -Infinity..Infinity
         /\ Feasible(lp) = Lower(lp)..Upper(lp)
         /\ \E limit \in Limits(lp) : limit.lower = Lower(lp)
         /\ \E limit \in Limits(lp) : limit.upper = Upper(lp)
         /\ \A limit \in Limits(lp) : limit.lower <= Lower(lp) /\ Upper(lp) <= limit.upper
<1> DEFINE lowers == {limit.lower : limit \in Limits(lp)}
           uppers == {limit.upper : limit \in Limits(lp)}
<1>1. Limits(lp) \subseteq Bounds /\ Limits(lp) # {}
  BY LimitsBind
<1>2. \A limit \in Limits(lp) : limit.lower \in -Infinity..Infinity /\ limit.upper \in -Infinity..Infinity
  BY <1>1, BoundsType
<1>3. lowers \in SUBSET (-Infinity..Infinity) /\ lowers # {}
  BY <1>1, <1>2
<1>4. uppers \in SUBSET (-Infinity..Infinity) /\ uppers # {}
  BY <1>1, <1>2
<1>5. Lower(lp) \in lowers /\ \A y \in lowers : y <= Lower(lp)
  BY <1>3, MaxIsGreatest DEF Lower
<1>6. Upper(lp) \in uppers /\ \A y \in uppers : Upper(lp) <= y
  BY <1>4, MinIsLeast DEF Upper
<1>7. Lower(lp) \in -Infinity..Infinity /\ Upper(lp) \in -Infinity..Infinity
  BY <1>3, <1>4, <1>5, <1>6
<1>8. \A limit \in Limits(lp) : limit.lower <= Lower(lp) /\ Upper(lp) <= limit.upper
  BY <1>5, <1>6
<1>9. PICK below, above \in Limits(lp) : below.lower = Lower(lp) /\ above.upper = Upper(lp)
  BY <1>5, <1>6
<1> HIDE DEF lowers, uppers
<1>10. ASSUME NEW x \in -Infinity..Infinity
       PROVE  x \in Feasible(lp) <=> Lower(lp) <= x /\ x <= Upper(lp)
  <2>1. x \in Feasible(lp) <=> \A limit \in Limits(lp) : limit.lower <= x /\ x <= limit.upper
    BY LimitsBind
  <2>2. x \in Feasible(lp) => Lower(lp) <= x /\ x <= Upper(lp)
    BY <2>1, <1>9
  <2>3. ASSUME Lower(lp) <= x, x <= Upper(lp), NEW limit \in Limits(lp)
        PROVE  limit.lower <= x /\ x <= limit.upper
    <3>1. limit.lower \in Int /\ limit.upper \in Int /\ Lower(lp) \in Int /\ Upper(lp) \in Int
      BY <1>2, <1>7
    <3>2. limit.lower <= Lower(lp) /\ Upper(lp) <= limit.upper
      BY <1>8
    <3> QED
      BY <3>1, <3>2, <2>3
  <2> QED
    BY <2>1, <2>2, <2>3
<1>11. Feasible(lp) \subseteq -Infinity..Infinity
  BY DEF Feasible
<1>12. \A x \in Lower(lp)..Upper(lp) : x \in -Infinity..Infinity
  BY <1>7, Constants
<1>13. Feasible(lp) = Lower(lp)..Upper(lp)
  <2>1. ASSUME NEW x \in Feasible(lp) PROVE x \in Lower(lp)..Upper(lp)
    BY <1>7, <1>10, <1>11, Constants
  <2>2. ASSUME NEW x \in Lower(lp)..Upper(lp) PROVE x \in Feasible(lp)
    BY <1>7, <1>10, <1>12, Constants
  <2> QED
    BY <2>1, <2>2
<1> QED
  BY <1>7, <1>8, <1>9, <1>13

--------------------------------------------------------------------------
(* Instances and the solutions of the system.                             *)
System ==
  /\ DOMAIN matrix = 1..Len(matrix) /\ Len(matrix) \in 0..MaxRows
  /\ \A i \in DOMAIN matrix :
       matrix[i] \in Coefficient /\ vector[i] \in Number /\ relations[i] \in Relation
  /\ DOMAIN vector = DOMAIN matrix /\ DOMAIN relations = DOMAIN matrix

LEMMA CompleteIsSystem ==
  ASSUME TypeOK, Complete
  PROVE  System
<1>1. PICK n \in 0..MaxRows : matrix \in [1..n -> Coefficient]
  BY DEF TypeOK, SeqOf
<1>2. PICK k \in 0..MaxRows : vector \in [1..k -> Number]
  BY DEF TypeOK, SeqOf
<1>3. PICK j \in 0..MaxRows : relations \in [1..j -> Relation]
  BY DEF TypeOK, SeqOf
<1>4. n \in Nat /\ k \in Nat /\ j \in Nat
  BY NumberAssumption
<1>5. Len(matrix) = n /\ Len(vector) = k /\ Len(relations) = j
  BY <1>1, <1>2, <1>3, <1>4
<1>6. n = k /\ n = j
  BY <1>5 DEF Complete
<1> QED
  BY <1>1, <1>2, <1>3, <1>5, <1>6 DEF System

LEMMA RowMeans ==
  ASSUME System, NEW i \in DOMAIN matrix
  PROVE  /\ RowBounds(relations[i], vector[i]) \in Bounds
         /\ \A x \in -Infinity..Infinity :
              /\ RowBounds(relations[i], vector[i]).lower <= matrix[i] * x
              /\ matrix[i] * x <= RowBounds(relations[i], vector[i]).upper
              <=> Satisfies(x, i)
<1> DEFINE a == matrix[i]  c == vector[i]  r == relations[i]
<1>1. a \in Coefficient /\ c \in Number /\ r \in Relation
  BY DEF System
<1>2. c \in Int /\ -Infinity < c /\ c < Infinity
  BY <1>1, Constants
<1>3. \A x \in -Infinity..Infinity : a * x \in -Infinity..Infinity
  <2> SUFFICES ASSUME NEW x \in -Infinity..Infinity PROVE a * x \in -Infinity..Infinity
    OBVIOUS
  <2>1. a = 1 \/ a = -1 \/ a = 0
    BY <1>1 DEF Coefficient
  <2>2. a = 1 => a * x = x
    OBVIOUS
  <2>3. a = -1 => a * x = -x
    OBVIOUS
  <2>4. a = 0 => a * x = 0
    OBVIOUS
  <2> HIDE DEF a
  <2> QED
    BY <2>1, <2>2, <2>3, <2>4, Constants
<1>4. RowBounds(r, c).lower = (IF r = "LEQ" THEN -Infinity ELSE c)
      /\ RowBounds(r, c).upper = (IF r = "GEQ" THEN Infinity ELSE c)
      /\ RowBounds(r, c) \in Bounds
  BY <1>2, Constants DEF RowBounds, Interval, Bounds
<1>5. ASSUME NEW x \in -Infinity..Infinity
      PROVE  RowBounds(r, c).lower <= a * x /\ a * x <= RowBounds(r, c).upper <=> Satisfies(x, i)
  <2>1. a * x \in -Infinity..Infinity
    BY <1>3
  <2>2. CASE r = "LEQ"
    BY <1>2, <1>4, <2>1, <2>2, Constants DEF Satisfies
  <2>3. CASE r = "GEQ"
    BY <1>2, <1>4, <2>1, <2>3, Constants DEF Satisfies
  <2>4. CASE r = "EQ"
    BY <1>2, <1>4, <2>1, <2>4, Constants DEF Satisfies
  <2> QED
    BY <1>1, <2>2, <2>3, <2>4 DEF Relation
<1> QED
  BY <1>4, <1>5

(* An instance that binds just the given rows.                            *)
Binds(lp, rows) ==
  /\ lp \in Instance /\ DOMAIN lp.row = DOMAIN matrix
  /\ \A i \in DOMAIN matrix :
       lp.row[i] = IF i \in rows THEN RowBounds(relations[i], vector[i]) ELSE Free

LEMMA BindsFits ==
  ASSUME System, NEW lp, NEW rows, Binds(lp, rows)
  PROVE  Fitting(lp)
BY DEF System, Binds, Fitting

LEMMA FreeBindsNothing ==
  ASSUME System, NEW i \in DOMAIN matrix, NEW x \in -Infinity..Infinity
  PROVE  Free.lower <= matrix[i] * x /\ matrix[i] * x <= Free.upper
<1> DEFINE a == matrix[i]
<1>1. a = 1 \/ a = -1 \/ a = 0
  BY DEF System, Coefficient
<1>2. a = 1 => a * x = x
  OBVIOUS
<1>3. a = -1 => a * x = -x
  OBVIOUS
<1>4. a = 0 => a * x = 0
  OBVIOUS
<1>5. Free.lower = -Infinity /\ Free.upper = Infinity
  BY DEF Free, Interval
<1> HIDE DEF a
<1>6. Free.lower <= a * x /\ a * x <= Free.upper
  BY <1>1, <1>2, <1>3, <1>4, <1>5, Constants
<1> QED
  BY <1>6 DEF a

LEMMA BoundRows ==
  ASSUME System, NEW lp, NEW rows \in SUBSET DOMAIN matrix, Binds(lp, rows)
  PROVE  Feasible(lp) = {x \in Solutions(rows) : lp.column.lower <= x /\ x <= lp.column.upper}
<1>1. ASSUME NEW x \in -Infinity..Infinity, NEW i \in DOMAIN matrix
      PROVE  lp.row[i].lower <= matrix[i] * x /\ matrix[i] * x <= lp.row[i].upper
             <=> (i \in rows => Satisfies(x, i))
  <2>1. CASE i \in rows
    <3>1. lp.row[i] = RowBounds(relations[i], vector[i])
      BY <2>1 DEF Binds
    <3> QED
      BY <2>1, <3>1, RowMeans
  <2>2. CASE i \notin rows
    <3>1. lp.row[i] = Free
      BY <2>2 DEF Binds
    <3> QED
      BY <2>2, <3>1, FreeBindsNothing
  <2> QED
    BY <2>1, <2>2
<1>2. DOMAIN lp.row = DOMAIN matrix
  BY DEF Binds
<1> QED
  BY <1>1, <1>2 DEF Feasible, Solutions

--------------------------------------------------------------------------
(* What the solver makes of instances.                                    *)
LEMMA TowardsBinds ==
  ASSUME NEW lp, NEW rows, Binds(lp, rows), NEW a \in Coefficient
  PROVE  /\ Binds(Towards(lp, a), rows)
         /\ Towards(lp, a).column = Free /\ Towards(lp, a).objective = a
         /\ Towards(lp, a).sense = lp.sense
<1>1. Free \in Bounds
  BY Constants DEF Free, Interval, Bounds
<1> QED
  BY <1>1 DEF Binds, Towards, Instance

LEMMA AtBinds ==
  ASSUME NEW lp, NEW rows, Binds(lp, rows), NEW point \in Number
  PROVE  /\ Binds(At(lp, point), rows)
         /\ At(lp, point).column = Interval(point, point)
         /\ At(lp, point).sense = lp.sense
<1>1. Interval(point, point) \in Bounds
  BY Constants DEF Interval, Bounds
<1>2. 1 \in Coefficient
  BY DEF Coefficient
<1> QED
  BY <1>1, <1>2 DEF Binds, At, Instance

LEMMA BoundByAll ==
  ASSUME System, NEW lp, NEW rows \in SUBSET DOMAIN matrix, Binds(lp, rows), lp.column = Free
  PROVE  Feasible(lp) = Solutions(rows)
<1>1. Free.lower = -Infinity /\ Free.upper = Infinity
  BY DEF Free, Interval
<1>2. \A x \in Solutions(rows) : -Infinity <= x /\ x <= Infinity
  BY Constants DEF Solutions
<1> QED
  BY <1>1, <1>2, BoundRows

LEMMA StatusMeans ==
  ASSUME NEW lp, Fitting(lp)
  PROVE  Solved(lp).status # "NOFEAS" <=> Feasible(lp) # {}
<1>1. Feasible(lp) = Lower(lp)..Upper(lp) /\ Lower(lp) \in Int /\ Upper(lp) \in Int
  BY FeasibleIsARange
<1>2. Feasible(lp) # {} <=> ~(Lower(lp) > Upper(lp))
  <2>1. Lower(lp) <= Upper(lp) => Lower(lp) \in Lower(lp)..Upper(lp)
    BY <1>1
  <2> QED
    BY <1>1, <2>1
<1> QED
  BY <1>2 DEF Solved

LEMMA PointFits ==
  ASSUME System, NEW lp, NEW rows \in SUBSET DOMAIN matrix, Binds(lp, rows), NEW point \in Number
  PROVE  Solved(At(lp, point)).status # "NOFEAS" <=> point \in Solutions(rows)
<1> DEFINE at == At(lp, point)
<1>1. Binds(at, rows) /\ at.column.lower = point /\ at.column.upper = point
  <2>1. Binds(At(lp, point), rows) /\ At(lp, point).column = Interval(point, point)
    BY AtBinds
  <2> QED
    BY <2>1 DEF Interval
<1>2. Solved(at).status # "NOFEAS" <=> Feasible(at) # {}
  BY <1>1, BindsFits, StatusMeans
<1>3. Feasible(at) = {x \in Solutions(rows) : point <= x /\ x <= point}
  BY <1>1, BoundRows
<1>4. \A x \in Solutions(rows) : x \in Int
  BY Constants DEF Solutions
<1>5. point \in Int
  BY Constants
<1> HIDE DEF at
<1>6. \A x \in Solutions(rows) : (point <= x /\ x <= point) <=> x = point
  BY <1>4, <1>5
<1> QED
  BY <1>2, <1>3, <1>6 DEF at

LEMMA GreatestIsMax ==
  ASSUME NEW S \in SUBSET Int, NEW m \in S, \A y \in S : y <= m
  PROVE  Max(S) = m
<1>1. \E x \in S : \A y \in S : x >= y
  OBVIOUS
<1>2. Max(S) \in S /\ \A y \in S : Max(S) >= y
  BY <1>1 DEF Max
<1>3. Max(S) >= m /\ Max(S) <= m /\ Max(S) \in Int
  BY <1>2
<1> QED
  BY <1>3

LEMMA LeastIsMin ==
  ASSUME NEW S \in SUBSET Int, NEW m \in S, \A y \in S : m <= y
  PROVE  Min(S) = m
<1>1. Min(S) \in S /\ \A y \in S : Min(S) <= y
  BY DEF Min
<1>2. Min(S) >= m /\ Min(S) <= m /\ Min(S) \in Int
  BY <1>1
<1> QED
  BY <1>2

(* The optimum is the greatest or least product with the objective.       *)
LEMMA OptimumIsBest ==
  ASSUME NEW lp, Fitting(lp), lp.objective \in Direction, Feasible(lp) # {}
  PROVE  /\ Optimum(lp) \in Feasible(lp)
         /\ \A x \in Feasible(lp) :
              IF lp.sense = "MAX" THEN lp.objective * x <= lp.objective * Optimum(lp)
              ELSE lp.objective * Optimum(lp) <= lp.objective * x
<1> DEFINE d == lp.objective  l == Lower(lp)  u == Upper(lp)
<1>1. l \in Int /\ u \in Int /\ Feasible(lp) = l..u
  BY FeasibleIsARange
<1>2. l <= u
  BY <1>1
<1>3. d = 1 \/ d = -1
  BY DEF Direction
<1>4. \A x \in Int : (d = 1 => d * x = x) /\ (d = -1 => d * x = -x)
  OBVIOUS
<1>5. Optimum(lp) = IF (lp.sense = "MAX") = (d = 1) THEN u ELSE l
  BY <1>3 DEF Optimum
<1>6. Optimum(lp) \in l..u
  BY <1>1, <1>2, <1>5
<1> HIDE DEF d, l, u
<1>7. ASSUME NEW x \in l..u
      PROVE IF lp.sense = "MAX" THEN d * x <= d * Optimum(lp) ELSE d * Optimum(lp) <= d * x
  <2>1. x \in Int /\ Optimum(lp) \in Int /\ l <= x /\ x <= u
    BY <1>1, <1>6
  <2>2. CASE d = 1
    BY <1>1, <1>4, <1>5, <2>1, <2>2
  <2>3. CASE d = -1
    BY <1>1, <1>4, <1>5, <2>1, <2>3
  <2> QED
    BY <1>3, <2>2, <2>3
<1> QED
  BY <1>1, <1>6, <1>7 DEF d, l, u

(* An instance that binds all rows gives the optimum of the system.       *)
LEMMA ResultIsExpected ==
  ASSUME System, matrix # << >>, maximize \in BOOLEAN, NEW lp, NEW direction \in Direction,
         Binds(lp, DOMAIN matrix), lp.column = Free, lp.objective = direction,
         lp.sense = IF maximize THEN "MAX" ELSE "MIN"
  PROVE  ResultOf(lp) = Expected(direction)
<1> DEFINE values == {direction * x : x \in AllSolutions}
           best == IF maximize THEN Max(values) ELSE Min(values)
<1>1. Fitting(lp) /\ Feasible(lp) = AllSolutions
  BY BindsFits, BoundByAll DEF AllSolutions
<1>2. Expected(direction) =
        IF values = {} THEN EvaluationResult("INFEAS", 0)
        ELSE IF best \in {-Infinity, Infinity} THEN EvaluationResult("INFTY", 1)
        ELSE EvaluationResult("FEAS", best)
  BY DEF Expected
<1>3. CASE AllSolutions = {}
  <2>1. Solved(lp).status = "NOFEAS"
    BY <1>1, <1>3, StatusMeans
  <2> QED
    BY <1>2, <1>3, <2>1 DEF ResultOf
<1>4. CASE AllSolutions # {}
  <2>1. Solved(lp).status # "NOFEAS"
    BY <1>1, <1>4, StatusMeans
  <2>2. Solved(lp) = [status |-> IF Optimum(lp) \in {-Infinity, Infinity} THEN "UNBND" ELSE "OPT",
                      value |-> direction * Optimum(lp)]
    BY <2>1 DEF Solved
  <2>3. Optimum(lp) \in AllSolutions /\
        \A x \in AllSolutions :
          IF lp.sense = "MAX" THEN direction * x <= direction * Optimum(lp)
          ELSE direction * Optimum(lp) <= direction * x
    BY <1>1, <1>4, OptimumIsBest
  <2>4. AllSolutions \subseteq Int /\ AllSolutions \subseteq -Infinity..Infinity
    BY Constants DEF AllSolutions, Solutions
  <2>5. direction = 1 \/ direction = -1
    BY DEF Direction
  <2>6. \A x \in Int : (direction = 1 => direction * x = x) /\ (direction = -1 => direction * x = -x)
    OBVIOUS
  <2>7. values \in SUBSET Int /\ values # {} /\ direction * Optimum(lp) \in values
    BY <1>4, <2>3, <2>4, <2>5
  <2>8. best = direction * Optimum(lp)
    <3>1. CASE maximize
      <4>1. \A y \in values : y <= direction * Optimum(lp)
        BY <2>3, <3>1
      <4> QED
        BY <2>7, <3>1, <4>1, GreatestIsMax
    <3>2. CASE ~maximize
      <4>1. \A y \in values : direction * Optimum(lp) <= y
        BY <2>3, <3>2
      <4> QED
        BY <2>7, <3>2, <4>1, LeastIsMin
    <3> QED
      BY <3>1, <3>2
  <2>9. best \in {-Infinity, Infinity} <=> Optimum(lp) \in {-Infinity, Infinity}
    <3> HIDE DEF best
    <3>1. Optimum(lp) \in AllSolutions
      BY <2>3
    <3>2. Optimum(lp) \in Int
      BY <2>4, <3>1
    <3>3. Infinity \in Int
      BY Constants
    <3> QED
      BY <2>5, <2>6, <2>8, <3>2, <3>3
  <2> HIDE DEF best, values
  <2> QED
    BY <1>2, <2>2, <2>7, <2>8, <2>9 DEF ResultOf
<1> QED
  BY <1>3, <1>4

--------------------------------------------------------------------------
(* Redundant rows.                                                        *)
LEMMA TestedIsDefined ==
  ASSUME System, NEW lp
  PROVE  Tested(lp) = [k \in 0..Len(matrix) |->
           IF k = 0 THEN [lp |-> lp, rows |-> {}]
           ELSE TestRow(Len(matrix) + 1 - k, Tested(lp)[k - 1])]
<1> DEFINE n == Len(matrix)
           base == [lp |-> lp, rows |-> {}]
           Value(f, k) == IF k = 0 THEN base ELSE TestRow(n + 1 - k, f[k - 1])
           IsTested(f, m) == f = [k \in 0..m |-> Value(f, k)]
           S == {m \in Nat : \E f : IsTested(f, m)}
<1>0. \A f, g, k : k = 0 \/ f[k - 1] = g[k - 1] => Value(f, k) = Value(g, k)
  OBVIOUS
<1> HIDE DEF Value
<1>1. 0 \in S
  <2> DEFINE f == [k \in 0..0 |-> Value(<< >>, k)]
  <2>1. \A k \in 0..0 : Value(<< >>, k) = Value(f, k)
    BY <1>0
  <2>2. f = [k \in 0..0 |-> Value(f, k)]
    BY <2>1
  <2> HIDE DEF f
  <2> QED
    BY <2>2
<1>2. ASSUME NEW m \in Nat, m \in S PROVE m + 1 \in S
  <2>1. PICK f : f = [k \in 0..m |-> Value(f, k)]
    BY <1>2
  <2> DEFINE g == [k \in 0..m + 1 |-> Value(f, k)]
  <2>2. \A k \in 0..m : g[k] = f[k]
    BY <2>1
  <2>3. ASSUME NEW k \in 0..m + 1 PROVE Value(f, k) = Value(g, k)
    <3>1. k = 0 \/ k - 1 \in 0..m
      OBVIOUS
    <3> HIDE DEF g
    <3> QED
      BY <1>0, <2>2, <3>1
  <2>4. g = [k \in 0..m + 1 |-> Value(g, k)]
    BY <2>3
  <2> HIDE DEF g
  <2> QED
    BY <2>4
<1> HIDE DEF S
<1>3. n \in S
  BY <1>1, <1>2, InductionFromZero DEF System
<1>4. \E f : IsTested(f, n)
  BY <1>3 DEF S
<1>5. Tested(lp) = CHOOSE f : IsTested(f, n)
  BY DEF Tested, Value
<1>6. IsTested(Tested(lp), n)
  <2> HIDE DEF IsTested
  <2> QED
    BY <1>4, <1>5
<1> QED
  BY <1>6 DEF Value

LEMMA RowChanged ==
  ASSUME NEW lp \in Instance, NEW i, NEW bounds \in Bounds
  PROVE  /\ [lp EXCEPT !.row[i] = bounds] \in Instance
         /\ [lp EXCEPT !.row[i] = bounds].row = [lp.row EXCEPT ![i] = bounds]
         /\ [lp EXCEPT !.row[i] = bounds].column = lp.column
         /\ [lp EXCEPT !.row[i] = bounds].objective = lp.objective
         /\ [lp EXCEPT !.row[i] = bounds].sense = lp.sense
<1>1. PICK n \in 0..MaxRows : lp.row \in [1..n -> Bounds]
  BY DEF Instance, SeqOf
<1>2. [lp.row EXCEPT ![i] = bounds] \in [1..n -> Bounds]
  BY <1>1
<1>3. [lp.row EXCEPT ![i] = bounds] \in SeqOf(Bounds, MaxRows)
  BY <1>2 DEF SeqOf
<1> QED
  BY <1>3 DEF Instance

LEMMA WithoutBinds ==
  ASSUME NEW lp, NEW rows, Binds(lp, rows), NEW i \in DOMAIN matrix
  PROVE  /\ Binds(Without(lp, i), rows \ {i})
         /\ Without(lp, i).column = lp.column
         /\ Without(lp, i).objective = lp.objective
         /\ Without(lp, i).sense = lp.sense
<1>1. Free \in Bounds
  BY Constants DEF Free, Interval, Bounds
<1>2. /\ Without(lp, i) \in Instance
      /\ Without(lp, i).row = [lp.row EXCEPT ![i] = Free]
      /\ Without(lp, i).column = lp.column
      /\ Without(lp, i).objective = lp.objective
      /\ Without(lp, i).sense = lp.sense
  BY <1>1, RowChanged DEF Without, Binds
<1> QED
  BY <1>2 DEF Binds

LEMMA RestoredBinds ==
  ASSUME System, NEW lp, NEW rows, Binds(lp, rows), NEW i \in DOMAIN matrix
  PROVE  /\ Binds(Restored(lp, i), rows \cup {i})
         /\ Restored(lp, i).column = lp.column
         /\ Restored(lp, i).sense = lp.sense
<1>1. RowBounds(relations[i], vector[i]) \in Bounds
  BY RowMeans
<1>2. /\ Restored(lp, i) \in Instance
      /\ Restored(lp, i).row = [lp.row EXCEPT ![i] = RowBounds(relations[i], vector[i])]
      /\ Restored(lp, i).column = lp.column
      /\ Restored(lp, i).sense = lp.sense
  BY <1>1, RowChanged DEF Restored, Binds
<1> QED
  BY <1>2 DEF Binds

LEMMA SenseBinds ==
  ASSUME NEW lp, NEW rows, Binds(lp, rows), NEW sense \in {"MAX", "MIN"}
  PROVE  /\ Binds([lp EXCEPT !.sense = sense], rows)
         /\ [lp EXCEPT !.sense = sense].column = lp.column
         /\ [lp EXCEPT !.sense = sense].objective = lp.objective
         /\ [lp EXCEPT !.sense = sense].sense = sense
BY DEF Binds, Instance

LEMMA DirectedBinds ==
  ASSUME NEW lp, NEW rows, Binds(lp, rows), NEW a \in Coefficient, NEW sense \in {"MAX", "MIN"}
  PROVE  /\ Binds(Directed(lp, a, sense), rows)
         /\ Directed(lp, a, sense).column = Free
         /\ Directed(lp, a, sense).objective = a
         /\ Directed(lp, a, sense).sense = sense
<1> DEFINE towards == Towards(lp, a)
<1>1. Binds(towards, rows) /\ towards.column = Free /\ towards.objective = a
  BY TowardsBinds
<1> HIDE DEF towards
<1>2. /\ Binds([towards EXCEPT !.sense = sense], rows)
      /\ [towards EXCEPT !.sense = sense].column = Free
      /\ [towards EXCEPT !.sense = sense].objective = a
      /\ [towards EXCEPT !.sense = sense].sense = sense
  BY <1>1, SenseBinds
<1> QED
  BY <1>2 DEF Directed, towards

(* Values at infinity are limits only where there is no limit, or no      *)
(* value at all.                                                          *)
LEMMA LimitsAreProper ==
  ASSUME System, NEW lp, NEW rows \in SUBSET DOMAIN matrix, Binds(lp, rows), lp.column = Free,
         Feasible(lp) # {}
  PROVE  Lower(lp) # Infinity /\ Upper(lp) # -Infinity
<1>1. /\ Fitting(lp)
      /\ Lower(lp) \in Int /\ Upper(lp) \in Int
      /\ Feasible(lp) = Lower(lp)..Upper(lp)
      /\ \E limit \in Limits(lp) : limit.lower = Lower(lp)
      /\ \E limit \in Limits(lp) : limit.upper = Upper(lp)
      /\ \A limit \in Limits(lp) : limit.lower <= Lower(lp) /\ Upper(lp) <= limit.upper
  BY BindsFits, FeasibleIsARange
<1>2. Lower(lp) <= Upper(lp)
  BY <1>1
<1>3. ASSUME NEW limit \in Limits(lp)
      PROVE  /\ limit.lower \in Int /\ limit.upper \in Int
             /\ limit.lower = Infinity <=> limit.upper = -Infinity
  <2>1. Free = Interval(-Infinity, Infinity)
    BY DEF Free
  <2>2. CASE limit = Free
    BY <2>1, <2>2, Constants DEF Interval
  <2>3. ASSUME NEW i \in DOMAIN matrix, limit = Quotient(lp.row[i], matrix[i])
        PROVE  /\ limit.lower \in Int /\ limit.upper \in Int
               /\ limit.lower = Infinity <=> limit.upper = -Infinity
    <3>1. matrix[i] \in Coefficient /\ vector[i] \in Number
      BY DEF System
    <3>2. vector[i] \in Int /\ -Infinity < vector[i] /\ vector[i] < Infinity
      BY <3>1, Constants
    <3>3. /\ lp.row[i].lower \in Int /\ lp.row[i].upper \in Int
          /\ lp.row[i].lower # Infinity /\ lp.row[i].upper # -Infinity
          /\ lp.row[i] = Interval(lp.row[i].lower, lp.row[i].upper)
      <4>1. lp.row[i] = RowBounds(relations[i], vector[i]) \/ lp.row[i] = Free
        BY DEF Binds
      <4>2. \A lower, upper : Interval(lower, upper).lower = lower /\ Interval(lower, upper).upper = upper
        BY DEF Interval
      <4>3. PICK lower \in {-Infinity, vector[i]}, upper \in {Infinity, vector[i]} :
              lp.row[i] = Interval(lower, upper)
        BY <2>1, <4>1 DEF RowBounds
      <4>4. lp.row[i].lower = lower /\ lp.row[i].upper = upper
        BY <4>2, <4>3
      <4> QED
        BY <3>2, <4>3, <4>4, Constants
    <3>4. CASE matrix[i] = 1
      <4>1. limit = lp.row[i]
        BY <2>3, <3>4 DEF Quotient
      <4> QED
        BY <3>3, <4>1
    <3>5. CASE matrix[i] = -1
      <4>1. limit = Interval(-lp.row[i].upper, -lp.row[i].lower)
        BY <2>3, <3>5 DEF Quotient
      <4>2. limit.lower = -lp.row[i].upper /\ limit.upper = -lp.row[i].lower
        BY <4>1 DEF Interval
      <4> QED
        BY <3>3, <4>2, Constants
    <3>6. CASE matrix[i] = 0
      <4>1. limit = Free \/ limit = Interval(Infinity, -Infinity)
        BY <2>3, <3>6 DEF Quotient
      <4> QED
        BY <2>1, <4>1, Constants DEF Interval
    <3> QED
      BY <3>1, <3>4, <3>5, <3>6 DEF Coefficient
  <2> QED
    BY <2>2, <2>3 DEF Limits, Binds
<1>4. PICK below, above \in Limits(lp) : below.lower = Lower(lp) /\ above.upper = Upper(lp)
  BY <1>1
<1>5. Lower(lp) # Infinity
  <2> SUFFICES ASSUME below.lower = Infinity PROVE FALSE
    BY <1>4
  <2>1. Upper(lp) <= -Infinity
    BY <1>1, <1>3
  <2> QED
    BY <1>1, <1>2, <1>4, <2>1, Constants
<1>6. Upper(lp) # -Infinity
  <2> SUFFICES ASSUME above.upper = -Infinity PROVE FALSE
    BY <1>4
  <2>1. Infinity <= Lower(lp)
    BY <1>1, <1>3
  <2> QED
    BY <1>1, <1>2, <1>4, <2>1, Constants
<1> QED
  BY <1>5, <1>6

(* An upper bound whose removal does not change the optimum in its        *)
(* direction does not bind.                                               *)
LEMMA SameOptimumSameSolutions ==
  ASSUME System, NEW i \in DOMAIN matrix, relations[i] = "LEQ",
         NEW rows \in SUBSET DOMAIN matrix, i \in rows,
         NEW lp, Binds(lp, rows), lp.column = Free, lp.objective = matrix[i], lp.sense = "MAX",
         ResultOf(lp) = ResultOf(Without(lp, i))
  PROVE  Solutions(rows \ {i}) = Solutions(rows)
<1> DEFINE less == Without(lp, i)  F == Solutions(rows)  G == Solutions(rows \ {i})
           a == matrix[i]  c == vector[i]
<1>1. /\ Binds(less, rows \ {i}) /\ less.column = Free
      /\ less.objective = a /\ less.sense = "MAX"
  BY WithoutBinds
<1>2. Fitting(lp) /\ Fitting(less) /\ Feasible(lp) = F /\ Feasible(less) = G
  <2>1. rows \ {i} \in SUBSET DOMAIN matrix
    OBVIOUS
  <2> QED
    BY <1>1, <2>1, BindsFits, BoundByAll
<1>3. F = {x \in G : a * x <= c} /\ G \subseteq -Infinity..Infinity
  BY DEF Solutions, Satisfies
<1>4. a \in {-1, 0, 1} /\ c \in Int /\ c < Infinity
  BY Constants DEF System, Coefficient
<1>5. G \subseteq Int
  <2>1. \A x \in -Infinity..Infinity : x \in Int
    BY Constants
  <2> HIDE DEF F, G
  <2> QED
    BY <1>3, <2>1
<1>6. \A result : result = ResultOf(lp) \/ result = ResultOf(less) =>
        result.errorCode \in {"FEAS", "INFTY", "INFEAS"}
  BY DEF ResultOf, EvaluationResult
<1>7. \A instance : ResultOf(instance) =
        IF Solved(instance).status = "OPT" THEN EvaluationResult("FEAS", Solved(instance).value)
        ELSE IF Solved(instance).status = "UNBND" THEN EvaluationResult("INFTY", 1)
        ELSE EvaluationResult("INFEAS", 0)
  BY DEF ResultOf
<1>8. \A instance :
        /\ Solved(instance).status \in {"NOFEAS", "UNBND", "OPT"}
        /\ Solved(instance).value = instance.objective * Optimum(instance)
        /\ Solved(instance).status # "NOFEAS" =>
             (Solved(instance).status = "UNBND" <=> Optimum(instance) \in {-Infinity, Infinity})
  BY DEF Solved
<1>9. /\ Solved(lp).status # "NOFEAS" <=> F # {}
      /\ Solved(less).status # "NOFEAS" <=> G # {}
  BY <1>2, StatusMeans
<1>10. ResultOf(lp) = ResultOf(less)
  OBVIOUS
<1> HIDE DEF less, F, G
<1>11. CASE F = {}
  <2>1. ResultOf(lp).errorCode = "INFEAS"
    BY <1>7, <1>9, <1>11 DEF EvaluationResult
  <2>2. Solved(less).status = "NOFEAS"
    BY <1>7, <1>8, <1>10, <2>1 DEF EvaluationResult
  <2> QED
    BY <1>9, <1>11, <2>2 DEF F, G
<1>12. CASE F # {} /\ a = 0
  <2>1. \A x \in G : a * x = 0
    BY <1>5, <1>12
  <2>2. 0 <= c
    BY <1>3, <1>12, <2>1
  <2> QED
    BY <1>3, <2>1, <2>2 DEF F, G
<1>13. CASE F # {} /\ a # 0
  <2>1. a \in Direction
    BY <1>4, <1>13 DEF Direction
  <2>2. Optimum(lp) \in F
    BY <1>2, <1>13, <2>1, OptimumIsBest
  <2>3. Optimum(lp) \in Int /\ a * Optimum(lp) <= c
    BY <1>3, <1>5, <2>2
  <2>4. Lower(lp) # Infinity /\ Upper(lp) # -Infinity
    BY <1>2, <1>13, LimitsAreProper
  <2>5. Optimum(lp) \notin {-Infinity, Infinity}
    <3>1. CASE a = 1
      <4>1. Optimum(lp) = Upper(lp)
        BY <3>1 DEF Optimum
      <4>2. a * Optimum(lp) = Optimum(lp)
        BY <2>3, <3>1
      <4> QED
        BY <1>4, <2>3, <2>4, <4>1, <4>2, Constants
    <3>2. CASE a = -1
      <4>1. Optimum(lp) = Lower(lp)
        BY <3>2 DEF Optimum
      <4>2. a * Optimum(lp) = -Optimum(lp)
        BY <2>3, <3>2
      <4> QED
        BY <1>4, <2>3, <2>4, <4>1, <4>2, Constants
    <3> QED
      BY <1>4, <1>13, <3>1, <3>2
  <2>6. ResultOf(lp) = EvaluationResult("FEAS", a * Optimum(lp))
    BY <1>7, <1>8, <1>9, <1>13, <2>5
  <2>7. /\ Solved(less).status = "OPT" /\ Solved(less).value = a * Optimum(lp)
    BY <1>7, <1>8, <1>10, <2>6 DEF EvaluationResult
  <2>8. a * Optimum(less) <= c
    BY <1>1, <1>8, <2>3, <2>7
  <2>9. \A x \in G : a * x <= a * Optimum(less)
    BY <1>1, <1>2, <1>9, <2>1, <2>7, OptimumIsBest
  <2>10. Optimum(less) \in Int
    BY <1>1, <1>2, <1>5, <1>9, <2>1, <2>7, OptimumIsBest
  <2>11. \A x \in G : a * x <= c
    <3> SUFFICES ASSUME NEW x \in G PROVE a * x <= c
      OBVIOUS
    <3>1. x \in Int /\ a \in Int
      BY <1>4, <1>5
    <3>2. a * x \in Int /\ a * Optimum(less) \in Int
      BY <2>10, <3>1
    <3> QED
      BY <1>4, <2>8, <2>9, <3>2
  <2> QED
    BY <1>3, <2>11 DEF F, G
<1> QED
  BY <1>11, <1>12, <1>13

(* Testing a row keeps the instance in step with the rows found, and the  *)
(* rows found can go.                                                     *)
AllUpper == \A i \in DOMAIN relations : relations[i] = "LEQ"

Found(found, rows) ==
  /\ found.rows \in SUBSET rows
  /\ Binds(found.lp, DOMAIN matrix \ found.rows)
  /\ found.lp.column = Free
  /\ Plain => found.lp.sense = "MAX"
  /\ AllUpper => Solutions(DOMAIN matrix \ found.rows) = AllSolutions

LEMMA RowTested ==
  ASSUME System, NEW i \in DOMAIN matrix, NEW rows \in SUBSET DOMAIN matrix, i \notin rows,
         NEW found, Found(found, rows)
  PROVE  Found(TestRow(i, found), rows \cup {i})
<1> DEFINE D == DOMAIN matrix
           bound == D \ found.rows
           upper == Directed(found.lp, matrix[i], "MAX")
           lowered == IF relations[i] = "GEQ" THEN found.lp ELSE Without(upper, i)
           lower == Directed(lowered, matrix[i], "MIN")
           tested == IF relations[i] = "LEQ" THEN lowered ELSE Without(lower, i)
           same == ResultOf(upper) = ResultOf(Without(upper, i))
<1>1. /\ found.rows \in SUBSET rows /\ Binds(found.lp, bound) /\ found.lp.column = Free
      /\ Plain => found.lp.sense = "MAX"
      /\ AllUpper => Solutions(bound) = AllSolutions
  BY DEF Found
<1>2. matrix[i] \in Coefficient /\ relations[i] \in Relation
  BY DEF System
<1>3. /\ Binds(upper, bound) /\ upper.column = Free
      /\ upper.objective = matrix[i] /\ upper.sense = "MAX"
  BY <1>1, <1>2, DirectedBinds
<1>4. /\ Binds(Without(upper, i), bound \ {i}) /\ Without(upper, i).column = Free
      /\ Without(upper, i).sense = "MAX"
  BY <1>3, WithoutBinds
<1> HIDE DEF upper, bound
<1>5. /\ Binds(lowered, IF relations[i] = "GEQ" THEN bound ELSE bound \ {i})
      /\ lowered.column = Free
      /\ relations[i] # "GEQ" => lowered.sense = "MAX"
  BY <1>1, <1>4
<1> HIDE DEF lowered
<1>6. /\ Binds(lower, IF relations[i] = "GEQ" THEN bound ELSE bound \ {i})
      /\ lower.column = Free
  BY <1>2, <1>5, DirectedBinds
<1> HIDE DEF lower
<1>7. /\ Binds(tested, bound \ {i}) /\ tested.column = Free
      /\ relations[i] = "LEQ" => tested.sense = "MAX"
  <2>1. CASE relations[i] = "LEQ"
    BY <1>5, <2>1
  <2>2. CASE relations[i] = "GEQ"
    BY <1>6, <2>2, WithoutBinds
  <2>3. CASE relations[i] = "EQ"
    <3>1. (bound \ {i}) \ {i} = bound \ {i}
      OBVIOUS
    <3> QED
      BY <1>6, <2>3, <3>1, WithoutBinds
  <2> QED
    BY <1>2, <2>1, <2>2, <2>3 DEF Relation
<1> HIDE DEF tested
<1>8. PICK redundant \in BOOLEAN :
        /\ TestRow(i, found) = IF redundant THEN [lp |-> tested, rows |-> found.rows \cup {i}]
                               ELSE [lp |-> Restored(tested, i), rows |-> found.rows]
        /\ redundant /\ relations[i] # "GEQ" => same
  BY DEF TestRow, upper, lowered, lower, tested
<1>9. Plain => AllUpper
  BY DEF Plain, AllUpper
<1>10. AllUpper => relations[i] = "LEQ"
  BY DEF AllUpper, System
<1>11. CASE redundant
  <2>1. TestRow(i, found).lp = tested /\ TestRow(i, found).rows = found.rows \cup {i}
    BY <1>8, <1>11
  <2>2. D \ (found.rows \cup {i}) = bound \ {i}
    BY DEF bound
  <2>3. ASSUME AllUpper PROVE Solutions(bound \ {i}) = AllSolutions
    <3>1. i \in bound /\ bound \in SUBSET DOMAIN matrix
      BY <1>1 DEF bound
    <3>2. same /\ relations[i] = "LEQ"
      BY <1>8, <1>10, <1>11, <2>3
    <3> QED
      BY <1>1, <1>3, <2>3, <3>1, <3>2, SameOptimumSameSolutions
  <2> QED
    BY <1>1, <1>7, <1>9, <1>10, <2>1, <2>2, <2>3 DEF Found
<1>12. CASE ~redundant
  <2>1. TestRow(i, found).lp = Restored(tested, i) /\ TestRow(i, found).rows = found.rows
    BY <1>8, <1>12
  <2>2. /\ Binds(Restored(tested, i), (bound \ {i}) \cup {i})
        /\ Restored(tested, i).column = Free
        /\ relations[i] = "LEQ" => Restored(tested, i).sense = "MAX"
    BY <1>7, RestoredBinds
  <2>3. (bound \ {i}) \cup {i} = bound
    BY <1>1 DEF bound
  <2> QED
    BY <1>1, <1>9, <1>10, <2>1, <2>2, <2>3 DEF Found, bound
<1> QED
  BY <1>11, <1>12

LEMMA AllTested ==
  ASSUME System, NEW lp, Binds(lp, DOMAIN matrix), lp.column = Free,
         Plain => lp.sense = "MAX"
  PROVE  Found(Tested(lp)[Len(matrix)], DOMAIN matrix)
<1> DEFINE n == Len(matrix)
           S == {k \in 0..n : Found(Tested(lp)[k], n + 1 - k..n)}
<1>1. n \in Nat /\ DOMAIN matrix = 1..n
  BY DEF System
<1> HIDE DEF n
<1>2. /\ Tested(lp)[0] = [lp |-> lp, rows |-> {}]
      /\ \A k \in 0..n - 1 : Tested(lp)[k + 1] = TestRow(n - k, Tested(lp)[k])
  <2> DEFINE Value(k) == IF k = 0 THEN [lp |-> lp, rows |-> {}]
                         ELSE TestRow(n + 1 - k, Tested(lp)[k - 1])
  <2>1. \A k \in 0..n : Tested(lp)[k] = Value(k)
    <3>1. Tested(lp) = [k \in 0..n |-> Value(k)]
      BY TestedIsDefined DEF n
    <3> HIDE DEF Value
    <3> QED
      BY <3>1
  <2>2. \A k \in 0..n - 1 : k + 1 \in 0..n /\ k + 1 # 0 /\ n + 1 - (k + 1) = n - k /\ (k + 1) - 1 = k
    BY <1>1
  <2>3. Tested(lp)[0] = Value(0)
    <3>1. 0 \in 0..n
      BY <1>1
    <3> HIDE DEF Value
    <3> QED
      BY <2>1, <3>1
  <2>4. ASSUME NEW k \in 0..n - 1 PROVE Tested(lp)[k + 1] = TestRow(n - k, Tested(lp)[k])
    <3>1. Tested(lp)[k + 1] = Value(k + 1)
      BY <2>1, <2>2
    <3> QED
      BY <2>2, <3>1
  <2> QED
    BY <2>3, <2>4
<1>3. 0 \in S
  <2>1. DOMAIN matrix \ {} = DOMAIN matrix
    OBVIOUS
  <2>2. Tested(lp)[0].lp = lp /\ Tested(lp)[0].rows = {}
    BY <1>2
  <2>3. Found(Tested(lp)[0], n + 1 - 0..n)
    BY <2>1, <2>2 DEF Found, AllSolutions
  <2> QED
    BY <1>1, <2>3
<1>4. ASSUME NEW k \in 0..n - 1, k \in S PROVE k + 1 \in S
  <2>1. n - k \in DOMAIN matrix /\ n + 1 - k..n \in SUBSET DOMAIN matrix /\ n - k \notin n + 1 - k..n
    BY <1>1
  <2>2. Found(TestRow(n - k, Tested(lp)[k]), (n + 1 - k..n) \cup {n - k})
    BY <1>4, <2>1, RowTested
  <2>3. (n + 1 - k..n) \cup {n - k} = n + 1 - (k + 1)..n
    BY <1>1
  <2>4. Tested(lp)[k + 1] = TestRow(n - k, Tested(lp)[k]) /\ k + 1 \in 0..n
    BY <1>1, <1>2
  <2> QED
    BY <2>2, <2>3, <2>4
<1> HIDE DEF S
<1>5. 0..n \subseteq S
  BY <1>1, <1>3, <1>4, InductionInInterval
<1>6. Found(Tested(lp)[n], n + 1 - n..n)
  BY <1>1, <1>5 DEF S
<1>7. n + 1 - n = 1
  BY <1>1
<1> QED
  BY <1>1, <1>6, <1>7 DEF n

--------------------------------------------------------------------------
(* The instances of the threads.                                          *)
Usable(t) == context[t] = Unset \/ Built(t)

LEMMA FreshBinds ==
  ASSUME System, maximize \in BOOLEAN
  PROVE  /\ Binds(Fresh, DOMAIN matrix) /\ Fresh.column = Free
         /\ Fresh.sense = IF maximize THEN "MAX" ELSE "MIN"
         /\ \A i \in DOMAIN matrix : Fresh.row[i] = RowBounds(relations[i], vector[i])
<1>1. Fresh.row \in [1..Len(matrix) -> Bounds]
  BY RowMeans DEF Fresh, System
<1>2. Fresh.row \in SeqOf(Bounds, MaxRows)
  BY <1>1 DEF SeqOf, System
<1>3. Free \in Bounds /\ 1 \in Coefficient
  BY Constants DEF Free, Interval, Bounds, Coefficient
<1> QED
  BY <1>2, <1>3 DEF Fresh, Instance, Binds

LEMMA UpdatedBinds ==
  ASSUME TypeOK, Complete, NEW t \in Thread, Usable(t)
  PROVE  /\ Binds(Updated(t), DOMAIN matrix)
         /\ Plain => Updated(t).sense = "MAX"
         /\ SenseIsKept(t) => Updated(t).sense = IF maximize THEN "MAX" ELSE "MIN"
<1>1. System /\ maximize \in BOOLEAN
  BY CompleteIsSystem DEF TypeOK
<1>2. CASE context[t] = Unset
  BY <1>1, <1>2, FreshBinds DEF Updated, Plain
<1>3. CASE context[t] # Unset
  <2>1. Updated(t) = context[t] /\ Built(t)
    BY <1>3 DEF Updated, Usable
  <2>2. Binds(context[t], DOMAIN matrix)
    BY <1>1, <2>1, FreshBinds DEF Built, Binds
  <2> QED
    BY <1>1, <1>3, <2>1, <2>2, FreshBinds DEF Built, SenseIsKept
<1> QED
  BY <1>2, <1>3

LEMMA RedundancyIsSound ==
  ASSUME System, NEW t \in Thread, Binds(Updated(t), DOMAIN matrix),
         Plain => Updated(t).sense = "MAX"
  PROVE  /\ Redundancy(t).rows \in SUBSET DOMAIN matrix
         /\ Binds(Redundancy(t).lp, DOMAIN matrix \ Redundancy(t).rows)
         /\ Plain => Redundancy(t).lp.sense = "MAX"
         /\ AllUpper => Solutions(DOMAIN matrix \ Redundancy(t).rows) = AllSolutions
<1> DEFINE lp == Towards(Updated(t), 1)
<1>1. /\ Binds(lp, DOMAIN matrix) /\ lp.column = Free
      /\ Plain => lp.sense = "MAX"
  BY TowardsBinds DEF Coefficient
<1>2. DOMAIN matrix \ {} = DOMAIN matrix
  OBVIOUS
<1>3. CASE Redundancy(t) = [lp |-> Updated(t), rows |-> {}]
  BY <1>2, <1>3 DEF AllSolutions
<1>4. CASE Redundancy(t) = [lp |-> lp, rows |-> {}]
  BY <1>1, <1>2, <1>4 DEF AllSolutions
<1>5. CASE Redundancy(t) = Tested(lp)[Len(matrix)]
  <2>1. Found(Redundancy(t), DOMAIN matrix)
    BY <1>1, <1>5, AllTested
  <2> QED
    BY <2>1 DEF Found
<1> QED
  BY <1>3, <1>4, <1>5 DEF Redundancy

LEMMA AfterRedundancyBinds ==
  ASSUME System, NEW t \in Thread, Binds(Updated(t), DOMAIN matrix),
         Plain => Updated(t).sense = "MAX"
  PROVE  /\ Binds(AfterRedundancy(t), DOMAIN matrix)
         /\ Plain => AfterRedundancy(t).sense = "MAX"
<1> DEFINE found == Redundancy(t)
           row == [i \in DOMAIN found.lp.row |-> IF i \in found.rows
                     THEN RowBounds(relations[i], vector[i]) ELSE found.lp.row[i]]
<1>1. /\ Binds(found.lp, DOMAIN matrix \ found.rows)
      /\ Plain => found.lp.sense = "MAX"
  BY RedundancyIsSound
<1>2. AfterRedundancy(t) = [found.lp EXCEPT !.row = row]
  BY DEF AfterRedundancy
<1>3. DOMAIN found.lp.row = 1..Len(matrix) /\ Len(matrix) \in 0..MaxRows
  BY <1>1 DEF Binds, System
<1>4. found.lp \in Instance
  BY <1>1 DEF Binds
<1> HIDE DEF found
<1>5. \A i \in DOMAIN matrix : row[i] = RowBounds(relations[i], vector[i])
  BY <1>1 DEF Binds
<1>6. row \in [1..Len(matrix) -> Bounds]
  BY <1>3, <1>5, RowMeans DEF System
<1>7. row \in SeqOf(Bounds, MaxRows)
  BY <1>3, <1>6 DEF SeqOf
<1>8. DOMAIN row = DOMAIN matrix
  BY <1>1 DEF Binds
<1> HIDE DEF row
<1>9. /\ [found.lp EXCEPT !.row = row] \in Instance
      /\ [found.lp EXCEPT !.row = row].row = row
      /\ [found.lp EXCEPT !.row = row].sense = found.lp.sense
  BY <1>4, <1>7 DEF Instance
<1> QED
  BY <1>1, <1>2, <1>5, <1>8, <1>9 DEF Binds

--------------------------------------------------------------------------
(* Steps.                                                                 *)
LEMMA Problem ==
  ASSUME UNCHANGED problem
  PROVE  /\ Complete' = Complete /\ Fresh' = Fresh /\ Plain' = Plain
         /\ AllSolutions' = AllSolutions
BY DEF problem, Complete, Fresh, Plain, AllSolutions, Solutions, Satisfies, RowBounds

LEMMA ClearedIsCurrent ==
  ASSUME AllIdle, context' = NoContexts, checked' = FALSE, pc' = pc
  PROVE  InstancesAreCurrent' /\ AnswerIsReal'
<1>1. \A t \in Thread : context'[t] = Unset /\ pc'[t] = "idle"
  BY DEF NoContexts, AllIdle
<1> QED
  BY <1>1 DEF InstancesAreCurrent, AnswerIsReal, AnswerCounts

LEMMA InstanceIsCurrent ==
  ASSUME TypeOK, InstancesAreCurrent, Complete, UNCHANGED problem,
         NEW t \in Thread, NEW lp, Becomes(t, lp),
         Binds(lp, DOMAIN matrix), Plain => lp.sense = "MAX",
         \A u \in Thread \ {t} : pc'[u] = pc[u]
  PROVE  InstancesAreCurrent' /\ context' \in [Thread -> {Unset} \cup Instance]
<1>1. lp \in Instance
  BY DEF Binds
<1>2. context \in [Thread -> {Unset} \cup Instance]
  BY DEF TypeOK
<1>3. context' = [context EXCEPT ![t] = lp]
  BY DEF Becomes
<1>4. context'[t] = lp /\ \A u \in Thread \ {t} : context'[u] = context[u]
  BY <1>2, <1>3
<1>5. Complete' = Complete /\ Fresh' = Fresh /\ Plain' = Plain
  BY Problem
<1>6. System /\ maximize \in BOOLEAN
  BY CompleteIsSystem DEF TypeOK
<1>7. lp.row = Fresh.row
  <2>1. PICK n \in 0..MaxRows : lp.row \in [1..n -> Bounds]
    BY <1>1 DEF Instance, SeqOf
  <2>2. PICK m \in 0..MaxRows : Fresh.row \in [1..m -> Bounds]
    BY <1>6, FreshBinds DEF Binds, Instance, SeqOf
  <2>3. DOMAIN lp.row = DOMAIN matrix /\ DOMAIN Fresh.row = DOMAIN matrix
    BY <1>6, FreshBinds DEF Binds
  <2>4. \A i \in DOMAIN matrix : lp.row[i] = Fresh.row[i]
    BY <1>6, FreshBinds DEF Binds
  <2> QED
    BY <2>1, <2>2, <2>3, <2>4
<1>8. Built(t)'
  BY <1>1, <1>4, <1>5, <1>7 DEF Built
<1>9. \A u \in Thread \ {t} : Built(u)' = Built(u)
  BY <1>4, <1>5 DEF Built
<1>10. \A u \in Thread \ {t} : (context[u] = Unset \/ Built(u)) /\ (pc[u] = "store" => Built(u))
  BY DEF InstancesAreCurrent
<1>11. InstancesAreCurrent'
  BY <1>4, <1>8, <1>9, <1>10 DEF InstancesAreCurrent
<1>12. context' \in [Thread -> {Unset} \cup Instance]
  BY <1>1, <1>2, <1>3
<1> QED
  BY <1>11, <1>12

(* The systems that callers pass.                                         *)
LEMMA RowTypes ==
  /\ \A m \in RowsOf(Direction) : m \in SeqOf(Coefficient, MaxRows)
  /\ \A v \in RowsOf(Number) : v \in SeqOf(Number, MaxRows)
  /\ \A m \in SeqOf(Coefficient, MaxRows) : [i \in DOMAIN m |-> "LEQ"] \in SeqOf(Relation, MaxRows)
<1>1. ASSUME NEW S, NEW T, S \subseteq T, NEW m \in SeqOf(S, MaxRows)
      PROVE  m \in SeqOf(T, MaxRows)
  BY <1>1 DEF SeqOf
<1>2. Direction \subseteq Coefficient
  BY DEF Direction, Coefficient
<1>3. ASSUME NEW m \in SeqOf(Coefficient, MaxRows)
      PROVE  [i \in DOMAIN m |-> "LEQ"] \in SeqOf(Relation, MaxRows)
  <2>1. PICK n \in 0..MaxRows : m \in [1..n -> Coefficient]
    BY DEF SeqOf
  <2>2. [i \in DOMAIN m |-> "LEQ"] \in [1..n -> Relation]
    BY <2>1 DEF Relation
  <2> QED
    BY <2>2 DEF SeqOf
<1>4. \A m \in RowsOf(Direction) : m \in SeqOf(Coefficient, MaxRows)
  BY <1>1, <1>2 DEF RowsOf
<1>5. \A v \in RowsOf(Number) : v \in SeqOf(Number, MaxRows)
  BY DEF RowsOf
<1> QED
  BY <1>3, <1>4, <1>5

LEMMA EmptyRows ==
  ASSUME NEW S
  PROVE  << >> \in SeqOf(S, MaxRows)
<1>1. << >> \in [1..0 -> S]
  OBVIOUS
<1>2. 0 \in 0..MaxRows
  BY NumberAssumption
<1> QED
  BY <1>1, <1>2 DEF SeqOf

LEMMA AppendedRows ==
  ASSUME NEW S, NEW rows \in SeqOf(S, MaxRows), NEW x \in S, Len(rows) < MaxRows
  PROVE  Append(rows, x) \in SeqOf(S, MaxRows)
<1>1. PICK n \in 0..MaxRows : rows \in [1..n -> S]
  BY DEF SeqOf
<1>2. n \in Nat /\ MaxRows \in Nat
  BY NumberAssumption
<1>3. rows \in Seq(S) /\ Len(rows) = n
  BY <1>1, <1>2
<1>4. Append(rows, x) \in [1..n + 1 -> S]
  <2> DEFINE longer == Append(rows, x)
  <2>1. longer \in Seq(S) /\ Len(longer) = n + 1
    BY <1>3
  <2> HIDE DEF longer
  <2>2. DOMAIN longer = 1..n + 1
    BY <2>1
  <2>3. longer \in UNION {[1..k -> S] : k \in Nat}
    BY <2>1, SeqDef
  <2> QED
    BY <2>2, <2>3 DEF longer
<1>5. n + 1 \in 0..MaxRows
  BY <1>2, <1>3
<1> QED
  BY <1>4, <1>5 DEF SeqOf

LEMMA NewProblemTypes ==
  ASSUME TypeOK, context' = NoContexts, pc' = pc, checked' = FALSE, lastAnswer' \in Solution,
         matrix' \in SeqOf(Coefficient, MaxRows), vector' \in SeqOf(Number, MaxRows),
         relations' \in SeqOf(Relation, MaxRows), maximize' \in BOOLEAN
  PROVE  TypeOK'
BY DEF TypeOK, NoContexts

THEOREM InitIsCurrent == Init => IInv
<1> SUFFICES ASSUME NEW max \in BOOLEAN, NEW m, NEW v,
                    \/ m = << >> /\ v = << >>
                    \/ m \in RowsOf(Direction) /\ v \in RowsOf(Number),
                    Constructed(m, v, max)
             PROVE  IInv
  BY DEF Init
<1>1. m \in SeqOf(Coefficient, MaxRows) /\ v \in SeqOf(Number, MaxRows)
  BY EmptyRows, RowTypes
<1>2. relations \in SeqOf(Relation, MaxRows)
  BY <1>1, RowTypes DEF Constructed
<1>3. TypeOK
  BY <1>1, <1>2 DEF Constructed, TypeOK, NoContexts, Solution
<1>4. InstancesAreCurrent
  BY DEF Constructed, NoContexts, InstancesAreCurrent
<1>5. AnswerIsReal
  BY DEF Constructed, AnswerIsReal, AnswerCounts
<1> QED
  BY <1>3, <1>4, <1>5 DEF IInv

LEMMA ChangeIsCurrent ==
  ASSUME IInv, Change
  PROVE  IInv'
<1>1. TypeOK
  BY DEF IInv
<1>2. /\ matrix \in SeqOf(Coefficient, MaxRows) /\ vector \in SeqOf(Number, MaxRows)
      /\ relations \in SeqOf(Relation, MaxRows) /\ maximize \in BOOLEAN /\ lastAnswer \in Solution
  BY <1>1 DEF TypeOK
<1>3. /\ AllIdle /\ context' = NoContexts /\ checked' = FALSE /\ pc' = pc
      /\ lastAnswer' \in Solution
      /\ matrix' \in SeqOf(Coefficient, MaxRows) /\ vector' \in SeqOf(Number, MaxRows)
      /\ relations' \in SeqOf(Relation, MaxRows) /\ maximize' \in BOOLEAN
  <2>1. ASSUME ClearCache
        PROVE  AllIdle /\ context' = NoContexts /\ checked' = FALSE /\ pc' = pc /\ lastAnswer' \in Solution
    BY <1>2, <2>1 DEF ClearCache
  <2>2. ASSUME NEW m \in RowsOf(Direction), SetMatrix(m) PROVE <1>3!:
    BY <1>2, <2>1, <2>2, RowTypes DEF SetMatrix
  <2>3. ASSUME NEW v \in RowsOf(Number), SetVector(v) PROVE <1>3!:
    BY <1>2, <2>1, <2>3, RowTypes DEF SetVector
  <2>4. ASSUME NEW r \in [DOMAIN matrix -> Relation], SetRelations(r) PROVE <1>3!:
    <3>1. PICK n \in 0..MaxRows : matrix \in [1..n -> Coefficient]
      BY <1>2 DEF SeqOf
    <3>2. r \in SeqOf(Relation, MaxRows)
      BY <3>1 DEF SeqOf
    <3> QED
      BY <1>2, <2>1, <2>4, <3>2 DEF SetRelations
  <2>5. ASSUME NEW relation \in Relation, NEW i \in 1..MaxRows, SetRelation(relation, i) PROVE <1>3!:
    <3>1. PICK n \in 0..MaxRows : relations \in [1..n -> Relation]
      BY <1>2 DEF SeqOf
    <3>2. [relations EXCEPT ![i] = relation] \in SeqOf(Relation, MaxRows)
      BY <3>1 DEF SeqOf
    <3> QED
      BY <1>2, <2>1, <2>5, <3>2 DEF SetRelation
  <2>6. ASSUME NEW max \in BOOLEAN, SetMaximize(max) PROVE <1>3!:
    BY <1>2, <2>1, <2>6 DEF SetMaximize
  <2>7. ASSUME NEW a \in Direction, NEW constant \in Number, NEW relation \in Relation,
               AddConstraint(a, constant, relation)
        PROVE  <1>3!:
    <3>1. a \in Coefficient
      BY DEF Direction, Coefficient
    <3>2. /\ Append(matrix, a) \in SeqOf(Coefficient, MaxRows)
          /\ Append(vector, constant) \in SeqOf(Number, MaxRows)
          /\ Append(relations, relation) \in SeqOf(Relation, MaxRows)
      BY <1>2, <2>7, <3>1, AppendedRows DEF AddConstraint
    <3> QED
      BY <1>2, <2>1, <2>7, <3>2 DEF AddConstraint
  <2>8. ASSUME Clear PROVE <1>3!:
    <3>1. 0 \in Number /\ 0 \in Coefficient /\ 0 < MaxRows
      BY NumberAssumption DEF Coefficient
    <3>2. Append(<< >>, 0) = <<0>> /\ Len(<< >>) = 0
      OBVIOUS
    <3>3. <<0>> \in SeqOf(Coefficient, MaxRows) /\ <<0>> \in SeqOf(Number, MaxRows)
      BY <3>1, <3>2, EmptyRows, AppendedRows
    <3> QED
      BY <1>2, <2>1, <2>8, <3>3, EmptyRows DEF Clear
  <2>9. ASSUME NEW m \in RowsOf(Direction), NEW v \in RowsOf(Number), NEW max \in BOOLEAN,
               Assign(m, v, max)
        PROVE  <1>3!:
    BY <2>9, RowTypes DEF Assign, Solution
  <2> QED
    BY <2>2, <2>3, <2>4, <2>5, <2>6, <2>7, <2>8, <2>9 DEF Change
<1>4. TypeOK'
  BY <1>1, <1>3, NewProblemTypes
<1> QED
  BY <1>3, <1>4, ClearedIsCurrent DEF IInv

LEMMA NoRowsNoLimits ==
  ASSUME System, matrix = << >>
  PROVE  AllSolutions = -Infinity..Infinity /\ AllSolutions # {}
<1>1. DOMAIN matrix = {}
  OBVIOUS
<1>2. 0 \in -Infinity..Infinity
  BY Constants
<1> QED
  BY <1>1, <1>2 DEF AllSolutions, Solutions

LEMMA SolvedMeansSolvable ==
  ASSUME System, NEW lp, Binds(lp, DOMAIN matrix), Solved(lp).status # "NOFEAS"
  PROVE  AllSolutions # {}
<1>1. Feasible(lp) # {}
  BY BindsFits, StatusMeans
<1>2. Feasible(lp) \subseteq AllSolutions
  BY BoundRows DEF AllSolutions
<1> QED
  BY <1>1, <1>2

LEMMA UseIsCurrent ==
  ASSUME IInv, NEW t \in Thread, Use(t)
  PROVE  IInv'
<1> DEFINE D == DOMAIN matrix
<1>1. TypeOK /\ InstancesAreCurrent /\ AnswerIsReal
  BY DEF IInv
<1>2. UNCHANGED problem
  BY DEF Use, Evaluate, CheckPoint, RedundantConstraints, CheckConsistency, FinishCheck,
         GetInternalPoint, StoreAnswer, CleanContexts
<1>3. AllSolutions' = AllSolutions /\ Complete' = Complete /\ Fresh' = Fresh /\ Plain' = Plain
  BY <1>2, Problem
<1>4. /\ pc \in [Thread -> {"idle", "check", "store"}]
      /\ checked \in BOOLEAN /\ lastAnswer \in Solution
      /\ context \in [Thread -> {Unset} \cup Instance]
  BY <1>1 DEF TypeOK
<1>5. ASSUME context' \in [Thread -> {Unset} \cup Instance], checked' \in BOOLEAN,
             lastAnswer' \in Solution, pc' \in [Thread -> {"idle", "check", "store"}]
      PROVE  TypeOK'
  BY <1>1, <1>2, <1>5 DEF TypeOK, problem
<1>6. ASSUME UNCHANGED <<checked, lastAnswer, pc>> PROVE AnswerIsReal'
  BY <1>1, <1>3, <1>6 DEF AnswerIsReal, AnswerCounts
<1>7. ASSUME AllSolutions # {} PROVE AnswerIsReal'
  BY <1>3, <1>7 DEF AnswerIsReal
<1>8. ASSUME Complete
      PROVE  System /\ Binds(Updated(t), D) /\ (Plain => Updated(t).sense = "MAX")
  BY <1>1, <1>8, CompleteIsSystem, UpdatedBinds DEF InstancesAreCurrent, Usable
<1>9. ASSUME Complete, NEW lp, Binds(lp, D), Plain => lp.sense = "MAX", Becomes(t, lp),
             \A u \in Thread \ {t} : pc'[u] = pc[u]
      PROVE  InstancesAreCurrent' /\ context' \in [Thread -> {Unset} \cup Instance]
  BY <1>1, <1>2, <1>9, InstanceIsCurrent
<1>10. ASSUME NEW direction \in Direction, Evaluate(t, direction) PROVE IInv'
  <2>1. Complete /\ UNCHANGED <<checked, lastAnswer, pc>>
    BY <1>10 DEF Evaluate, Query
  <2>2. direction \in Coefficient
    BY DEF Direction, Coefficient
  <2>3. /\ Binds(Evaluated(t, direction), D)
        /\ Plain => Evaluated(t, direction).sense = "MAX"
    BY <1>8, <2>1, <2>2, TowardsBinds DEF Evaluated
  <2>4. PICK lp : Binds(lp, D) /\ (Plain => lp.sense = "MAX") /\ Becomes(t, lp)
    BY <1>8, <1>10, <2>1, <2>3 DEF Evaluate
  <2>5. InstancesAreCurrent' /\ context' \in [Thread -> {Unset} \cup Instance]
    BY <1>9, <2>1, <2>4
  <2> QED
    BY <1>4, <1>5, <1>6, <2>1, <2>5 DEF IInv
<1>11. ASSUME NEW point \in Number, CheckPoint(t, point) PROVE IInv'
  <2>1. Complete /\ UNCHANGED <<checked, pc>>
    BY <1>11 DEF CheckPoint, Query
  <2>2. /\ Binds(At(Updated(t), point), D)
        /\ Plain => At(Updated(t), point).sense = "MAX"
    BY <1>8, <2>1, AtBinds
  <2>3. PICK lp : Binds(lp, D) /\ (Plain => lp.sense = "MAX") /\ Becomes(t, lp)
    BY <1>8, <1>11, <2>1, <2>2 DEF CheckPoint
  <2>4. InstancesAreCurrent' /\ context' \in [Thread -> {Unset} \cup Instance]
    BY <1>9, <2>1, <2>3
  <2>5. lastAnswer' \in Solution /\ AnswerIsReal'
    BY <1>4, <1>6, <1>7, <1>8, <1>11, <2>1, NoRowsNoLimits DEF CheckPoint, Solution
  <2> QED
    BY <1>4, <1>5, <2>1, <2>4, <2>5 DEF IInv
<1>12. ASSUME RedundantConstraints(t) PROVE IInv'
  <2>1. Complete /\ UNCHANGED <<checked, lastAnswer, pc>> /\ Becomes(t, AfterRedundancy(t))
    BY <1>12 DEF RedundantConstraints, Query
  <2>2. /\ Binds(AfterRedundancy(t), D)
        /\ Plain => AfterRedundancy(t).sense = "MAX"
    BY <1>8, <2>1, AfterRedundancyBinds
  <2>3. InstancesAreCurrent' /\ context' \in [Thread -> {Unset} \cup Instance]
    BY <1>9, <2>1, <2>2
  <2> QED
    BY <1>4, <1>5, <1>6, <2>1, <2>3 DEF IInv
<1>13. ASSUME CheckConsistency(t) PROVE IInv'
  <2>1. Complete /\ Becomes(t, Updated(t)) /\ checked' = checked
    BY <1>13 DEF CheckConsistency, Query
  <2>2. /\ lastAnswer' \in Solution /\ pc' \in [Thread -> {"idle", "check", "store"}]
        /\ \A u \in Thread \ {t} : pc'[u] = pc[u]
    BY <1>4, <1>13 DEF CheckConsistency, Solution
  <2>3. InstancesAreCurrent' /\ context' \in [Thread -> {Unset} \cup Instance]
    BY <1>8, <1>9, <2>1, <2>2
  <2>4. AnswerIsReal'
    <3>1. CASE matrix = << >>
      BY <1>7, <1>8, <2>1, <3>1, NoRowsNoLimits
    <3>2. CASE matrix # << >> /\ checked
      BY <1>6, <1>13, <2>1, <3>2 DEF CheckConsistency
    <3>3. CASE matrix # << >> /\ ~checked /\ ConsistencyAnswer(t)
      BY <1>7, <1>8, <2>1, <3>3, SolvedMeansSolvable DEF ConsistencyAnswer
    <3>4. CASE matrix # << >> /\ ~checked /\ ~ConsistencyAnswer(t)
      BY <1>13, <3>4 DEF CheckConsistency, AnswerIsReal
    <3> QED
      BY <3>1, <3>2, <3>3, <3>4
  <2> QED
    BY <1>4, <1>5, <2>1, <2>2, <2>3, <2>4 DEF IInv
<1>14. ASSUME FinishCheck(t) PROVE IInv'
  <2>1. /\ pc[t] = "check" /\ checked' = TRUE /\ pc' = [pc EXCEPT ![t] = "idle"]
        /\ UNCHANGED <<lastAnswer, context>>
    BY <1>14 DEF FinishCheck
  <2>2. lastAnswer = "FEAS" => AllSolutions # {}
    BY <1>1, <2>1 DEF AnswerIsReal, AnswerCounts
  <2>3. AnswerIsReal'
    BY <1>3, <2>1, <2>2 DEF AnswerIsReal
  <2>4. InstancesAreCurrent'
    BY <1>1, <1>3, <1>4, <2>1 DEF InstancesAreCurrent, Built
  <2> QED
    BY <1>4, <1>5, <2>1, <2>3, <2>4 DEF IInv
<1>15. ASSUME GetInternalPoint(t) PROVE IInv'
  <2>1. Complete /\ Becomes(t, Updated(t)) /\ checked' = TRUE
    BY <1>15 DEF GetInternalPoint, Query
  <2>2. /\ lastAnswer' \in Solution /\ pc' \in [Thread -> {"idle", "check", "store"}]
        /\ \A u \in Thread \ {t} : pc'[u] = pc[u]
    BY <1>4, <1>15 DEF GetInternalPoint, Solution
  <2>3. InstancesAreCurrent' /\ context' \in [Thread -> {Unset} \cup Instance]
    BY <1>8, <1>9, <2>1, <2>2
  <2>4. AnswerIsReal'
    <3>1. CASE matrix = << >>
      BY <1>7, <1>8, <2>1, <3>1, NoRowsNoLimits
    <3>2. CASE matrix # << >>
      <4>1. pc' = [pc EXCEPT ![t] = "store"] /\ lastAnswer' = lastAnswer /\ pc[t] = "idle"
        BY <1>15, <3>2 DEF GetInternalPoint, Query
      <4>2. ~\A u \in Thread : pc'[u] # "store"
        BY <1>4, <4>1
      <4>3. (\E u \in Thread : pc'[u] = "check") => \E u \in Thread : pc[u] = "check"
        BY <1>4, <4>1
      <4> QED
        BY <1>1, <1>3, <4>1, <4>2, <4>3 DEF AnswerIsReal, AnswerCounts
    <3> QED
      BY <3>1, <3>2
  <2> QED
    BY <1>5, <2>1, <2>2, <2>3, <2>4 DEF IInv
<1>16. ASSUME StoreAnswer(t) PROVE IInv'
  <2>1. /\ pc[t] = "store" /\ pc' = [pc EXCEPT ![t] = "idle"]
        /\ lastAnswer' = ResultOf(context[t]).errorCode
        /\ UNCHANGED <<checked, context>>
    BY <1>16 DEF StoreAnswer
  <2>2. Built(t) /\ Complete
    BY <1>1, <2>1 DEF InstancesAreCurrent, Built
  <2>3. Binds(context[t], D) /\ System
    <3>1. System /\ Binds(Fresh, D)
      BY <1>1, <2>2, CompleteIsSystem, FreshBinds DEF TypeOK
    <3> QED
      BY <2>2, <3>1, FreshBinds DEF Built, Binds
  <2>4. lastAnswer' \in Solution
    BY <2>1 DEF ResultOf, EvaluationResult, Solution
  <2>5. lastAnswer' = "FEAS" => AllSolutions # {}
    <3>1. lastAnswer' = "FEAS" => Solved(context[t]).status # "NOFEAS"
      BY <2>1 DEF ResultOf, EvaluationResult
    <3> QED
      BY <2>3, <3>1, SolvedMeansSolvable
  <2>6. AnswerIsReal'
    BY <1>3, <2>5 DEF AnswerIsReal
  <2>7. InstancesAreCurrent'
    BY <1>1, <1>3, <1>4, <2>1 DEF InstancesAreCurrent, Built
  <2> QED
    BY <1>4, <1>5, <2>1, <2>4, <2>6, <2>7 DEF IInv
<1>17. ASSUME CleanContexts(t) PROVE IInv'
  <2>1. /\ pc[t] = "idle" /\ context' = [context EXCEPT ![t] = Unset]
        /\ UNCHANGED <<checked, lastAnswer, pc>>
    BY <1>17 DEF CleanContexts
  <2>2. context' \in [Thread -> {Unset} \cup Instance]
    BY <1>4, <2>1
  <2>3. context'[t] = Unset /\ \A u \in Thread \ {t} : context'[u] = context[u]
    BY <1>4, <2>1
  <2>4. InstancesAreCurrent'
    BY <1>1, <1>3, <2>1, <2>3 DEF InstancesAreCurrent, Built
  <2> QED
    BY <1>4, <1>5, <1>6, <2>1, <2>2, <2>4 DEF IInv
<1> QED
  BY <1>10, <1>11, <1>12, <1>13, <1>14, <1>15, <1>16, <1>17 DEF Use

LEMMA StutteringIsCurrent ==
  ASSUME IInv, UNCHANGED vars
  PROVE  IInv'
<1>1. AllSolutions' = AllSolutions /\ Complete' = Complete /\ Fresh' = Fresh /\ Plain' = Plain
  BY Problem DEF vars
<1> QED
  BY <1>1 DEF IInv, vars, problem, TypeOK, InstancesAreCurrent, Built, AnswerIsReal, AnswerCounts

THEOREM InstancesStayCurrent == Spec => []IInv
<1>1. IInv /\ [Next]_vars => IInv'
  BY ChangeIsCurrent, UseIsCurrent, StutteringIsCurrent DEF Next
<1> QED
  BY InitIsCurrent, <1>1, PTL DEF Spec

(* The optimizer keeps problem instances and answers of their types.      *)
THEOREM OptimizerTypes == Spec => []TypeOK
<1>1. IInv => TypeOK
  BY DEF IInv
<1> QED
  BY InstancesStayCurrent, <1>1, PTL

(* Optimizer::evaluate gives the optimum of the system as it is now,      *)
(* whatever changes and queries came before.                              *)
THEOREM EvaluationsAreRight == Spec => []EvaluationIsRight
<1>1. IInv => EvaluationIsRight
  <2> SUFFICES ASSUME IInv, NEW t \in Thread, NEW direction \in Direction,
                      Query(t), Plain \/ SenseIsKept(t)
               PROVE  Evaluation(t, direction) = Expected(direction)
    BY DEF EvaluationIsRight
  <2>1. TypeOK /\ Complete /\ Usable(t) /\ maximize \in BOOLEAN
    BY DEF IInv, InstancesAreCurrent, Query, Usable, TypeOK
  <2>2. System
    BY <2>1, CompleteIsSystem
  <2>3. CASE matrix = << >>
    BY <2>3 DEF Evaluation, Expected
  <2>4. CASE matrix # << >>
    <3>1. /\ Binds(Updated(t), DOMAIN matrix)
          /\ Updated(t).sense = IF maximize THEN "MAX" ELSE "MIN"
      BY <2>1, UpdatedBinds DEF Plain
    <3>2. direction \in Coefficient
      BY DEF Direction, Coefficient
    <3>3. /\ Binds(Evaluated(t, direction), DOMAIN matrix)
          /\ Evaluated(t, direction).column = Free /\ Evaluated(t, direction).objective = direction
          /\ Evaluated(t, direction).sense = IF maximize THEN "MAX" ELSE "MIN"
      BY <3>1, <3>2, TowardsBinds DEF Evaluated
    <3> QED
      BY <2>1, <2>2, <2>4, <3>3, ResultIsExpected DEF Evaluation
  <2> QED
    BY <2>3, <2>4
<1> QED
  BY InstancesStayCurrent, <1>1, PTL

(* Optimizer::checkPoint tells whether the point satisfies all            *)
(* constraints, after any other queries of the same instance.             *)
THEOREM PointsAreRight == Spec => []PointIsRight
<1>1. IInv => PointIsRight
  <2> SUFFICES ASSUME IInv, NEW t \in Thread, NEW point \in Number, Query(t)
               PROVE  PointAnswer(t, point) <=> point \in AllSolutions
    BY DEF PointIsRight
  <2>1. TypeOK /\ Complete /\ Usable(t)
    BY DEF IInv, InstancesAreCurrent, Query, Usable
  <2>2. System /\ Binds(Updated(t), DOMAIN matrix)
    BY <2>1, CompleteIsSystem, UpdatedBinds
  <2>3. CASE matrix = << >>
    <3>1. point \in -Infinity..Infinity
      BY Constants
    <3> QED
      BY <2>2, <2>3, <3>1, NoRowsNoLimits DEF PointAnswer
  <2>4. CASE matrix # << >>
    BY <2>2, <2>4, PointFits DEF PointAnswer, AllSolutions
  <2> QED
    BY <2>3, <2>4
<1> QED
  BY InstancesStayCurrent, <1>1, PTL

(* All rows that redundantConstraints reports can go at once, in systems  *)
(* of upper bounds.                                                       *)
THEOREM RedundantRowsAreRedundant == Spec => []RedundantRowsCanGo
<1>1. IInv => RedundantRowsCanGo
  <2> SUFFICES ASSUME IInv, NEW t \in Thread, Query(t), AllUpper
               PROVE  Solutions(DOMAIN matrix \ Redundancy(t).rows) = AllSolutions
    BY DEF RedundantRowsCanGo, AllUpper
  <2>1. TypeOK /\ Complete /\ Usable(t)
    BY DEF IInv, InstancesAreCurrent, Query, Usable
  <2>2. System /\ Binds(Updated(t), DOMAIN matrix) /\ (Plain => Updated(t).sense = "MAX")
    BY <2>1, CompleteIsSystem, UpdatedBinds
  <2> QED
    BY <2>2, RedundancyIsSound
<1> QED
  BY InstancesStayCurrent, <1>1, PTL

(* Once all queries have ended, the stored answer is not that there are   *)
(* solutions when there are none.                                         *)
THEOREM StoredAnswersAreReal == Spec => []StoredAnswerIsReal
<1>1. IInv => StoredAnswerIsReal
  BY DEF IInv, AnswerIsReal, AnswerCounts, StoredAnswerIsReal, AllIdle
<1> QED
  BY InstancesStayCurrent, <1>1, PTL
=============================================================================
