----------------------------- MODULE Optimizer -----------------------------
(***************************************************************************)
(* Optimizer (util/linearOptimization), the linear optimization behind the *)
(* polyhedral representations, with its default solver GLPK and floating-  *)
(* point numbers: one constraint system, a solver instance per thread that *)
(* is built on demand and reused until the system changes, and a stored    *)
(* answer to whether the system has a solution.                            *)
(*                                                                         *)
(* Systems have one variable; their solutions are an interval with integer *)
(* ends, Infinity standing for everything beyond the constants.            *)
(***************************************************************************)
EXTENDS Integers, SequencesExt

CONSTANTS
  Thread,
  Number,    \* constant parts of constraints, and coordinates of points
  MaxRows,   \* bound on the number of constraints
  Infinity   \* exceeds all numbers

ASSUME NumberAssumption ==
  /\ Number \subseteq Int /\ 0 \in Number
  /\ MaxRows \in Nat \ {0}
  /\ Infinity \in Nat
  /\ \A x \in Number : -Infinity < x /\ x < Infinity

VARIABLES
  matrix, vector, relations,  \* mConstraintMatrix, mConstraintVector, mRelationSymbols
  maximize,                   \* maximize
  checked,                    \* mConsistencyChecked
  lastAnswer,                 \* mLastConsistencyAnswer
  context,                    \* mGlpkContexts, with what mConstraintsSet allows to be used
  pc                          \* what a thread has left to do of a query

problem == <<matrix, vector, relations, maximize>>
vars == <<problem, checked, lastAnswer, context, pc>>

Direction == {-1, 1}
Coefficient == -1..1
Relation == {"LEQ", "GEQ", "EQ"}
Solution == {"FEAS", "INFEAS", "INFTY", "UNKNOWN"}
Unset == << >>

Interval(lower, upper) == [lower |-> lower, upper |-> upper]
Free == Interval(-Infinity, Infinity)
Bounds == [lower : -Infinity..Infinity, upper : -Infinity..Infinity]

(* A problem instance: bounds of the rows and of the column, coefficient   *)
(* and sense of the objective function.                                    *)
Instance == [row : SeqOf(Bounds, MaxRows), column : Bounds, objective : Coefficient,
             sense : {"MAX", "MIN"}]

TypeOK ==
  /\ matrix \in SeqOf(Coefficient, MaxRows)
  /\ vector \in SeqOf(Number, MaxRows)
  /\ relations \in SeqOf(Relation, MaxRows)
  /\ maximize \in BOOLEAN
  /\ checked \in BOOLEAN
  /\ lastAnswer \in Solution
  /\ context \in [Thread -> {Unset} \cup Instance]
  /\ pc \in [Thread -> {"idle", "check", "store"}]

--------------------------------------------------------------------------
(* The solver.                                                            *)
RowBounds(relation, constant) ==
  Interval(IF relation = "LEQ" THEN -Infinity ELSE constant,
           IF relation = "GEQ" THEN Infinity ELSE constant)

(* The values of the variable that bounds on its product with a leave.    *)
Quotient(bounds, a) ==
  CASE a = 1 -> bounds
    [] a = -1 -> Interval(-bounds.upper, -bounds.lower)
    [] OTHER -> IF bounds.lower <= 0 /\ 0 <= bounds.upper THEN Free ELSE Interval(Infinity, -Infinity)

Limits(lp) == {Quotient(lp.row[i], matrix[i]) : i \in DOMAIN lp.row} \cup {lp.column}

Lower(lp) == Max({limit.lower : limit \in Limits(lp)})

Upper(lp) == Min({limit.upper : limit \in Limits(lp)})

Optimum(lp) ==
  IF lp.objective = 0 THEN 0
  ELSE IF (lp.sense = "MAX") = (lp.objective = 1) THEN Upper(lp) ELSE Lower(lp)

Solved(lp) ==
  [status |-> IF Lower(lp) > Upper(lp) THEN "NOFEAS"
              ELSE IF Optimum(lp) \in {-Infinity, Infinity} THEN "UNBND" ELSE "OPT",
   value |-> lp.objective * Optimum(lp)]

EvaluationResult(code, value) == [errorCode |-> code, supportValue |-> value]

ResultOf(lp) ==
  LET solution == Solved(lp)
  IN  CASE solution.status = "OPT" -> EvaluationResult("FEAS", solution.value)
        [] solution.status = "UNBND" -> EvaluationResult("INFTY", 1)
        [] OTHER -> EvaluationResult("INFEAS", 0)

(* A mutant: a column fixed by checkPoint stays fixed.                    *)
TowardsWithoutFreeing(lp, direction) == [lp EXCEPT !.objective = direction]

Towards(lp, direction) == [lp EXCEPT !.column = Free, !.objective = direction]

Directed(lp, direction, sense) == [Towards(lp, direction) EXCEPT !.sense = sense]

At(lp, point) == [lp EXCEPT !.column = Interval(point, point), !.objective = 1]

--------------------------------------------------------------------------
(* updateConstraints: an instance that is not set is built anew.          *)
Fresh ==
  [row |-> [i \in DOMAIN matrix |-> RowBounds(relations[i], vector[i])], column |-> Free,
   objective |-> 1, sense |-> IF maximize THEN "MAX" ELSE "MIN"]

Updated(t) == IF context[t] = Unset THEN Fresh ELSE context[t]

NoContexts == [t \in Thread |-> Unset]

(* A solver instance refers to the system it was built for, so queries    *)
(* need one constant and one relation per row.                            *)
Complete == Len(vector) = Len(matrix) /\ Len(relations) = Len(matrix)

AllIdle == \A t \in Thread : pc[t] = "idle"

(* A mutant: the stored answer is kept.                                   *)
ClearCacheButTheAnswer ==
  /\ AllIdle
  /\ context' = NoContexts
  /\ UNCHANGED <<checked, lastAnswer, pc>>

(* The system is read without a lock, so callers do not change it while a *)
(* query is under way.                                                    *)
ClearCache ==
  /\ AllIdle
  /\ context' = NoContexts
  /\ checked' = FALSE
  /\ UNCHANGED <<lastAnswer, pc>>

SetMatrix(m) ==
  /\ matrix # m
  /\ ClearCache
  /\ matrix' = m
  /\ relations' = [i \in DOMAIN m |-> "LEQ"]
  /\ UNCHANGED <<vector, maximize>>

SetVector(v) ==
  /\ vector # v
  /\ ClearCache
  /\ vector' = v
  /\ UNCHANGED <<matrix, relations, maximize>>

SetRelations(r) ==
  /\ ClearCache
  /\ relations' = r
  /\ UNCHANGED <<matrix, vector, maximize>>

SetRelation(relation, i) ==
  /\ i \in DOMAIN relations
  /\ ClearCache
  /\ relations' = [relations EXCEPT ![i] = relation]
  /\ UNCHANGED <<matrix, vector, maximize>>

SetMaximize(max) ==
  /\ maximize # max
  /\ ClearCache
  /\ maximize' = max
  /\ UNCHANGED <<matrix, vector, relations>>

AddConstraint(a, constant, relation) ==
  /\ ClearCache
  /\ Len(matrix) < MaxRows /\ Len(vector) < MaxRows /\ Len(relations) < MaxRows
  /\ matrix' = Append(matrix, a)
  /\ vector' = Append(vector, constant)
  /\ relations' = Append(relations, relation)
  /\ UNCHANGED maximize

(* clear leaves one row of zeros without a relation.                      *)
Clear ==
  /\ ClearCache
  /\ matrix' = <<0>> /\ vector' = <<0>> /\ relations' = << >>
  /\ UNCHANGED maximize

(* The constructor of a system.                                           *)
Constructed(m, v, max) ==
  /\ matrix = m /\ vector = v
  /\ relations = [i \in DOMAIN m |-> "LEQ"]
  /\ maximize = max
  /\ checked = FALSE
  /\ lastAnswer = "UNKNOWN"
  /\ context = NoContexts
  /\ pc = [t \in Thread |-> "idle"]

(* Assignment of an optimizer just constructed, which is copied.          *)
Assign(m, v, max) ==
  /\ AllIdle
  /\ matrix' = m /\ vector' = v
  /\ relations' = [i \in DOMAIN m |-> "LEQ"]
  /\ maximize' = max
  /\ checked' = FALSE
  /\ lastAnswer' = "UNKNOWN"
  /\ context' = NoContexts
  /\ UNCHANGED pc

(* cleanContexts, for the calling thread only.                            *)
CleanContexts(t) ==
  /\ pc[t] = "idle" /\ context[t] # Unset
  /\ context' = [context EXCEPT ![t] = Unset]
  /\ UNCHANGED <<problem, checked, lastAnswer, pc>>

--------------------------------------------------------------------------
(* What the queries of an idle thread leave in its instance and answer.   *)
Query(t) == pc[t] = "idle" /\ Complete

Evaluated(t, direction) == Towards(Updated(t), direction)

Evaluation(t, direction) ==
  IF matrix = << >> THEN EvaluationResult("INFTY", 0) ELSE ResultOf(Evaluated(t, direction))

PointAnswer(t, point) == matrix = << >> \/ Solved(At(Updated(t), point)).status # "NOFEAS"

ConsistencyAnswer(t) ==
  \/ matrix = << >>
  \/ IF checked THEN lastAnswer = "FEAS" ELSE Solved(Updated(t)).status # "NOFEAS"

Without(lp, i) == [lp EXCEPT !.row[i] = Free]

Restored(lp, i) == [lp EXCEPT !.row[i] = RowBounds(relations[i], vector[i])]

(* A mutant: a redundant row is put back before the next one is tested.   *)
TestRowAlone(i, found) ==
  LET upper == Directed(found.lp, matrix[i], "MAX")
      same == ResultOf(upper) = ResultOf(Without(upper, i))
  IN  [lp |-> upper, rows |-> IF same THEN found.rows \cup {i} ELSE found.rows]

(* One row is tested against its removal, an equality first from above,   *)
(* and is left out from then on if it makes no difference.                *)
TestRow(i, found) ==
  LET upper == Directed(found.lp, matrix[i], "MAX")
      lowered == IF relations[i] = "GEQ" THEN found.lp ELSE Without(upper, i)
      lower == Directed(lowered, matrix[i], "MIN")
      tested == IF relations[i] = "LEQ" THEN lowered ELSE Without(lower, i)
      before == ResultOf(lower)
      after == ResultOf(Without(lower, i))
      redundant ==
        /\ relations[i] # "GEQ" => ResultOf(upper) = ResultOf(Without(upper, i))
        /\ relations[i] # "LEQ" =>
             before.errorCode = after.errorCode \/ before.supportValue = after.supportValue
  IN  IF redundant THEN [lp |-> tested, rows |-> found.rows \cup {i}]
      ELSE [lp |-> Restored(tested, i), rows |-> found.rows]

(* The instance, and the rows found in the last k ones.                   *)
Tested(lp) ==
  LET n == Len(matrix)
      tested[k \in 0..n] == IF k = 0 THEN [lp |-> lp, rows |-> {}]
                             ELSE TestRow(n + 1 - k, tested[k - 1])
  IN  tested

Redundancy(t) ==
  LET lp == Towards(Updated(t), 1)
  IN  IF Len(matrix) <= 1 THEN [lp |-> Updated(t), rows |-> {}]
      ELSE IF Solved(lp).status = "NOFEAS" THEN [lp |-> lp, rows |-> {}]
      ELSE Tested(lp)[Len(matrix)]

(* A mutant: the rows found stay out.                                     *)
AfterRedundancyWithoutRestoring(t) == Redundancy(t).lp

(* The rows found are put back in the end.                                *)
AfterRedundancy(t) ==
  LET found == Redundancy(t)
  IN  [found.lp EXCEPT !.row = [i \in DOMAIN @ |-> IF i \in found.rows
                                  THEN RowBounds(relations[i], vector[i]) ELSE @[i]]]

--------------------------------------------------------------------------
Becomes(t, lp) == context' = [context EXCEPT ![t] = lp]

Evaluate(t, direction) ==
  /\ Query(t)
  /\ Becomes(t, IF matrix = << >> THEN Updated(t) ELSE Evaluated(t, direction))
  /\ UNCHANGED <<problem, checked, lastAnswer, pc>>

CheckPoint(t, point) ==
  /\ Query(t)
  /\ IF matrix = << >>
     THEN Becomes(t, Updated(t)) /\ lastAnswer' = "FEAS"
     ELSE Becomes(t, At(Updated(t), point)) /\ UNCHANGED lastAnswer
  /\ UNCHANGED <<problem, checked, pc>>

RedundantConstraints(t) ==
  /\ Query(t)
  /\ Becomes(t, AfterRedundancy(t))
  /\ UNCHANGED <<problem, checked, lastAnswer, pc>>

(* checkConsistency stores the answer first, then that there is one.      *)
CheckConsistency(t) ==
  /\ Query(t)
  /\ Becomes(t, Updated(t))
  /\ IF matrix = << >> THEN lastAnswer' = "FEAS" /\ UNCHANGED pc
     ELSE IF checked THEN UNCHANGED <<lastAnswer, pc>>
     ELSE /\ lastAnswer' = IF ConsistencyAnswer(t) THEN "FEAS" ELSE "INFEAS"
          /\ pc' = [pc EXCEPT ![t] = "check"]
  /\ UNCHANGED <<problem, checked>>

FinishCheck(t) ==
  /\ pc[t] = "check"
  /\ checked' = TRUE
  /\ pc' = [pc EXCEPT ![t] = "idle"]
  /\ UNCHANGED <<problem, lastAnswer, context>>

(* getInternalPoint takes the instance as it is, and stores that there is *)
(* an answer before the answer.                                           *)
GetInternalPoint(t) ==
  /\ Query(t)
  /\ Becomes(t, Updated(t))
  /\ checked' = TRUE
  /\ IF matrix = << >> THEN lastAnswer' = "FEAS" /\ UNCHANGED pc
     ELSE pc' = [pc EXCEPT ![t] = "store"] /\ UNCHANGED lastAnswer
  /\ UNCHANGED problem

(* A mutant: the status of the solver is stored.                          *)
StoreStatus(t) ==
  /\ pc[t] = "store"
  /\ lastAnswer' = Solved(context[t]).status
  /\ pc' = [pc EXCEPT ![t] = "idle"]
  /\ UNCHANGED <<problem, checked, context>>

StoreAnswer(t) ==
  /\ pc[t] = "store"
  /\ lastAnswer' = ResultOf(context[t]).errorCode
  /\ pc' = [pc EXCEPT ![t] = "idle"]
  /\ UNCHANGED <<problem, checked, context>>

--------------------------------------------------------------------------
RowsOf(S) == SeqOf(S, MaxRows) \ {<< >>}

Init ==
  \E max \in BOOLEAN :
    \/ Constructed(<< >>, << >>, max)
    \/ \E m \in RowsOf(Direction), v \in RowsOf(Number) : Len(m) = Len(v) /\ Constructed(m, v, max)

Change ==
  \/ \E m \in RowsOf(Direction) : SetMatrix(m)
  \/ \E v \in RowsOf(Number) : SetVector(v)
  \/ \E r \in [DOMAIN matrix -> Relation] : SetRelations(r)
  \/ \E relation \in Relation, i \in 1..MaxRows : SetRelation(relation, i)
  \/ \E max \in BOOLEAN : SetMaximize(max)
  \/ \E a \in Direction, constant \in Number, relation \in Relation :
       AddConstraint(a, constant, relation)
  \/ Clear
  \/ \E m \in RowsOf(Direction), v \in RowsOf(Number), max \in BOOLEAN :
       Len(m) = Len(v) /\ Assign(m, v, max)

Use(t) ==
  \/ \E direction \in Direction : Evaluate(t, direction)
  \/ \E point \in Number : CheckPoint(t, point)
  \/ RedundantConstraints(t)
  \/ CheckConsistency(t) \/ FinishCheck(t)
  \/ GetInternalPoint(t) \/ StoreAnswer(t)
  \/ CleanContexts(t)

Next == Change \/ \E t \in Thread : Use(t)

Spec == Init /\ [][Next]_vars

--------------------------------------------------------------------------
(* The solutions of some of the rows, by definition of the relations.     *)
Satisfies(x, i) ==
  LET product == matrix[i] * x
  IN  CASE relations[i] = "LEQ" -> product <= vector[i]
        [] relations[i] = "GEQ" -> product >= vector[i]
        [] OTHER -> product = vector[i]

Solutions(rows) == {x \in -Infinity..Infinity : \A i \in rows : Satisfies(x, i)}

AllSolutions == Solutions(DOMAIN matrix)

Expected(direction) ==
  LET values == {direction * x : x \in AllSolutions}
      best == IF maximize THEN Max(values) ELSE Min(values)
  IN  IF matrix = << >> THEN EvaluationResult("INFTY", 0)
      ELSE IF values = {} THEN EvaluationResult("INFEAS", 0)
      ELSE IF best \in {-Infinity, Infinity} THEN EvaluationResult("INFTY", 1)
      ELSE EvaluationResult("FEAS", best)

Plain == maximize /\ \A i \in DOMAIN relations : relations[i] = "LEQ"

(* Optimizer::evaluate gives the optimum of the system as it is now,      *)
(* whatever changes and queries of whatever threads came before.  Beyond  *)
(* upper bounds that are maximized this needs the sense of the instance   *)
(* to be that of the optimizer, as redundantConstraints changes it.       *)
SenseIsKept(t) == context[t] = Unset \/ context[t].sense = Fresh.sense

EvaluationIsRight ==
  \A t \in Thread, direction \in Direction :
    Query(t) /\ (Plain \/ SenseIsKept(t)) => Evaluation(t, direction) = Expected(direction)

(* "True, if the point satisfies all constraints, false otherwise"        *)
(* (Optimizer.h:265), after any other queries of the same instance: rows  *)
(* that redundantConstraints left out are back, and none are stale.       *)
PointIsRight ==
  \A t \in Thread, point \in Number :
    Query(t) => (PointAnswer(t, point) <=> point \in AllSolutions)

(* All rows that redundantConstraints reports can go at once without      *)
(* changing the solutions, in systems of upper bounds.                    *)
RedundantRowsCanGo ==
  \A t \in Thread :
    Query(t) /\ (\A i \in DOMAIN relations : relations[i] = "LEQ") =>
      Solutions(DOMAIN matrix \ Redundancy(t).rows) = AllSolutions

(* Once all queries have ended, the stored answer is not that there are   *)
(* solutions when there are none, although it is stored in two steps.     *)
StoredAnswerIsReal ==
  AllIdle /\ Complete /\ checked /\ lastAnswer = "FEAS" => AllSolutions # {}

(* Optimizer::checkConsistency: "True, if there exists a solution, false  *)
(* otherwise" (Optimizer.h:258).                                          *)
ConsistencyIsRight ==
  \A t \in Thread :
    AllIdle /\ Complete => (ConsistencyAnswer(t) <=> AllSolutions # {})
=============================================================================
