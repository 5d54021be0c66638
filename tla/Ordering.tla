----------------------------- MODULE Ordering -----------------------------
(***************************************************************************)
(* Lists of the members of a set: what a loop over a container of the code *)
(* yields when the model keeps its contents as a set.                      *)
(***************************************************************************)
EXTENDS Integers, Sequences, FiniteSets

(* The members of a set in the order of a set of pairs (a function, so     *)
(* that TLC evaluates the set once).                                      *)
InOrder(S, before) ==
  LET order[T \in {S}] == [k \in 1..Cardinality(T) |->
        CHOOSE x \in T : Cardinality({y \in T : <<y, x>> \in before}) = k - 1]
  IN  order[S]

Ascending(S) == InOrder(S, {p \in Nat \X Nat : p[1] < p[2]})

(* Pairs of numbers, ordered by the first and then by the second.         *)
AscendingPairs(S) ==
  InOrder(S, {p \in (Nat \X Nat) \X (Nat \X Nat) :
                 \/ p[1][1] < p[2][1]
                 \/ p[1][1] = p[2][1] /\ p[1][2] < p[2][2]})
=============================================================================
