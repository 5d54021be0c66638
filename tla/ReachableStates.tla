-------------------------- MODULE ReachableStates --------------------------
(***************************************************************************)
(* What the runs of a hybrid automaton A reach, exactly, when they are     *)
(* observed at instants one time step apart (HybridRun).                   *)
(***************************************************************************)
EXTENDS Integers, Sequences

(* The valuations observed in location l at most steps time steps after   *)
(* entering it in one of entered.                                         *)
Observed(A, l, entered, steps) ==
  LET at[k \in 0..steps] ==
        A.invariant[l] \cap
          IF k = 0 THEN UNION {A.during[l][p] : p \in entered}
          ELSE {A.flow[l][p] : p \in at[k - 1]}
  IN  UNION {at[k] : k \in 0..steps}

(* The valuations in which a location is entered with the j-th jump.      *)
Entered(A, steps, jumps) ==
  LET initial(l) == UNION {A.initial[i].set : i \in {i \in DOMAIN A.initial : A.initial[i].loc = l}}
      into(l) == {t \in DOMAIN A.transition : A.transition[t].target = l}
      entered[j \in 0..jumps] ==
        [l \in DOMAIN A.invariant |-> A.invariant[l] \cap
           IF j = 0 THEN initial(l)
           ELSE UNION {{A.transition[t].reset[p] : p \in A.transition[t].guard \cap
                          Observed(A, A.transition[t].source,
                                   entered[j - 1][A.transition[t].source], steps)}
                       : t \in into(l)}]
  IN  entered
=============================================================================
