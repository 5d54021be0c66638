---------------------------- MODULE HybridRun ----------------------------
(***************************************************************************)
(* One run of a hybrid automaton, the meaning that the verdict of an       *)
(* analysis is about.  The run is observed at instants one time step       *)
(* apart: when it enters a location at valuation p, the first observed     *)
(* valuation is any q \in during[l][p], so some run of the model observes  *)
(* every instant of every run of the automaton.  The invariant is required *)
(* at the observed instants only, which admits more runs than there are.   *)
(*                                                                         *)
(* The bounds are those of the analysis: at most jumpDepth jumps, and at   *)
(* most horizon time units in a location after one jump and before the     *)
(* next.                                                                   *)
(***************************************************************************)
EXTENDS HybridAutomaton, ReachableStates

VARIABLE run

(* location, valuation, whole time steps since entry, jumps taken so far, *)
(* their transitions, and the earliest and latest time of the last jump.  *)
RunType ==
  [location : Location, valuation : Point, steps : Nat, jumps : Nat,
   path : Seq(Nat), earliest : Int, latest : Int]

NoRun == << >>

(* Entering location l at p and observing q first.                        *)
Enters(A, l, p, q) ==
  /\ p \in A.invariant[l]
  /\ q \in A.during[l][p] \cap A.invariant[l]

Start(A) ==
  /\ run = NoRun
  /\ \E i \in DOMAIN A.initial : \E p \in A.initial[i].set, q \in Point :
       /\ Enters(A, A.initial[i].loc, p, q)
       /\ run' = [location |-> A.initial[i].loc, valuation |-> q, steps |-> 0, jumps |-> 0,
                  path |-> << >>, earliest |-> 0, latest |-> 0]

Elapse(A, horizon, timeStep) ==
  /\ run # NoRun
  /\ (run.steps + 1) * timeStep <= horizon
  /\ A.flow[run.location][run.valuation] \in A.invariant[run.location]
  /\ run' = [run EXCEPT !.valuation = A.flow[run.location][@], !.steps = @ + 1]

(* The jump happens between steps and steps + 1 time steps after entry.   *)
Jump(A, jumpDepth, timeStepFactor) ==
  /\ run # NoRun
  /\ run.jumps < jumpDepth
  /\ \E t \in TransitionsFrom(A, run.location), q \in Point :
       LET tr == A.transition[t]
           p == tr.reset[run.valuation]
       IN  /\ run.valuation \in tr.guard
           /\ Enters(A, tr.target, p, q)
           /\ run' = [location |-> tr.target, valuation |-> q, steps |-> 0,
                      jumps |-> run.jumps + 1, path |-> Append(run.path, t),
                      earliest |-> run.earliest + run.steps * timeStepFactor,
                      latest |-> run.latest + (run.steps + 1) * timeStepFactor]

--------------------------------------------------------------------------
(* Whether runs can reach a bad state within the bounds.                  *)
CanBeBad(A, steps, jumps) ==
  \E j \in 0..jumps, l \in Location :
    Observed(A, l, Entered(A, steps, jumps)[j][l], steps) \cap BadStates(A, l) # {}

RunIsBad(A) == run # NoRun /\ run.valuation \in BadStates(A, run.location)
=============================================================================
