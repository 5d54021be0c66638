------------------- MODULE DecompositionalVerification -------------------
(***************************************************************************)
(* The decompositional analyzer together with a run of the automaton that  *)
(* was decomposed, which is the product of its subspaces.                  *)
(***************************************************************************)
EXTENDS DecompositionalAnalyzer

VARIABLE run

Product == [Subspace -> Value]

Composed(condition) == {p \in Product : \A s \in Subspace : p[s] \in condition[s]}

(* The automaton before its decomposition, as a record of HybridAutomaton *)
(* with what runs depend on.                                              *)
ProductAutomaton(A) ==
  LET image(f) == [p \in Product |-> [s \in Subspace |-> f[s][p[s]]]]
  IN  [flow |-> [l \in Location |-> image([s \in Subspace |-> A.flow[s][l]])],
       during |-> [l \in Location |-> [p \in Product |-> {p}]],
       invariant |-> [l \in Location |-> Composed(A.invariant[l])],
       initial |-> <<[loc |-> A.initial.loc, set |-> Composed(A.initial.set)]>>,
       localBad |-> [l \in Location |-> UNION {Composed(b) : b \in A.localBad[l]}],
       globalBad |-> UNION {Composed(b) : b \in A.globalBad},
       transition |-> [t \in DOMAIN A.transition |->
                         [source |-> A.transition[t].source, target |-> A.transition[t].target,
                          guard |-> Composed(A.transition[t].guard),
                          reset |-> image(A.transition[t].reset)]]]

ProductParameters(p) ==
  [horizon |-> p.horizon, timeStep |-> 1, jumpDepth |-> p.jumpDepth, timeStepFactor |-> 1]

ProductRun == INSTANCE HybridRun WITH
  Point <- Product, Over <- [S \in SUBSET Product |-> S],
  Automata <- {ProductAutomaton(a[1]) : a \in Analyses}

verificationVars == <<vars, run>>

VerificationInit == Init /\ run = ProductRun!NoRun

Analyze == Next /\ UNCHANGED run

RunMoves ==
  /\ result = "success"
  /\ LET A == ProductAutomaton(ha)
     IN  \/ ProductRun!Start(A)
         \/ ProductRun!Elapse(A, par.horizon, 1)
         \/ ProductRun!Jump(A, par.jumpDepth, 1)
  /\ UNCHANGED vars

(* There may be nothing left to do once there is a verdict, not before.   *)
Finished ==
  /\ result # "none"
  /\ UNCHANGED verificationVars

VerificationNext == Analyze \/ RunMoves \/ Finished

(* The analysis goes on until its verdict: weak fairness of Analyze, given *)
(* that it is enabled until then (a run would report the deadlock).       *)
Fairness == []<>(result # "none") \/ []<><<Analyze>>_verificationVars

VerificationSpec == VerificationInit /\ [][VerificationNext]_verificationVars /\ Fairness

--------------------------------------------------------------------------
(* DecompositionalSuccess "indicates that the analysis succeeded, i.e. no *)
(* intersection with bad states" (DecompositionalAnalyzer.h:29): no run   *)
(* of the undecomposed automaton visits a bad state, although the         *)
(* subspaces are only compared through clocks, common segments and the    *)
(* dependencies of their last synchronisation.                            *)
Soundness == ~ProductRun!RunIsBad(ProductAutomaton(ha))

(* The converse for singular subspaces and one clock: with a               *)
(* synchronisation at every jump the clock and the dependencies relate the *)
(* subspaces exactly, and a conflict is reported only if a run meets a bad *)
(* state.  (With more clocks it may be spurious: none shows when a jump    *)
(* was taken, as resetUnusedClocks resets none.)                           *)
ConflictIsReal ==
  result = "failure" /\ Segmented = {} /\ par.clockCount = 1 =>
    ProductRun!CanBeBad(ProductAutomaton(ha), par.horizon, current.depth)

(* isSafe and getDiscreteJumpSuccessors read the first segment of every   *)
(* flowpipe without a test; it is there because successors are cut to     *)
(* common times before they become initial sets.                          *)
FirstSegmentsExist ==
  pc \in {"safety", "jumps"} => \A s \in Subspace : flowpipe[s] # << >>

(* The loop ends.                                                         *)
Termination == <>(result # "none")
=============================================================================
