---------------------- MODULE RectangularVerification ----------------------
(***************************************************************************)
(* The rectangular analyzer, the singular analyzer on the same automaton   *)
(* if that is singular, and then a run of the automaton.                   *)
(***************************************************************************)
EXTENDS RectangularAnalyzer

VARIABLES
  singularNodes, singularQueue, singularTask, singularFlowpipe, singularSuccessors,
  singularPending, singularSafe, singularPc, singularResult,
  run             \* a run of ha

rectangularVars == <<nodes, workQueue, task, worker, flowpipes, pending, safe, pc, result>>
singularVars ==
  <<singularNodes, singularQueue, singularTask, singularFlowpipe, singularSuccessors,
    singularPending, singularSafe, singularPc, singularResult>>
verificationVars == <<inputs, rectangularVars, singularVars, run>>

Singular == INSTANCE SingularAnalyzer WITH
  nodes <- singularNodes, workQueue <- singularQueue, task <- singularTask,
  flowpipe <- singularFlowpipe, jumpSuccessors <- singularSuccessors,
  pending <- singularPending, safe <- singularSafe, pc <- singularPc, result <- singularResult

--------------------------------------------------------------------------
(* The run: location, valuation, time steps since the last jump, and the  *)
(* transitions taken.  Steps are counted while they are bounded.          *)
NoRun == << >>

Start ==
  /\ run = NoRun
  /\ \E i \in DOMAIN ha.initial :
       \E p \in ha.initial[i].set \cap ha.invariant[ha.initial[i].loc] :
         run' = [location |-> ha.initial[i].loc, valuation |-> p, steps |-> 0, path |-> << >>]

Elapse ==
  /\ run # NoRun
  /\ par.horizon < 0 \/ run.steps < par.horizon
  /\ \E q \in ha.flow[run.location][run.valuation] \cap ha.invariant[run.location] :
       run' = [run EXCEPT !.valuation = q, !.steps = IF par.horizon < 0 THEN 0 ELSE @ + 1]

Jump ==
  /\ run # NoRun
  /\ Len(run.path) < par.jumpDepth
  /\ \E t \in TransitionsFrom(ha, run.location) :
       LET tr == ha.transition[t]
       IN  /\ run.valuation \in tr.guard
           /\ \E q \in tr.reset[run.valuation] \cap ha.invariant[tr.target] :
                run' = [location |-> tr.target, valuation |-> q, steps |-> 0,
                        path |-> Append(run.path, t)]

(* Only singular automata are given to the singular analyzer, and a       *)
(* horizon that it can multiply with.                                     *)
GivenToSingular == IsSingular(ha) /\ par.horizon >= 0

Finished == result # "none" /\ (GivenToSingular => singularResult # "none")

AnalyzeRectangular == Next /\ UNCHANGED <<singularVars, run>>

AnalyzeSingular ==
  /\ GivenToSingular
  /\ result # "none"
  /\ Singular!Next
  /\ UNCHANGED <<rectangularVars, run>>

Analyze == AnalyzeRectangular \/ AnalyzeSingular

RunMoves ==
  /\ Finished
  /\ Start \/ Elapse \/ Jump
  /\ UNCHANGED <<inputs, rectangularVars, singularVars>>

VerificationInit == Init /\ Singular!Init /\ run = NoRun

VerificationNext == Analyze \/ RunMoves

VerificationSpec ==
  VerificationInit /\ [][VerificationNext]_verificationVars /\ WF_verificationVars(Analyze)

--------------------------------------------------------------------------
TypesOK == TypeOK /\ Singular!TypeOK

Path(tree, n) ==
  LET path[m \in 0..n] == IF m = 0 \/ tree[m].parent = 0 THEN << >>
                          ELSE Append(path[tree[m].parent], tree[m].transition)
  IN  path[n]

Covers(tree) ==
  \E n \in DOMAIN tree :
    /\ Path(tree, n) = run.path
    /\ tree[n].location = run.location
    /\ \E k \in DOMAIN tree[n].flowpipe : run.valuation \in tree[n].flowpipe[k]

(* Whatever a run visits is in the flowpipe of a node that stands for its *)
(* jumps, once an analyzer has finished with a success: no successor of   *)
(* any node got lost, with several ways to a location and a worker that   *)
(* is used for all nodes.                                                 *)
RunsAreCovered ==
  run # NoRun =>
    /\ result = "success" => Covers(nodes)
    /\ singularResult = "success" => Covers(singularNodes)

(* run: "SAFE if no bad state intersection is found and UNKNOWN           *)
(* otherwise" (SingularAnalyzer.h:52); after a success no run visits a    *)
(* bad state.                                                             *)
Soundness ==
  (run # NoRun /\ run.valuation \in BadStates(ha, run.location)) =>
    result # "success" /\ singularResult # "success"

(* What a set can be at in a location, by steps that respect the          *)
(* invariant.  Without a horizon as many steps are enough as there are    *)
(* valuations.                                                            *)
Stays(A, l, S, horizon) ==
  LET steps == IF horizon < 0 THEN Cardinality(Point) ELSE horizon
      at[k \in 0..steps] ==
        A.invariant[l] \cap IF k = 0 THEN S ELSE Image(at[k - 1], A.flow[l])
  IN  UNION {at[k] : k \in 0..steps}

InitialIn(A, l) == UNION {A.initial[i].set : i \in {i \in DOMAIN A.initial : A.initial[i].loc = l}}

JumpsInto(A, l, before) ==
  UNION {Image(A.transition[t].guard \cap before[A.transition[t].source], A.transition[t].reset) :
           t \in {t \in DOMAIN A.transition : A.transition[t].target = l}}

(* The valuations reachable in each location with exactly j jumps.        *)
ReachedWith(A, jumps, horizon) ==
  LET reached[j \in 0..jumps] ==
        [l \in Location |->
           Stays(A, l, IF j = 0 THEN InitialIn(A, l) ELSE JumpsInto(A, l, reached[j - 1]), horizon)]
  IN  reached

Reachable(A, jumps, horizon) ==
  [l \in Location |-> UNION {ReachedWith(A, jumps, horizon)[j][l] : j \in 0..jumps}]

(* The analysis of a rectangular automaton with convex conditions is      *)
(* exact, although the invariant is only applied after the time elapse:   *)
(* a failure means that some run does visit a bad state.                  *)
FailureIsReal ==
  (result = "failure" \/ singularResult = "failure") =>
    \E l \in Location : Reachable(ha, par.jumpDepth, par.horizon)[l] \cap BadStates(ha, l) # {}

Explored(tree) ==
  {[path |-> Path(tree, n), location |-> tree[n].location, initialSet |-> tree[n].initialSet,
    flowpipe |-> tree[n].flowpipe] : n \in DOMAIN tree}

(* A singular automaton is a rectangular one: both analyzers come to the  *)
(* same verdict, and if that is a success, with the same tree up to the   *)
(* order of siblings.                                                     *)
AnalyzersAgree ==
  (Finished /\ GivenToSingular) =>
    /\ result = singularResult
    /\ result = "success" =>
         /\ Len(nodes) = Len(singularNodes)
         /\ Explored(nodes) = Explored(singularNodes)

(* Both loops end.                                                        *)
Termination == <>Finished
=============================================================================
