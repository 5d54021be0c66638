------------------------- MODULE LTIVerification -------------------------
(***************************************************************************)
(* The LTI analyzer together with a run of the automaton it analyzes: the  *)
(* run starts once the analysis has returned success.                      *)
(***************************************************************************)
EXTENDS LTIAnalyzer, HybridRun

verificationVars == <<vars, run>>

VerificationInit == Init /\ run = NoRun

Analyze == Next /\ UNCHANGED run

RunStarts == result = "success" /\ Start(ha) /\ UNCHANGED vars
RunElapses == result = "success" /\ Elapse(ha, par.horizon, par.timeStep) /\ UNCHANGED vars
RunJumps == result = "success" /\ Jump(ha, par.jumpDepth, par.timeStepFactor) /\ UNCHANGED vars

VerificationNext == Analyze \/ RunStarts \/ RunElapses \/ RunJumps

VerificationSpec ==
  VerificationInit /\ [][VerificationNext]_verificationVars /\ WF_verificationVars(Analyze)

--------------------------------------------------------------------------
(* A success of LTIAnalyzer::run means that no run of the automaton       *)
(* within the jump depth and the time horizon visits a bad state, with    *)
(* bad states, guards and fixed points tested on over-approximations      *)
(* only, nodes left out as covered, and successors merged into blocks.    *)
Soundness == ~RunIsBad(ha)

(* The assertion of LTIWorker::computeTimeSuccessors (LTIWorker.tpp:15):  *)
(* no node is entered whose first segment misses the invariant.  It holds *)
(* because successors are intersected with the target invariant and the   *)
(* empty ones dropped, initial states given inside the invariant.         *)
FirstSegmentMeetsInvariant ==
  pc = "nextSegment" => flowpipe[currentNode][1] # {}

(* Without fixed-point detection every run is followed, jump by jump, by  *)
(* nodes of the tree whose timings include the time of the jump; the      *)
(* refinement of a path relies on these timings to find its nodes.        *)
TransitionPath(n) ==
  LET path == Path(nodes, n) IN [i \in DOMAIN path |-> path[i].transition]

TimingsFollowRuns ==
  /\ run # NoRun
  /\ ~par.detectJumpFixedPoints
  /\ par.numberSetsForContinuousCoverage = 0
  => \E n \in DOMAIN nodes :
       /\ TransitionPath(n) = run.path
       /\ run.valuation \in flowpipe[n][run.steps + 1]
       /\ nodes[n].lower <= run.earliest
       /\ run.latest <= nodes[n].upper

(* The converse of soundness where nothing is over-approximated: if       *)
(* segments are not united and the representation keeps the sets at hand, *)
(* as boxes keep intervals, a conflict is reported only if a run meets a  *)
(* bad state, with no more jumps than the conflict node is deep.          *)
ConflictIsReal ==
  result = "failure" /\ par.aggregation = "NO_AGG" =>
    CanBeBad(ha, NumSegments(par.horizon, par.timeStep) - 1, current.depth)
=============================================================================
