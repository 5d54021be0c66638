-------------------- MODULE DecompositionalInvariant --------------------
(***************************************************************************)
(* Why the success of the decompositional analyzer is right: every instant *)
(* of a run of the undecomposed automaton has a valuation in the sets of   *)
(* all subspaces, with the same clocks, wherever the loop stands.          *)
(*                                                                         *)
(* An instant holds the values of all variables, the values they had at    *)
(* the last synchronisation, and the clocks, which all subspaces share.    *)
(***************************************************************************)
EXTENDS DecompositionalVerification

Instant == [x : Product, x0 : NoDependencies(ha), clock : [0..par.clockCount - 1 -> Nat]]

(* What a subspace sees of an instant.                                    *)
ValuationOf(i, s) ==
  IF s \in Clocked(ha) /\ par.clockCount > 0
  THEN [x |-> i.x[s], x0 |-> i.x0[s], clock |-> i.clock]
  ELSE AddClocksAndInitial(i.x[s], 0)

IsIn(i, sets) == \A s \in Subspace : ValuationOf(i, s) \in sets[s]

ClocksAtMost(i, latest) == \A k \in 0..par.clockCount - 1 : i.clock[k] <= latest

MeetsInvariant(i, l) == \A s \in Subspace : i.x[s] \in ha.invariant[l][s]

Elapsed(i, l) ==
  [x |-> [s \in Subspace |-> ha.flow[s][l][i.x[s]]], x0 |-> i.x0,
   clock |-> [k \in 0..par.clockCount - 1 |-> i.clock[k] + 1]]

Jumped(i, t) ==
  [x |-> [s \in Subspace |-> ha.transition[t].reset[s][i.x[s]]], x0 |-> i.x0, clock |-> i.clock]

CanTake(i, t) ==
  /\ \A s \in Subspace : i.x[s] \in ha.transition[t].guard[s]
  /\ MeetsInvariant(Jumped(i, t), ha.transition[t].target)

IsGood(i, l) ==
  \A bad \in CollectBadStates(l) : \E s \in Subspace : i.x[s] \notin bad[s]

(* An instant at which node n can be entered, at most horizon time steps  *)
(* after each jump before.                                                *)
IsEntry(i, n) ==
  /\ i \in Instant
  /\ IsIn(i, nodes[n].sets)
  /\ i.x0 \in nodes[n].dependencies
  /\ ClocksAtMost(i, nodes[n].depth * par.horizon)

(* The instants of a stay in node n that lasts some time steps.           *)
IsStay(g, steps, n) ==
  /\ steps \in 0..par.horizon
  /\ IsEntry(g[0], n)
  /\ \A k \in 0..steps : MeetsInvariant(g[k], nodes[n].location)
  /\ \A k \in 1..steps : g[k] = Elapsed(g[k - 1], nodes[n].location)

(* The same valuation of the variables, perhaps with new clocks.          *)
LandsIn(i, t, n) ==
  /\ nodes[n].location = ha.transition[t].target
  /\ \E j : IsEntry(j, n) /\ j.x = Jumped(i, t).x

HasChildFor(i, t, n) ==
  \E c \in DOMAIN nodes : nodes[c].depth = nodes[n].depth + 1 /\ LandsIn(i, t, c)

(* All that can happen in node n has been looked at.                      *)
IsDone(n) ==
  \A steps \in Nat : \A g : IsStay(g, steps, n) =>
    /\ IsGood(g[steps], nodes[n].location)
    /\ nodes[n].depth < par.jumpDepth =>
         \A t \in TransitionsFrom(ha, nodes[n].location) :
           CanTake(g[steps], t) => HasChildFor(g[steps], t, n)

(* A segmented subspace has a segment for every time step.                *)
SegmentAt(s, steps) == IF s \in Segmented THEN steps + 1 ELSE 1

Holds(fp, s, steps, i) ==
  SegmentAt(s, steps) \in DOMAIN fp[s] /\ ValuationOf(i, s) \in fp[s][SegmentAt(s, steps)]

StayIsCovered(g, steps) ==
  /\ \A s \in Subspace : Holds(flowpipe, s, steps, g[steps])
  /\ \A s \in Singular : Holds(workerFlowpipe, s, steps, g[steps])

(* A successor still to be added, or one that was.                        *)
IsPending(i, t) ==
  \E k \in DOMAIN pending :
    /\ pending[k].transition = t
    /\ IsIn(Jumped(i, t), pending[k].sets)
    /\ i.x0 \in dependencies

StayIsLeft(g, steps) ==
  \A t \in TransitionsFrom(ha, current.location) :
    CanTake(g[steps], t) => IsPending(g[steps], t) \/ HasChildFor(g[steps], t, task.node)

(* Where the loop stands with its node.                                   *)
StageInv ==
  \A steps \in Nat : \A g : IsStay(g, steps, task.node) =>
    /\ pc \in {"clock", "safety", "jumps"} => StayIsCovered(g, steps)
    /\ pc \in {"jumps", "children"} => IsGood(g[steps], current.location)
    /\ pc = "children" => StayIsLeft(g, steps)

Busy == pc \in {"time", "clock", "safety", "jumps", "children"}

IsOpen(n) ==
  \/ \E k \in DOMAIN workQueue : workQueue[k].node = n
  \/ Busy /\ task.node = n

ControlInv ==
  /\ Busy => task \in EntryType
  /\ pc \in {"time", "clock", "safety", "jumps"} => dependencies = current.dependencies
  /\ pc \in {"jumps", "children"} => current.depth < par.jumpDepth
  /\ pc \in {"clock", "safety", "jumps"} => \A s \in Discrete : flowpipe[s] # << >>
  /\ pc = "done" <=> result # "none"
  /\ result = "success" => workQueue = << >>
  /\ \A n \in DOMAIN nodes : nodes[n].depth <= par.jumpDepth

RootInv ==
  /\ nodes # << >>
  /\ nodes[1].location = ha.initial.loc /\ nodes[1].depth = 0
  /\ \A p \in Composed(ha.initial.set) : \E i : IsEntry(i, 1) /\ i.x = p

CoverInv ==
  result # "failure" => \A n \in DOMAIN nodes : IsDone(n) \/ IsOpen(n)

AnalysisInv == TypeOK /\ ControlInv /\ RootInv /\ CoverInv /\ (Busy => StageInv)

(* The run follows a stay in a node.                                      *)
IsFollowed(r) ==
  /\ r \in [location : Location, valuation : Product, steps : Nat, jumps : Nat,
            path : Seq(Nat), earliest : Int, latest : Int]
  /\ \E n \in DOMAIN nodes : \E g :
       /\ IsStay(g, r.steps, n)
       /\ r.location = nodes[n].location
       /\ r.jumps = nodes[n].depth
       /\ r.valuation = g[r.steps].x

RunInv == run # ProductRun!NoRun => result = "success" /\ IsFollowed(run)

--------------------------------------------------------------------------
(* What the code takes for granted.                                       *)

(* The worker of a segmented subspace reports the clock times of its      *)
(* first and of its last segment, and the flowpipe ends where the common  *)
(* times do, "because they have higher clock values"                      *)
(* (DecompositionalAnalyzer.tpp:172): no segment in between has a clock   *)
(* time outside.                                                          *)
TimesAreBracketed ==
  pc = "clock" =>
    \A s \in Segmented : \A k \in 1..MinSegments :
      GetClockValues(flowpipe[s][k], par) \subseteq SatisfyingTime(s)

(* After a synchronisation no successor follows that the dependencies of  *)
(* the synchronised one would be used for.                                *)
NothingOverwritten ==
  pc = "children" /\ ClocksAreUsedUp /\ pending # << >> /\ ~HasEmptySet(Head(pending).sets) =>
    \A k \in 2..Len(pending) : HasEmptySet(pending[k].sets)

(* Initial states satisfy the invariant.                                  *)
StartsInInvariant ==
  \A s \in Subspace : ha.initial.set[s] \subseteq ha.invariant[ha.initial.loc][s]

(* The clock times of the successors of a jump are intervals, as those of *)
(* convex sets are.                                                       *)
HasNoGaps(S) == \A p \in GetClockValues(S, par) : \E v \in S : v.clock[p[1]] = p[2]

SuccessorsHaveNoGaps ==
  pc = "jumps" =>
    /\ \A t \in TransitionsFrom(ha, current.location), s \in Singular : HasNoGaps(SingularSuccessor(t, s))
    /\ \A j \in Jumps, s \in Segmented : HasNoGaps(SegmentedSuccessor(j[1], s, Block(j[1], j[2])))

(* All of it, of every state of the analyses that are checked: the clock  *)
(* times that the analyzer unites, the dependencies that it keeps and the *)
(* clock intervals of its successors lose nothing there.                  *)
TakenForGranted ==
  TimesAreBracketed /\ NothingOverwritten /\ StartsInInvariant /\ SuccessorsHaveNoGaps

--------------------------------------------------------------------------
(* Why the first segments exist.  All clocks of a valuation agree: they   *)
(* are set to zero together and no jump resets one of them.               *)
HasEqualClocks(S) == \A v \in S : \A k, m \in DOMAIN v.clock : v.clock[k] = v.clock[m]

(* What one clocked subspace can be at a time, every other one can, too.  *)
HaveCommonTimes(sets) ==
  \A s, u \in Clocked(ha) : \A v \in sets[s] : \E w \in sets[u] : w.clock = v.clock

IsAligned(sets, l) ==
  /\ \A s \in Clocked(ha) : HasEqualClocks(sets[s])
  /\ HasEmptySet(sets) \/ HaveCommonTimes(sets)
  /\ \A s \in Subspace : \A v \in sets[s] : v.x \in ha.invariant[l][s]

AlignedInv ==
  /\ \A n \in DOMAIN nodes : IsAligned(nodes[n].sets, nodes[n].location)
  /\ pc = "children" => \A k \in DOMAIN pending :
       IsAligned(pending[k].sets, ha.transition[pending[k].transition].target)
  /\ Busy => ~HasEmptySet(current.sets)
  /\ pc \in {"clock", "safety", "jumps"} => \A s \in Subspace :
       /\ \A k \in DOMAIN flowpipe[s] : HasEqualClocks(flowpipe[s][k])
       /\ \A k \in DOMAIN workerFlowpipe[s] : HasEqualClocks(workerFlowpipe[s][k])
  /\ pc = "clock" => \A s \in Subspace : flowpipe[s] # << >> /\ current.sets[s] \subseteq flowpipe[s][1]
  /\ FirstSegmentsExist
=============================================================================
