---------------------------- MODULE ReachTree ----------------------------
(***************************************************************************)
(* The reach tree (datastructures/reachability/ReachTreev2.h, .tpp and     *)
(* TreeNodev2.h).  Nodes are numbered in the order of their creation; what *)
(* never changes of a node is a record of the sequence nodes, and its      *)
(* flowpipe and fixed-point flag are kept apart, indexed by the node.      *)
(***************************************************************************)
EXTENDS LTIWorker

Root == 0      \* the parent of a root, and the transition that led to it

TriBool == {"TRUE", "FALSE", "NSET"}

NodeType ==
  [location : Location, parent : Nat, transition : Nat, depth : Nat,
   initialSet : SUBSET Point, lower : Int, upper : Int]

(* makeRoots: one root for each initial state, entered at time 0.         *)
MakeRoots(A) ==
  [i \in DOMAIN A.initial |->
     [location |-> A.initial[i].loc, parent |-> Root, transition |-> Root, depth |-> 0,
      initialSet |-> Over[A.initial[i].set], lower |-> 0, upper |-> 0]]

Roots(nodes) == {n \in DOMAIN nodes : nodes[n].parent = Root}

Children(nodes, n) == {c \in DOMAIN nodes : nodes[c].parent = n}

(* addChild                                                               *)
ChildNode(A, nodes, n, set, lower, upper, t) ==
  [location |-> A.transition[t].target, parent |-> n, transition |-> t,
   depth |-> nodes[n].depth + 1, initialSet |-> set, lower |-> lower, upper |-> upper]

AncestorsOrSelf(nodes, n) ==
  LET up[m \in DOMAIN nodes] ==
        IF nodes[m].parent = Root THEN {m} ELSE {m} \cup up[nodes[m].parent]
  IN  up[n]

(* getPath: timings and transition of every jump from the root to n.      *)
Path(nodes, n) ==
  LET path[m \in DOMAIN nodes] ==
        IF nodes[m].parent = Root THEN << >>
        ELSE Append(path[nodes[m].parent],
                    [lower |-> nodes[m].lower, upper |-> nodes[m].upper,
                     transition |-> nodes[m].transition])
  IN  path[n]

(* setFixedPoint: sets the flag of n, then marks the parent while all the *)
(* children it has at this moment are marked, and so on up the tree.      *)
SetFixedPoint(nodes, flag, n, value) ==
  LET onPath == AncestorsOrSelf(nodes, n)
      above == onPath \ {n}
      allChildrenMarked(a) ==
        \A c \in Children(nodes, a) : c \in onPath \/ flag[c] = "TRUE"
      marked == {a \in above : \A b \in above :
                   nodes[b].depth >= nodes[a].depth => allChildrenMarked(b)}
  IN  [m \in DOMAIN flag |->
         IF m = n THEN value
         ELSE IF value = "TRUE" /\ m \in marked THEN "TRUE"
         ELSE flag[m]]
=============================================================================
