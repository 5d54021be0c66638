----------------------------- MODULE Timeline -----------------------------
(***************************************************************************)
(* What a HierarchicalIntervalVector stands for: a type for every instant  *)
(* from zero to an end, where types are ordered and a later one in the     *)
(* order prevails.  Instants are told apart up to cells, cell c being the  *)
(* time from c to c + 1.                                                   *)
(***************************************************************************)
EXTENDS Integers, Sequences

CONSTANTS
  Order,     \* all types, the prevailing ones last
  Horizon,   \* latest end
  Others     \* timelines to combine with

VARIABLE timeline   \* a function from cells to types, empty at first

Times == 0..Horizon
Type == {Order[i] : i \in DOMAIN Order}
Rank(type) == CHOOSE i \in DOMAIN Order : Order[i] = type
Higher == [p \in Type \X Type |-> IF Rank(p[1]) < Rank(p[2]) THEN p[2] ELSE p[1]]
Lower == [p \in Type \X Type |-> IF Rank(p[1]) < Rank(p[2]) THEN p[1] ELSE p[2]]

Init == timeline = << >>

Initialize(type, end) == timeline' = [c \in 0..end - 1 |-> type]

Inserted(type, lower, upper) ==
  [c \in DOMAIN timeline |->
     IF lower <= c /\ c < upper THEN Higher[<<timeline[c], type>>] ELSE timeline[c]]

Filled(type, start) == [c \in DOMAIN timeline |-> IF c >= start THEN type ELSE timeline[c]]

(* The choice of one type at every instant both timelines cover.          *)
Combined(other, choice) ==
  [c \in DOMAIN timeline |-> IF c \in DOMAIN other THEN choice[<<timeline[c], other[c]>>] ELSE timeline[c]]

Next ==
  \/ \E type \in Type, end \in Times \ {0} : Initialize(type, end)
  \/ \E type \in Type, lower, upper \in Times :
       lower <= upper /\ timeline' = Inserted(type, lower, upper)
  \/ \E type \in Type, start \in Times : timeline' = Filled(type, start)
  \/ \E other \in Others : timeline' = Combined(other, Higher)
  \/ \E other \in Others : timeline' = Combined(other, Lower)

Spec == Init /\ [][Next]_timeline
=============================================================================
