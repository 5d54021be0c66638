------------------------- MODULE MCIntervalVector -------------------------
(***************************************************************************)
(* Vectors over three types and up to four units of time.                  *)
(***************************************************************************)
EXTENDS IntervalVector

CONSTANTS no, partial, full   \* the types

MCOrder == <<no, partial, full>>
MCType == {no, partial, full}
MCHorizon == 4

(* Other vectors: up to three intervals that end before the horizon or at *)
(* it, with first and last ones of no length among them.                  *)
MCOthers ==
  LET shapes == {<<2>>, <<4>>, <<0, 4>>, <<1, 2>>, <<2, 2>>, <<2, 4>>, <<1, 2, 2>>, <<1, 3, 4>>}
      typed(times) == {[i \in DOMAIN times |-> [type |-> types[i], timePoint |-> times[i]]] :
                         types \in [DOMAIN times -> MCType]}
  IN  {s \in UNION {typed(times) : times \in shapes} : IsSane(s)}
=============================================================================
