--------------------------- MODULE MCWorkQueues ---------------------------
(* Instances of WorkQueues for TLC: two queues, the first for             *)
(* refinements, and five tasks.                                           *)
EXTENDS WorkQueues

MCTask == 1..5

Call(q, t, end) == [queue |-> q, task |-> t, end |-> end]

MCInitial == << << >>, << 1, 2 >> >>

(* Task 3 goes to the first queue, from two tasks; 4 is created by two     *)
(* tasks as well; 5 is pushed to the front by one and enqueued by another. *)
MCChildren ==
  << << Call(1, 3, "back"), Call(2, 4, "back") >>,
     << Call(2, 4, "back"), Call(2, 5, "front") >>,
     << Call(2, 5, "back") >>, << Call(1, 3, "back") >>, << >> >>
=============================================================================
