-------------------------- MODULE IntervalVector --------------------------
(***************************************************************************)
(* HierarchicalIntervalVector and the functions of HIV_util.h              *)
(* (datastructures/reachability/timing): the types of a time span as a     *)
(* list of end points, each with the type of the time up to it.  Intervals *)
(* are closed.                                                             *)
(***************************************************************************)
EXTENDS Ordering, SequencesExt

CONSTANTS
  Order,     \* mOrder
  Horizon,   \* bound on end times
  Others     \* vectors to merge or unite with, as lists of end points

VARIABLE intervals   \* mIntervals

Times == 0..Horizon
Type == {Order[i] : i \in DOMAIN Order}

EndPointType == [type : Type, timePoint : Times]

ASSUME HorizonAssumption == Horizon \in Nat

ASSUME OrderAssumption ==
  Order \in Seq(Type) /\ \A i, j \in DOMAIN Order : Order[i] = Order[j] => i = j

TimePoint(s, k) == s[k].timePoint
Previous(s, k) == s[k - 1].timePoint
Begin(s, k) == IF k = 1 THEN 0 ELSE Previous(s, k)

(* isSane, and the order the operations rely on: end points of the same   *)
(* type are never neighbours, time points increase except that the first  *)
(* may be zero and the last two may coincide.                             *)
IsSane(s) ==
  /\ s \in Seq(EndPointType)
  /\ \A k \in 2..Len(s) :
       /\ s[k].type # s[k - 1].type
       /\ \/ Previous(s, k) < TimePoint(s, k)
          \/ Previous(s, k) = TimePoint(s, k) /\ k = Len(s)

(* Every operation of a vector asserts that it is sane.                   *)
ASSUME OthersAssumption == \A s \in Others : IsSane(s)

Init == intervals = << >>

--------------------------------------------------------------------------
IsLess(order, lhs, rhs) == \E i, j \in DOMAIN order : i < j /\ order[i] = lhs /\ order[j] = rhs

Interval(lower, upper) == [lower |-> lower, upper |-> upper]

(* A mutant: what lies behind the new interval is changed as well.        *)
SplitToTheEnd(order, s, k, type, lower, upper) ==
  LET entry == s[k]
  IN  IF entry.timePoint <= lower \/ ~IsLess(order, entry.type, type) THEN <<entry>>
      ELSE IF lower > 0 /\ (k = 1 \/ Previous(s, k) < lower)
      THEN <<[entry EXCEPT !.timePoint = lower], [entry EXCEPT !.type = type]>>
      ELSE <<[entry EXCEPT !.type = type]>>

(* What becomes of the k-th end point: it stays as it is, or its time is  *)
(* split on the left, on the right or on both sides of the new interval.  *)
Split(order, s, k, type, lower, upper) ==
  LET entry == s[k]
      skipped == entry.timePoint <= lower
      done == k > 1 /\ Previous(s, k) >= upper
      left == IF lower > 0 /\ (k = 1 \/ Previous(s, k) < lower)
              THEN <<[entry EXCEPT !.timePoint = lower]>> ELSE << >>
      rest == IF left # << >> /\ lower >= upper THEN <<entry>>
              ELSE IF upper >= entry.timePoint THEN <<[entry EXCEPT !.type = type]>>
              ELSE <<[type |-> type, timePoint |-> upper], entry>>
  IN  IF skipped \/ done \/ ~IsLess(order, entry.type, type) THEN <<entry>> ELSE left \o rest

(* A mutant: nothing is erased.                                           *)
Unsanitized(s) == s

(* An end point is erased if the next one has the same type.              *)
Sanitized(s) ==
  LET kept == Ascending({k \in DOMAIN s : k = Len(s) \/ s[k + 1].type # s[k].type})
  IN  [i \in DOMAIN kept |-> s[kept[i]]]

InsertInterval(order, s, type, lower, upper) ==
  Sanitized(FlattenSeq([k \in DOMAIN s |-> Split(order, s, k, type, lower, upper)]))

FillFrom(s, type, start) ==
  LET end == Last(s).timePoint
      k == CHOOSE k \in DOMAIN s :
             s[k].timePoint >= start /\ \A j \in 1..k - 1 : s[j].timePoint < start
      boundary == IF s[k].type = type THEN << >> ELSE <<[s[k] EXCEPT !.timePoint = start]>>
  IN  IF start > end THEN s
      ELSE SubSeq(s, 1, k - 1) \o boundary \o <<[type |-> type, timePoint |-> end]>>

(* All intervals of another vector, one after the other.                  *)
InsertAll(order, s, other) ==
  LET inserted[n \in 0..Len(other)] ==
        IF n = 0 THEN s
        ELSE InsertInterval(order, inserted[n - 1], other[n].type, Begin(other, n), TimePoint(other, n))
  IN  inserted[Len(other)]

(* The method merge and the function merge({this, other}).                *)
Merged(s, other) == InsertAll(Order, s, other)

(* unite({this, other}): the order of the types is reversed meanwhile.    *)
United(s, other) == InsertAll(Reverse(Order), s, other)

--------------------------------------------------------------------------
Initialize(type, end) == intervals' = <<[type |-> type, timePoint |-> end]>>

Insert(type, lower, upper) ==
  /\ intervals # << >>
  /\ intervals' = InsertInterval(Order, intervals, type, lower, upper)

Fill(type, start) ==
  /\ intervals # << >>
  /\ intervals' = FillFrom(intervals, type, start)

Merge(other) ==
  /\ intervals # << >>
  /\ intervals' = Merged(intervals, other)

Unite(other) ==
  /\ intervals # << >>
  /\ intervals' = United(intervals, other)

Next ==
  \/ \E type \in Type, end \in Times \ {0} : Initialize(type, end)
  \/ \E type \in Type, lower, upper \in Times : lower <= upper /\ Insert(type, lower, upper)
  \/ \E type \in Type, start \in Times : Fill(type, start)
  \/ \E other \in Others : Merge(other)
  \/ \E other \in Others : Unite(other)

Spec == Init /\ [][Next]_intervals

--------------------------------------------------------------------------
(* Queries.                                                               *)

(* getIntersectionIntervals: the end points of a type whose time meets the *)
(* interval, and what they have in common with it.                        *)
MeetingEntries(s, iv, type) ==
  {k \in DOMAIN s :
     /\ s[k].type = type
     /\ TimePoint(s, k) >= iv.lower
     /\ k = 1 \/ Previous(s, k) <= iv.upper}

Intersection(s, iv, k) ==
  Interval(Max({Begin(s, k), iv.lower}), Min({TimePoint(s, k), iv.upper}))

HasEntry(s, iv, type) == MeetingEntries(s, iv, type) # {}

(* A mutant: a later interval must end behind the start of the given one. *)
IntersectsEntryStrictly(s, iv, type) ==
  \E k \in DOMAIN s :
    /\ s[k].type = type
    /\ IF k = 1 THEN TimePoint(s, k) >= iv.upper
       ELSE TimePoint(s, k) > iv.lower /\ Previous(s, k) <= iv.upper

(* The first interval only counts if it ends behind the given one.        *)
IntersectsEntry(s, iv, type) ==
  \E k \in DOMAIN s :
    /\ s[k].type = type
    /\ IF k = 1 THEN TimePoint(s, k) >= iv.upper
       ELSE TimePoint(s, k) >= iv.lower /\ Previous(s, k) <= iv.upper

(* A mutant: an entry must begin before the interval.                     *)
CoversEntryStrictly(s, iv, type) ==
  \E k \in DOMAIN s :
    /\ s[k].type = type
    /\ TimePoint(s, k) >= iv.upper
    /\ k = 1 \/ Previous(s, k) < iv.lower

CoversEntry(s, iv, type) ==
  \E k \in DOMAIN s :
    /\ s[k].type = type
    /\ TimePoint(s, k) >= iv.upper
    /\ k = 1 \/ Previous(s, k) <= iv.lower

--------------------------------------------------------------------------
(* The vector stays sane, whatever is inserted into it or filled.         *)
Canonical == IsSane(intervals)

TypeAt(s, c) == s[CHOOSE k \in DOMAIN s : Begin(s, k) <= c /\ c < TimePoint(s, k)].type

TimelineOf(s) ==
  [c \in 0..(IF s = << >> THEN 0 ELSE Last(s).timePoint) - 1 |-> TypeAt(s, c)]

Abstraction == INSTANCE Timeline WITH
  timeline <- TimelineOf(intervals), Others <- {TimelineOf(s) : s \in Others}

(* Every operation does to the timeline what it is called for, with the   *)
(* same arguments: inserting lets the prevailing type win and changes     *)
(* nothing else, merging keeps the higher of two types everywhere, uniting *)
(* the lower, whatever splits and erasures that takes.                    *)
OperationsAreExact == intervals # << >> =>
  /\ \A type \in Type, lower, upper \in Times :
       lower <= upper => TimelineOf(InsertInterval(Order, intervals, type, lower, upper)) =
                         Abstraction!Inserted(type, lower, upper)
  /\ \A type \in Type, start \in Times :
       TimelineOf(FillFrom(intervals, type, start)) = Abstraction!Filled(type, start)
  /\ \A other \in Others :
       /\ TimelineOf(Merged(intervals, other)) =
          Abstraction!Combined(TimelineOf(other), Abstraction!Higher)
       /\ TimelineOf(United(intervals, other)) =
          Abstraction!Combined(TimelineOf(other), Abstraction!Lower)

Queries == {Interval(lower, upper) : lower, upper \in Times}

Within(s, iv) == s # << >> /\ iv.lower <= iv.upper /\ iv.upper <= Last(s).timePoint

(* fullCover asserts that the vector covers an interval exactly if the    *)
(* one time of that type that meets it is all of it (HIV_util.h:72, 75);  *)
(* and what it covers is of that type throughout.                         *)
CoverIsExact ==
  \A type \in Type, iv \in Queries :
    LET meeting == MeetingEntries(intervals, iv, type)
        covers == CoversEntry(intervals, iv, type)
    IN  Within(intervals, iv) =>
          /\ covers <=> \E k \in meeting : meeting = {k} /\ Intersection(intervals, iv, k) = iv
          /\ iv.lower < iv.upper =>
               (covers <=> \A c \in iv.lower..iv.upper - 1 : TypeAt(intervals, c) = type)

(* intersectsEntry asserts that it finds an entry exactly if there is a   *)
(* common interval (HierarchicalIntervalVector.tpp:145, 153, 158, 165).   *)
(* That is so unless the query begins in the first interval and ends      *)
(* behind it: then a first interval of the type asked for is overlooked.  *)
IntersectionIsFound ==
  \A type \in Type, iv \in Queries :
    /\ Within(intervals, iv)
    /\ iv.upper <= TimePoint(intervals, 1) \/ TimePoint(intervals, 1) < iv.lower
    => (IntersectsEntry(intervals, iv, type) <=> HasEntry(intervals, iv, type))
=============================================================================
