---------------------------- MODULE CapacityCurve ----------------------------
(***************************************************************************)
(* Capacity curves (domain::capacity_curve): sequences of segments         *)
(* [from, to, capacity], ordered, disjoint and without neighbours that     *)
(* could be one segment.  The capacity of every other moment is zero.      *)
(***************************************************************************)
EXTENDS Integers, FiniteSets, SequencesExt

CONSTANTS
  MaxQuantity,  \* MAX_QUANTITY
  Rejected      \* a curve that the constructors refuse

\* The members of a finite set of integers, in their order.
Listed(S) ==
  [k \in 1 .. Cardinality(S) |-> CHOOSE n \in S : Cardinality({m \in S : m <= n}) = k]

Overlaps(i, j) == i.from < j.to /\ j.from < i.to

\* A segment joins the one before it if they touch and are equally high.
\* Mutant of Joins: a gap between them is closed.
JoinsOverGap(left, s) == left.capacity = s.capacity
Joins(left, s) == left.to = s.from /\ left.capacity = s.capacity

\* Runs of segments that join are one segment each, up to the end of the run.
NormalizeSorted(segments) ==
  LET starts == Listed({k \in DOMAIN segments : k > 1 => ~Joins(segments[k - 1], segments[k])})
      RunEnd(j) == IF j = Len(starts) THEN Len(segments) ELSE starts[j + 1] - 1
  IN  [j \in DOMAIN starts |-> [segments[starts[j]] EXCEPT !.to = segments[RunEnd(j)].to]]

FromSorted(segments) ==
  IF /\ \A k \in DOMAIN segments : segments[k].capacity <= MaxQuantity
     /\ \A k \in DOMAIN segments : k > 1 =>
          /\ segments[k - 1].from <= segments[k].from
          /\ ~Overlaps(segments[k - 1], segments[k])
  THEN NormalizeSorted(segments)
  ELSE Rejected

\* In the order from_unsorted sorts by.
Before(s, t) ==
  \/ s.from < t.from
  \/ s.from = t.from /\ s.to < t.to
  \/ s.from = t.from /\ s.to = t.to /\ s.capacity < t.capacity

\* The place of segment k in that order; equal segments stay as they are.
Place(segments, k) ==
  Cardinality({j \in DOMAIN segments :
                 \/ Before(segments[j], segments[k])
                 \/ ~Before(segments[k], segments[j]) /\ j <= k})

FromUnsorted(segments) ==
  FromSorted([n \in DOMAIN segments |->
                segments[CHOOSE k \in DOMAIN segments : Place(segments, k) = n]])

CapacityAt(curve, t) ==
  LET started == {k \in DOMAIN curve : curve[k].from <= t} IN
  IF started = {} THEN 0
  ELSE LET s == curve[Max(started)] IN IF t < s.to THEN s.capacity ELSE 0
==============================================================================
