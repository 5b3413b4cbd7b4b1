---------------------------- MODULE SlackTimeline ----------------------------
(***************************************************************************)
(* The slack index of one pool (index::slack_timeline): the points at      *)
(* which slack changes, in blocks of bounded size.  A block keeps its      *)
(* extremes, and a delta not yet added to its points.                      *)
(*                                                                         *)
(* The engine does three things with an index: it consumes the quantity of *)
(* a claim, restores it, and builds the index anew from curve and claims.  *)
(***************************************************************************)
EXTENDS CapacityCurve, FiniteSetsExt, Sums

CONSTANTS
  Horizon,      \* time is 0 .. Horizon
  MaxPoints,    \* MAX_POINTS_PER_BLOCK
  MaxClaims,    \* how many claims may be active at once
  Claim,        \* the kinds of claims: a sequence of [from, to, quantity]
  Declaration   \* sequences of segments that a curve may be declared by

Slack == -MaxQuantity - 1 .. MaxQuantity
Time == 0 .. Horizon
Kind == DOMAIN Claim
Interval == {i \in [from : Time, to : Time] : i.from < i.to}

\* Interval::new rejects intervals without extent, Claim::new a quantity of zero.
ASSUME TimelineConstants ==
  /\ Horizon \in Nat /\ MaxPoints \in Nat \ {0} /\ MaxClaims \in Nat /\ MaxQuantity \in Nat
  /\ Claim \in Seq([from : Time, to : Time, quantity : 1 .. MaxQuantity])
  /\ \A k \in Kind : Claim[k].from < Claim[k].to
  /\ Declaration \subseteq Seq([from : Time, to : Time, capacity : Nat])
  /\ \A d \in Declaration : \A k \in DOMAIN d : d[k].from < d[k].to

VARIABLES
  blocks,   \* SlackTimeline::blocks
  curve,    \* the pool's capacity
  declared, \* the segments it was declared by
  claims,   \* how many claims of each kind are active
  outcome   \* of the last call: "Ok" or "SlackOverflow"

tvars == <<blocks, curve, declared, claims, outcome>>

Extremes == {"minimum", "maximum"}
Extreme(e, S) == IF e = "minimum" THEN Min(S) ELSE Max(S)

-----------------------------------------------------------------------------
(***************************************************************************)
(* Blocks.  A point is [at, slack]; without its block's delta, slack is    *)
(* what is stored.                                                         *)
(***************************************************************************)
Point(t, s) == [at |-> t, slack |-> s]
Values(points) == {points[i].slack : i \in DOMAIN points}

BlockOf(points) ==
  [points |-> points, delta |-> 0,
   minimum |-> Min(Values(points)), maximum |-> Max(Values(points))]

Effective(b) == [i \in DOMAIN b.points |-> [b.points[i] EXCEPT !.slack = @ + b.delta]]

\* Points that repeat the slack before them say nothing.
Distinct(points) ==
  LET kept == Listed({k \in DOMAIN points : k > 1 => points[k - 1].slack # points[k].slack})
  IN  [n \in DOMAIN kept |-> points[kept[n]]]

\* A timeline starts at zero.
\* Mutant of WithoutLeadingZero: a first point is kept whatever it says.
WithLeadingZero(points) == points
WithoutLeadingZero(points) ==
  IF points # <<>> /\ points[1].slack = 0 THEN Tail(points) ELSE points

\* SlackBlock::apply_delta.  A delta too large to be kept is added to the points.
\* Mutant of LazyDelta: the kept delta is dropped instead.
LazyDeltaDropped(b, d) ==
  [b EXCEPT !.delta = IF b.delta + d \in Slack THEN b.delta + d ELSE d,
            !.minimum = @ + d, !.maximum = @ + d]
\* Mutant of LazyDelta: the maximum is not moved.
LazyDeltaStale(b, d) == [b EXCEPT !.delta = @ + d, !.minimum = @ + d]
LazyDelta(b, d) ==
  [points |-> IF b.delta + d \in Slack THEN b.points ELSE Effective(b),
   delta |-> IF b.delta + d \in Slack THEN b.delta + d ELSE d,
   minimum |-> b.minimum + d, maximum |-> b.maximum + d]

\* SlackBlock::apply_delta_to_point_range, for the points from i up to but not j.
PointRangeDelta(b, i, j, d) ==
  IF i = j THEN b
  ELSE BlockOf(Distinct([k \in DOMAIN b.points |->
                           LET p == Effective(b)[k] IN
                           IF i <= k /\ k < j THEN [p EXCEPT !.slack = @ + d] ELSE p]))

-----------------------------------------------------------------------------
(***************************************************************************)
(* Reading a sequence of blocks.                                           *)
(***************************************************************************)
\* The block, and the point of a block, in force at time t; 0 before the first.
HomeOf(bs, t) == Cardinality({k \in DOMAIN bs : bs[k].points[1].at <= t})
PointOf(b, t) == Cardinality({i \in DOMAIN b.points : b.points[i].at <= t})

SlackAt(bs, t) ==
  LET k == HomeOf(bs, t) IN
  IF k = 0 THEN 0 ELSE Effective(bs[k])[PointOf(bs[k], t)].slack

\* Whether the block lies within the interval, so that its extremes can stand for it.
\* Mutant of Inside: a block may reach the end of the interval.
InsideOrAtEnd(b, i) == i.from <= b.points[1].at /\ Last(b.points).at <= i.to
Inside(b, i) == i.from <= b.points[1].at /\ Last(b.points).at < i.to

\* slack_bound, by the values it takes the minimum or maximum of.
Sampled(bs, i, e) ==
  {SlackAt(bs, i.from)} \cup
  UNION {LET b == bs[k] IN
         IF Inside(b, i) THEN {b[e]}
         ELSE {p.slack : p \in {q \in ToSet(Effective(b)) : i.from < q.at /\ q.at < i.to}}
         : k \in DOMAIN bs}
SlackBound(bs, i, e) == Extreme(e, Sampled(bs, i, e))

EffectivePoints(bs) ==
  LET points[k \in 0 .. Len(bs)] ==
        IF k = 0 THEN <<>> ELSE points[k - 1] \o Effective(bs[k])
  IN  WithoutLeadingZero(Distinct(points[Len(bs)]))

\* Mutant of IsDeficit: capacity that is just used up is reported.
NotPositive(p) == p.slack <= 0
IsDeficit(p) == p.slack < 0

DeficitIntervals(bs) ==
  LET points == EffectivePoints(bs) IN
  {[from |-> points[k].at, to |-> points[k + 1].at, amount |-> -points[k].slack] :
     k \in {k \in 1 .. Len(points) - 1 : IsDeficit(points[k])}}

-----------------------------------------------------------------------------
(***************************************************************************)
(* SlackTimeline::apply_delta.                                             *)
(***************************************************************************)
\* Blocks in the place of block k that hold the given points.
\* Mutant of Split: a block may exceed its size by one.
SplitLate(bs, k, points) ==
  LET half == Len(points) \div 2 IN
  SubSeq(bs, 1, k - 1) \o
  (IF Len(points) <= MaxPoints + 1 THEN <<BlockOf(points)>>
   ELSE <<BlockOf(SubSeq(points, 1, half)), BlockOf(SubSeq(points, half + 1, Len(points)))>>)
  \o SubSeq(bs, k + 1, Len(bs))
Split(bs, k, points) ==
  LET half == Len(points) \div 2 IN
  SubSeq(bs, 1, k - 1) \o
  (IF Len(points) <= MaxPoints THEN <<BlockOf(points)>>
   ELSE <<BlockOf(SubSeq(points, 1, half)), BlockOf(SubSeq(points, half + 1, Len(points)))>>)
  \o SubSeq(bs, k + 1, Len(bs))

HasPoint(bs, t) == \E k \in DOMAIN bs : \E p \in ToSet(bs[k].points) : p.at = t

EnsureBoundary(bs, t) ==
  IF HasPoint(bs, t) THEN bs
  ELSE LET new == Point(t, SlackAt(bs, t))
           k == Max({1, HomeOf(bs, t)})
       IN  IF bs = <<>> THEN <<BlockOf(<<new>>)>>
           ELSE Split(bs, k, InsertAt(Effective(bs[k]), PointOf(bs[k], t) + 1, new))

\* Whole blocks take the delta lazily; the block of an end is never whole.
Changed(bs, i, d) ==
  LET first == HomeOf(bs, i.from)
      last == HomeOf(bs, i.to)
      from(k) == IF k = first THEN PointOf(bs[k], i.from) ELSE 1
      to(k) == IF k = last THEN PointOf(bs[k], i.to) ELSE Len(bs[k].points) + 1
  IN  [k \in DOMAIN bs |->
         IF k \notin first .. last THEN bs[k]
         ELSE IF k # last /\ from(k) = 1 THEN LazyDelta(bs[k], d)
         ELSE PointRangeDelta(bs[k], from(k), to(k), d)]

\* A block joins the one before it if there is room; until there is, it gives up first
\* points that repeat the slack before them.  Joining discards repetitions, too.
Absorb(done, b) ==
  IF done = <<>> THEN <<b>>
  ELSE LET left == Last(done)
           points == Effective(b)
           HasRoom(n) == Len(left.points) + Len(points) - n <= MaxPoints
           GivesUp(n) == points[n + 1].slack = Last(Effective(left)).slack
           given == Min({n \in 0 .. Len(points) : n < Len(points) => HasRoom(n) \/ ~GivesUp(n)})
           rest == SubSeq(points, given + 1, Len(points))
       IN  IF rest = <<>> THEN done
           ELSE IF HasRoom(given)
           THEN Append(Front(done), BlockOf(Distinct(Effective(left) \o rest)))
           ELSE Append(done, IF given = 0 THEN b ELSE BlockOf(rest))

\* The loop that combines neighbours, after the first block was put in order.
NormalizeAndRebalance(bs) ==
  LET points == WithoutLeadingZero(Effective(bs[1]))
      ordered == (IF points = <<>> THEN <<>> ELSE <<BlockOf(points)>>) \o Tail(bs)
      done[k \in 0 .. Len(ordered)] ==
        IF k = 0 THEN <<>> ELSE Absorb(done[k - 1], ordered[k])
  IN  done[Len(ordered)]

Fits(bs, i, d) == \A e \in Extremes : SlackBound(bs, i, e) + d \in Slack

ApplyDelta(bs, i, d) ==
  NormalizeAndRebalance(Changed(EnsureBoundary(EnsureBoundary(bs, i.to), i.from), i, d))

-----------------------------------------------------------------------------
(***************************************************************************)
(* SlackTimeline::from_capacity_and_claims.                                *)
(***************************************************************************)
\* What the curve says anew at time t; a start has precedence over an end.
\* Mutant of CapacityEvent: the end has precedence.
CapacityEventEnd(c, t, before) ==
  IF \E k \in DOMAIN c : c[k].to = t THEN 0
  ELSE IF \E k \in DOMAIN c : c[k].from = t
       THEN c[CHOOSE k \in DOMAIN c : c[k].from = t].capacity
       ELSE before
CapacityEvent(c, t, before) ==
  IF \E k \in DOMAIN c : c[k].from = t
  THEN c[CHOOSE k \in DOMAIN c : c[k].from = t].capacity
  ELSE IF \E k \in DOMAIN c : c[k].to = t THEN 0 ELSE before

\* Quantities, as often as they are claimed, of the kinds in S.
Total(active, S) ==
  SumTo([k \in Kind |-> IF k \in S THEN active[k] * Claim[k].quantity ELSE 0], Len(Claim))
Started(active, t) == Total(active, {k \in Kind : Claim[k].from = t})
Ended(active, t) == Total(active, {k \in Kind : Claim[k].to = t})

\* The points at the times of all events.  Capacity and usage are carried from event to
\* event; at other times, neither changes.
RebuiltPoints(c, active) ==
  LET times == UNION ({{s.from, s.to} : s \in ToSet(c)} \cup
                      {{Claim[k].from, Claim[k].to} : k \in {k \in Kind : active[k] > 0}})
      scan[t \in Time] ==
        LET before == IF t = 0 THEN [capacity |-> 0, usage |-> 0, points |-> <<>>] ELSE scan[t - 1]
            capacity == CapacityEvent(c, t, before.capacity)
            usage == before.usage - Ended(active, t) + Started(active, t)
        IN  [capacity |-> capacity, usage |-> usage,
             points |-> before.points \o
                          (IF t \in times THEN <<Point(t, capacity - usage)>> ELSE <<>>)]
  IN  scan[Horizon].points

Chunks(points) ==
  [k \in 1 .. (Len(points) + MaxPoints - 1) \div MaxPoints |->
     BlockOf(SubSeq(points, (k - 1) * MaxPoints + 1, Min({k * MaxPoints, Len(points)})))]

Rebuilt(c, active) == Chunks(WithoutLeadingZero(Distinct(RebuiltPoints(c, active))))
Representable(c, active) == Values(RebuiltPoints(c, active)) \subseteq Slack

-----------------------------------------------------------------------------
TInit ==
  /\ blocks = <<>> /\ curve = <<>> /\ declared = <<>> /\ claims = [k \in Kind |-> 0]
  /\ outcome = "Ok"

Overflow == outcome' = "SlackOverflow" /\ UNCHANGED <<blocks, curve, declared, claims>>

Claimed(k) ==
  /\ claims' = [claims EXCEPT ![k] = @ + 1] /\ outcome' = "Ok"
  /\ UNCHANGED <<curve, declared>>

MayClaim == SumTo(claims, Len(Claim)) < MaxClaims

\* The windows of an interval, in order of time.
Windows(bs, i) ==
  LET cuts == {i.from, i.to} \cup
              {p.at : p \in {q \in ToSet(EffectivePoints(bs)) : i.from < q.at /\ q.at < i.to}}
      order == Listed(cuts)
  IN  [k \in 1 .. Len(order) - 1 |-> [from |-> order[k], to |-> order[k + 1]]]

\* The whole claim at once, as restored_timelines gives it back.
Consume(k) ==
  LET c == Claim[k] IN
  /\ MayClaim
  /\ \/ /\ Fits(blocks, c, -c.quantity)
        /\ blocks' = ApplyDelta(blocks, c, -c.quantity)
        /\ Claimed(k)
     \/ ~Fits(blocks, c, -c.quantity) /\ Overflow

\* Window by window, as admission takes it: cut where slack changes.
Admit(k) ==
  LET c == Claim[k]
      windows == Windows(blocks, c)
      taken[n \in 0 .. Len(windows)] ==
        IF n = 0 THEN blocks ELSE ApplyDelta(taken[n - 1], windows[n], -c.quantity)
  IN
  /\ MayClaim
  /\ Fits(blocks, c, -c.quantity)
  /\ blocks' = taken[Len(windows)]
  /\ Claimed(k)

Restore(k) ==
  LET c == Claim[k] IN
  /\ claims[k] > 0
  /\ \/ /\ Fits(blocks, c, c.quantity)
        /\ blocks' = ApplyDelta(blocks, c, c.quantity)
        /\ claims' = [claims EXCEPT ![k] = @ - 1]
        /\ outcome' = "Ok" /\ UNCHANGED <<curve, declared>>
     \/ ~Fits(blocks, c, c.quantity) /\ Overflow

\* A pool is created, its capacity revised, or its index rebuilt by recovery.
Rebuild(segments) ==
  LET c == FromUnsorted(segments) IN
  /\ c # Rejected
  /\ \/ /\ Representable(c, claims)
        /\ curve' = c /\ declared' = segments /\ blocks' = Rebuilt(c, claims)
        /\ outcome' = "Ok" /\ UNCHANGED claims
     \/ ~Representable(c, claims) /\ Overflow

TNext ==
  \/ \E k \in Kind : Consume(k)
  \/ \E k \in Kind : Admit(k)
  \/ \E k \in Kind : Restore(k)
  \/ \E d \in Declaration : Rebuild(d)
  \/ Rebuild(declared)

TSpec == TInit /\ [][TNext]_tvars

-----------------------------------------------------------------------------
(***************************************************************************)
(* Properties.  The reference is slack cell by cell: capacity less the     *)
(* claims in force.                                                        *)
(***************************************************************************)
Reference(t) ==
  CapacityAt(curve, t) - Total(claims, {k \in Kind : Claim[k].from <= t /\ t < Claim[k].to})

\* Blocks are of legal size, their points in order of time across blocks, extremes and
\* deltas representable, and the extremes those of the points with the delta added
\* (the test suite's assert_timeline_invariants).
TTypeOK ==
  /\ \A k \in DOMAIN blocks :
       LET b == blocks[k]
           effective == Values(Effective(b))
       IN  /\ Len(b.points) \in 1 .. MaxPoints
           /\ Values(b.points) \subseteq Slack /\ b.delta \in Slack
           /\ b.minimum = Min(effective) /\ b.maximum = Max(effective)
           /\ effective \subseteq Slack
  /\ \A k, l \in DOMAIN blocks : \A i \in DOMAIN blocks[k].points, j \in DOMAIN blocks[l].points :
       k < l \/ (k = l /\ i < j) => blocks[k].points[i].at < blocks[l].points[j].at
  /\ outcome \in {"Ok", "SlackOverflow"}

\* Sorting and joining segments changes nothing of the capacity they declare, and leaves
\* no two that touch and are equally high.
CurveIsAsDeclared ==
  /\ \A t \in Time :
       LET inForce == {k \in DOMAIN declared : declared[k].from <= t /\ t < declared[k].to} IN
       /\ inForce = {} => CapacityAt(curve, t) = 0
       /\ \A k \in inForce : CapacityAt(curve, t) = declared[k].capacity
  /\ \A k \in 2 .. Len(curve) : ~Joins(curve[k - 1], curve[k])

\* However lazily deltas were added, blocks split and joined, slack_at answers as if
\* the index had been computed from curve and claims at that time.
IndexIsExact == \A t \in Time : SlackAt(blocks, t) = Reference(t)

\* minimum_slack and maximum_slack, which use the extremes of whole blocks, are the
\* extremes of the reference in the half-open interval.
BoundsAreExact ==
  LET slack == [t \in Time |-> Reference(t)] IN
  \A i \in Interval, e \in Extremes :
    SlackBound(blocks, i, e) = Extreme(e, {slack[t] : t \in i.from .. i.to - 1})

\* deficit_intervals cuts the times of negative slack into the longest stretches of
\* equal deficit.
DeficitsAreExact ==
  LET slack == [t \in Time |-> Reference(t)] IN
  DeficitIntervals(blocks) =
    {[from |-> i.from, to |-> i.to, amount |-> -slack[i.from]] :
       i \in {i \in Interval :
                /\ slack[i.from] < 0
                /\ \A t \in i.from .. i.to - 1 : slack[t] = slack[i.from]
                /\ i.from = 0 \/ slack[i.from - 1] # slack[i.from]
                /\ slack[i.to] # slack[i.from]}}

\* Updates leave the points a rebuild would give: what a replica that recovered and one
\* that ran on tell of a pool does not depend on its history.
UpdatesMatchRebuild ==
  EffectivePoints(blocks) = EffectivePoints(Rebuilt(curve, claims))

\* Giving back what was taken cannot fail, in particular not in the middle of the
\* expirations of a command (restored_timelines).
RestoreNeverFails ==
  \A k \in Kind : claims[k] > 0 => Fits(blocks, Claim[k], Claim[k].quantity)
==============================================================================
