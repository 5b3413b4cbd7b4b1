-------------------------- MODULE MCPromiseEngine --------------------------
(***************************************************************************)
(* Small instances of PromiseEngine.  A bundle is a sequence of claims     *)
(* [pool, from, to, quantity]; its demand and boundaries are computed from *)
(* the claims by Bundles, which also places the bundles of a slot search.  *)
(***************************************************************************)
EXTENDS PromiseEngine

p1 == 1
p2 == 2

INSTANCE Bundles WITH Earliest <- 0, Latest <- Horizon

\* Every claim has ended at the horizon, the last moment.
BundleDemand == [b \in Bundle |-> [p \in Pool |-> [t \in Time |-> DemandAt(b, p)[t]]]]
BundleBoundary == [b \in Bundle |-> [p \in Pool |-> EventMoments(b, p) \cap Time]]

\* What Bundle::new accepts, and what admission computes of it.
BundlesAreClaims ==
  /\ \A b \in Bundle :
       /\ b \in Seq([pool : Pool, from : Int, to : Int, quantity : Nat])
       /\ ValidBundle(b)
  /\ Demand = BundleDemand
  /\ Boundary = BundleBoundary
ASSUME BundlesAreClaims

\* TLC evaluates the definition that replaces a constant at every use, and the
\* constant definitions it refers to once: the tables have names of their own.
MCDemand == BundleDemand
MCBoundary == BundleBoundary

\* The consumption admission computes from the events of the claims is what the
\* claims of the active promises that contain a cell add up to: a claim that ends
\* where another starts, and several that start or end together, are each counted
\* once, and none at its end.
UsageIsWhatClaimsCover ==
  \A p \in Pool, t \in Time :
    Usage(promises, p, t) =
      Total([i \in PromiseId |->
               IF Active(promises[i]) THEN Covered(promises[i].bundle, p, t) ELSE 0])

CurveOf(a, b) == [t \in Time |-> IF t = 0 THEN a ELSE b]

\* Claims as large as MAX_QUANTITY, so that two of them in one cell of a pool
\* without capacity do not fit the slack's integer type.
BigLeft == <<Claim(p1, 0, 1, 3)>>
BigRight == <<Claim(p1, 1, 2, 3)>>
BigWide == <<Claim(p1, 0, 2, 3)>>
DeficitBundles == {BigLeft, BigRight, BigWide}
DeficitCurves == {CurveOf(3, 3), CurveOf(0, 3), CurveOf(0, 0)}

\* Searches over three cells, and a bundle that needs both pools.  Claims of one
\* bundle overlap, start together, and start where another ends; the grid of step 2
\* skips an anchor; a search can be malformed.
\* Three claims of the largest quantity overflow the demand of a pool.
At(a) == <<Claim(p1, a, a + 1, 1)>>
Huge == <<Claim(p2, 0, 1, 1), Claim(p1, 0, 1, 2), Claim(p1, 0, 1, 2), Claim(p1, 0, 1, 2)>>
Both == <<Claim(p2, 0, 1, 1), Claim(p1, 0, 1, 1)>>
Peak == <<Claim(p1, 0, 1, 1), Claim(p1, 0, 2, 1), Claim(p1, 2, 3, 1)>>
SearchBundles == {At(0), At(1), At(2), Peak, Both, Huge}
SearchCurves == {[t \in Time |-> IF t = 0 THEN 2 ELSE 1]}
SearchChoices == {<<Peak, At(1)>>, <<At(0), Both, Huge>>}
Query(earliest, latest, step, at) ==
  [earliest |-> earliest, latest |-> latest, step |-> step, at |-> at]
\* The bundle of a search is relative: ahead of its anchor, or behind it, one of
\* its anchors is too late, or too early, to place it.
Search(claims) == [a \in 0 .. 2 |-> Materialize(claims, a)]
Ahead(offset) == Search(<<Claim(p1, offset, offset + 1, 1)>>)
SlotSearches ==
  {Query(0, 2, 1, Ahead(0)), Query(0, 2, 2, Ahead(0)), Query(1, 2, 2, Ahead(0)),
   Query(0, 2, 1, Ahead(1)), Query(0, 2, 1, Ahead(-1)),
   Query(2, 1, 1, Ahead(0)), Query(0, 2, 0, Ahead(0))}
DeficitBundle == DeficitBundles
DeficitCurve == DeficitCurves
SearchBundle == SearchBundles
SearchCurve == SearchCurves
SearchChoice == SearchChoices
SearchSlots == SlotSearches
NoChoice == {}
NoSlotQuery == {}

\* The view of the passing runs: no command reads the last response.  Action properties
\* are checked on every step, and so of every response; of the invariants only TypeOK
\* looks at one, at its timestamp.
WithoutReply == <<pools, slack, promises, sequence, events, forced>>
=============================================================================
