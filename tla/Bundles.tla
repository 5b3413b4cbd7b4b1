------------------------------ MODULE Bundles ------------------------------
(***************************************************************************)
(* Bundles of claims (domain::bundle, domain::relative_bundle): what their *)
(* constructors accept, how a relative bundle becomes one at the start of  *)
(* a slot, and the demand admission sums up from the events of its claims. *)
(***************************************************************************)
EXTENDS Integers, Sequences, Sums

CONSTANTS
  Earliest, Latest,  \* the range of a timestamp (i64)
  MaxQuantity,       \* MAX_QUANTITY
  Unplaceable        \* the outcome TimestampOverflow

Moment == Earliest .. Latest

\* A claim; in a relative claim, from and to are offsets from the start.
Claim(pool, from, to, quantity) ==
  [pool |-> pool, from |-> from, to |-> to, quantity |-> quantity]

ValidClaim(c) == c.from < c.to /\ c.quantity \in 1 .. MaxQuantity

ValidRelativeBundle(claims) ==
  claims # <<>> /\ \A k \in DOMAIN claims : ValidClaim(claims[k])
ValidBundle(claims) ==
  /\ ValidRelativeBundle(claims)
  /\ \A k \in DOMAIN claims : {claims[k].from, claims[k].to} \subseteq Moment

Placed(c, start) == [c EXCEPT !.from = start + @, !.to = start + @]

\* RelativeBundle::materialize: every claim at one start, or none.
Materialize(claims, start) ==
  LET bundle == [k \in DOMAIN claims |-> Placed(claims[k], start)] IN
  IF ValidBundle(bundle) THEN bundle ELSE Unplaceable

\* The moments at which the demand of the claims on a pool may change.
EventMoments(claims, pool) ==
  {t \in Moment : \E k \in DOMAIN claims : claims[k].pool = pool /\ t \in {claims[k].from, claims[k].to}}

Change(c, pool, t) ==
  IF c.pool # pool THEN 0
  ELSE IF c.from = t THEN c.quantity ELSE IF c.to = t THEN -c.quantity ELSE 0

\* The normalized event at t: the changes of one moment are added up.
\* Mutant of Delta: the last of them replaces the others.
LastDelta(claims, pool, t) ==
  LET changes == {k \in DOMAIN claims : Change(claims[k], pool, t) # 0} IN
  SumTo([k \in DOMAIN claims |-> IF \E j \in changes : j > k THEN 0 ELSE Change(claims[k], pool, t)],
        Len(claims))
Delta(claims, pool, t) ==
  SumTo([k \in DOMAIN claims |-> Change(claims[k], pool, t)], Len(claims))

\* current_demand in the window that begins at t.
DemandAt(claims, pool) ==
  LET demand[t \in Moment] ==
        Delta(claims, pool, t) + (IF t = Earliest THEN 0 ELSE demand[t - 1])
  IN  demand

\* What the claims that contain t add up to (Interval::contains).
Covered(claims, pool, t) ==
  SumTo([k \in DOMAIN claims |->
           LET c == claims[k] IN
           IF c.pool = pool /\ c.from <= t /\ t < c.to THEN c.quantity ELSE 0],
        Len(claims))
=============================================================================
