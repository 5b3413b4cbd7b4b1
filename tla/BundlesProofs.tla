---------------------------- MODULE BundlesProofs ----------------------------
(***************************************************************************)
(* Theorems about Bundles, and about PromiseEngine with the demand that    *)
(* Bundles computes: for every horizon, and any pools and bundles.         *)
(***************************************************************************)
EXTENDS MCPromiseEngine, PromiseEngineProofs

\* A claim as Bundle::new accepts it.
BundleClaim == {c \in [pool : Pool, from : Int, to : Int, quantity : Nat] :
                  c.from < c.to /\ c.from \in Moment /\ c.to \in Moment}

\* Moments are numbers from zero on.
LEMMA MomentFacts ==
  Moment = 0 .. Horizon /\ Horizon \in Nat /\ \A t \in Moment : t \in Int
BY CountsAreNatural DEF Moment

\* A bundle is a sequence of such claims.
LEMMA BundleIs ==
  ASSUME NEW claims \in Seq([pool : Pool, from : Int, to : Int, quantity : Nat]), ValidBundle(claims)
  PROVE  /\ Len(claims) \in Nat /\ DOMAIN claims = 1 .. Len(claims)
         /\ \A k \in 1 .. Len(claims) : claims[k] \in BundleClaim
<1>1. Len(claims) \in Nat /\ DOMAIN claims = 1 .. Len(claims)
  OBVIOUS
<1>2. ASSUME NEW k \in 1 .. Len(claims) PROVE claims[k] \in BundleClaim
  <2>1. claims[k] \in [pool : Pool, from : Int, to : Int, quantity : Nat]
    <3> DEFINE S == [pool : Pool, from : Int, to : Int, quantity : Nat]
    <3>1. claims \in Seq(S)
      OBVIOUS
    <3> HIDE DEF S
    <3>2. claims[k] \in S
      BY <1>1, <3>1
    <3> QED BY <3>2 DEF S
  <2>2. claims[k].from < claims[k].to /\ {claims[k].from, claims[k].to} \subseteq Moment
    BY <1>1 DEF ValidBundle, ValidRelativeBundle, ValidClaim
  <2> QED BY <2>1, <2>2 DEF BundleClaim
<1> QED BY <1>1, <1>2

\* What a claim takes at t.
Takes(c, pool, t) == IF c.pool = pool /\ c.from <= t /\ t < c.to THEN c.quantity ELSE 0

\* A claim takes its quantity from its start on and until its end.
LEMMA TakesChanges ==
  ASSUME NEW c \in BundleClaim, NEW pool, NEW t \in Int
  PROVE  /\ Takes(c, pool, t) = Takes(c, pool, t - 1) + Change(c, pool, t)
         /\ Takes(c, pool, t) \in Nat /\ Change(c, pool, t) \in Int
         /\ t < 0 => Takes(c, pool, t) = 0
<1>1. /\ c.from \in Int /\ c.to \in Int /\ c.quantity \in Nat /\ c.from < c.to /\ c.from >= 0
  BY MomentFacts DEF BundleClaim
<1> DEFINE from == c.from
           to == c.to
           q == c.quantity
<1>2. /\ Takes(c, pool, t) = IF c.pool = pool /\ from <= t /\ t < to THEN q ELSE 0
      /\ Takes(c, pool, t - 1) = IF c.pool = pool /\ from <= t - 1 /\ t - 1 < to THEN q ELSE 0
      /\ Change(c, pool, t) =
           IF c.pool # pool THEN 0 ELSE IF from = t THEN q ELSE IF to = t THEN -q ELSE 0
  BY DEF Takes, Change
<1> HIDE DEF from, to, q
<1>3. from \in Int /\ to \in Int /\ q \in Nat /\ from < to /\ from >= 0
  BY <1>1 DEF from, to, q
<1> QED BY <1>2, <1>3

\* What claims take grows by what they change.
LEMMA CoveredGrows ==
  ASSUME NEW claims, NEW n \in Nat, n = Len(claims), DOMAIN claims = 1 .. n,
         \A k \in 1 .. n : claims[k] \in BundleClaim, NEW pool, NEW t \in Int
  PROVE  /\ Covered(claims, pool, t) = Covered(claims, pool, t - 1) + Delta(claims, pool, t)
         /\ Covered(claims, pool, t) \in Nat /\ Delta(claims, pool, t) \in Int
         /\ t < 0 => Covered(claims, pool, t) = 0
<1> DEFINE f == [k \in 1 .. n |-> Takes(claims[k], pool, t - 1)]
           g == [k \in 1 .. n |-> Change(claims[k], pool, t)]
           h == [k \in 1 .. n |-> Takes(claims[k], pool, t)]
<1>1. /\ Covered(claims, pool, t) = SumTo(h, n)
      /\ Covered(claims, pool, t - 1) = SumTo(f, n)
      /\ Delta(claims, pool, t) = SumTo(g, n)
  BY DEF Covered, Delta, Takes
<1>2. ASSUME NEW k \in 1 .. n
      PROVE  /\ f[k] \in Nat /\ g[k] \in Int /\ h[k] \in Nat /\ h[k] = f[k] + g[k]
             /\ t < 0 => h[k] = 0
  BY TakesChanges
<1>3. f \in [1 .. n -> Int] /\ g \in [1 .. n -> Int] /\ h \in [1 .. n -> Int] /\ h \in [1 .. n -> Nat]
      /\ f \in [1 .. n -> Nat]
  <2>1. f = [k \in 1 .. n |-> f[k]] /\ g = [k \in 1 .. n |-> g[k]] /\ h = [k \in 1 .. n |-> h[k]]
    OBVIOUS
  <2> HIDE DEF f, g, h
  <2> QED BY <1>2, <2>1
<1> HIDE DEF f, g, h
<1>4. SumTo(h, n) = SumTo(f, n) + SumTo(g, n)
  BY <1>2, <1>3, SumAdds
<1>5. SumTo(h, n) \in Nat /\ SumTo(f, n) \in Nat
  BY <1>3, SumNonnegative
<1>6. t < 0 => SumTo(h, n) = 0
  BY <1>2, <1>3, SumOfZeros
<1>7. SumTo(g, n) \in Int
  <2>1. PICK s : IsSum(s, g, n) /\ SumTo(g, n) = s[n]
    BY <1>3, SumIsSum
  <2> QED BY <2>1 DEF IsSum
<1> QED BY <1>1, <1>4, <1>5, <1>6, <1>7

\* The running sum of the changes is what the claims cover.
THEOREM DemandIsWhatClaimsCover ==
  ASSUME NEW claims \in Seq([pool : Pool, from : Int, to : Int, quantity : Nat]),
         ValidBundle(claims), NEW pool
  PROVE  \A t \in Moment : DemandAt(claims, pool)[t] = Covered(claims, pool, t)
<1> DEFINE Step(f, t) == Delta(claims, pool, t) + (IF t = 0 THEN 0 ELSE f[t - 1])
           Runs(f) == f = [t \in Moment |-> Step(f, t)]
           g == [t \in Moment |-> Covered(claims, pool, t)]
           chosen == CHOOSE f : Runs(f)
           Bad == {t \in Moment : chosen[t] # Covered(claims, pool, t)}
<1>1. \A t \in Int :
        /\ Covered(claims, pool, t) = Covered(claims, pool, t - 1) + Delta(claims, pool, t)
        /\ Covered(claims, pool, t) \in Nat /\ Delta(claims, pool, t) \in Int
        /\ t < 0 => Covered(claims, pool, t) = 0
  <2>1. /\ Len(claims) \in Nat /\ DOMAIN claims = 1 .. Len(claims)
        /\ \A k \in 1 .. Len(claims) : claims[k] \in BundleClaim
    BY BundleIs
  <2> QED BY <2>1, CoveredGrows
<1>2. ASSUME NEW t \in Moment
      PROVE  Covered(claims, pool, t) =
               Delta(claims, pool, t) + (IF t = 0 THEN 0 ELSE Covered(claims, pool, t - 1))
  <2>1. t \in Int /\ t - 1 \in Int /\ (t = 0 => t - 1 < 0)
    BY MomentFacts
  <2>2. /\ Covered(claims, pool, t) = Covered(claims, pool, t - 1) + Delta(claims, pool, t)
        /\ Delta(claims, pool, t) \in Int /\ Covered(claims, pool, t - 1) \in Nat
        /\ t = 0 => Covered(claims, pool, t - 1) = 0
    BY <1>1, <2>1
  <2> QED BY <2>2
<1>3. \A t \in Moment : t # 0 => t - 1 \in Moment
  BY MomentFacts
<1>4. Runs(g)
  <2>1. ASSUME NEW t \in Moment PROVE g[t] = Step(g, t)
    <3>1. g[t] = Covered(claims, pool, t) /\ (t # 0 => g[t - 1] = Covered(claims, pool, t - 1))
      BY <1>3
    <3> HIDE DEF g
    <3> QED BY <1>2, <3>1
  <2>2. g = [t \in Moment |-> g[t]]
    OBVIOUS
  <2> HIDE DEF g, Step
  <2> QED BY <2>1, <2>2
<1>5. Runs(chosen)
  <2> HIDE DEF Runs
  <2> QED BY <1>4
<1>6. \A t \in Moment : chosen[t] = Step(chosen, t)
  <2> HIDE DEF chosen
  <2> QED BY <1>5
<1>7. DemandAt(claims, pool) = chosen
  BY Zenon DEF DemandAt
<1> HIDE DEF chosen
<1>8. Bad = {}
  <2>1. SUFFICES ASSUME Bad # {} PROVE FALSE
    OBVIOUS
  <2>2. PICK m \in Bad : \A t \in Bad : m <= t
    <3>1. Bad \in SUBSET Nat
      BY MomentFacts
    <3> HIDE DEF Bad
    <3> QED BY <2>1, <3>1, LeastNatural
  <2>3. m \in Moment /\ chosen[m] # Covered(claims, pool, m) /\ m \in Int
    BY MomentFacts
  <2>4. m # 0 => chosen[m - 1] = Covered(claims, pool, m - 1)
    <3>1. SUFFICES ASSUME m # 0 PROVE chosen[m - 1] = Covered(claims, pool, m - 1)
      OBVIOUS
    <3>2. m - 1 \in Moment /\ ~(m <= m - 1)
      BY <1>3, <2>3, <3>1
    <3> QED BY <2>2, <3>2
  <2> QED BY <1>2, <1>6, <2>3, <2>4
<1> QED BY <1>7, <1>8

\* What admission sums up for the active promises is what their claims cover.
THEOREM UsageIsCovered == Spec => []UsageIsWhatClaimsCover
<1>1. ASSUME TypeInv PROVE UsageIsWhatClaimsCover
  <2>1. ASSUME NEW p \in Pool, NEW t \in Time, NEW i \in PromiseId, Active(promises[i])
        PROVE  Demand[promises[i].bundle][p][t] = Covered(promises[i].bundle, p, t)
    <3> DEFINE b == promises[i].bundle
    <3>1. promises[i] \in PromiseRecord \/ promises[i] = Absent
      BY <1>1 DEF TypeInv, TypeOK
    <3>2. promises[i] # Absent
      BY <2>1 DEF Active, Absent
    <3>3. b \in Bundle
      BY <3>1, <3>2 DEF PromiseRecord
    <3> HIDE DEF b
    <3>4. /\ b \in Seq([pool : Pool, from : Int, to : Int, quantity : Nat])
          /\ ValidBundle(b)
          /\ Demand = BundleDemand
      BY <3>3, BundlesAreClaims DEF BundlesAreClaims
    <3>5. Demand[b][p][t] = DemandAt(b, p)[t]
      BY <3>3, <3>4 DEF BundleDemand
    <3>6. t \in Moment
      BY CountsAreNatural DEF Time, Moment
    <3>7. Demand[b][p][t] = Covered(b, p, t)
      BY <3>4, <3>5, <3>6, DemandIsWhatClaimsCover
    <3> QED BY <3>7 DEF b
  <2>2. ASSUME NEW p \in Pool, NEW t \in Time
        PROVE  Usage(promises, p, t) =
                 Total([i \in PromiseId |->
                          IF Active(promises[i]) THEN Covered(promises[i].bundle, p, t) ELSE 0])
    <3>1. [i \in PromiseId |-> Load(promises[i], p, t)] =
            [i \in PromiseId |->
               IF Active(promises[i]) THEN Covered(promises[i].bundle, p, t) ELSE 0]
      BY <2>1 DEF Load
    <3> QED BY <3>1 DEF Usage
  <2> QED BY <2>2 DEF UsageIsWhatClaimsCover
<1> QED BY <1>1, TypeInvariant, PTL

\* What PromiseEngine assumes of demand and boundaries is true of those that Bundles
\* computes.
THEOREM BundlesMeetAssumptions ==
  ASSUME NEW b \in Bundle, NEW p \in Pool, NEW t \in Time
  PROVE  /\ BundleDemand[b][p][t] \in Nat
         /\ BundleBoundary[b][p] \subseteq Time
         /\ t # 0 /\ t \notin BundleBoundary[b][p] => BundleDemand[b][p][t] = BundleDemand[b][p][t - 1]
<1>1. b \in Seq([pool : Pool, from : Int, to : Int, quantity : Nat]) /\ ValidBundle(b)
  BY BundlesAreClaims DEF BundlesAreClaims
<1>2. t \in Moment /\ t \in Int /\ t - 1 \in Int /\ (t # 0 => t - 1 \in Time /\ t - 1 \in Moment)
  BY CountsAreNatural DEF Time, Moment
<1>3. /\ Len(b) \in Nat /\ DOMAIN b = 1 .. Len(b)
      /\ \A k \in 1 .. Len(b) : b[k] \in BundleClaim
  BY <1>1, BundleIs
<1>4. /\ Covered(b, p, t) = Covered(b, p, t - 1) + Delta(b, p, t)
      /\ Covered(b, p, t) \in Nat /\ Covered(b, p, t - 1) \in Nat
  BY <1>2, <1>3, CoveredGrows
<1>5. /\ BundleDemand[b][p][t] = Covered(b, p, t)
      /\ t # 0 => BundleDemand[b][p][t - 1] = Covered(b, p, t - 1)
  <2>1. ASSUME NEW s \in Time, s \in Moment PROVE BundleDemand[b][p][s] = Covered(b, p, s)
    <3>1. BundleDemand[b][p][s] = DemandAt(b, p)[s]
      BY DEF BundleDemand
    <3> QED BY <1>1, <2>1, <3>1, DemandIsWhatClaimsCover
  <2> QED BY <1>2, <2>1
<1>6. BundleBoundary[b][p] = EventMoments(b, p) \cap Time
  BY DEF BundleBoundary
<1>7. ASSUME t \notin EventMoments(b, p) PROVE Delta(b, p, t) = 0
  <2> DEFINE n == Len(b)
             g == [k \in 1 .. n |-> Change(b[k], p, t)]
  <2>1. ASSUME NEW k \in 1 .. n PROVE g[k] = 0
    <3>1. ~(b[k].pool = p /\ t \in {b[k].from, b[k].to})
      BY <1>2, <1>3, <1>7 DEF EventMoments
    <3> QED BY <3>1 DEF Change
  <2>2. g \in [1 .. n -> Int]
    <3>1. g = [k \in 1 .. n |-> g[k]]
      OBVIOUS
    <3> HIDE DEF g
    <3> QED BY <2>1, <3>1
  <2>3. Delta(b, p, t) = SumTo(g, n)
    BY <1>3 DEF Delta
  <2> HIDE DEF g
  <2> QED BY <1>3, <2>1, <2>2, <2>3, SumOfZeros
<1> QED BY <1>4, <1>5, <1>6, <1>7
=============================================================================
