------------------------ MODULE PromiseEngineProofs ------------------------
(***************************************************************************)
(* Theorems about PromiseEngine for every value of its constants.          *)
(***************************************************************************)
EXTENDS PromiseEngine, LeastElements, SequenceTheorems

-----------------------------------------------------------------------------
(* Total adds a load over the promise identities.                           *)

\* Sums agree when they are taken promise by promise.
LEMMA TotalAdds ==
  ASSUME NEW load \in [PromiseId -> Int], NEW f \in [PromiseId -> Int],
         NEW g \in [PromiseId -> Int], \A i \in PromiseId : load[i] = f[i] + g[i]
  PROVE  Total(load) = Total(f) + Total(g)
BY SumAdds, CountsAreNatural DEF Total, PromiseId

\* Two loads that differ in one promise have totals that differ by as much.
LEMMA TotalChanges ==
  ASSUME NEW f \in [PromiseId -> Int], NEW g \in [PromiseId -> Int], NEW i \in PromiseId,
         \A j \in PromiseId : j # i => f[j] = g[j]
  PROVE  Total(f) = Total(g) + f[i] - g[i]
BY SumChanges, CountsAreNatural DEF Total, PromiseId

\* The total of a load without negative entries is not negative.
LEMMA TotalNonnegative ==
  ASSUME NEW load \in [PromiseId -> Nat]
  PROVE  Total(load) \in Nat
BY SumNonnegative, CountsAreNatural DEF Total, PromiseId

-----------------------------------------------------------------------------
(* Expirations: the ranks of the due holds number them without a gap.       *)

\* Deadlines and timestamps can be compared.
LEMMA DeadlinesAreIntegers ==
  \A d \in Instant \union {0} : d \in Int
BY CountsAreNatural

\* What is known of the records of the promise table.
PromisesTyped == promises \in [PromiseId -> PromiseRecord \union {Absent}]

Before(i, now) == {j \in Due(now) : Precedes(j, i) \/ j = i}

\* The order of expiration is a strict total order on the due holds.
LEMMA PrecedesIsTotalOrder ==
  ASSUME PromisesTyped, NEW i \in PromiseId, NEW j \in PromiseId, NEW k \in PromiseId
  PROVE  /\ Precedes(i, j) /\ Precedes(j, k) => Precedes(i, k)
         /\ ~Precedes(i, i)
         /\ i = j \/ Precedes(i, j) \/ Precedes(j, i)
<1>1. i \in Int /\ j \in Int /\ k \in Int
  BY CountsAreNatural DEF PromiseId
<1>2. ASSUME NEW x \in PromiseId PROVE promises[x].deadline \in Int
  <2>1. promises[x] \in PromiseRecord \/ promises[x] = Absent
    BY DEF PromisesTyped
  <2>2. CASE promises[x] \in PromiseRecord
    <3>1. promises[x].deadline \in Instant \union {0}
      BY <2>2 DEF PromiseRecord
    <3> QED BY <3>1, DeadlinesAreIntegers
  <2>3. CASE promises[x] = Absent
    BY <2>3 DEF Absent
  <2> QED BY <2>1, <2>2, <2>3
<1> QED BY <1>1, <1>2 DEF Precedes

\* Ranks increase along the order of expiration.
LEMMA RanksIncrease ==
  ASSUME PromisesTyped, NEW now
  PROVE  /\ \A i : Rank(i, now) \in Nat
         /\ \A i, j \in Due(now) : Precedes(j, i) => Rank(j, now) < Rank(i, now)
<1>1. IsFiniteSet(Due(now)) /\ Due(now) \subseteq PromiseId
  <2>1. IsFiniteSet(PromiseId)
    BY CountsAreNatural, FS_Interval DEF PromiseId
  <2> QED BY <2>1, FS_Subset DEF Due
<1>2. \A i : Rank(i, now) = Cardinality(Before(i, now)) /\ Before(i, now) \subseteq Due(now)
  BY DEF Rank, Before
<1>3. \A i : IsFiniteSet(Before(i, now)) /\ Rank(i, now) \in Nat
  BY <1>1, <1>2, SmallerPart
<1>4. ASSUME NEW i \in Due(now), NEW j \in Due(now), Precedes(j, i)
      PROVE  Rank(j, now) < Rank(i, now)
  <2>1. Before(j, now) \subseteq Before(i, now)
    BY <1>1, <1>4, PrecedesIsTotalOrder DEF Before
  <2>2. i \in Before(i, now) /\ i \notin Before(j, now)
    BY <1>1, <1>4, PrecedesIsTotalOrder DEF Before
  <2> QED BY <1>2, <1>3, <2>1, <2>2, SmallerPart
<1> QED BY <1>3, <1>4

\* The ranks of the expiring holds are the numbers that are used, and there are no
\* more of them than sequence numbers are left.
LEMMA ExpirationsAreNumbered ==
  ASSUME PromisesTyped, sequence \in 0 .. MaxSequence, NEW now
  PROVE  /\ IsFiniteSet(Due(now)) /\ IsFiniteSet(Expiring(now))
         /\ Cardinality(Expiring(now)) \in Nat
         /\ \A i \in Expiring(now) : Rank(i, now) \in 1 .. Cardinality(Expiring(now))
         /\ sequence + Cardinality(Expiring(now)) <= MaxSequence
<1>1. IsFiniteSet(Due(now)) /\ Due(now) \subseteq PromiseId
  <2>1. IsFiniteSet(PromiseId)
    BY CountsAreNatural, FS_Interval DEF PromiseId
  <2> QED BY <2>1, FS_Subset DEF Due
<1>2. IsFiniteSet(Expiring(now)) /\ Cardinality(Expiring(now)) \in Nat
  BY <1>1, SmallerPart DEF Expiring
<1>3. \A i : Rank(i, now) = Cardinality(Before(i, now)) /\ Before(i, now) \subseteq Due(now)
  BY DEF Rank, Before
<1>4. \A i : IsFiniteSet(Before(i, now)) /\ Rank(i, now) \in Nat
  BY <1>1, <1>3, SmallerPart
<1>5. ASSUME NEW i \in Due(now), NEW j \in Due(now), Precedes(j, i)
      PROVE  Rank(j, now) < Rank(i, now)
  BY <1>5, RanksIncrease
<1>6. ASSUME NEW i \in Expiring(now) PROVE Rank(i, now) \in 1 .. Cardinality(Expiring(now))
  <2>1. i \in Due(now) /\ i \in Before(i, now)
    BY DEF Expiring, Before
  <2>2. Rank(i, now) # 0
    BY <1>3, <1>4, <2>1, FS_EmptySet
  <2>3. Before(i, now) \subseteq Expiring(now)
    <3>1. SUFFICES ASSUME NEW j \in Before(i, now) PROVE j \in Expiring(now)
      OBVIOUS
    <3>2. j \in Due(now) /\ (Precedes(j, i) \/ j = i)
      BY DEF Before
    <3>3. Rank(i, now) \in Nat /\ Rank(j, now) \in Nat
      BY <1>4
    <3>4. Rank(j, now) <= Rank(i, now)
      BY <1>5, <2>1, <3>2, <3>3
    <3> QED BY <3>2, <3>3, <3>4, CountsAreNatural DEF Expiring
  <2>4. Rank(i, now) <= Cardinality(Expiring(now))
    BY <1>2, <1>3, <2>3, SmallerPart
  <2> QED BY <1>2, <1>4, <2>2, <2>4
<1>7. sequence + Cardinality(Expiring(now)) <= MaxSequence
  <2>1. CASE Expiring(now) = {}
    BY <2>1, FS_EmptySet, CountsAreNatural
  <2>2. CASE Expiring(now) # {}
    <3> DEFINE Gaps == {MaxSequence - Rank(i, now) : i \in Expiring(now)}
    <3>1. Gaps \in SUBSET Nat
      BY <1>4, CountsAreNatural DEF Expiring
    <3>2. Gaps # {}
      BY <2>2
    <3>3. PICK gap \in Gaps : \A other \in Gaps : gap <= other
      <4> HIDE DEF Gaps
      <4> QED BY <3>1, <3>2, LeastNatural
    <3>4. PICK last \in Expiring(now) : gap = MaxSequence - Rank(last, now)
      BY <3>3
    <3>5. ASSUME NEW i \in Expiring(now) PROVE Rank(i, now) <= Rank(last, now)
      <4>1. MaxSequence - Rank(i, now) \in Gaps
        OBVIOUS
      <4>2. Rank(i, now) \in Nat /\ Rank(last, now) \in Nat
        BY <1>4
      <4> HIDE DEF Gaps
      <4> QED BY <3>3, <3>4, <4>1, <4>2, CountsAreNatural
    <3>6. Expiring(now) \subseteq Before(last, now)
      <4>1. SUFFICES ASSUME NEW i \in Expiring(now), i # last, ~Precedes(i, last) PROVE FALSE
        BY DEF Before, Expiring
      <4>2. i \in Due(now) /\ last \in Due(now) /\ Precedes(last, i)
        BY <1>1, <4>1, PrecedesIsTotalOrder DEF Expiring
      <4> QED BY <1>4, <1>5, <3>5, <4>2
    <3>7. Cardinality(Expiring(now)) <= Rank(last, now)
      BY <1>3, <1>4, <3>6, SmallerPart
    <3> QED BY <1>2, <1>4, <3>7, CountsAreNatural DEF Expiring
  <2> QED BY <2>1, <2>2
<1> QED BY <1>1, <1>2, <1>6, <1>7

-----------------------------------------------------------------------------
(* The effects a command can have on the state, whatever its response.      *)

\* The responses of commands that changed something of their own.
SuccessTags ==
  HoldTags \union {"ResourcePoolCreated", "CapacityRevised", "HoldCommitted",
                   "PromiseReleased", "PromiseReplaced"}

\* Only the due holds expire, all of them unless the sequence is exhausted.
ExpiryOnly(now) ==
  /\ AllExpire(now) \/ reply'.tag = "SequenceOverflow"
  /\ promises' = ExpiredPromises(now)
  /\ slack' = RestoredSlack(now)
  /\ sequence' = ExpiredSequence(now)
  /\ events' = events \o ExpiryEvents(now)
  /\ reply'.at = now /\ reply'.tag \notin SuccessTags
  /\ UNCHANGED <<pools, forced>>

PoolCreated(p, curve, now) ==
  /\ AllExpire(now)
  /\ p \notin Live
  /\ SequenceLeft(now)
  /\ pools' = [pools EXCEPT ![p] = curve]
  /\ slack' = [RestoredSlack(now) EXCEPT ![p] = curve]
  /\ promises' = ExpiredPromises(now)
  /\ sequence' = NextSequence(now)
  /\ events' = (events \o ExpiryEvents(now)) \o
       <<[kind |-> "ResourceCreated", subject |-> p, seq |-> NextSequence(now)]>>
  /\ reply'.at = now /\ reply'.tag = "ResourcePoolCreated"
  /\ UNCHANGED forced

Rebuilt(p, curve, now) ==
  [t \in Time |-> curve[t] - Usage(ExpiredPromises(now), p, t)]

\* The audit records of a revision.
Notices(p, curve, now) ==
  RevisionEvents(p, Deficits(RestoredSlack(now)[p]), Deficits(Rebuilt(p, curve, now)),
                 ExpiredPromises(now), NextSequence(now))

CapacityRevised(p, curve, mode, now) ==
  /\ AllExpire(now)
  /\ p \in Live
  /\ SequenceLeft(now)
  /\ Representable(Rebuilt(p, curve, now))
  /\ mode = "Force" \/ \A t \in Time : Rebuilt(p, curve, now)[t] >= 0
  /\ pools' = [pools EXCEPT ![p] = curve]
  /\ slack' = [RestoredSlack(now) EXCEPT ![p] = Rebuilt(p, curve, now)]
  /\ promises' = ExpiredPromises(now)
  /\ sequence' = NextSequence(now)
  /\ events' = (events \o ExpiryEvents(now)) \o Notices(p, curve, now)
  /\ reply'.at = now /\ reply'.tag = "CapacityRevised" /\ reply'.value = NextSequence(now)
  /\ forced' = IF mode = "Force" THEN forced \union {p} ELSE forced

PromiseHeld(i, b, deadline, now) ==
  /\ AllExpire(now)
  /\ HoldAllowed(i, deadline, now)
  /\ SequenceLeft(now)
  /\ Verdict(b, RestoredSlack(now)) = "Available"
  /\ promises' = [ExpiredPromises(now) EXCEPT ![i] =
       [state |-> "Held", deadline |-> deadline, bundle |-> b, version |-> 1,
        created |-> NextSequence(now), updated |-> NextSequence(now)]]
  /\ slack' = Consume(RestoredSlack(now), b)
  /\ sequence' = NextSequence(now)
  /\ events' = (events \o ExpiryEvents(now)) \o
       <<PromiseEvent("HoldCreated", i, 1, NextSequence(now))>>
  /\ reply'.at = now /\ reply'.tag \in HoldTags
  /\ UNCHANGED <<pools, forced>>

\* An active promise moves to its next version.
PromiseMoved(i, next, sl, now) ==
  /\ AllExpire(now)
  /\ Active(ExpiredPromises(now)[i])
  /\ SequenceLeft(now)
  /\ promises' = [ExpiredPromises(now) EXCEPT ![i] = next]
  /\ slack' = sl
  /\ sequence' = NextSequence(now)
  /\ events' = (events \o ExpiryEvents(now)) \o
       <<PromiseEvent(reply'.tag, i, next.version, NextSequence(now))>>
  /\ reply'.at = now /\ reply'.value = next.version
  /\ reply'.tag \in {"HoldCommitted", "PromiseReleased", "PromiseReplaced"}
  /\ UNCHANGED <<pools, forced>>

PromiseCommitted(i, now) ==
  PromiseMoved(i, Advance(ExpiredPromises(now)[i], "Committed", now), RestoredSlack(now), now)

PromiseReleased(i, now) ==
  PromiseMoved(i, Advance(ExpiredPromises(now)[i], "Released", now),
               Restore(RestoredSlack(now), ExpiredPromises(now)[i].bundle), now)

PromiseReplaced(i, b, target, now) ==
  LET old == ExpiredPromises(now)[i].bundle
      base == Restore(RestoredSlack(now), old)
  IN  /\ target.state = "Committed" \/ target.deadline > now
      /\ Erring(b) = {}
      /\ \A p \in PoolsOf(b) :
           FitsPool(b, p, base[p], DeficitFloor(old, RestoredSlack(now), p))
      /\ PromiseMoved(i, NextVersion(ExpiredPromises(now)[i], target.state, target.deadline,
                                     b, NextSequence(now)),
                      Consume(base, b), now)

Effect(now) ==
  \/ ExpiryOnly(now)
  \/ \E p \in Pool, curve \in Curve :
       \/ PoolCreated(p, curve, now)
       \/ \E mode \in {"Strict", "Force"} : CapacityRevised(p, curve, mode, now)
  \/ \E i \in PromiseId :
       \/ \E b \in Bundle, deadline \in Instant : PromiseHeld(i, b, deadline, now)
       \/ PromiseCommitted(i, now)
       \/ PromiseReleased(i, now)
       \/ \E b \in Bundle, target \in ReplacementState : PromiseReplaced(i, b, target, now)

\* What a command that asks for promise i may do: hold it, or nothing of its own.
HeldAtMost(i, deadline, now) ==
  ExpiryOnly(now) \/ \E b \in Bundle : PromiseHeld(i, b, deadline, now)

\* What a command on promise i may do: move it, or nothing of its own.
MovedAtMost(i, now) ==
  \/ ExpiryOnly(now)
  \/ PromiseCommitted(i, now)
  \/ PromiseReleased(i, now)
  \/ \E b \in Bundle, target \in ReplacementState : PromiseReplaced(i, b, target, now)

\* A refused command has no effect but the expirations.
LEMMA RejectExpiresOnly ==
  ASSUME NEW tag, NEW value, NEW now, tag \notin SuccessTags, Reject(tag, value, now),
         AllExpire(now) \/ tag = "SequenceOverflow"
  PROVE  ExpiryOnly(now)
BY DEF Reject, ExpiryOnly, Answer

\* A command that process_expirations fails has no effect but the expirations that
\* still found a sequence number.
LEMMA OverflowExpiresOnly ==
  ASSUME NEW now, ExpiryOverflows(now)
  PROVE  ExpiryOnly(now)
BY RejectExpiresOnly DEF ExpiryOverflows, HoldTags, SuccessTags

\* The anchors of a search lie between its earliest and its latest.
LEMMA AnchorInRange ==
  ASSUME NEW e \in Int, NEW l \in Int, NEW d \in Int, d > 0, e <= l,
         NEW k \in 1 .. ((l - e) \div d) + 1
  PROVE  e + (k - 1) * d \in e .. l
<1> DEFINE n == (l - e) \div d
<1>1. n \in Int /\ n * d <= l - e
  OBVIOUS
<1>2. (k - 1) \in Nat /\ k - 1 <= n
  OBVIOUS
<1>3. (k - 1) * d <= n * d /\ (k - 1) * d >= 0 /\ (k - 1) * d \in Int
  <2> HIDE DEF n
  <2> QED BY <1>1, <1>2
<1>4. (k - 1) * d <= l - e
  <2> HIDE DEF n
  <2> QED BY <1>1, <1>3
<1> QED BY <1>3, <1>4

\* An accepted hold is a new promise on the bundle that was admitted.
LEMMA AcceptHoldEffect ==
  ASSUME NEW i \in PromiseId, NEW b \in Bundle, NEW deadline \in Instant, NEW now,
         NEW tag \in HoldTags, NEW value,
         AllExpire(now), HoldAllowed(i, deadline, now),
         Verdict(b, RestoredSlack(now)) = "Available",
         AcceptHold(i, b, deadline, tag, value, now)
  PROVE  HeldAtMost(i, deadline, now)
<1>1. CASE ~SequenceLeft(now) /\ Reject("SequenceOverflow", 0, now)
  BY <1>1, RejectExpiresOnly DEF HeldAtMost, HoldTags, SuccessTags
<1>2. CASE SequenceLeft(now)
  <2>1. \/ Reject("SequenceOverflow", 0, now)
        \/ PromiseHeld(i, b, deadline, now)
    BY <1>2 DEF AcceptHold, PromiseHeld, Answer
  <2> QED BY <2>1, RejectExpiresOnly DEF HeldAtMost, HoldTags, SuccessTags
<1> QED BY <1>1, <1>2 DEF AcceptHold

\* An ordered search holds a candidate that is available, or nothing at all.
LEMMA HoldFirstEffect ==
  ASSUME NEW i \in PromiseId, NEW deadline \in Instant, NEW now, NEW candidates,
         NEW tag \in HoldTags, NEW values,
         AllExpire(now), HoldAllowed(i, deadline, now),
         \A k \in DOMAIN candidates : candidates[k] \in Bundle \union {Unplaceable},
         HoldFirst(i, candidates, deadline, tag, values, now)
  PROVE  HeldAtMost(i, deadline, now)
<1>1. CASE Reject("Unavailable", Len(candidates), now)
  BY <1>1, RejectExpiresOnly DEF HeldAtMost, HoldTags, SuccessTags
<1>2. CASE \E k \in DOMAIN candidates :
             LET verdict == Verdict(candidates[k], RestoredSlack(now)) IN
             \/ /\ verdict = "Available"
                /\ AcceptHold(i, candidates[k], deadline, tag, values[k], now)
             \/ verdict # "Available" /\ Reject(verdict, 0, now)
  <2>1. PICK k \in DOMAIN candidates :
          LET verdict == Verdict(candidates[k], RestoredSlack(now)) IN
          \/ /\ verdict = "Available"
             /\ AcceptHold(i, candidates[k], deadline, tag, values[k], now)
          \/ verdict # "Available" /\ Reject(verdict, 0, now)
    BY <1>2
  <2>2. CASE /\ Verdict(candidates[k], RestoredSlack(now)) = "Available"
             /\ AcceptHold(i, candidates[k], deadline, tag, values[k], now)
    <3>1. candidates[k] # Unplaceable
      BY <2>2 DEF Verdict
    <3>2. candidates[k] \in Bundle
      BY <3>1
    <3> QED BY <2>2, <3>2, AcceptHoldEffect
  <2>3. CASE Reject(Verdict(candidates[k], RestoredSlack(now)), 0, now)
    <3>1. Verdict(candidates[k], RestoredSlack(now)) \notin SuccessTags
      BY DEF Verdict, FirstError, HoldTags, SuccessTags
    <3> QED BY <2>3, <3>1, RejectExpiresOnly DEF HeldAtMost
  <2> QED BY <2>1, <2>2, <2>3
<1> QED BY <1>1, <1>2 DEF HoldFirst

\* create_resource_pool_at creates a pool or does nothing of its own.
LEMMA CreateEffect ==
  ASSUME NEW now \in Instant, NEW p \in Pool, NEW curve \in Curve,
         CreateResourcePool(p, curve, now)
  PROVE  ExpiryOnly(now) \/ PoolCreated(p, curve, now)
BY OverflowExpiresOnly, RejectExpiresOnly
DEF CreateResourcePool, PoolCreated, Answer, HoldTags, SuccessTags

\* revise_capacity_at installs a rebuilt timeline or does nothing of its own.
LEMMA ReviseEffect ==
  ASSUME NEW now \in Instant, NEW p \in Pool, NEW curve \in Curve,
         NEW mode \in {"Strict", "Force"}, ReviseCapacity(p, curve, mode, now)
  PROVE  ExpiryOnly(now) \/ CapacityRevised(p, curve, mode, now)
BY OverflowExpiresOnly, RejectExpiresOnly
DEF ReviseCapacity, CapacityRevised, Rebuilt, Notices, Answer, HoldTags, SuccessTags

\* The three commands that end in accept_hold hold one admitted bundle or nothing.
LEMMA HoldEffect ==
  ASSUME NEW now \in Instant, NEW i \in PromiseId, NEW deadline \in Instant,
         \/ \E b \in Bundle : Hold(i, b, deadline, now)
         \/ \E choice \in Choice : HoldOneOf(i, choice, deadline, now)
         \/ \E q \in SlotQuery : HoldFirstSlot(i, q, deadline, now)
  PROVE  HeldAtMost(i, deadline, now)
<1>1. ASSUME AllExpire(now), HoldRefused(i, deadline, now) PROVE HeldAtMost(i, deadline, now)
  BY <1>1, RejectExpiresOnly DEF HoldRefused, HeldAtMost, HoldTags, SuccessTags
<1>2. ASSUME ExpiryOverflows(now) PROVE HeldAtMost(i, deadline, now)
  BY <1>2, OverflowExpiresOnly DEF HeldAtMost
<1>3. ASSUME NEW b \in Bundle, Hold(i, b, deadline, now) PROVE HeldAtMost(i, deadline, now)
  <2>1. ASSUME AllExpire(now), HoldAllowed(i, deadline, now),
               HoldFirst(i, <<b>>, deadline, "Held", << 0 >>, now)
        PROVE  HeldAtMost(i, deadline, now)
    <3>1. \A k \in DOMAIN <<b>> : <<b>>[k] \in Bundle \union {Unplaceable}
      OBVIOUS
    <3> QED BY <2>1, <3>1, HoldFirstEffect DEF HoldTags
  <2> QED BY <1>1, <1>2, <1>3, <2>1 DEF Hold
<1>4. ASSUME NEW choice \in Choice, HoldOneOf(i, choice, deadline, now) PROVE HeldAtMost(i, deadline, now)
  <2> DEFINE values == [k \in DOMAIN choice |-> k - 1]
  <2>1. ASSUME AllExpire(now), HoldAllowed(i, deadline, now),
               HoldFirst(i, choice, deadline, "ChoiceHeld", values, now)
        PROVE  HeldAtMost(i, deadline, now)
    <3>1. \A k \in DOMAIN choice : choice[k] \in Bundle \union {Unplaceable}
      BY CandidatesAreBundles
    <3> QED BY <2>1, <3>1, HoldFirstEffect DEF HoldTags
  <2> QED BY <1>1, <1>2, <1>4, <2>1 DEF HoldOneOf
<1>5. ASSUME NEW q \in SlotQuery, HoldFirstSlot(i, q, deadline, now) PROVE HeldAtMost(i, deadline, now)
  <2> DEFINE values == [k \in DOMAIN SlotCandidates(q) |-> Anchor(q, k)]
  <2>1. ASSUME AllExpire(now), HoldAllowed(i, deadline, now),
               q.earliest <= q.latest, q.step > 0,
               HoldFirst(i, SlotCandidates(q), deadline, "SlotHeld", values, now)
        PROVE  HeldAtMost(i, deadline, now)
    <3>1. ASSUME NEW k \in DOMAIN SlotCandidates(q)
          PROVE  SlotCandidates(q)[k] \in Bundle \union {Unplaceable}
      <4>1. q.earliest \in Int /\ q.latest \in Int /\ q.step \in Int
        BY CandidatesAreBundles
      <4>2. Anchor(q, k) \in q.earliest .. q.latest
        BY <2>1, <4>1, AnchorInRange DEF SlotCandidates, Anchor
      <4>3. q.at[Anchor(q, k)] \in Bundle \union {Unplaceable}
        BY <4>2, CandidatesAreBundles
      <4> QED BY <4>3 DEF SlotCandidates
    <3> HIDE DEF values
    <3> QED BY <2>1, <3>1, HoldFirstEffect DEF HoldTags
  <2>2. ASSUME AllExpire(now), NEW tag, tag \notin SuccessTags, Reject(tag, 0, now)
        PROVE  HeldAtMost(i, deadline, now)
    BY <2>2, RejectExpiresOnly DEF HeldAtMost
  <2> QED BY <1>1, <1>2, <1>5, <2>1, <2>2 DEF HoldFirstSlot, HoldTags, SuccessTags
<1> QED BY <1>3, <1>4, <1>5

\* commit_at, release_at and replace_at move one active promise or none.
LEMMA TransitionEffect ==
  ASSUME NEW now \in Instant, NEW i \in PromiseId, NEW version \in Version,
         \/ Commit(i, version, now)
         \/ Release(i, version, now)
         \/ \E b \in Bundle, target \in ReplacementState : Replace(i, version, b, target, now)
  PROVE  MovedAtMost(i, now)
<1>1. ASSUME AllExpire(now), NEW tag, NEW value, tag \notin SuccessTags,
             Reject(tag, value, now)
      PROVE  MovedAtMost(i, now)
  BY <1>1, RejectExpiresOnly DEF MovedAtMost
<1>2. ASSUME ExpiryOverflows(now) PROVE MovedAtMost(i, now)
  BY <1>2, OverflowExpiresOnly DEF MovedAtMost
<1>3. ASSUME AllExpire(now), NEW states, TransitionRefused(i, version, states, now) PROVE MovedAtMost(i, now)
  BY <1>1, <1>3 DEF TransitionRefused, HoldTags, SuccessTags
<1>4. ASSUME Commit(i, version, now) PROVE MovedAtMost(i, now)
  <2>1. ASSUME AllExpire(now), SequenceLeft(now), ExpiredPromises(now)[i].state = "Held",
               PublishTransition(i, Advance(ExpiredPromises(now)[i], "Committed", now),
                                 RestoredSlack(now), "HoldCommitted", now)
        PROVE  PromiseCommitted(i, now)
    BY <2>1 DEF PublishTransition, PromiseCommitted, PromiseMoved, Active, Answer, HoldTags, SuccessTags
  <2>2. PromiseCommitted(i, now) => MovedAtMost(i, now)
    BY DEF MovedAtMost
  <2> QED BY <1>2, <1>3, <1>4, <2>1, <2>2 DEF Commit
<1>5. ASSUME Release(i, version, now) PROVE MovedAtMost(i, now)
  <2>1. ASSUME AllExpire(now), SequenceLeft(now), Active(ExpiredPromises(now)[i]),
               PublishTransition(i, Advance(ExpiredPromises(now)[i], "Released", now),
                                 Restore(RestoredSlack(now), ExpiredPromises(now)[i].bundle),
                                 "PromiseReleased", now)
        PROVE  PromiseReleased(i, now)
    BY <2>1 DEF PublishTransition, PromiseReleased, PromiseMoved, Answer, HoldTags, SuccessTags
  <2>2. PromiseReleased(i, now) => MovedAtMost(i, now)
    BY DEF MovedAtMost
  <2> QED BY <1>2, <1>3, <1>5, <2>1, <2>2 DEF Release
<1>6. ASSUME NEW b \in Bundle, NEW target \in ReplacementState,
             Replace(i, version, b, target, now)
      PROVE  MovedAtMost(i, now)
  <2> DEFINE promise == ExpiredPromises(now)[i]
             base == Restore(RestoredSlack(now), promise.bundle)
             Fits(p) == FitsPool(b, p, base[p],
                                 DeficitFloor(promise.bundle, RestoredSlack(now), p))
  <2>1. ASSUME AllExpire(now), ReplaceRefused(i, version, target, now) PROVE MovedAtMost(i, now)
    BY <1>1, <2>1 DEF ReplaceRefused, HoldTags, SuccessTags
  <2>2. ASSUME AllExpire(now), SequenceLeft(now), Active(promise), Erring(b) = {},
               target.state = "Committed" \/ target.deadline > now,
               \A p \in PoolsOf(b) : Fits(p),
               PublishTransition(i,
                 NextVersion(promise, target.state, target.deadline, b, NextSequence(now)),
                 Consume(base, b), "PromiseReplaced", now)
        PROVE  PromiseReplaced(i, b, target, now)
    BY <2>2 DEF PublishTransition, PromiseReplaced, PromiseMoved, Answer, HoldTags, SuccessTags
  <2>3. PromiseReplaced(i, b, target, now) => MovedAtMost(i, now)
    BY DEF MovedAtMost
  <2>4. FirstError(b) \notin SuccessTags /\ "Unavailable" \notin SuccessTags
    BY DEF FirstError, HoldTags, SuccessTags
  <2> QED BY <1>1, <1>2, <1>6, <2>1, <2>2, <2>3, <2>4 DEF Replace
<1> QED BY <1>4, <1>5, <1>6

\* CommandOperation::ProcessExpirations only expires holds.
LEMMA SweepEffect ==
  ASSUME NEW now, ProcessExpirations(now)
  PROVE  ExpiryOnly(now)
BY OverflowExpiresOnly, RejectExpiresOnly DEF ProcessExpirations, HoldTags, SuccessTags

\* Every step of the engine has one of these effects.
LEMMA NextHasEffect ==
  ASSUME Next
  PROVE  \E now \in Instant : Effect(now)
<1>1. PICK now \in Instant :
        \/ \E p \in Pool, curve \in Curve :
             \/ CreateResourcePool(p, curve, now)
             \/ \E mode \in {"Strict", "Force"} : ReviseCapacity(p, curve, mode, now)
        \/ \E i \in PromiseId, deadline \in Instant :
             \/ \E b \in Bundle : Hold(i, b, deadline, now)
             \/ \E choice \in Choice : HoldOneOf(i, choice, deadline, now)
             \/ \E q \in SlotQuery : HoldFirstSlot(i, q, deadline, now)
        \/ \E i \in PromiseId, version \in Version :
             \/ Commit(i, version, now)
             \/ Release(i, version, now)
             \/ \E b \in Bundle, target \in ReplacementState :
                  Replace(i, version, b, target, now)
        \/ ProcessExpirations(now)
  BY DEF Next
<1>2. ASSUME NEW p \in Pool, NEW curve \in Curve,
             \/ CreateResourcePool(p, curve, now)
             \/ \E mode \in {"Strict", "Force"} : ReviseCapacity(p, curve, mode, now)
      PROVE  Effect(now)
  BY <1>2, CreateEffect, ReviseEffect DEF Effect
<1>3. ASSUME NEW i \in PromiseId, NEW deadline \in Instant, HeldAtMost(i, deadline, now)
      PROVE  Effect(now)
  BY <1>3 DEF HeldAtMost, Effect
<1>4. ASSUME NEW i \in PromiseId, MovedAtMost(i, now) PROVE Effect(now)
  BY <1>4 DEF MovedAtMost, Effect
<1>5. ASSUME ProcessExpirations(now) PROVE Effect(now)
  BY <1>5, SweepEffect DEF Effect
<1> QED BY <1>1, <1>2, <1>3, <1>4, <1>5, HoldEffect, TransitionEffect

-----------------------------------------------------------------------------
(* Type correctness.                                                        *)

\* A promise has changed at most once per sequence number: this is what keeps
\* versions within the range of sequence numbers.
VersionsFollowSequence ==
  \A i \in PromiseId : promises[i].state # "Absent" =>
    promises[i].version <= promises[i].updated /\ promises[i].updated <= sequence

RecordInv ==
  /\ PromisesTyped
  /\ sequence \in 0 .. MaxSequence
  /\ VersionsFollowSequence

\* A promise that is not absent has a full record.
LEMMA PresentHasRecord ==
  ASSUME PromisesTyped, NEW i \in PromiseId, promises[i].state # "Absent"
  PROVE  promises[i] \in PromiseRecord
<1>1. Absent.state = "Absent"
  BY DEF Absent
<1> QED BY <1>1 DEF PromisesTyped

\* The next version of a promise is a promise, if a sequence number is left for it.
LEMMA NextVersionTyped ==
  ASSUME NEW r \in PromiseRecord, NEW state \in {"Held", "Committed", "Released", "Expired"},
         NEW deadline \in Instant \union {0}, NEW b \in Bundle, NEW seq \in 1 .. MaxSequence,
         r.version < seq
  PROVE  /\ NextVersion(r, state, deadline, b, seq) \in PromiseRecord
         /\ NextVersion(r, state, deadline, b, seq).version = r.version + 1
         /\ NextVersion(r, state, deadline, b, seq).version <= seq
         /\ NextVersion(r, state, deadline, b, seq).updated = seq
         /\ NextVersion(r, state, deadline, b, seq).created = r.created
         /\ NextVersion(r, state, deadline, b, seq).state = state
         /\ NextVersion(r, state, deadline, b, seq).bundle = b
<1>1. r.version \in 1 .. MaxSequence /\ r.created \in 1 .. MaxSequence
  BY DEF PromiseRecord
<1>2. r.version + 1 \in 1 .. MaxSequence /\ r.version + 1 <= seq
  BY <1>1, CountsAreNatural
<1>3. NextVersion(r, state, deadline, b, seq) \in PromiseRecord
  BY <1>1, <1>2 DEF NextVersion, PromiseRecord
<1> QED BY <1>2, <1>3 DEF NextVersion

\* What process_expirations makes of a due hold.
LEMMA ExpiredRecord ==
  ASSUME RecordInv, NEW now, NEW i \in Expiring(now)
  PROVE  /\ i \in PromiseId /\ promises[i] \in PromiseRecord /\ promises[i].state = "Held"
         /\ ExpiredPromises(now)[i] =
              NextVersion(promises[i], "Expired", 0, promises[i].bundle,
                          sequence + Rank(i, now))
<1>1. i \in PromiseId /\ promises[i].state = "Held"
  BY DEF Expiring, Due
<1>2. promises[i] \in PromiseRecord
  BY <1>1, PresentHasRecord DEF RecordInv
<1> QED BY <1>1, <1>2 DEF ExpiredPromises

\* The expirations keep every promise a record, in its versions and dates.
LEMMA ExpirationsTyped ==
  ASSUME RecordInv, NEW now
  PROVE  /\ ExpiredPromises(now) \in [PromiseId -> PromiseRecord \union {Absent}]
         /\ ExpiredSequence(now) \in 0 .. MaxSequence
         /\ sequence <= ExpiredSequence(now)
         /\ \A i \in PromiseId : ExpiredPromises(now)[i].state # "Absent" =>
              /\ ExpiredPromises(now)[i].version <= ExpiredPromises(now)[i].updated
              /\ ExpiredPromises(now)[i].updated <= ExpiredSequence(now)
<1>1. /\ Cardinality(Expiring(now)) \in Nat
      /\ \A i \in Expiring(now) : Rank(i, now) \in 1 .. Cardinality(Expiring(now))
      /\ sequence + Cardinality(Expiring(now)) <= MaxSequence
  BY ExpirationsAreNumbered DEF RecordInv
<1>2. ExpiredSequence(now) \in 0 .. MaxSequence /\ sequence <= ExpiredSequence(now)
  BY <1>1, CountsAreNatural DEF ExpiredSequence, RecordInv
<1>3. ASSUME NEW i \in Expiring(now)
      PROVE  /\ ExpiredPromises(now)[i] \in PromiseRecord
             /\ ExpiredPromises(now)[i].version <= ExpiredPromises(now)[i].updated
             /\ ExpiredPromises(now)[i].updated <= ExpiredSequence(now)
  <2>1. /\ promises[i].version \in Nat /\ promises[i].version >= 1
        /\ promises[i].version <= promises[i].updated /\ promises[i].updated \in Nat
        /\ promises[i].updated <= sequence
        /\ promises[i].bundle \in Bundle
    <3>1. promises[i] \in PromiseRecord /\ promises[i].state = "Held" /\ i \in PromiseId
      BY ExpiredRecord
    <3>2. /\ promises[i].version \in 1 .. MaxSequence /\ promises[i].updated \in 1 .. MaxSequence
          /\ promises[i].bundle \in Bundle
      BY <3>1 DEF PromiseRecord
    <3> QED BY <3>1, <3>2 DEF RecordInv, VersionsFollowSequence
  <2>2. Rank(i, now) \in 1 .. Cardinality(Expiring(now))
    BY <1>1
  <2>3. /\ sequence + Rank(i, now) \in 1 .. MaxSequence
        /\ promises[i].version < sequence + Rank(i, now)
        /\ sequence + Rank(i, now) <= ExpiredSequence(now)
    BY <1>1, <2>1, <2>2, CountsAreNatural DEF ExpiredSequence, RecordInv
  <2> QED BY <2>1, <2>3, ExpiredRecord, NextVersionTyped
<1>4. ASSUME NEW i \in PromiseId, i \notin Expiring(now)
      PROVE  ExpiredPromises(now)[i] = promises[i]
  BY <1>4 DEF ExpiredPromises
<1>5. ASSUME NEW i \in PromiseId, i \notin Expiring(now), promises[i].state # "Absent"
      PROVE  /\ promises[i].version <= promises[i].updated
             /\ promises[i].updated <= ExpiredSequence(now)
  <2>1. promises[i].updated \in 1 .. MaxSequence
    BY <1>5, PresentHasRecord DEF PromiseRecord, RecordInv
  <2> QED BY <1>2, <1>5, <2>1 DEF RecordInv, VersionsFollowSequence
<1>6. ExpiredPromises(now) \in [PromiseId -> PromiseRecord \union {Absent}]
  <2>1. \A i \in PromiseId : ExpiredPromises(now)[i] \in PromiseRecord \union {Absent}
    BY <1>3, <1>4 DEF RecordInv, PromisesTyped
  <2> QED BY <2>1 DEF ExpiredPromises
<1> QED BY <1>2, <1>3, <1>4, <1>5, <1>6

TypeInv == TypeOK /\ VersionsFollowSequence

PromiseTable == [PromiseId -> PromiseRecord \union {Absent}]

\* What a promise takes from a pool is a natural number.
LEMMA LoadTyped ==
  ASSUME NEW ps \in PromiseTable, NEW i \in PromiseId, NEW p \in Pool, NEW t \in Time
  PROVE  Load(ps[i], p, t) \in Nat
<1>1. ps[i] \in PromiseRecord \/ ps[i] = Absent
  BY DEF PromiseTable
<1>2. CASE ps[i] \in PromiseRecord
  <2>1. ps[i].bundle \in Bundle
    BY <1>2 DEF PromiseRecord
  <2>2. Demand[ps[i].bundle][p][t] \in Nat
    BY <2>1, DemandChangesAtBoundaries
  <2> QED BY <2>2 DEF Load
<1>3. CASE ps[i] = Absent
  BY <1>3 DEF Load, Active, Absent
<1> QED BY <1>1, <1>2, <1>3

\* What the promises take from a cell is a natural number.
LEMMA UsageTyped ==
  ASSUME NEW ps \in PromiseTable, NEW p \in Pool, NEW t \in Time
  PROVE  Usage(ps, p, t) \in Nat
<1> DEFINE load == [i \in PromiseId |-> Load(ps[i], p, t)]
<1>1. load \in [PromiseId -> Nat]
  BY LoadTyped
<1>2. Total(load) \in Nat
  <2> HIDE DEF load
  <2> QED BY <1>1, TotalNonnegative
<1> QED BY <1>2 DEF Usage

\* What the expirations at now give back to a cell.
Returned(now, p, t) ==
  Total([i \in PromiseId |-> IF i \in Expiring(now) THEN Load(promises[i], p, t) ELSE 0])

\* What the expirations give back to a cell is a natural number.
LEMMA ReturnedTyped ==
  ASSUME PromisesTyped, NEW now, NEW p \in Pool, NEW t \in Time
  PROVE  Returned(now, p, t) \in Nat
<1> DEFINE load == [i \in PromiseId |->
                      IF i \in Expiring(now) THEN Load(promises[i], p, t) ELSE 0]
<1>1. load \in [PromiseId -> Nat]
  BY LoadTyped DEF PromisesTyped, PromiseTable
<1>2. Total(load) \in Nat
  <2> HIDE DEF load
  <2> QED BY <1>1, TotalNonnegative
<1> QED BY <1>2 DEF Returned

\* The timelines after the expirations are functions to integers.
LEMMA RestoredSlackTyped ==
  ASSUME PromisesTyped, slack \in [Pool -> [Time -> Int]], NEW now
  PROVE  /\ RestoredSlack(now) \in [Pool -> [Time -> Int]]
         /\ \A p \in Pool, t \in Time :
              RestoredSlack(now)[p][t] = slack[p][t] + Returned(now, p, t)
<1>1. RestoredSlack(now) = [p \in Pool |-> [t \in Time |-> slack[p][t] + Returned(now, p, t)]]
  BY DEF RestoredSlack, Returned
<1>2. \A p \in Pool, t \in Time : Returned(now, p, t) \in Nat
  BY ReturnedTyped
<1> QED BY <1>1, <1>2

\* Consuming and restoring a bundle keeps slack an integer.
LEMMA ConsumeRestoreTyped ==
  ASSUME NEW sl \in [Pool -> [Time -> Int]], NEW b \in Bundle
  PROVE  /\ Consume(sl, b) \in [Pool -> [Time -> Int]]
         /\ Restore(sl, b) \in [Pool -> [Time -> Int]]
<1>1. \A p \in Pool, t \in Time : Demand[b][p][t] \in Nat
  BY DemandChangesAtBoundaries
<1> QED BY <1>1 DEF Consume, Restore

\* The empty engine is well typed.
LEMMA InitTyped ==
  ASSUME Init
  PROVE  TypeInv
<1>1. TypeOK
  BY CountsAreNatural DEF Init, TypeOK
<1>2. VersionsFollowSequence
  BY DEF Init, VersionsFollowSequence, Absent
<1> QED BY <1>1, <1>2 DEF TypeInv

\* The promise table is well formed after a step that gives one promise a new
\* record, dated with the next sequence number.
LEMMA TableAfterChange ==
  ASSUME RecordInv, NEW now, NEW i \in PromiseId, NEW r \in PromiseRecord,
         SequenceLeft(now), r.version <= r.updated, r.updated = NextSequence(now),
         promises' = [ExpiredPromises(now) EXCEPT ![i] = r],
         sequence' = NextSequence(now)
  PROVE  RecordInv'
<1>1. /\ ExpiredPromises(now) \in PromiseTable
      /\ ExpiredSequence(now) \in 0 .. MaxSequence
      /\ \A j \in PromiseId : ExpiredPromises(now)[j].state # "Absent" =>
           /\ ExpiredPromises(now)[j].version <= ExpiredPromises(now)[j].updated
           /\ ExpiredPromises(now)[j].updated <= ExpiredSequence(now)
  BY ExpirationsTyped DEF PromiseTable
<1>2. sequence' \in 0 .. MaxSequence /\ sequence' = ExpiredSequence(now) + 1
  BY <1>1, CountsAreNatural DEF SequenceLeft, NextSequence
<1>3. promises' \in PromiseTable
  BY <1>1 DEF PromiseTable
<1>4. ASSUME NEW j \in PromiseId, promises'[j].state # "Absent"
      PROVE  promises'[j].version <= promises'[j].updated /\ promises'[j].updated <= sequence'
  <2>1. CASE j = i
    <3>1. promises'[j] = r
      BY <1>1, <2>1 DEF PromiseTable
    <3>2. r.updated = sequence'
      OBVIOUS
    <3> QED BY <1>2, <3>1, <3>2
  <2>2. CASE j # i
    <3>1. promises'[j] = ExpiredPromises(now)[j]
      BY <1>1, <2>2 DEF PromiseTable
    <3>2. promises'[j] \in PromiseRecord
      <4>1. Absent.state = "Absent"
        BY DEF Absent
      <4> QED BY <1>3, <1>4, <4>1 DEF PromiseTable
    <3>3. promises'[j].updated \in Int
      BY <3>2, CountsAreNatural DEF PromiseRecord
    <3> QED BY <1>1, <1>2, <1>4, <3>1, <3>3
  <2> QED BY <2>1, <2>2
<1> QED BY <1>2, <1>3, <1>4 DEF RecordInv, PromisesTyped, VersionsFollowSequence, PromiseTable

\* The same when only expirations change the promise table.
LEMMA TableAfterExpiration ==
  ASSUME RecordInv, NEW now, promises' = ExpiredPromises(now),
         \/ sequence' = ExpiredSequence(now)
         \/ SequenceLeft(now) /\ sequence' = NextSequence(now)
  PROVE  RecordInv'
<1>1. /\ ExpiredPromises(now) \in PromiseTable
      /\ ExpiredSequence(now) \in 0 .. MaxSequence
      /\ \A j \in PromiseId : ExpiredPromises(now)[j].state # "Absent" =>
           /\ ExpiredPromises(now)[j].version <= ExpiredPromises(now)[j].updated
           /\ ExpiredPromises(now)[j].updated <= ExpiredSequence(now)
  BY ExpirationsTyped DEF PromiseTable
<1>2. sequence' \in 0 .. MaxSequence /\ ExpiredSequence(now) <= sequence'
  BY <1>1, CountsAreNatural DEF SequenceLeft, NextSequence
<1>3. ASSUME NEW j \in PromiseId, promises'[j].state # "Absent"
      PROVE  promises'[j].version <= promises'[j].updated /\ promises'[j].updated <= sequence'
  <2>1. promises'[j] \in PromiseRecord
    <3>1. Absent.state = "Absent"
      BY DEF Absent
    <3> QED BY <1>1, <1>3, <3>1 DEF PromiseTable
  <2>2. promises'[j].updated \in Int
    BY <2>1, CountsAreNatural DEF PromiseRecord
  <2> QED BY <1>1, <1>2, <1>3, <2>2
<1> QED BY <1>1, <1>2, <1>3 DEF RecordInv, PromisesTyped, VersionsFollowSequence, PromiseTable

\* What the index argument needs of the type: records and integer slack.
LEMMA TypeInvFacts ==
  ASSUME TypeInv
  PROVE  RecordInv /\ slack \in [Pool -> [Time -> Int]]
BY DEF TypeInv, TypeOK, RecordInv, PromisesTyped

\* The record of a hold that was just accepted.
LEMMA HeldRecordTyped ==
  ASSUME NEW b \in Bundle, NEW deadline \in Instant, NEW seq \in 1 .. MaxSequence
  PROVE  [state |-> "Held", deadline |-> deadline, bundle |-> b, version |-> 1,
          created |-> seq, updated |-> seq] \in PromiseRecord
<1>1. 1 \in 1 .. MaxSequence
  BY CountsAreNatural
<1> QED BY <1>1 DEF PromiseRecord

\* The next sequence number, if one is left, is a legal one.
LEMMA NextSequenceTyped ==
  ASSUME RecordInv, NEW now, SequenceLeft(now)
  PROVE  NextSequence(now) \in 1 .. MaxSequence /\ sequence < NextSequence(now)
BY ExpirationsTyped, CountsAreNatural DEF SequenceLeft, NextSequence, RecordInv

\* An active promise, after the expirations, has a record with a version that
\* the next sequence number exceeds.
LEMMA ActiveHasRecord ==
  ASSUME RecordInv, NEW now, NEW i \in PromiseId, Active(ExpiredPromises(now)[i]),
         SequenceLeft(now)
  PROVE  /\ ExpiredPromises(now)[i] \in PromiseRecord
         /\ ExpiredPromises(now)[i].bundle \in Bundle
         /\ ExpiredPromises(now)[i].version < NextSequence(now)
         /\ ExpiredPromises(now)[i] = promises[i]
<1> DEFINE r == ExpiredPromises(now)[i]
<1>1. r \in PromiseRecord \union {Absent} /\ r.state # "Absent" /\ r # Absent
  BY ExpirationsTyped DEF Active, Absent
<1>2. r.version <= r.updated /\ r.updated <= ExpiredSequence(now)
      /\ ExpiredSequence(now) \in 0 .. MaxSequence
  BY <1>1, ExpirationsTyped
<1>3. r.version \in 1 .. MaxSequence /\ r.updated \in 1 .. MaxSequence /\ r.bundle \in Bundle
  BY <1>1 DEF PromiseRecord
<1>4. r.version < NextSequence(now)
  BY <1>2, <1>3, CountsAreNatural DEF NextSequence
<1>5. r = promises[i]
  <2>1. CASE i \in Expiring(now)
    <3>1. r = NextVersion(promises[i], "Expired", 0, promises[i].bundle,
                          sequence + Rank(i, now))
      BY <2>1, ExpiredRecord
    <3>2. r.state = "Expired"
      BY <3>1 DEF NextVersion
    <3> QED BY <3>2 DEF Active
  <2>2. CASE i \notin Expiring(now)
    BY <2>2 DEF ExpiredPromises
  <2> QED BY <2>1, <2>2
<1> QED BY <1>1, <1>3, <1>4, <1>5

\* Every effect keeps the state well typed.
LEMMA EffectTyped ==
  ASSUME TypeInv, NEW now \in Instant, Effect(now)
  PROVE  TypeInv'
<1> USE TypeInvFacts
<1>1. /\ RestoredSlack(now) \in [Pool -> [Time -> Int]]
      /\ ExpiredPromises(now) \in PromiseTable
  BY RestoredSlackTyped, ExpirationsTyped DEF RecordInv, PromiseTable
<1>2. \A curve \in Curve : curve \in [Time -> Int]
  BY CurvesBoundCapacity, CountsAreNatural
<1>3. ASSUME RecordInv', slack' \in [Pool -> [Time -> Int]],
             pools' \in [Pool -> Curve \union {NoCurve}], forced' \subseteq Pool,
             reply'.at = now
      PROVE  TypeInv'
  BY <1>3 DEF TypeInv, TypeOK, RecordInv, PromisesTyped
<1>4. CASE ExpiryOnly(now)
  <2>1. RecordInv'
    BY <1>4, TableAfterExpiration DEF ExpiryOnly
  <2> QED BY <1>1, <1>3, <1>4, <2>1 DEF ExpiryOnly, TypeInv, TypeOK
<1>5. ASSUME NEW p \in Pool, NEW curve \in Curve, PoolCreated(p, curve, now)
      PROVE  TypeInv'
  <2>1. RecordInv'
    BY <1>5, TableAfterExpiration DEF PoolCreated
  <2>2. slack' \in [Pool -> [Time -> Int]]
    BY <1>1, <1>2, <1>5 DEF PoolCreated
  <2>3. pools' \in [Pool -> Curve \union {NoCurve}]
    BY <1>5 DEF PoolCreated, TypeInv, TypeOK
  <2> QED BY <1>3, <1>5, <2>1, <2>2, <2>3 DEF PoolCreated, TypeInv, TypeOK
<1>6. ASSUME NEW p \in Pool, NEW curve \in Curve, NEW mode \in {"Strict", "Force"},
             CapacityRevised(p, curve, mode, now)
      PROVE  TypeInv'
  <2>1. RecordInv'
    BY <1>6, TableAfterExpiration DEF CapacityRevised
  <2>2. Rebuilt(p, curve, now) \in [Time -> Int]
    BY <1>1, <1>2, UsageTyped DEF Rebuilt
  <2>3. slack' \in [Pool -> [Time -> Int]]
    BY <1>1, <1>6, <2>2 DEF CapacityRevised
  <2>4. pools' \in [Pool -> Curve \union {NoCurve}]
    BY <1>6 DEF CapacityRevised, TypeInv, TypeOK
  <2>5. forced' \subseteq Pool
    BY <1>6 DEF CapacityRevised, TypeInv, TypeOK
  <2> QED BY <1>3, <1>6, <2>1, <2>3, <2>4, <2>5 DEF CapacityRevised
<1>7. ASSUME NEW i \in PromiseId, NEW b \in Bundle, NEW deadline \in Instant,
             PromiseHeld(i, b, deadline, now)
      PROVE  TypeInv'
  <2> DEFINE r == [state |-> "Held", deadline |-> deadline, bundle |-> b, version |-> 1,
                   created |-> NextSequence(now), updated |-> NextSequence(now)]
  <2>1. NextSequence(now) \in 1 .. MaxSequence
    BY <1>7, NextSequenceTyped DEF PromiseHeld
  <2>2. r \in PromiseRecord /\ r.version <= r.updated /\ r.updated = NextSequence(now)
    BY <2>1, HeldRecordTyped
  <2>3. promises' = [ExpiredPromises(now) EXCEPT ![i] = r]
    BY <1>7 DEF PromiseHeld
  <2>4. RecordInv'
    <3> HIDE DEF r
    <3> QED BY <1>7, <2>2, <2>3, TableAfterChange DEF PromiseHeld
  <2>5. slack' \in [Pool -> [Time -> Int]]
    BY <1>1, <1>7, ConsumeRestoreTyped DEF PromiseHeld
  <2> QED BY <1>3, <1>7, <2>4, <2>5 DEF PromiseHeld, TypeInv, TypeOK
<1>8. ASSUME NEW i \in PromiseId, NEW state \in {"Held", "Committed", "Released"},
             NEW deadline \in Instant \union {0}, NEW b \in Bundle, NEW sl,
             sl \in [Pool -> [Time -> Int]],
             PromiseMoved(i, NextVersion(ExpiredPromises(now)[i], state, deadline, b,
                                         NextSequence(now)), sl, now)
      PROVE  TypeInv'
  <2> DEFINE r == NextVersion(ExpiredPromises(now)[i], state, deadline, b, NextSequence(now))
  <2>1. NextSequence(now) \in 1 .. MaxSequence
    BY <1>8, NextSequenceTyped DEF PromiseMoved
  <2>2. r \in PromiseRecord /\ r.version <= r.updated /\ r.updated = NextSequence(now)
    <3> DEFINE old == ExpiredPromises(now)[i]
    <3>1. old \in PromiseRecord /\ old.version < NextSequence(now)
      BY <1>8, ActiveHasRecord DEF PromiseMoved
    <3> HIDE DEF old
    <3>2. /\ NextVersion(old, state, deadline, b, NextSequence(now)) \in PromiseRecord
          /\ LET new == NextVersion(old, state, deadline, b, NextSequence(now))
             IN  new.version <= NextSequence(now) /\ new.updated = NextSequence(now)
      BY <2>1, <3>1, NextVersionTyped
    <3> QED BY <3>2 DEF old
  <2>3. promises' = [ExpiredPromises(now) EXCEPT ![i] = r]
    BY <1>8 DEF PromiseMoved
  <2>4. RecordInv'
    <3> HIDE DEF r
    <3> QED BY <1>8, <2>2, <2>3, TableAfterChange DEF PromiseMoved
  <2> QED BY <1>3, <1>8, <2>4 DEF PromiseMoved, TypeInv, TypeOK
<1>9. ASSUME NEW i \in PromiseId, PromiseCommitted(i, now) PROVE TypeInv'
  <2>1. ExpiredPromises(now)[i].bundle \in Bundle
    BY <1>9, ActiveHasRecord DEF PromiseCommitted, PromiseMoved
  <2> QED BY <1>1, <1>8, <1>9, <2>1 DEF PromiseCommitted, Advance
<1>10. ASSUME NEW i \in PromiseId, PromiseReleased(i, now) PROVE TypeInv'
  <2>1. ExpiredPromises(now)[i].bundle \in Bundle
    BY <1>10, ActiveHasRecord DEF PromiseReleased, PromiseMoved
  <2>2. Restore(RestoredSlack(now), ExpiredPromises(now)[i].bundle)
          \in [Pool -> [Time -> Int]]
    BY <1>1, <2>1, ConsumeRestoreTyped
  <2> QED BY <1>8, <1>10, <2>1, <2>2 DEF PromiseReleased, Advance
<1>11. ASSUME NEW i \in PromiseId, NEW b \in Bundle, NEW target \in ReplacementState,
              PromiseReplaced(i, b, target, now)
       PROVE  TypeInv'
  <2> DEFINE base == Restore(RestoredSlack(now), ExpiredPromises(now)[i].bundle)
  <2>1. ExpiredPromises(now)[i].bundle \in Bundle
    BY <1>11, ActiveHasRecord DEF PromiseReplaced, PromiseMoved
  <2>2. Consume(base, b) \in [Pool -> [Time -> Int]]
    BY <1>1, <2>1, ConsumeRestoreTyped
  <2>3. target.state \in {"Held", "Committed"} /\ target.deadline \in Instant \union {0}
    BY DEF ReplacementState
  <2> QED BY <1>8, <1>11, <2>2, <2>3 DEF PromiseReplaced
<1> QED BY <1>4, <1>5, <1>6, <1>7, <1>9, <1>10, <1>11 DEF Effect

\* A step that changes no variable keeps every state predicate.
LEMMA StutterTyped ==
  ASSUME TypeInv, UNCHANGED vars
  PROVE  TypeInv'
BY DEF TypeInv, TypeOK, VersionsFollowSequence, vars

\* The type of the state and the bound of versions by the sequence are inductive:
\* every change of a promise takes a sequence number of its own, so that versions
\* cannot run ahead of the global sequence (SequenceNumber::next).
THEOREM TypeInvariant == Spec => []TypeInv
<1>1. Init => TypeInv
  BY InitTyped
<1>2. TypeInv /\ [Next]_vars => TypeInv'
  BY NextHasEffect, EffectTyped, StutterTyped
<1> QED BY <1>1, <1>2, PTL DEF Spec

\* In every reachable state of the engine, the promise table holds full records
\* with versions and sequence numbers in range, slack is an integer in every
\* cell, and the sequence never passes its largest number: what Engine's accessors
\* and the checked arithmetic of SequenceNumber::next promise.
THEOREM TypeCorrect == Spec => []TypeOK
BY TypeInvariant, PTL DEF TypeInv

-----------------------------------------------------------------------------
(* The life of a promise.                                                   *)

\* What LifecycleIsVersioned says of one promise.
Advances(i) ==
  promises'[i] # promises[i] =>
    /\ promises[i].state \notin {"Released", "Expired"}
    /\ promises'[i].state = "Expired" => promises[i].state = "Held"
    /\ promises'[i].version = promises[i].version + 1
    /\ promises'[i].updated > promises[i].updated
    /\ promises'[i].updated > sequence /\ promises'[i].updated <= sequence'
    /\ promises[i].state # "Absent" => promises'[i].created = promises[i].created

\* A promise that at most expires advances.
LEMMA ExpiryAdvances ==
  ASSUME RecordInv, NEW now, NEW i \in PromiseId, promises'[i] = ExpiredPromises(now)[i],
         sequence' \in Int, ExpiredSequence(now) <= sequence'
  PROVE  Advances(i)
<1>1. CASE i \notin Expiring(now)
  BY <1>1 DEF Advances, ExpiredPromises
<1>2. CASE i \in Expiring(now)
  <2> DEFINE seq == sequence + Rank(i, now)
  <2>1. /\ promises[i] \in PromiseRecord /\ promises[i].state = "Held"
        /\ promises'[i] = NextVersion(promises[i], "Expired", 0, promises[i].bundle, seq)
    BY <1>2, ExpiredRecord
  <2>2. /\ promises[i].version \in Int /\ promises[i].updated \in Int
        /\ promises[i].updated <= sequence /\ sequence \in Int
    BY <2>1, CountsAreNatural DEF PromiseRecord, RecordInv, VersionsFollowSequence
  <2>3. seq \in Int /\ seq > sequence /\ seq <= ExpiredSequence(now)
    BY <1>2, <2>2, ExpirationsAreNumbered DEF ExpiredSequence, RecordInv
  <2>4. seq > promises[i].updated /\ seq <= sequence'
    <3>1. ExpiredSequence(now) \in Int
      BY ExpirationsTyped, CountsAreNatural
    <3> HIDE DEF seq
    <3> QED BY <2>2, <2>3, <3>1
  <2> HIDE DEF seq
  <2> QED BY <2>1, <2>3, <2>4 DEF Advances, NextVersion
<1> QED BY <1>1, <1>2

\* The promise that a command moves advances, and so do the others.
LEMMA MoveAdvances ==
  ASSUME RecordInv, NEW now, NEW i \in PromiseId, NEW state, state # "Expired",
         NEW deadline, NEW b, NEW sl,
         PromiseMoved(i, NextVersion(ExpiredPromises(now)[i], state, deadline, b,
                                     NextSequence(now)), sl, now)
  PROVE  \A j \in PromiseId : Advances(j)
<1> DEFINE new == NextVersion(promises[i], state, deadline, b, NextSequence(now))
<1>1. /\ promises[i] \in PromiseRecord /\ Active(promises[i])
      /\ ExpiredPromises(now)[i] = promises[i]
  BY ActiveHasRecord DEF PromiseMoved
<1>2. /\ promises' = [ExpiredPromises(now) EXCEPT ![i] = new]
      /\ sequence' = NextSequence(now)
  BY <1>1 DEF PromiseMoved
<1>3. /\ NextSequence(now) \in Int /\ sequence < NextSequence(now) /\ sequence \in Int
      /\ ExpiredSequence(now) <= NextSequence(now)
  BY NextSequenceTyped, ExpirationsTyped, CountsAreNatural
    DEF PromiseMoved, NextSequence, RecordInv
<1>4. promises'[i] = new
  BY <1>2, ExpirationsTyped
<1>5. Advances(i)
  <2>1. /\ promises[i].version \in Int /\ promises[i].updated \in Int
        /\ promises[i].updated <= sequence
    BY <1>1, CountsAreNatural
      DEF PromiseRecord, Active, RecordInv, VersionsFollowSequence
  <2>2. /\ promises'[i].state = state /\ promises'[i].version = promises[i].version + 1
        /\ promises'[i].updated = NextSequence(now)
        /\ promises'[i].created = promises[i].created
    BY <1>4 DEF NextVersion
  <2>3. promises[i].state \notin {"Released", "Expired"}
    BY <1>1 DEF Active
  <2> QED BY <1>2, <1>3, <2>1, <2>2, <2>3 DEF Advances
<1>6. ASSUME NEW j \in PromiseId, j # i PROVE Advances(j)
  <2>1. promises'[j] = ExpiredPromises(now)[j]
    BY <1>2, <1>6, ExpirationsTyped
  <2> QED BY <1>2, <1>3, <2>1, ExpiryAdvances
<1> QED BY <1>5, <1>6

\* A new hold is the first version of its promise.
LEMMA HoldAdvances ==
  ASSUME RecordInv, NEW now, NEW i \in PromiseId, NEW b, NEW deadline,
         PromiseHeld(i, b, deadline, now)
  PROVE  \A j \in PromiseId : Advances(j)
<1> DEFINE new == [state |-> "Held", deadline |-> deadline, bundle |-> b, version |-> 1,
                   created |-> NextSequence(now), updated |-> NextSequence(now)]
<1>1. promises[i] = Absent
  BY DEF PromiseHeld, HoldAllowed, RecordInv, PromisesTyped, PromiseRecord
<1>2. /\ promises' = [ExpiredPromises(now) EXCEPT ![i] = new]
      /\ sequence' = NextSequence(now)
  BY DEF PromiseHeld
<1>3. /\ NextSequence(now) \in Int /\ sequence < NextSequence(now) /\ sequence \in Nat
      /\ ExpiredSequence(now) <= NextSequence(now)
  BY NextSequenceTyped, ExpirationsTyped, CountsAreNatural
    DEF PromiseHeld, NextSequence, RecordInv
<1>4. promises'[i] = new
  BY <1>2, ExpirationsTyped
<1>5. Advances(i)
  BY <1>1, <1>2, <1>3, <1>4 DEF Advances, Absent
<1>6. ASSUME NEW j \in PromiseId, j # i PROVE Advances(j)
  <2>1. promises'[j] = ExpiredPromises(now)[j]
    BY <1>2, <1>6, ExpirationsTyped
  <2> QED BY <1>2, <1>3, <2>1, ExpiryAdvances
<1> QED BY <1>5, <1>6

\* Every effect of a command moves promises forward only.
LEMMA EffectAdvances ==
  ASSUME RecordInv, NEW now, Effect(now)
  PROVE  \A i \in PromiseId : Advances(i)
<1>1. ASSUME promises' = ExpiredPromises(now),
             \/ sequence' = ExpiredSequence(now)
             \/ sequence' = NextSequence(now)
      PROVE  \A i \in PromiseId : Advances(i)
  <2>1. ExpiredSequence(now) \in Int
    BY ExpirationsTyped, CountsAreNatural
  <2>2. sequence' \in Int /\ ExpiredSequence(now) <= sequence'
    BY <1>1, <2>1 DEF NextSequence
  <2> QED BY <1>1, <2>2, ExpiryAdvances
<1>2. CASE ExpiryOnly(now)
  BY <1>1, <1>2 DEF ExpiryOnly
<1>3. ASSUME NEW p \in Pool, NEW curve \in Curve, PoolCreated(p, curve, now)
      PROVE  \A i \in PromiseId : Advances(i)
  BY <1>1, <1>3 DEF PoolCreated
<1>4. ASSUME NEW p \in Pool, NEW curve \in Curve, NEW mode \in {"Strict", "Force"},
             CapacityRevised(p, curve, mode, now)
      PROVE  \A i \in PromiseId : Advances(i)
  BY <1>1, <1>4 DEF CapacityRevised
<1>5. ASSUME NEW j \in PromiseId, PromiseCommitted(j, now)
      PROVE  \A i \in PromiseId : Advances(i)
  BY <1>5, MoveAdvances DEF PromiseCommitted, Advance
<1>6. ASSUME NEW j \in PromiseId, PromiseReleased(j, now)
      PROVE  \A i \in PromiseId : Advances(i)
  BY <1>6, MoveAdvances DEF PromiseReleased, Advance
<1>7. ASSUME NEW j \in PromiseId, NEW b \in Bundle, NEW target \in ReplacementState,
             PromiseReplaced(j, b, target, now)
      PROVE  \A i \in PromiseId : Advances(i)
  <2>1. target.state # "Expired"
    BY DEF ReplacementState
  <2> QED BY <1>7, <2>1, MoveAdvances DEF PromiseReplaced
<1> QED BY <1>2, <1>3, <1>4, <1>5, <1>6, <1>7, HoldAdvances DEF Effect

\* Whatever a command does to a promise, it is the next version of it, dated with
\* a fresh sequence number; released and expired promises are final, and only a
\* hold can expire: the transitions of Promise::commit, release, replace and expire
\* as every handler and process_expirations compose them.
THEOREM LifecycleVersioned == Spec => LifecycleIsVersioned
<1> DEFINE A == \A i \in PromiseId : Advances(i)
<1>1. TypeInv /\ [Next]_vars => [A]_vars
  BY NextHasEffect, EffectAdvances, TypeInvFacts
<1>2. Spec => [][A]_vars
  <2> HIDE DEF A
  <2> QED BY <1>1, TypeInvariant, PTL DEF Spec
<1> QED BY <1>2 DEF LifecycleIsVersioned, Advances

-----------------------------------------------------------------------------
(* The maintained index.                                                    *)

Indexed(ps, sl) ==
  \A p \in Pool, t \in Time :
    sl[p][t] = IF p \in Live THEN pools[p][t] - Usage(ps, p, t) ELSE 0

\* Admission keeps the pools of an active promise in existence, so that a new
\* pool starts without usage.
Supported(ps) == \A i \in PromiseId : Active(ps[i]) => PoolsOf(ps[i].bundle) \subseteq Live

IndexInv ==
  /\ TypeInv
  /\ Indexed(promises, slack)
  /\ Supported(promises)

\* An active promise is on a bundle.
LEMMA ActiveTyped ==
  ASSUME NEW ps \in PromiseTable, NEW i \in PromiseId, Active(ps[i])
  PROVE  ps[i] \in PromiseRecord /\ ps[i].bundle \in Bundle
<1>1. ps[i] # Absent
  BY DEF Active, Absent
<1>2. ps[i] \in PromiseRecord
  BY <1>1 DEF PromiseTable
<1> QED BY <1>2 DEF PromiseRecord

\* Nothing adds up to nothing.
LEMMA TotalOfZeros ==
  ASSUME NEW load \in [PromiseId -> Int], \A i \in PromiseId : load[i] = 0
  PROVE  Total(load) = 0
BY SumOfZeros, CountsAreNatural DEF Total, PromiseId

\* Nothing is taken from a pool that does not exist.
LEMMA IdlePool ==
  ASSUME NEW ps \in PromiseTable, Supported(ps), NEW p \in Pool, p \notin Live, NEW t \in Time
  PROVE  Usage(ps, p, t) = 0
<1>1. ASSUME NEW i \in PromiseId PROVE Load(ps[i], p, t) = 0
  <2>1. CASE Active(ps[i])
    <3>1. ps[i].bundle \in Bundle /\ p \notin PoolsOf(ps[i].bundle)
      BY <2>1, ActiveTyped DEF Supported
    <3>2. Demand[ps[i].bundle][p][t] \in Nat
      BY <3>1, DemandChangesAtBoundaries
    <3>3. ~(Demand[ps[i].bundle][p][t] > 0)
      BY <3>1 DEF PoolsOf
    <3> QED BY <3>2, <3>3 DEF Load
  <2>2. CASE ~Active(ps[i])
    BY <2>2 DEF Load
  <2> QED BY <2>1, <2>2
<1> DEFINE load == [i \in PromiseId |-> Load(ps[i], p, t)]
<1>2. Total(load) = 0
  <2>1. load \in [PromiseId -> Int] /\ \A i \in PromiseId : load[i] = 0
    BY <1>1
  <2> HIDE DEF load
  <2> QED BY <2>1, TotalOfZeros
<1> QED BY <1>2 DEF Usage

\* What the expirations give back is what the expired holds took.
LEMMA UsageAfterExpiration ==
  ASSUME TypeInv, NEW now, NEW p \in Pool, NEW t \in Time
  PROVE  Usage(promises, p, t) = Usage(ExpiredPromises(now), p, t) + Returned(now, p, t)
<1> DEFINE load == [i \in PromiseId |-> Load(promises[i], p, t)]
           kept == [i \in PromiseId |-> Load(ExpiredPromises(now)[i], p, t)]
           freed == [i \in PromiseId |->
                       IF i \in Expiring(now) THEN Load(promises[i], p, t) ELSE 0]
<1>1. promises \in PromiseTable /\ ExpiredPromises(now) \in PromiseTable
  BY TypeInvFacts, ExpirationsTyped DEF RecordInv, PromisesTyped, PromiseTable
<1>2. \A i \in PromiseId : /\ Load(promises[i], p, t) \in Nat
                           /\ Load(ExpiredPromises(now)[i], p, t) \in Nat
  BY <1>1, LoadTyped
<1>3. ASSUME NEW i \in PromiseId PROVE load[i] = kept[i] + freed[i]
  <2>1. CASE i \in Expiring(now)
    <3>1. ExpiredPromises(now)[i].state = "Expired"
      <4>1. ExpiredPromises(now)[i] = NextVersion(promises[i], "Expired", 0,
                                        promises[i].bundle, sequence + Rank(i, now))
        BY <2>1, TypeInvFacts, ExpiredRecord
      <4> QED BY <4>1 DEF NextVersion
    <3>2. Load(ExpiredPromises(now)[i], p, t) = 0
      BY <3>1 DEF Load, Active
    <3> QED BY <1>2, <2>1, <3>2
  <2>2. CASE i \notin Expiring(now)
    <3>1. ExpiredPromises(now)[i] = promises[i]
      BY <2>2 DEF ExpiredPromises
    <3> QED BY <1>2, <2>2, <3>1
  <2> QED BY <2>1, <2>2
<1>4. /\ load \in [PromiseId -> Int] /\ kept \in [PromiseId -> Int]
      /\ freed \in [PromiseId -> Int]
  BY <1>2
<1>5. Total(load) = Total(kept) + Total(freed)
  <2> HIDE DEF load, kept, freed
  <2> QED BY <1>3, <1>4, TotalAdds
<1> QED BY <1>5 DEF Usage, Returned

\* process_expirations keeps the index in step with the table.
LEMMA ExpirationIndexed ==
  ASSUME IndexInv, NEW now
  PROVE  /\ Supported(ExpiredPromises(now))
         /\ Indexed(ExpiredPromises(now), RestoredSlack(now))
<1>1. /\ RecordInv /\ TypeInv /\ slack \in [Pool -> [Time -> Int]]
      /\ promises \in PromiseTable /\ ExpiredPromises(now) \in PromiseTable
  BY TypeInvFacts, ExpirationsTyped DEF IndexInv, RecordInv, PromisesTyped, PromiseTable
<1>2. Supported(ExpiredPromises(now))
  <2>1. ASSUME NEW i \in PromiseId, Active(ExpiredPromises(now)[i])
        PROVE  ExpiredPromises(now)[i] = promises[i]
    <3>1. CASE i \in Expiring(now)
      <4>1. ExpiredPromises(now)[i] = NextVersion(promises[i], "Expired", 0,
                                        promises[i].bundle, sequence + Rank(i, now))
        BY <1>1, <3>1, ExpiredRecord
      <4>2. ExpiredPromises(now)[i].state = "Expired"
        BY <4>1 DEF NextVersion
      <4> QED BY <2>1, <4>2 DEF Active
    <3>2. CASE i \notin Expiring(now)
      BY <3>2 DEF ExpiredPromises
    <3> QED BY <3>1, <3>2
  <2> QED BY <2>1 DEF Supported, IndexInv
<1>3. ASSUME NEW p \in Pool, NEW t \in Time
      PROVE  RestoredSlack(now)[p][t] =
               IF p \in Live THEN pools[p][t] - Usage(ExpiredPromises(now), p, t) ELSE 0
  <2>1. /\ RestoredSlack(now)[p][t] = slack[p][t] + Returned(now, p, t)
        /\ Usage(promises, p, t) = Usage(ExpiredPromises(now), p, t) + Returned(now, p, t)
    BY <1>1, RestoredSlackTyped, UsageAfterExpiration DEF RecordInv
  <2>2. /\ Returned(now, p, t) \in Nat
        /\ Usage(promises, p, t) \in Nat /\ Usage(ExpiredPromises(now), p, t) \in Nat
    BY <1>1, ReturnedTyped, UsageTyped DEF RecordInv
  <2>3. CASE p \in Live
    <3>1. pools[p] \in Curve
      BY <1>1, <2>3 DEF Live, TypeInv, TypeOK
    <3>2. pools[p][t] \in Int
      BY <3>1, CurvesBoundCapacity, CountsAreNatural
    <3>3. slack[p][t] = pools[p][t] - Usage(promises, p, t)
      BY <2>3 DEF IndexInv, Indexed
    <3> QED BY <2>1, <2>2, <2>3, <3>2, <3>3
  <2>4. CASE p \notin Live
    <3>1. slack[p][t] = 0
      BY <2>4 DEF IndexInv, Indexed
    <3>2. Usage(promises, p, t) = 0
      BY <1>1, <2>4, IdlePool DEF IndexInv
    <3> QED BY <2>1, <2>2, <2>4, <3>1, <3>2
  <2> QED BY <2>3, <2>4
<1> QED BY <1>2, <1>3 DEF Indexed

\* Moving the load of one promise moves the usage of a cell by as much.
LEMMA UsageAfterChange ==
  ASSUME NEW ps \in PromiseTable, NEW i \in PromiseId, NEW r \in PromiseRecord,
         NEW p \in Pool, NEW t \in Time
  PROVE  Usage([ps EXCEPT ![i] = r], p, t) =
           Usage(ps, p, t) + Load(r, p, t) - Load(ps[i], p, t)
<1> DEFINE qs == [ps EXCEPT ![i] = r]
           f == [j \in PromiseId |-> Load(qs[j], p, t)]
           g == [j \in PromiseId |-> Load(ps[j], p, t)]
<1>1. qs \in PromiseTable
  BY DEF PromiseTable
<1>2. f \in [PromiseId -> Int] /\ g \in [PromiseId -> Int]
  <2> HIDE DEF qs
  <2> QED BY <1>1, LoadTyped
<1>3. \A j \in PromiseId : j # i => f[j] = g[j]
  BY DEF PromiseTable
<1>4. f[i] = Load(r, p, t) /\ g[i] = Load(ps[i], p, t)
  BY DEF PromiseTable
<1>5. Total(f) = Total(g) + f[i] - g[i]
  <2> HIDE DEF f, g
  <2> QED BY <1>2, <1>3, TotalChanges
<1>6. Usage(qs, p, t) = Total(f) /\ Usage(ps, p, t) = Total(g)
  BY DEF Usage
<1> HIDE DEF f, g
<1> QED BY <1>4, <1>5, <1>6

\* The timelines after a promise's record changed from before to after.
LoadMoved(sl, new, before, after) ==
  \A p \in Pool, t \in Time : new[p][t] = sl[p][t] + Load(before, p, t) - Load(after, p, t)

\* The index stays in step when one promise gets a new record and the timelines
\* move by the difference of its loads.
LEMMA ChangeIndexed ==
  ASSUME NEW ps \in PromiseTable, NEW sl, Supported(ps), Indexed(ps, sl),
         pools \in [Pool -> Curve \union {NoCurve}],
         NEW i \in PromiseId, NEW r \in PromiseRecord,
         Active(r) => PoolsOf(r.bundle) \subseteq Live,
         NEW new, LoadMoved(sl, new, ps[i], r)
  PROVE  Supported([ps EXCEPT ![i] = r]) /\ Indexed([ps EXCEPT ![i] = r], new)
<1> DEFINE qs == [ps EXCEPT ![i] = r]
<1>1. qs \in PromiseTable /\ qs[i] = r /\ \A j \in PromiseId : j # i => qs[j] = ps[j]
  BY DEF PromiseTable
<1>2. Supported(qs)
  <2> HIDE DEF qs
  <2> QED BY <1>1 DEF Supported
<1>3. ASSUME NEW p \in Pool, NEW t \in Time
      PROVE  new[p][t] = IF p \in Live THEN pools[p][t] - Usage(qs, p, t) ELSE 0
  <2>1. Usage(qs, p, t) = Usage(ps, p, t) + Load(r, p, t) - Load(ps[i], p, t)
    BY UsageAfterChange
  <2>2. Usage(ps, p, t) \in Nat /\ Usage(qs, p, t) \in Nat /\ Load(ps[i], p, t) \in Nat
    BY <1>1, UsageTyped, LoadTyped
  <2>3. Load(r, p, t) \in Nat
    <3>1. Load(qs[i], p, t) \in Nat
      BY <1>1, LoadTyped
    <3> QED BY <1>1, <3>1
  <2> HIDE DEF qs
  <2>4. CASE p \in Live
    <3>1. pools[p][t] \in Int
      BY <2>4, CurvesBoundCapacity, CountsAreNatural DEF Live
    <3>2. sl[p][t] = pools[p][t] - Usage(ps, p, t)
      BY <2>4 DEF Indexed
    <3> QED BY <2>1, <2>2, <2>3, <2>4, <3>1, <3>2 DEF LoadMoved
  <2>5. CASE p \notin Live
    <3>1. sl[p][t] = 0
      BY <2>5 DEF Indexed
    <3>2. Usage(ps, p, t) = 0 /\ Usage(qs, p, t) = 0
      BY <1>1, <1>2, <2>5, IdlePool
    <3>3. Load(r, p, t) = Load(ps[i], p, t)
      <4> DEFINE a == Load(r, p, t)
                 c == Load(ps[i], p, t)
      <4>1. a \in Int /\ c \in Int /\ 0 = 0 + a - c
        BY <2>1, <2>2, <2>3, <3>2
      <4>2. a = c
        <5> HIDE DEF a, c
        <5> QED BY <4>1
      <4> QED BY <4>2
    <3>4. new[p][t] = sl[p][t] + Load(ps[i], p, t) - Load(r, p, t)
      BY DEF LoadMoved
    <3>5. new[p][t] = 0
      BY <2>2, <3>1, <3>3, <3>4
    <3> QED BY <2>5, <3>5
  <2> QED BY <2>4, <2>5
<1> QED BY <1>2, <1>3 DEF Indexed

\* Every effect updates the timelines by what it changes in the promise table, and
\* puts claims only on pools that exist.
LEMMA EffectIndexed ==
  ASSUME IndexInv, NEW now \in Instant, Effect(now)
  PROVE  Indexed(promises, slack)' /\ Supported(promises)'
<1> DEFINE ps == ExpiredPromises(now)
           sl == RestoredSlack(now)
<1>1. /\ RecordInv /\ ps \in PromiseTable /\ sl \in [Pool -> [Time -> Int]]
      /\ pools \in [Pool -> Curve \union {NoCurve}]
      /\ slack \in [Pool -> [Time -> Int]]
  BY TypeInvFacts, ExpirationsTyped, RestoredSlackTyped
    DEF IndexInv, RecordInv, PromiseTable, TypeInv, TypeOK
<1>2. Supported(ps) /\ Indexed(ps, sl)
  BY ExpirationIndexed
<1> HIDE DEF ps, sl
<1>3. ASSUME Supported(promises'), Indexed(promises', slack'), pools' = pools
      PROVE  Indexed(promises, slack)' /\ Supported(promises)'
  BY <1>3 DEF Indexed, Supported, Live
<1>4. CASE ExpiryOnly(now)
  BY <1>2, <1>3, <1>4 DEF ExpiryOnly, ps, sl
<1>5. ASSUME NEW p \in Pool, NEW curve \in Curve, NEW line \in [Time -> Int],
             pools' = [pools EXCEPT ![p] = curve], promises' = ps,
             slack' = [sl EXCEPT ![p] = line],
             \A t \in Time : line[t] = curve[t] - Usage(ps, p, t)
      PROVE  Indexed(promises, slack)' /\ Supported(promises)'
  <2>1. Live' = Live \union {p}
    BY <1>1, <1>5, CurvesBoundCapacity DEF Live
  <2>2. Supported(promises)'
    BY <1>2, <1>5, <2>1 DEF Supported
  <2>3. ASSUME NEW q \in Pool, NEW t \in Time
        PROVE  slack'[q][t] = IF q \in Live' THEN pools'[q][t] - Usage(promises', q, t) ELSE 0
    <3>1. CASE q = p
      <4>1. slack'[q][t] = line[t] /\ pools'[q] = curve
        BY <1>1, <1>5, <3>1
      <4> QED BY <1>5, <2>1, <3>1, <4>1
    <3>2. CASE q # p
      <4>1. slack'[q][t] = sl[q][t] /\ pools'[q] = pools[q] /\ (q \in Live' <=> q \in Live)
        BY <1>1, <1>5, <2>1, <3>2
      <4>2. sl[q][t] = IF q \in Live THEN pools[q][t] - Usage(ps, q, t) ELSE 0
        BY <1>2 DEF Indexed
      <4> QED BY <1>5, <4>1, <4>2
    <3> QED BY <3>1, <3>2
  <2>4. Indexed(promises, slack)'
    BY <2>3 DEF Indexed, Usage
  <2> QED BY <2>2, <2>4
<1>6. ASSUME NEW p \in Pool, NEW curve \in Curve, PoolCreated(p, curve, now)
      PROVE  Indexed(promises, slack)' /\ Supported(promises)'
  <2>1. curve \in [Time -> Int]
    BY CurvesBoundCapacity, CountsAreNatural
  <2>2. \A t \in Time : Usage(ps, p, t) = 0
    BY <1>1, <1>2, <1>6, IdlePool DEF PoolCreated
  <2>3. \A t \in Time : curve[t] = curve[t] - Usage(ps, p, t)
    BY <2>1, <2>2
  <2> QED BY <1>5, <1>6, <2>1, <2>3 DEF PoolCreated, ps, sl
<1>7. ASSUME NEW p \in Pool, NEW curve \in Curve, NEW mode \in {"Strict", "Force"},
             CapacityRevised(p, curve, mode, now)
      PROVE  Indexed(promises, slack)' /\ Supported(promises)'
  <2> DEFINE line == Rebuilt(p, curve, now)
  <2>1. line \in [Time -> Int] /\ \A t \in Time : line[t] = curve[t] - Usage(ps, p, t)
    <3>1. curve \in [Time -> Int]
      BY CurvesBoundCapacity, CountsAreNatural
    <3>2. \A t \in Time : Usage(ps, p, t) \in Nat
      BY <1>1, UsageTyped
    <3> QED BY <3>1, <3>2 DEF Rebuilt, ps
  <2>2. /\ pools' = [pools EXCEPT ![p] = curve] /\ promises' = ps
        /\ slack' = [sl EXCEPT ![p] = line]
    BY <1>7 DEF CapacityRevised, ps, sl
  <2> HIDE DEF line
  <2> QED BY <1>5, <2>1, <2>2
<1>8. ASSUME NEW i \in PromiseId, NEW r \in PromiseRecord,
             Active(r) => PoolsOf(r.bundle) \subseteq Live,
             promises' = [ps EXCEPT ![i] = r], pools' = pools,
             LoadMoved(sl, slack', ps[i], r)
      PROVE  Indexed(promises, slack)' /\ Supported(promises)'
  <2>1. Supported([ps EXCEPT ![i] = r]) /\ Indexed([ps EXCEPT ![i] = r], slack')
    BY <1>1, <1>2, <1>8, ChangeIndexed
  <2> QED BY <1>3, <1>8, <2>1
<1>9. ASSUME NEW i \in PromiseId, NEW b \in Bundle, NEW deadline \in Instant,
             PromiseHeld(i, b, deadline, now)
      PROVE  Indexed(promises, slack)' /\ Supported(promises)'
  <2> DEFINE r == [state |-> "Held", deadline |-> deadline, bundle |-> b, version |-> 1,
                   created |-> NextSequence(now), updated |-> NextSequence(now)]
  <2>1. r \in PromiseRecord
    BY <1>1, <1>9, NextSequenceTyped, HeldRecordTyped DEF PromiseHeld
  <2>2. PoolsOf(r.bundle) \subseteq Live
    <3>1. Erring(b) = {}
      BY <1>9 DEF PromiseHeld, Verdict, FirstError
    <3> QED BY <3>1 DEF Erring
  <2>3. ASSUME NEW p \in Pool, NEW t \in Time
        PROVE  slack'[p][t] = sl[p][t] + Load(ps[i], p, t) - Load(r, p, t)
    <3>1. Load(ps[i], p, t) = 0
      <4>1. i \notin Expiring(now)
        BY <1>9 DEF PromiseHeld, HoldAllowed, Expiring, Due
      <4>2. ps[i].state = "Absent"
        BY <1>9, <4>1 DEF PromiseHeld, HoldAllowed, ps, ExpiredPromises
      <4> QED BY <4>2 DEF Load, Active
    <3>2. Load(r, p, t) = Demand[b][p][t]
      BY DEF Load, Active
    <3>3. slack'[p][t] = sl[p][t] - Demand[b][p][t]
      BY <1>9 DEF PromiseHeld, Consume, sl
    <3>4. Demand[b][p][t] \in Nat /\ sl[p][t] \in Int
      BY <1>1, DemandChangesAtBoundaries
    <3> QED BY <3>1, <3>2, <3>3, <3>4
  <2>4. promises' = [ps EXCEPT ![i] = r] /\ pools' = pools
    BY <1>9 DEF PromiseHeld, ps
  <2> HIDE DEF r
  <2>5. LoadMoved(sl, slack', ps[i], r)
    BY <2>3 DEF LoadMoved
  <2> QED BY <1>8, <2>1, <2>2, <2>4, <2>5
<1>10. ASSUME NEW i \in PromiseId, NEW state \in {"Held", "Committed", "Released"},
              NEW deadline \in Instant \union {0}, NEW b \in Bundle, NEW new,
              PoolsOf(b) \subseteq Live,
              PromiseMoved(i, NextVersion(ps[i], state, deadline, b, NextSequence(now)),
                           new, now),
              LoadMoved(sl, new, ps[i],
                        NextVersion(ps[i], state, deadline, b, NextSequence(now)))
       PROVE  Indexed(promises, slack)' /\ Supported(promises)'
  <2> DEFINE r == NextVersion(ps[i], state, deadline, b, NextSequence(now))
  <2>1. ps[i] \in PromiseRecord /\ ps[i].version < NextSequence(now)
    BY <1>1, <1>10, ActiveHasRecord DEF PromiseMoved, ps
  <2>2. NextSequence(now) \in 1 .. MaxSequence
    BY <1>1, <1>10, NextSequenceTyped DEF PromiseMoved
  <2>3. r \in PromiseRecord
    BY <1>10, <2>1, <2>2, NextVersionTyped
  <2>4. PoolsOf(r.bundle) \subseteq Live
    BY <1>10 DEF NextVersion
  <2>5. promises' = [ps EXCEPT ![i] = r] /\ pools' = pools /\ slack' = new
    BY <1>10 DEF PromiseMoved, ps
  <2>6. LoadMoved(sl, slack', ps[i], r)
    BY <1>10, <2>5
  <2> HIDE DEF r
  <2> QED BY <1>8, <2>3, <2>4, <2>5, <2>6
<1>11. ASSUME NEW i \in PromiseId,
              \/ PromiseCommitted(i, now)
              \/ PromiseReleased(i, now)
              \/ \E b \in Bundle, target \in ReplacementState :
                   PromiseReplaced(i, b, target, now)
       PROVE  Indexed(promises, slack)' /\ Supported(promises)'
  <2> DEFINE old == ps[i].bundle
             After(state, deadline, b) ==
               NextVersion(ps[i], state, deadline, b, NextSequence(now))
  <2>1. Active(ps[i])
    BY <1>11 DEF PromiseCommitted, PromiseReleased, PromiseReplaced, PromiseMoved, ps
  <2>2. old \in Bundle /\ PoolsOf(old) \subseteq Live
    BY <1>1, <1>2, <2>1, ActiveTyped DEF Supported
  <2>3. ASSUME NEW b \in Bundle, NEW p \in Pool, NEW t \in Time
        PROVE  /\ Load(ps[i], p, t) = Demand[old][p][t]
               /\ Demand[b][p][t] \in Nat /\ Demand[old][p][t] \in Nat /\ sl[p][t] \in Int
               /\ Restore(sl, old)[p][t] = sl[p][t] + Demand[old][p][t]
               /\ Consume(Restore(sl, old), b)[p][t] =
                    sl[p][t] + Demand[old][p][t] - Demand[b][p][t]
    <3>1. Demand[b][p][t] \in Nat /\ Demand[old][p][t] \in Nat /\ sl[p][t] \in Int
      BY <1>1, <2>2, DemandChangesAtBoundaries
    <3>2. Restore(sl, old)[p][t] = sl[p][t] + Demand[old][p][t]
      BY DEF Restore
    <3>3. Consume(Restore(sl, old), b)[p][t] = Restore(sl, old)[p][t] - Demand[b][p][t]
      BY DEF Consume
    <3> QED BY <2>1, <3>1, <3>2, <3>3 DEF Load
  <2>4. CASE PromiseCommitted(i, now)
    <3>1. PromiseMoved(i, After("Committed", 0, old), sl, now)
      BY <2>4 DEF PromiseCommitted, Advance, ps, sl
    <3>2. LoadMoved(sl, sl, ps[i], After("Committed", 0, old))
      <4>1. ASSUME NEW p \in Pool, NEW t \in Time
            PROVE  sl[p][t] = sl[p][t] + Load(ps[i], p, t) - Load(After("Committed", 0, old), p, t)
        <5>1. Load(ps[i], p, t) = Demand[old][p][t]
          BY <2>1 DEF Load
        <5>2. Load(After("Committed", 0, old), p, t) = Demand[old][p][t]
          BY DEF Load, Active, NextVersion
        <5>3. Demand[old][p][t] \in Nat /\ sl[p][t] \in Int
          BY <2>2, <2>3
        <5> HIDE DEF After, old
        <5> QED BY <2>2, <2>3, <5>1, <5>2, <5>3
      <4> QED BY <4>1 DEF LoadMoved
    <3> QED BY <1>10, <2>2, <3>1, <3>2
  <2>5. CASE PromiseReleased(i, now)
    <3>1. PromiseMoved(i, After("Released", 0, old), Restore(sl, old), now)
      BY <2>5 DEF PromiseReleased, Advance, ps, sl
    <3>2. LoadMoved(sl, Restore(sl, old), ps[i], After("Released", 0, old))
      <4>1. ASSUME NEW p \in Pool, NEW t \in Time
            PROVE  Restore(sl, old)[p][t] = sl[p][t] + Load(ps[i], p, t) - Load(After("Released", 0, old), p, t)
        <5>1. Load(ps[i], p, t) = Demand[old][p][t]
          BY <2>1 DEF Load
        <5>2. Load(After("Released", 0, old), p, t) = 0
          BY DEF Load, Active, NextVersion
        <5>3. Demand[old][p][t] \in Nat /\ sl[p][t] \in Int
          BY <2>2, <2>3
        <5> HIDE DEF After, old
        <5> QED BY <2>2, <2>3, <5>1, <5>2, <5>3
      <4> QED BY <4>1 DEF LoadMoved
    <3> QED BY <1>10, <2>2, <3>1, <3>2
  <2>6. ASSUME NEW b \in Bundle, NEW target \in ReplacementState,
               PromiseReplaced(i, b, target, now)
        PROVE  Indexed(promises, slack)' /\ Supported(promises)'
    <3> DEFINE new == Consume(Restore(sl, old), b)
    <3>1. PromiseMoved(i, After(target.state, target.deadline, b), new, now)
      BY <2>6 DEF PromiseReplaced, ps, sl
    <3>2. PoolsOf(b) \subseteq Live
      BY <2>6 DEF PromiseReplaced, Erring
    <3>3. target.state \in {"Held", "Committed"} /\ target.deadline \in Instant \union {0}
      BY DEF ReplacementState
    <3>4. LoadMoved(sl, new, ps[i], After(target.state, target.deadline, b))
      <4>1. ASSUME NEW p \in Pool, NEW t \in Time
            PROVE  new[p][t] = sl[p][t] + Load(ps[i], p, t) - Load(After(target.state, target.deadline, b), p, t)
        <5>1. Load(ps[i], p, t) = Demand[old][p][t]
          BY <2>1 DEF Load
        <5>2. Load(After(target.state, target.deadline, b), p, t) = Demand[b][p][t]
          BY <3>3 DEF Load, Active, NextVersion
        <5>3. Demand[old][p][t] \in Nat /\ sl[p][t] \in Int
          BY <2>2, <2>3
        <5> HIDE DEF After, old
        <5> QED BY <2>2, <2>3, <5>1, <5>2, <5>3
      <4> QED BY <4>1 DEF LoadMoved
    <3> HIDE DEF new
    <3> QED BY <1>10, <3>1, <3>2, <3>3, <3>4
  <2> QED BY <1>11, <2>4, <2>5, <2>6
<1> QED BY <1>4, <1>6, <1>7, <1>9, <1>11 DEF Effect

\* The index of the empty engine is empty.
LEMMA InitIndexed ==
  ASSUME Init
  PROVE  IndexInv
<1>1. TypeInv
  BY InitTyped
<1>2. Live = {}
  BY DEF Init, Live
<1>3. Indexed(promises, slack)
  BY <1>2 DEF Init, Indexed
<1>4. Supported(promises)
  BY DEF Init, Supported, Active, Absent
<1> QED BY <1>1, <1>3, <1>4 DEF IndexInv

\* The index and the table stay in step, and active promises are supported by pools
\* that exist: evaluate_bundle_admission refuses a bundle on a missing pool, and no
\* command removes a pool.
THEOREM IndexInvariant == Spec => []IndexInv
<1>1. Init => IndexInv
  BY InitIndexed
<1>2. ASSUME IndexInv, [Next]_vars PROVE IndexInv'
  <2>1. CASE Next
    <3>1. PICK now \in Instant : Effect(now)
      BY <2>1, NextHasEffect
    <3>2. TypeInv'
      BY <1>2, <3>1, EffectTyped DEF IndexInv
    <3>3. Indexed(promises, slack)' /\ Supported(promises)'
      BY <1>2, <3>1, EffectIndexed
    <3> QED BY <3>2, <3>3 DEF IndexInv
  <2>2. CASE UNCHANGED vars
    <3>1. TypeInv'
      BY <1>2, <2>2, StutterTyped DEF IndexInv
    <3> QED BY <1>2, <2>2, <3>1 DEF IndexInv, Indexed, Supported, Live, Usage, vars
  <2> QED BY <1>2, <2>1, <2>2
<1> QED BY <1>1, <1>2, PTL DEF Spec

\* The slack timelines that every handler updates piece by piece are at all times
\* the ones that rebuild_slack_timelines would compute from the capacity curves and
\* the promise table: no order of holds, replacements, releases, revisions and
\* expirations loses or double-counts a claim.
THEOREM IndexCorrect == Spec => []IndexMatchesPromises
<1>1. IndexInv => IndexMatchesPromises
  BY DEF IndexInv, Indexed, IndexMatchesPromises
<1> QED BY <1>1, IndexInvariant, PTL

-----------------------------------------------------------------------------
(* Admission: what evaluate_pool_on_timeline samples stands for every cell. *)

\* A bundle that fits at every window start fits in every cell it uses: between two
\* window starts neither its demand nor the base timeline changes.
LEMMA FitsEverywhere ==
  ASSUME NEW b \in Bundle, NEW p \in Pool, NEW base \in [Time -> Int], NEW floor,
         FitsPool(b, p, base, floor), NEW t \in Time, Demand[b][p][t] > 0
  PROVE  \E w \in Time : base[t] - Demand[b][p][t] >= floor[w]
<1> DEFINE Fits(x) == \E w \in Time : base[x] - Demand[b][p][x] >= floor[w]
           Bad == {x \in Time : Demand[b][p][x] > 0 /\ ~Fits(x)}
<1>1. Time \subseteq Nat
  BY CountsAreNatural DEF Time
<1>2. Bad = {}
  <2>1. SUFFICES ASSUME Bad # {} PROVE FALSE
    OBVIOUS
  <2>2. PICK m \in Bad : \A x \in Bad : m <= x
    <3>1. Bad \in SUBSET Nat
      BY <1>1
    <3> HIDE DEF Bad
    <3> QED BY <2>1, <3>1, LeastNatural
  <2>3. m \in Time /\ m \in Nat /\ Demand[b][p][m] > 0 /\ ~Fits(m)
    BY <1>1
  <2>4. m \notin WindowStarts(b, p, base)
    BY <2>3 DEF FitsPool
  <2>5. m # 0 /\ m \notin Boundary[b][p] /\ base[m] = base[m - 1]
    BY <2>3, <2>4 DEF WindowStarts
  <2>6. Demand[b][p][m] = Demand[b][p][m - 1]
    BY <2>3, <2>5, DemandChangesAtBoundaries
  <2>7. m - 1 \in Time
    BY <2>3, <2>5, CountsAreNatural DEF Time
  <2>8. m - 1 \in Bad
    <3>1. Demand[b][p][m - 1] > 0 /\ ~Fits(m - 1)
      BY <2>3, <2>5, <2>6
    <3> QED BY <2>7, <3>1
  <2> HIDE DEF Bad
  <2>9. m <= m - 1
    BY <2>2, <2>8
  <2> QED BY <2>3, <2>9
<1>3. t \notin Bad
  BY <1>2
<1> QED BY <1>3

\* Expirations only give capacity back.
LEMMA RestoredAbove ==
  ASSUME TypeInv, NEW now, NEW p \in Pool, NEW t \in Time
  PROVE  /\ RestoredSlack(now)[p][t] \in Int /\ slack[p][t] \in Int
         /\ RestoredSlack(now)[p][t] >= slack[p][t]
<1>1. PromisesTyped /\ slack \in [Pool -> [Time -> Int]]
  BY TypeInvFacts DEF RecordInv
<1>2. slack[p][t] \in Int /\ Returned(now, p, t) \in Nat
  BY <1>1, ReturnedTyped
<1>3. RestoredSlack(now)[p][t] = slack[p][t] + Returned(now, p, t)
  BY <1>1, RestoredSlackTyped
<1> QED BY <1>2, <1>3

\* The demand of an admitted bundle is covered cell by cell.
LEMMA AdmittedIsCovered ==
  ASSUME NEW b \in Bundle, NEW sl \in [Pool -> [Time -> Int]], Verdict(b, sl) = "Available",
         NEW p \in Pool, NEW t \in Time
  PROVE  /\ Consume(sl, b)[p][t] \in Int
         /\ Consume(sl, b)[p][t] >= 0 \/ Consume(sl, b)[p][t] = sl[p][t]
<1>1. Demand[b][p][t] \in Nat /\ sl[p][t] \in Int /\ sl[p] \in [Time -> Int]
  BY DemandChangesAtBoundaries
<1>2. Consume(sl, b)[p][t] = sl[p][t] - Demand[b][p][t]
  BY DEF Consume
<1>3. CASE Demand[b][p][t] = 0
  BY <1>1, <1>2, <1>3
<1>4. CASE Demand[b][p][t] > 0
  <2>1. p \in PoolsOf(b)
    BY <1>4 DEF PoolsOf
  <2>2. FitsPool(b, p, sl[p], NoDeficit)
    BY <2>1 DEF Verdict, FirstError
  <2>3. PICK w \in Time : sl[p][t] - Demand[b][p][t] >= NoDeficit[w]
    BY <1>1, <1>4, <2>2, FitsEverywhere
  <2>4. NoDeficit[w] = 0
    BY DEF NoDeficit
  <2> QED BY <1>1, <1>2, <2>3, <2>4
<1> QED BY <1>1, <1>3, <1>4

\* A replacement leaves a cell without deficit, or with one that some cell of the
\* pool had before: the floor of replace_at is the slack at a window's start, which
\* need not be the slack of the cell itself.
LEMMA ReplacedIsCovered ==
  ASSUME NEW b \in Bundle, NEW old \in Bundle, NEW sl \in [Pool -> [Time -> Int]],
         NEW new, new = Consume(Restore(sl, old), b),
         \A p \in PoolsOf(b) :
           FitsPool(b, p, Restore(sl, old)[p], DeficitFloor(old, sl, p)),
         NEW p \in Pool, NEW t \in Time
  PROVE  /\ new[p][t] \in Int
         /\ new[p][t] >= 0 \/ \E w \in Time : new[p][t] >= sl[p][w]
<1> DEFINE base == Restore(sl, old)
<1>1. /\ Demand[b][p][t] \in Nat /\ Demand[old][p][t] \in Nat /\ sl[p][t] \in Int
      /\ base[p] \in [Time -> Int]
  <2>1. base \in [Pool -> [Time -> Int]]
    BY ConsumeRestoreTyped
  <2>2. base[p] \in [Time -> Int]
    <3> HIDE DEF base
    <3> QED BY <2>1
  <2> QED BY <2>2, DemandChangesAtBoundaries
<1>2. /\ base[p][t] = sl[p][t] + Demand[old][p][t]
      /\ new[p][t] = base[p][t] - Demand[b][p][t]
  BY DEF Restore, Consume
<1>3. base[p][t] \in Int /\ new[p][t] \in Int
  BY <1>1, <1>2
<1> HIDE DEF base
<1>4. CASE Demand[b][p][t] = 0
  <2>1. new[p][t] >= sl[p][t]
    BY <1>1, <1>2, <1>4
  <2> QED BY <1>3, <2>1
<1>5. CASE Demand[b][p][t] > 0
  <2>1. FitsPool(b, p, base[p], DeficitFloor(old, sl, p))
    BY <1>5 DEF PoolsOf, base
  <2>2. PICK w \in Time : base[p][t] - Demand[b][p][t] >= DeficitFloor(old, sl, p)[w]
    BY <1>1, <1>5, <2>1, FitsEverywhere
  <2>3. DeficitFloor(old, sl, p)[w] = 0 \/ DeficitFloor(old, sl, p)[w] = sl[p][w]
    BY DEF DeficitFloor
  <2> QED BY <1>2, <1>3, <2>2, <2>3
<1> QED BY <1>1, <1>4, <1>5

\* Only a capacity revision makes a deficit that no cell of the pool had before.
LEMMA EffectCovered ==
  ASSUME TypeInv, NEW now \in Instant, Effect(now), NEW p \in Pool, NEW t \in Time,
         \A q \in Pool, curve \in Curve, mode \in {"Strict", "Force"} :
           CapacityRevised(q, curve, mode, now) => q # p
  PROVE  /\ slack'[p][t] \in Int
         /\ slack'[p][t] >= 0 \/ \E w \in Time : slack'[p][t] >= slack[p][w]
<1> DEFINE Covered(x) == /\ x \in Int
                         /\ x >= 0 \/ \E w \in Time : x >= slack[p][w]
           ps == ExpiredPromises(now)
           sl == RestoredSlack(now)
<1>1. /\ sl \in [Pool -> [Time -> Int]]
      /\ \A w \in Time : sl[p][w] \in Int /\ slack[p][w] \in Int /\ sl[p][w] >= slack[p][w]
  BY TypeInvFacts, RestoredAbove, RestoredSlackTyped DEF RecordInv
<1> HIDE DEF sl
<1>2. Covered(sl[p][t])
  BY <1>1
<1>3. ASSUME NEW x, x \in Int, x >= 0 \/ \E w \in Time : x >= sl[p][w] PROVE Covered(x)
  BY <1>1, <1>3
<1>4. ASSUME NEW i \in PromiseId, Active(ps[i]) PROVE ps[i].bundle \in Bundle
  BY <1>4, TypeInvFacts, ExpirationsTyped, ActiveTyped DEF PromiseTable
<1> SUFFICES Covered(slack'[p][t])
  OBVIOUS
<1> HIDE DEF Covered
<1>5. CASE ExpiryOnly(now)
  BY <1>2, <1>5 DEF ExpiryOnly, sl
<1>6. ASSUME NEW q \in Pool, NEW curve \in Curve, PoolCreated(q, curve, now)
      PROVE  Covered(slack'[p][t])
  <2>1. slack' = [sl EXCEPT ![q] = curve]
    BY <1>6 DEF PoolCreated, sl
  <2>2. CASE q = p
    <3>1. curve[t] \in 0 .. MaxQuantity
      BY CurvesBoundCapacity
    <3>2. slack'[p][t] = curve[t]
      BY <1>1, <2>1, <2>2
    <3> QED BY <3>1, <3>2, CountsAreNatural DEF Covered
  <2>3. CASE q # p
    <3>1. slack'[p][t] = sl[p][t]
      BY <1>1, <2>1, <2>3
    <3> QED BY <1>2, <3>1
  <2> QED BY <2>2, <2>3
<1>7. ASSUME NEW q \in Pool, NEW curve \in Curve, NEW mode \in {"Strict", "Force"},
             CapacityRevised(q, curve, mode, now)
      PROVE  Covered(slack'[p][t])
  <2>1. q # p /\ slack' = [sl EXCEPT ![q] = Rebuilt(q, curve, now)]
    BY <1>7 DEF CapacityRevised, sl
  <2>2. slack'[p][t] = sl[p][t]
    BY <1>1, <2>1
  <2> QED BY <1>2, <2>2
<1>8. ASSUME NEW i \in PromiseId, NEW b \in Bundle, NEW deadline \in Instant,
             PromiseHeld(i, b, deadline, now)
      PROVE  Covered(slack'[p][t])
  <2>1. Verdict(b, sl) = "Available" /\ slack' = Consume(sl, b)
    BY <1>8 DEF PromiseHeld, sl
  <2>2. slack'[p][t] \in Int /\ (slack'[p][t] >= 0 \/ slack'[p][t] = sl[p][t])
    BY <1>1, <2>1, AdmittedIsCovered
  <2> QED BY <1>2, <2>2 DEF Covered
<1>9. ASSUME NEW i \in PromiseId, PromiseCommitted(i, now) PROVE Covered(slack'[p][t])
  BY <1>2, <1>9 DEF PromiseCommitted, PromiseMoved, sl
<1>10. ASSUME NEW i \in PromiseId, PromiseReleased(i, now) PROVE Covered(slack'[p][t])
  <2>1. ps[i].bundle \in Bundle
    BY <1>4, <1>10 DEF PromiseReleased, PromiseMoved
  <2>2. slack' = Restore(sl, ps[i].bundle)
    BY <1>10 DEF PromiseReleased, PromiseMoved, sl
  <2>3. Demand[ps[i].bundle][p][t] \in Nat
    BY <2>1, DemandChangesAtBoundaries
  <2>4. slack'[p][t] = sl[p][t] + Demand[ps[i].bundle][p][t]
    BY <2>2 DEF Restore
  <2>5. slack'[p][t] \in Int /\ slack'[p][t] >= sl[p][t]
    BY <1>1, <2>3, <2>4
  <2> QED BY <1>3, <2>5
<1>11. ASSUME NEW i \in PromiseId, NEW b \in Bundle, NEW target \in ReplacementState,
              PromiseReplaced(i, b, target, now)
       PROVE  Covered(slack'[p][t])
  <2> DEFINE old == ps[i].bundle
  <2>1. old \in Bundle
    BY <1>4, <1>11 DEF PromiseReplaced, PromiseMoved
  <2>2. /\ \A q \in PoolsOf(b) :
             FitsPool(b, q, Restore(sl, old)[q], DeficitFloor(old, sl, q))
        /\ slack' = Consume(Restore(sl, old), b)
    BY <1>11 DEF PromiseReplaced, PromiseMoved, sl
  <2> HIDE DEF old
  <2>3. slack'[p][t] \in Int /\ (slack'[p][t] >= 0 \/ \E w \in Time : slack'[p][t] >= sl[p][w])
    BY <1>1, <2>1, <2>2, ReplacedIsCovered
  <2> QED BY <1>3, <2>3
<1> QED BY <1>5, <1>6, <1>7, <1>8, <1>9, <1>10, <1>11 DEF Effect

DeficitInv == IndexInv /\ NoUnforcedDeficit

\* No effect but a forced revision puts a pool into deficit.
LEMMA EffectUnforced ==
  ASSUME DeficitInv, NEW now \in Instant, Effect(now)
  PROVE  NoUnforcedDeficit'
<1>1. TypeInv /\ forced \subseteq Pool
  BY DEF DeficitInv, IndexInv, TypeInv, TypeOK
<1>2. forced \subseteq forced'
  BY DEF Effect, ExpiryOnly, PoolCreated, CapacityRevised, PromiseHeld, PromiseCommitted,
         PromiseReleased, PromiseReplaced, PromiseMoved
<1>3. SUFFICES ASSUME NEW p \in Pool \ forced', NEW t \in Time PROVE slack'[p][t] >= 0
  BY DEF NoUnforcedDeficit
<1>4. \A w \in Time : slack[p][w] >= 0 /\ slack[p][w] \in Int
  BY <1>1, <1>2 DEF DeficitInv, NoUnforcedDeficit, TypeInv, TypeOK
<1>5. CASE \A q \in Pool, curve \in Curve, mode \in {"Strict", "Force"} :
             CapacityRevised(q, curve, mode, now) => q # p
  <2>1. slack'[p][t] \in Int /\ (slack'[p][t] >= 0 \/ \E w \in Time : slack'[p][t] >= slack[p][w])
    BY <1>1, <1>5, EffectCovered
  <2> QED BY <1>4, <2>1
<1>6. ASSUME NEW curve \in Curve, NEW mode \in {"Strict", "Force"},
             CapacityRevised(p, curve, mode, now)
      PROVE  slack'[p][t] >= 0
  <2>1. mode # "Force"
    BY <1>3, <1>6 DEF CapacityRevised
  <2>2. Rebuilt(p, curve, now)[t] >= 0
    BY <1>6, <2>1 DEF CapacityRevised
  <2>3. slack'[p][t] = Rebuilt(p, curve, now)[t]
    <3>1. RestoredSlack(now) \in [Pool -> [Time -> Int]]
      BY <1>1, TypeInvFacts, RestoredSlackTyped DEF RecordInv
    <3> QED BY <1>6, <3>1 DEF CapacityRevised
  <2> QED BY <2>2, <2>3
<1> QED BY <1>5, <1>6

\* No sequence of holds, choices, slot searches, replacements, strict revisions and
\* expirations overcommits a pool: negative slack needs a forced revision, whatever
\* the capacity curves, bundles and deadlines are.
THEOREM UnforcedPoolsHaveNoDeficit == Spec => []NoUnforcedDeficit
<1>1. Init => NoUnforcedDeficit
  BY DEF Init, NoUnforcedDeficit
<1>2. ASSUME IndexInv, IndexInv', NoUnforcedDeficit, [Next]_vars
      PROVE  NoUnforcedDeficit'
  <2>1. CASE Next
    BY <1>2, <2>1, NextHasEffect, EffectUnforced DEF DeficitInv
  <2>2. CASE UNCHANGED vars
    BY <1>2, <2>2 DEF NoUnforcedDeficit, vars
  <2> QED BY <1>2, <2>1, <2>2
<1> QED BY <1>1, <1>2, IndexInvariant, PTL DEF Spec

\* Apart from capacity revisions, no command makes the worst deficit of a pool
\* worse: hold, choice and slot admission take only what is free, and replace_at
\* stays above its floor.
THEOREM DeficitsDoNotDeepen == Spec => DeficitsNeverDeepen
<1> DEFINE A == reply'.tag # "CapacityRevised" =>
                  \A p \in Pool, t \in Time :
                    slack'[p][t] < 0 => \E s \in Time : slack[p][s] <= slack'[p][t]
<1>1. ASSUME TypeInv, Next PROVE A
  <2>1. SUFFICES ASSUME reply'.tag # "CapacityRevised", NEW p \in Pool, NEW t \in Time,
                        slack'[p][t] < 0
                 PROVE  \E s \in Time : slack[p][s] <= slack'[p][t]
    OBVIOUS
  <2>2. PICK now \in Instant : Effect(now)
    BY <1>1, NextHasEffect
  <2>3. \A q \in Pool, curve \in Curve, mode \in {"Strict", "Force"} :
          CapacityRevised(q, curve, mode, now) => q # p
    BY <2>1 DEF CapacityRevised
  <2>4. /\ slack'[p][t] \in Int
        /\ slack'[p][t] >= 0 \/ \E w \in Time : slack'[p][t] >= slack[p][w]
    BY <1>1, <2>2, <2>3, EffectCovered
  <2>5. \A w \in Time : slack[p][w] \in Int
    BY <1>1 DEF TypeInv, TypeOK
  <2> QED BY <2>1, <2>4, <2>5
<1>2. TypeInv /\ [Next]_vars => [A]_vars
  <2> HIDE DEF A
  <2> QED BY <1>1
<1>3. Spec => [][A]_vars
  <2> HIDE DEF A
  <2> QED BY <1>2, TypeInvariant, PTL DEF Spec
<1> QED BY <1>3 DEF DeficitsNeverDeepen

\* "New holds cannot worsen a deficit": a hold takes nothing from a cell in deficit.
THEOREM HoldsDoNotWorsenDeficits == Spec => HoldsNeverWorsenDeficits
<1> DEFINE A == reply'.tag \in HoldTags =>
                  \A p \in Pool, t \in Time :
                    slack'[p][t] < 0 => slack'[p][t] >= slack[p][t]
<1>1. ASSUME TypeInv, Next PROVE A
  <2>1. SUFFICES ASSUME reply'.tag \in HoldTags, NEW p \in Pool, NEW t \in Time,
                        slack'[p][t] < 0
                 PROVE  slack'[p][t] >= slack[p][t]
    OBVIOUS
  <2>2. PICK now \in Instant : Effect(now)
    BY <1>1, NextHasEffect
  <2>3. PICK i \in PromiseId, b \in Bundle, deadline \in Instant :
          PromiseHeld(i, b, deadline, now)
    <3>1. ~ExpiryOnly(now)
      BY <2>1 DEF ExpiryOnly, SuccessTags
    <3>2. ASSUME NEW q \in Pool, NEW curve \in Curve PROVE ~PoolCreated(q, curve, now)
      BY <2>1 DEF PoolCreated, HoldTags
    <3>3. ASSUME NEW q \in Pool, NEW curve \in Curve, NEW mode \in {"Strict", "Force"}
          PROVE  ~CapacityRevised(q, curve, mode, now)
      BY <2>1 DEF CapacityRevised, HoldTags
    <3>4. ASSUME NEW i \in PromiseId
          PROVE  /\ ~PromiseCommitted(i, now) /\ ~PromiseReleased(i, now)
                 /\ \A b \in Bundle, target \in ReplacementState : ~PromiseReplaced(i, b, target, now)
      <4>1. ~PromiseCommitted(i, now) /\ ~PromiseReleased(i, now)
        BY <2>1 DEF PromiseCommitted, PromiseReleased, PromiseMoved, HoldTags
      <4>2. \A b \in Bundle, target \in ReplacementState : ~PromiseReplaced(i, b, target, now)
        BY <2>1 DEF PromiseReplaced, PromiseMoved, HoldTags
      <4> QED BY <4>1, <4>2
    <3> QED BY <2>2, <3>1, <3>2, <3>3, <3>4 DEF Effect
  <2> DEFINE sl == RestoredSlack(now)
  <2>4. sl \in [Pool -> [Time -> Int]]
    BY <1>1, TypeInvFacts, RestoredSlackTyped DEF RecordInv
  <2>5. sl[p][t] \in Int /\ slack[p][t] \in Int /\ sl[p][t] >= slack[p][t]
    BY <1>1, RestoredAbove
  <2>6. Verdict(b, sl) = "Available" /\ slack' = Consume(sl, b)
    BY <2>3 DEF PromiseHeld
  <2> HIDE DEF sl
  <2>7. slack'[p][t] \in Int /\ (slack'[p][t] >= 0 \/ slack'[p][t] = sl[p][t])
    BY <2>4, <2>6, AdmittedIsCovered
  <2> QED BY <2>1, <2>5, <2>7
<1>2. TypeInv /\ [Next]_vars => [A]_vars
  <2> HIDE DEF A
  <2> QED BY <1>1
<1>3. Spec => [][A]_vars
  <2> HIDE DEF A
  <2> QED BY <1>2, TypeInvariant, PTL DEF Spec
<1> QED BY <1>3 DEF HoldsNeverWorsenDeficits

\* The curve of a pool that exists bounds its capacity.
LEMMA LiveCurve ==
  ASSUME TypeInv, NEW p \in Live, NEW t \in Time
  PROVE  p \in Pool /\ pools[p][t] \in 0 .. MaxQuantity
<1>1. p \in Pool /\ pools[p] \in Curve
  BY DEF Live, TypeInv, TypeOK
<1> QED BY <1>1, CurvesBoundCapacity

\* Against slack that is what the curves leave over the promises ps, admission answers
\* what the slow path (check_availability) answers that adds them up: sampling the
\* timeline at window starts misses nothing.
LEMMA AdmissionDecides ==
  ASSUME TypeInv, NEW ps \in PromiseTable, NEW sl \in [Pool -> [Time -> Int]],
         Indexed(ps, sl), NEW b \in Bundle
  PROVE  Verdict(b, sl) = "Available" <=> OracleAdmits(b, ps)
<1> DEFINE used(p, t) == Usage(ps, p, t)
<1>1. ASSUME NEW p \in Live, NEW t \in Time
      PROVE  /\ p \in Pool /\ pools[p][t] \in 0 .. MaxQuantity /\ used(p, t) \in Nat
             /\ Demand[b][p][t] \in Nat /\ sl[p][t] = pools[p][t] - used(p, t)
  <2>1. p \in Pool /\ pools[p][t] \in 0 .. MaxQuantity
    BY LiveCurve
  <2> QED BY <2>1, UsageTyped, DemandChangesAtBoundaries DEF Indexed
<1> HIDE DEF used
<1>2. ASSUME Verdict(b, sl) = "Available" PROVE OracleAdmits(b, ps)
  <2>1. PoolsOf(b) \subseteq Live
    <3>1. Erring(b) = {}
      BY <1>2 DEF Verdict, FirstError
    <3> QED BY <3>1 DEF Erring
  <2>2. ASSUME NEW p \in PoolsOf(b), NEW t \in Time, Demand[b][p][t] > 0
        PROVE  used(p, t) + Demand[b][p][t] <= pools[p][t]
    <3>1. p \in Live /\ p \in Pool
      BY <2>1 DEF PoolsOf
    <3>2. Consume(sl, b)[p][t] = sl[p][t] - Demand[b][p][t]
      BY <3>1 DEF Consume
    <3>3. \/ Consume(sl, b)[p][t] >= 0
          \/ Consume(sl, b)[p][t] = sl[p][t]
      BY <1>2, <3>1, AdmittedIsCovered
    <3>4. /\ pools[p][t] \in Int /\ used(p, t) \in Int /\ Demand[b][p][t] \in Int
          /\ sl[p][t] = pools[p][t] - used(p, t)
      BY <1>1, <3>1, CountsAreNatural
    <3> QED BY <2>2, <3>2, <3>3, <3>4
  <2> QED BY <2>1, <2>2 DEF OracleAdmits, used
<1>3. ASSUME OracleAdmits(b, ps) PROVE Verdict(b, sl) = "Available"
  <2>1. PoolsOf(b) \subseteq Live
    BY <1>3 DEF OracleAdmits
  <2>2. ASSUME NEW p \in PoolsOf(b), NEW t \in Time, Demand[b][p][t] > 0
        PROVE  sl[p][t] - Demand[b][p][t] >= 0 /\ Demand[b][p][t] <= MaxQuantity
    <3>1. used(p, t) + Demand[b][p][t] <= pools[p][t]
      BY <1>3, <2>2 DEF OracleAdmits, used
    <3>2. /\ pools[p][t] \in 0 .. MaxQuantity /\ used(p, t) \in Nat
          /\ Demand[b][p][t] \in Nat /\ sl[p][t] = pools[p][t] - used(p, t)
      BY <1>1, <2>1
    <3> QED BY <3>1, <3>2, CountsAreNatural
  <2>3. Erring(b) = {}
    <3>1. ASSUME NEW p \in PoolsOf(b), NEW t \in Time PROVE ~(Demand[b][p][t] > MaxDemand)
      <4>1. Demand[b][p][t] \in Nat
        BY DemandChangesAtBoundaries DEF PoolsOf
      <4>2. Demand[b][p][t] <= MaxQuantity
        BY <2>2, <4>1, CountsAreNatural
      <4> QED BY <4>1, <4>2, CountsAreNatural DEF MaxDemand
    <3> QED BY <2>1, <3>1 DEF Erring
  <2>4. ASSUME NEW p \in PoolsOf(b) PROVE FitsPool(b, p, sl[p], NoDeficit)
    BY <2>2 DEF FitsPool, WindowStarts, NoDeficit
  <2> QED BY <2>3, <2>4, CandidatesAreBundles DEF Verdict
<1> QED BY <1>2, <1>3

\* The answer of the indexed admission path is the answer of the slow path that adds
\* up active promises under the capacity curves (check_availability), for every bundle,
\* in every reachable state: sampling the timeline at window starts misses nothing.
THEOREM AdmissionIsExact == Spec => []AdmissionAgreesWithOracle
<1>1. ASSUME IndexInv, NEW b \in Bundle
      PROVE  Verdict(b, slack) = "Available" <=> OracleAdmits(b, promises)
  <2>1. TypeInv /\ slack \in [Pool -> [Time -> Int]] /\ promises \in PromiseTable
    BY <1>1, TypeInvFacts DEF IndexInv, RecordInv, PromisesTyped, PromiseTable
  <2> QED BY <1>1, <2>1, AdmissionDecides DEF IndexInv
<1>2. IndexInv => AdmissionAgreesWithOracle
  BY <1>1 DEF AdmissionAgreesWithOracle
<1> QED BY <1>2, IndexInvariant, PTL

\* A command whose slack can be represented leaves slack that can be.
LEMMA EffectRepresentable ==
  ASSUME IndexInv, IndexInv', SlackIsRepresentable, NEW now \in Instant, Effect(now)
  PROVE  SlackIsRepresentable'
<1>1. TypeInv /\ slack' \in [Pool -> [Time -> Int]]
  BY DEF IndexInv, TypeInv, TypeOK
<1>2. ASSUME NEW p \in Pool, NEW t \in Time PROVE slack'[p][t] <= MaxQuantity
  <2>1. slack'[p][t] = IF p \in Live' THEN pools'[p][t] - Usage(promises', p, t) ELSE 0
    BY DEF IndexInv, Indexed, Usage
  <2>2. ASSUME p \in Live' PROVE pools'[p][t] \in 0 .. MaxQuantity
    BY <2>2, CurvesBoundCapacity DEF Live, IndexInv, TypeInv, TypeOK
  <2>3. Usage(promises', p, t) \in Nat
    <3>1. promises' \in PromiseTable
      BY DEF IndexInv, TypeInv, TypeOK, PromiseTable
    <3> QED BY <3>1, UsageTyped
  <2> QED BY <2>1, <2>2, <2>3, CountsAreNatural
<1>3. ASSUME NEW p \in Pool, NEW t \in Time PROVE slack'[p][t] >= -(MaxQuantity + 1)
  <2>1. CASE \A q \in Pool, curve \in Curve, mode \in {"Strict", "Force"} :
               CapacityRevised(q, curve, mode, now) => q # p
    <3>1. /\ slack'[p][t] \in Int
          /\ slack'[p][t] >= 0 \/ \E w \in Time : slack'[p][t] >= slack[p][w]
      BY <1>1, <2>1, EffectCovered
    <3>2. \A w \in Time : slack[p][w] \in -(MaxQuantity + 1) .. MaxQuantity
      BY DEF SlackIsRepresentable, Slack
    <3> QED BY <3>1, <3>2, CountsAreNatural
  <2>2. ASSUME NEW curve \in Curve, NEW mode \in {"Strict", "Force"},
               CapacityRevised(p, curve, mode, now)
        PROVE  slack'[p][t] >= -(MaxQuantity + 1)
    <3>1. Rebuilt(p, curve, now)[t] \in -(MaxQuantity + 1) .. MaxQuantity
      BY <2>2 DEF CapacityRevised, Representable, Slack
    <3>2. slack'[p][t] = Rebuilt(p, curve, now)[t]
      <4>1. RestoredSlack(now) \in [Pool -> [Time -> Int]]
        BY <1>1, TypeInvFacts, RestoredSlackTyped DEF RecordInv
      <4> QED BY <2>2, <4>1 DEF CapacityRevised
    <3> QED BY <3>1, <3>2, CountsAreNatural
  <2> QED BY <2>1, <2>2
<1>4. ASSUME NEW p \in Pool, NEW t \in Time PROVE slack'[p][t] \in Slack
  BY <1>1, <1>2, <1>3, CountsAreNatural DEF Slack
<1> QED BY <1>1, <1>4 DEF SlackIsRepresentable

\* Slack never leaves its integer type, so that no consume or restore of a timeline
\* fails after another one of the same command has been computed: what commands take
\* is covered, and revisions check what they rebuild.
THEOREM SlackStaysRepresentable == Spec => []SlackIsRepresentable
<1>1. Init => SlackIsRepresentable
  BY CountsAreNatural DEF Init, SlackIsRepresentable, Slack
<1>2. ASSUME IndexInv, IndexInv', SlackIsRepresentable, Next
      PROVE  SlackIsRepresentable'
  BY <1>2, NextHasEffect, EffectRepresentable
<1>3. SlackIsRepresentable /\ UNCHANGED vars => SlackIsRepresentable'
  BY DEF SlackIsRepresentable, vars
<1>4. IndexInv /\ IndexInv' /\ SlackIsRepresentable /\ [Next]_vars => SlackIsRepresentable'
  BY <1>2, <1>3
<1> QED BY <1>1, <1>4, IndexInvariant, PTL DEF Spec

-----------------------------------------------------------------------------
(* Deadlines.                                                               *)

\* After the expirations of a command, what is held is due later than now.
LEMMA NothingDueAfterExpiration ==
  ASSUME TypeInv, NEW now \in Instant, AllExpire(now), NEW i \in PromiseId,
         ExpiredPromises(now)[i].state = "Held"
  PROVE  ExpiredPromises(now)[i].deadline > now
<1>1. i \notin Expiring(now)
  <2>1. SUFFICES ASSUME i \in Expiring(now) PROVE FALSE
    OBVIOUS
  <2>2. ExpiredPromises(now)[i] = NextVersion(promises[i], "Expired", 0, promises[i].bundle,
                                              sequence + Rank(i, now))
    BY <2>1, TypeInvFacts, ExpiredRecord
  <2> QED BY <2>2 DEF NextVersion
<1>2. ExpiredPromises(now)[i] = promises[i]
  BY <1>1 DEF ExpiredPromises
<1>3. ~(promises[i].deadline <= now)
  BY <1>1, <1>2 DEF AllExpire, Due
<1>4. promises[i].deadline \in Int /\ now \in Int
  <2>1. promises[i] \in PromiseRecord
    BY <1>2, TypeInvFacts, PresentHasRecord DEF RecordInv
  <2>2. promises[i].deadline \in Instant \union {0}
    BY <2>1 DEF PromiseRecord
  <2> QED BY <2>2, DeadlinesAreIntegers
<1> QED BY <1>2, <1>3, <1>4

\* No effect leaves a hold that is due, unless the sequence numbers ran out.
LEMMA EffectLeavesNothingDue ==
  ASSUME TypeInv, NEW now \in Instant, Effect(now), AllExpire(now)
  PROVE  \A j \in PromiseId : promises'[j].state = "Held" => promises'[j].deadline > now
<1> DEFINE ps == ExpiredPromises(now)
           Punctual(i) == promises'[i].state = "Held" => promises'[i].deadline > now
           AllPunctual == \A j \in PromiseId : Punctual(j)
<1>1. ps \in PromiseTable
  BY TypeInvFacts, ExpirationsTyped DEF PromiseTable
<1>2. ASSUME NEW i \in PromiseId, promises'[i] = ps[i] PROVE Punctual(i)
  BY <1>2, NothingDueAfterExpiration
<1>3. ASSUME NEW i \in PromiseId, NEW r, promises' = [ps EXCEPT ![i] = r],
             r.state = "Held" => r.deadline > now
      PROVE  AllPunctual
  <2>1. promises'[i] = r /\ \A j \in PromiseId : j # i => promises'[j] = ps[j]
    BY <1>1, <1>3 DEF PromiseTable
  <2> HIDE DEF ps
  <2> QED BY <1>2, <1>3, <2>1
<1>4. ASSUME promises' = ps PROVE AllPunctual
  BY <1>2, <1>4
<1>5. ASSUME NEW i \in PromiseId, NEW b \in Bundle, NEW deadline \in Instant,
             PromiseHeld(i, b, deadline, now)
      PROVE  AllPunctual
  <2> DEFINE r == [state |-> "Held", deadline |-> deadline, bundle |-> b, version |-> 1,
                   created |-> NextSequence(now), updated |-> NextSequence(now)]
  <2>1. promises' = [ps EXCEPT ![i] = r] /\ r.deadline > now
    BY <1>5 DEF PromiseHeld, HoldAllowed
  <2> HIDE DEF r, ps
  <2> QED BY <1>3, <2>1
<1>6. ASSUME NEW i \in PromiseId, NEW state, NEW deadline, NEW b, NEW sl,
             state = "Held" => deadline > now,
             PromiseMoved(i, NextVersion(ps[i], state, deadline, b, NextSequence(now)), sl, now)
      PROVE  AllPunctual
  <2> DEFINE r == NextVersion(ps[i], state, deadline, b, NextSequence(now))
  <2>1. r.state = "Held" => r.deadline > now
    BY <1>6 DEF NextVersion
  <2>2. promises' = [ps EXCEPT ![i] = r]
    BY <1>6 DEF PromiseMoved
  <2> HIDE DEF r, ps
  <2> QED BY <1>3, <2>1, <2>2
<1> HIDE DEF AllPunctual, ps
<1>7. ASSUME NEW i \in PromiseId, PromiseCommitted(i, now)
      PROVE  AllPunctual
  BY <1>6, <1>7 DEF PromiseCommitted, Advance, ps
<1>8. ASSUME NEW i \in PromiseId, PromiseReleased(i, now)
      PROVE  AllPunctual
  <2> DEFINE sl == Restore(RestoredSlack(now), ps[i].bundle)
             next == NextVersion(ps[i], "Released", 0, ps[i].bundle, NextSequence(now))
  <2>1. PromiseMoved(i, next, sl, now)
    BY <1>8 DEF PromiseReleased, Advance, ps
  <2> HIDE DEF sl
  <2> QED BY <1>6, <2>1
<1>9. ASSUME NEW i \in PromiseId, NEW b \in Bundle, NEW target \in ReplacementState,
              PromiseReplaced(i, b, target, now)
       PROVE  AllPunctual
  <2>1. target.state = "Held" => target.deadline > now
    BY <1>9 DEF PromiseReplaced
  <2> QED BY <1>6, <1>9, <2>1 DEF PromiseReplaced, ps
<1>10. \/ promises' = ps
       \/ \E i \in PromiseId, b \in Bundle, deadline \in Instant :
            PromiseHeld(i, b, deadline, now)
       \/ \E i \in PromiseId : PromiseCommitted(i, now) \/ PromiseReleased(i, now)
       \/ \E i \in PromiseId, b \in Bundle, target \in ReplacementState :
            PromiseReplaced(i, b, target, now)
  BY DEF Effect, ExpiryOnly, PoolCreated, CapacityRevised, ps
<1>11. AllPunctual
  BY <1>4, <1>5, <1>7, <1>8, <1>9, <1>10
<1> QED BY <1>11 DEF AllPunctual

\* If the sequence numbers run out, the expirations have used the last one: the first
\* hold of the order that does not expire comes right after those that do.
LEMMA CutShortAtTheLast ==
  ASSUME RecordInv, NEW now, ~AllExpire(now)
  PROVE  ExpiredSequence(now) = MaxSequence
<1> DEFINE S == Expiring(now)
           late == Due(now) \ S
           ranks == {Rank(i, now) : i \in late}
<1>1. /\ IsFiniteSet(S) /\ Cardinality(S) \in Nat /\ sequence + Cardinality(S) <= MaxSequence
      /\ sequence \in Nat /\ MaxSequence \in Nat
  BY ExpirationsAreNumbered, CountsAreNatural DEF RecordInv
<1>2. \A i : Rank(i, now) \in Nat
  BY RanksIncrease DEF RecordInv
<1>3. S \subseteq Due(now) /\ late # {}
  BY DEF AllExpire, Expiring
<1>4. PICK i \in late : \A j \in late : Rank(i, now) <= Rank(j, now)
  <2>1. ranks \in SUBSET Nat /\ ranks # {}
    BY <1>2, <1>3
  <2>2. PICK least \in ranks : \A other \in ranks : least <= other
    <3> HIDE DEF ranks
    <3> QED BY <2>1, LeastNatural
  <2> QED BY <2>2
<1>5. Before(i, now) \subseteq S \union {i}
  <2>1. SUFFICES ASSUME NEW j \in Due(now), Precedes(j, i), j \notin S PROVE FALSE
    BY DEF Before
  <2>2. Rank(j, now) < Rank(i, now)
    BY <2>1, RanksIncrease DEF RecordInv
  <2>3. Rank(i, now) <= Rank(j, now) /\ Rank(i, now) \in Nat /\ Rank(j, now) \in Nat
    BY <1>2, <1>4, <2>1
  <2> QED BY <2>2, <2>3
<1>6. Rank(i, now) <= Cardinality(S) + 1
  <2>1. Rank(i, now) = Cardinality(Before(i, now))
    BY DEF Rank, Before
  <2>2. IsFiniteSet(S \union {i}) /\ Cardinality(S \union {i}) = Cardinality(S) + 1
    BY <1>1, FS_AddElement
  <2> HIDE DEF S, late
  <2> QED BY <1>5, <2>1, <2>2, SmallerPart
<1>7. sequence + Rank(i, now) > MaxSequence
  <2>1. ~(sequence + Rank(i, now) <= MaxSequence)
    BY DEF Expiring
  <2> QED BY <1>1, <1>2, <2>1
<1>8. Rank(i, now) \in Nat
  BY <1>2
<1>9. sequence + Cardinality(S) = MaxSequence
  <2> HIDE DEF S, late
  <2> QED BY <1>1, <1>6, <1>7, <1>8
<1> QED BY <1>9 DEF ExpiredSequence

\* No effect touches a hold that was due, beyond its expiration.
LEMMA EffectSparesDue ==
  ASSUME TypeInv, NEW now, Effect(now), NEW j \in Due(now)
  PROVE  promises'[j] = ExpiredPromises(now)[j]
<1> DEFINE ps == ExpiredPromises(now)
<1>1. ps \in PromiseTable /\ j \in PromiseId
  BY TypeInvFacts, ExpirationsTyped DEF PromiseTable, Due
<1>2. ASSUME NEW i \in PromiseId, NEW r, AllExpire(now), promises' = [ps EXCEPT ![i] = r],
             ps[i].state # "Expired"
      PROVE  promises'[j] = ps[j]
  <2>1. j \in Expiring(now)
    BY <1>2 DEF AllExpire
  <2>2. ps[j].state = "Expired"
    <3>1. ps[j] = NextVersion(promises[j], "Expired", 0, promises[j].bundle,
                              sequence + Rank(j, now))
      BY <2>1, TypeInvFacts, ExpiredRecord
    <3> QED BY <3>1 DEF NextVersion
  <2> HIDE DEF ps
  <2> QED BY <1>1, <1>2, <2>2 DEF PromiseTable
<1>3. ASSUME NEW i \in PromiseId, NEW b, NEW deadline, PromiseHeld(i, b, deadline, now)
      PROVE  promises'[j] = ps[j]
  <2> DEFINE r == [state |-> "Held", deadline |-> deadline, bundle |-> b, version |-> 1,
                   created |-> NextSequence(now), updated |-> NextSequence(now)]
  <2>1. AllExpire(now) /\ promises' = [ps EXCEPT ![i] = r] /\ promises[i].state = "Absent"
    BY <1>3 DEF PromiseHeld, HoldAllowed
  <2>2. ps[i] = promises[i]
    BY <2>1 DEF ExpiredPromises, Expiring, Due
  <2> HIDE DEF r, ps
  <2> QED BY <1>2, <2>1, <2>2
<1>4. ASSUME NEW i \in PromiseId, NEW next, NEW sl, PromiseMoved(i, next, sl, now)
      PROVE  promises'[j] = ps[j]
  BY <1>2, <1>4 DEF PromiseMoved, Active
<1>5. \/ promises' = ps
      \/ \E i \in PromiseId, b \in Bundle, deadline \in Instant :
           PromiseHeld(i, b, deadline, now)
      \/ \E i \in PromiseId : \E next, sl : PromiseMoved(i, next, sl, now)
  BY DEF Effect, ExpiryOnly, PoolCreated, CapacityRevised, PromiseCommitted, PromiseReleased,
         PromiseReplaced
<1> QED BY <1>3, <1>4, <1>5

\* The holds in a promise table that are due.
Overdue(ps, now) == {i \in PromiseId : ps[i].state = "Held" /\ ps[i].deadline <= now}

\* Every effect begins with the expirations, in their order.
LEMMA EffectExpiresInOrder ==
  ASSUME TypeInv, NEW now \in Instant, Effect(now)
  PROVE  LET due == Overdue(promises, now)
             gone == {i \in due : promises'[i].state = "Expired"}
         IN  /\ Overdue(promises', now) = due \ gone
             /\ due # gone => reply'.tag = "SequenceOverflow" /\ sequence' = MaxSequence
             /\ \A i \in due, j \in gone :
                  Precedes(i, j) => i \in gone /\ promises'[i].updated < promises'[j].updated
<1> DEFINE ps == ExpiredPromises(now)
           due == Overdue(promises, now)
           gone == {i \in due : promises'[i].state = "Expired"}
<1>1. due = Due(now) /\ Expiring(now) \subseteq Due(now) /\ due \subseteq PromiseId
  BY DEF Overdue, Due, Expiring
<1>2. RecordInv
  BY TypeInvFacts
<1>3. ASSUME NEW i \in due
      PROVE  /\ i \in Expiring(now) =>
                  promises'[i].state = "Expired" /\ promises'[i].updated = sequence + Rank(i, now)
             /\ i \notin Expiring(now) => promises'[i] = promises[i] /\ ps[i] = promises[i]
  <2>1. promises'[i] = ps[i]
    BY <1>1, EffectSparesDue
  <2>2. CASE i \in Expiring(now)
    <3>1. ps[i] = NextVersion(promises[i], "Expired", 0, promises[i].bundle,
                              sequence + Rank(i, now))
      BY <1>2, <2>2, ExpiredRecord
    <3>2. ps[i].state = "Expired" /\ ps[i].updated = sequence + Rank(i, now)
      BY <3>1 DEF NextVersion
    <3> HIDE DEF ps
    <3> QED BY <2>1, <2>2, <3>2
  <2>3. CASE i \notin Expiring(now)
    BY <1>1, <2>1, <2>3 DEF ExpiredPromises
  <2> QED BY <2>2, <2>3
<1>4. gone = Expiring(now)
  BY <1>1, <1>3 DEF Due
<1>5. ASSUME AllExpire(now)
      PROVE  Overdue(promises', now) = {} /\ due = gone
  <2>1. due = gone
    BY <1>1, <1>4, <1>5 DEF AllExpire
  <2>2. Overdue(promises', now) = {}
    <3>1. SUFFICES ASSUME NEW i \in PromiseId, promises'[i].state = "Held",
                          promises'[i].deadline <= now
                   PROVE  FALSE
      BY DEF Overdue
    <3>2. promises'[i].deadline > now
      BY <1>5, <3>1, EffectLeavesNothingDue
    <3>3. promises'[i].deadline \in Int /\ now \in Int
      <4>1. TypeInv'
        BY EffectTyped
      <4>2. promises'[i] \in PromiseRecord
        BY <3>1, <4>1 DEF TypeInv, TypeOK, Absent
      <4> QED BY <4>2, DeadlinesAreIntegers DEF PromiseRecord
    <3> QED BY <3>1, <3>2, <3>3
  <2> QED BY <2>1, <2>2
<1>6. ASSUME ~AllExpire(now)
      PROVE  /\ Overdue(promises', now) = due \ gone
             /\ reply'.tag = "SequenceOverflow" /\ sequence' = MaxSequence
  <2>1. ExpiryOnly(now)
    BY <1>6 DEF Effect, PoolCreated, CapacityRevised, PromiseHeld, PromiseMoved,
                PromiseCommitted, PromiseReleased, PromiseReplaced
  <2>2. promises' = ps /\ reply'.tag = "SequenceOverflow" /\ sequence' = MaxSequence
    BY <1>2, <1>6, <2>1, CutShortAtTheLast DEF ExpiryOnly
  <2>3. ASSUME NEW i \in PromiseId
        PROVE  i \in Overdue(promises', now) <=> i \in due /\ i \notin Expiring(now)
    <3>1. CASE i \in Expiring(now)
      <4>1. promises'[i].state = "Expired"
        BY <1>1, <1>3, <3>1
      <4> QED BY <3>1, <4>1 DEF Overdue
    <3>2. CASE i \notin Expiring(now)
      <4>1. promises'[i] = promises[i]
        BY <2>2, <3>2 DEF ExpiredPromises
      <4> QED BY <3>2, <4>1 DEF Overdue
    <3> QED BY <3>1, <3>2
  <2>4. Overdue(promises', now) = due \ gone
    <3>1. Overdue(promises', now) \subseteq PromiseId
      BY DEF Overdue
    <3> HIDE DEF due, gone
    <3> QED BY <1>1, <1>4, <2>3, <3>1
  <2> QED BY <2>2, <2>4
<1>7. ASSUME NEW i \in due, NEW j \in gone, Precedes(i, j)
      PROVE  i \in gone /\ promises'[i].updated < promises'[j].updated
  <2>1. /\ i \in Due(now) /\ j \in Due(now) /\ j \in Expiring(now) /\ j \in due
    BY <1>1, <1>4
  <2>2. /\ Rank(i, now) < Rank(j, now)
        /\ Rank(i, now) \in Nat /\ Rank(j, now) \in Nat
        /\ sequence \in Nat /\ MaxSequence \in Nat
    BY <1>2, <1>7, <2>1, RanksIncrease, CountsAreNatural DEF RecordInv
  <2>3. sequence + Rank(j, now) <= MaxSequence
    BY <2>1 DEF Expiring
  <2>4. i \in Expiring(now)
    BY <2>1, <2>2, <2>3 DEF Expiring
  <2>5. /\ promises'[i].updated = sequence + Rank(i, now)
        /\ promises'[j].updated = sequence + Rank(j, now)
    BY <1>3, <2>1, <2>4
  <2> HIDE DEF due, gone
  <2>6. promises'[i].updated < promises'[j].updated
    BY <2>2, <2>5
  <2> QED BY <1>4, <2>4, <2>6
<1> HIDE DEF due, gone
<1>8. /\ Overdue(promises', now) = due \ gone
      /\ due # gone => reply'.tag = "SequenceOverflow" /\ sequence' = MaxSequence
  BY <1>5, <1>6
<1> QED BY <1>7, <1>8 DEF due, gone

\* HoldsExpireInOrder holds of every step: process_expirations goes through the due
\* holds by deadline and identity and stops at the last sequence number, and the
\* command after it leaves no hold that is due.
THEOREM ExpirationsAreOrdered == Spec => HoldsExpireInOrder
<1> DEFINE Ordered ==
      LET now == reply'.at
          DueIn(ps) == {i \in PromiseId : ps[i].state = "Held" /\ ps[i].deadline <= now}
          Sooner(i, j) == \/ promises[i].deadline < promises[j].deadline
                          \/ promises[i].deadline = promises[j].deadline /\ i < j
          due == DueIn(promises)
          gone == {i \in due : promises'[i].state = "Expired"}
      IN  /\ DueIn(promises') = due \ gone
          /\ due # gone => reply'.tag = "SequenceOverflow" /\ sequence' = MaxSequence
          /\ \A i \in due, j \in gone :
               Sooner(i, j) => i \in gone /\ promises'[i].updated < promises'[j].updated
<1>1. TypeInv /\ Next => Ordered
  <2> SUFFICES ASSUME TypeInv, Next PROVE Ordered
    OBVIOUS
  <2>1. PICK now \in Instant : Effect(now)
    BY NextHasEffect
  <2>2. reply'.at = now
    BY <2>1 DEF Effect, ExpiryOnly, PoolCreated, CapacityRevised, PromiseHeld,
                PromiseCommitted, PromiseReleased, PromiseReplaced, PromiseMoved
  <2>3. LET due == Overdue(promises, reply'.at)
            gone == {i \in due : promises'[i].state = "Expired"}
        IN  /\ Overdue(promises', reply'.at) = due \ gone
            /\ due # gone => reply'.tag = "SequenceOverflow" /\ sequence' = MaxSequence
            /\ \A i \in due, j \in gone :
                 Precedes(i, j) => i \in gone /\ promises'[i].updated < promises'[j].updated
    BY <2>1, <2>2, EffectExpiresInOrder
  <2> QED BY <2>3 DEF Overdue, Precedes
<1>2. TypeInv /\ [Next]_vars => [Ordered]_vars
  BY <1>1
<1> QED BY <1>2, TypeInvariant, PTL DEF Spec, HoldsExpireInOrder
-----------------------------------------------------------------------------
(***************************************************************************)
(* First fit: what an ordered search holds, and what it refuses.           *)
(***************************************************************************)

\* After the expirations of a command, admission decides as the slow path does on the
\* promises that are left, also where an expired hold made the room.
LEMMA ExpiredAdmissionDecides ==
  ASSUME IndexInv, NEW now, NEW b \in Bundle
  PROVE  Verdict(b, RestoredSlack(now)) = "Available" <=> OracleAdmits(b, ExpiredPromises(now))
<1>1. TypeInv /\ RecordInv /\ slack \in [Pool -> [Time -> Int]] /\ PromisesTyped
  BY TypeInvFacts DEF IndexInv, RecordInv
<1>2. ExpiredPromises(now) \in PromiseTable
  BY <1>1, ExpirationsTyped DEF PromiseTable
<1>3. RestoredSlack(now) \in [Pool -> [Time -> Int]]
  BY <1>1, RestoredSlackTyped
<1>4. Indexed(ExpiredPromises(now), RestoredSlack(now))
  BY ExpirationIndexed
<1> QED BY <1>1, <1>2, <1>3, <1>4, AdmissionDecides

\* An ordered search holds the first candidate whose verdict is not unavailable, and
\* refuses as unavailable only what is unavailable altogether.
LEMMA OrderedSearch ==
  ASSUME NEW i \in PromiseId, NEW deadline, NEW now, NEW n \in Nat, NEW candidates,
         DOMAIN candidates = 1 .. n, NEW tag \in HoldTags, NEW values,
         HoldFirst(i, candidates, deadline, tag, values, now)
  PROVE  /\ reply'.tag \in HoldTags =>
              \E k \in 1 .. n :
                /\ reply'.value = values[k] /\ promises'[i].bundle = candidates[k]
                /\ Verdict(candidates[k], RestoredSlack(now)) = "Available"
                /\ \A j \in 1 .. n :
                     j < k => Verdict(candidates[j], RestoredSlack(now)) = "Unavailable"
         /\ reply'.tag = "Unavailable" =>
              \A k \in 1 .. n : Verdict(candidates[k], RestoredSlack(now)) = "Unavailable"
<1> DEFINE verdict(k) == Verdict(candidates[k], RestoredSlack(now))
<1>1. CASE /\ \A k \in DOMAIN candidates : ~Decides(k, candidates, RestoredSlack(now))
           /\ Reject("Unavailable", Len(candidates), now)
  <2>1. reply'.tag = "Unavailable"
    BY <1>1 DEF Reject, Answer
  <2>2. ASSUME NEW k \in 1 .. n, verdict(k) # "Unavailable" PROVE FALSE
    <3> DEFINE S == {j \in 1 .. n : verdict(j) # "Unavailable"}
    <3>1. S \in SUBSET Nat /\ S # {}
      BY <2>2
    <3>2. PICK m \in S : \A j \in S : m <= j
      BY <3>1, LeastNatural
    <3>3. m \in 1 .. n /\ verdict(m) # "Unavailable"
      OBVIOUS
    <3>4. ASSUME NEW j \in 1 .. m - 1 PROVE verdict(j) = "Unavailable"
      <4>1. j \in 1 .. n /\ ~(m <= j)
        BY <3>3
      <4> QED BY <4>1, <3>2
    <3> QED BY <3>3, <3>4, <1>1 DEF Decides
  <2> QED BY <2>1, <2>2 DEF HoldTags
<1>2. CASE \E k \in DOMAIN candidates :
             /\ Decides(k, candidates, RestoredSlack(now))
             /\ \/ /\ verdict(k) = "Available"
                   /\ AcceptHold(i, candidates[k], deadline, tag, values[k], now)
                \/ verdict(k) # "Available" /\ Reject(verdict(k), 0, now)
  <2>1. PICK k \in 1 .. n :
          /\ Decides(k, candidates, RestoredSlack(now))
          /\ \/ /\ verdict(k) = "Available"
                /\ AcceptHold(i, candidates[k], deadline, tag, values[k], now)
             \/ verdict(k) # "Available" /\ Reject(verdict(k), 0, now)
    BY <1>2
  <2>2. verdict(k) # "Unavailable"
    BY <2>1 DEF Decides
  <2>3. ASSUME NEW j \in 1 .. n, j < k PROVE verdict(j) = "Unavailable"
    <3>1. j \in 1 .. k - 1
      BY <2>3
    <3> QED BY <3>1, <2>1 DEF Decides
  <2>4. CASE verdict(k) # "Available" /\ Reject(verdict(k), 0, now)
    <3>1. verdict(k) \notin HoldTags
      BY <2>4 DEF Verdict, FirstError, HoldTags
    <3>2. reply'.tag = verdict(k)
      BY <2>4 DEF Reject, Answer
    <3> HIDE DEF verdict
    <3> QED BY <3>1, <3>2, <2>2
  <2>5. CASE /\ verdict(k) = "Available"
             /\ AcceptHold(i, candidates[k], deadline, tag, values[k], now)
    <3>1. CASE Reject("SequenceOverflow", 0, now)
      BY <3>1 DEF Reject, Answer, HoldTags
    <3>2. CASE /\ promises' = [ExpiredPromises(now) EXCEPT ![i] =
                    [state |-> "Held", deadline |-> deadline, bundle |-> candidates[k],
                     version |-> 1, created |-> NextSequence(now),
                     updated |-> NextSequence(now)]]
               /\ reply' = [tag |-> tag, value |-> values[k], at |-> now]
      <4>1. promises'[i].bundle = candidates[k]
        BY <3>2 DEF ExpiredPromises
      <4>2. reply'.tag = tag /\ reply'.value = values[k] /\ tag # "Unavailable"
        BY <3>2 DEF HoldTags
      <4> HIDE DEF verdict
      <4>3. /\ reply'.value = values[k] /\ promises'[i].bundle = candidates[k]
            /\ verdict(k) = "Available"
            /\ \A j \in 1 .. n : j < k => verdict(j) = "Unavailable"
        BY <4>1, <4>2, <2>3, <2>5
      <4> QED BY <4>2, <4>3 DEF verdict
    <3> QED BY <2>5, <3>1, <3>2 DEF AcceptHold, Answer
  <2> QED BY <2>1, <2>4, <2>5
<1> QED BY <1>1, <1>2 DEF HoldFirst

\* The early ends of a hold are answered with other tags.
LEMMA HoldReaches ==
  ASSUME NEW i, NEW deadline, NEW now, reply'.tag \in HoldTags \union {"Unavailable"}
  PROVE  ~ExpiryOverflows(now) /\ ~HoldRefused(i, deadline, now)
BY DEF ExpiryOverflows, HoldRefused, Reject, Answer, HoldTags

\* A choice takes the first of its alternatives that fits, in the client's order, and is
\* refused only if none does: what fits is what the slow path admits once the holds that
\* are due have expired.
THEOREM ChoicesAreFirstFit == Spec => ChoicesTakeFirstFit
<1> DEFINE Fits(choice, k) == OracleAdmits(choice[k], ExpiredPromises(reply'.at))
           A == reply'.tag \in {"ChoiceHeld", "Unavailable"} =>
                  \A i \in PromiseId, deadline \in Instant, choice \in Choice :
                    HoldOneOf(i, choice, deadline, reply'.at) =>
                      /\ reply'.tag = "ChoiceHeld" =>
                           /\ Fits(choice, reply'.value + 1)
                           /\ \A k \in 1 .. reply'.value : ~Fits(choice, k)
                           /\ promises'[i].bundle = choice[reply'.value + 1]
                      /\ reply'.tag = "Unavailable" =>
                           \A k \in DOMAIN choice : ~Fits(choice, k)
<1>1. ASSUME IndexInv PROVE A
  <2> SUFFICES ASSUME reply'.tag \in {"ChoiceHeld", "Unavailable"},
                      NEW i \in PromiseId, NEW deadline \in Instant, NEW choice \in Choice,
                      HoldOneOf(i, choice, deadline, reply'.at)
               PROVE  /\ reply'.tag = "ChoiceHeld" =>
                           /\ Fits(choice, reply'.value + 1)
                           /\ \A k \in 1 .. reply'.value : ~Fits(choice, k)
                           /\ promises'[i].bundle = choice[reply'.value + 1]
                      /\ reply'.tag = "Unavailable" =>
                           \A k \in DOMAIN choice : ~Fits(choice, k)
    OBVIOUS
  <2> DEFINE now == reply'.at
             n == Len(choice)
             verdict(k) == Verdict(choice[k], RestoredSlack(now))
             values == [k \in DOMAIN choice |-> k - 1]
  <2>1. n \in Nat /\ DOMAIN choice = 1 .. n /\ \A k \in 1 .. n : choice[k] \in Bundle
    BY CandidatesAreBundles
  <2>2. HoldFirst(i, choice, deadline, "ChoiceHeld", values, now)
    <3>1. reply'.tag \in HoldTags \union {"Unavailable"}
      BY DEF HoldTags
    <3> QED BY <3>1, HoldReaches DEF HoldOneOf
  <2>3. \A k \in 1 .. n : verdict(k) = "Available" <=> Fits(choice, k)
    BY <1>1, <2>1, ExpiredAdmissionDecides
  <2>4. \A k \in 1 .. n : values[k] = k - 1
    BY <2>1
  <2>5. "ChoiceHeld" \in HoldTags
    BY DEF HoldTags
  <2> HIDE DEF n, values, now
  <2>6. /\ reply'.tag \in HoldTags =>
             \E k \in 1 .. n : /\ reply'.value = values[k] /\ promises'[i].bundle = choice[k]
                               /\ verdict(k) = "Available"
                               /\ \A j \in 1 .. n : j < k => verdict(j) = "Unavailable"
        /\ reply'.tag = "Unavailable" => \A k \in 1 .. n : verdict(k) = "Unavailable"
    BY <2>1, <2>2, <2>5, OrderedSearch
  <2> HIDE DEF verdict, Fits
  <2>7. ASSUME reply'.tag = "ChoiceHeld"
        PROVE  /\ Fits(choice, reply'.value + 1)
               /\ \A k \in 1 .. reply'.value : ~Fits(choice, k)
               /\ promises'[i].bundle = choice[reply'.value + 1]
    <3>1. PICK k \in 1 .. n : /\ reply'.value = values[k] /\ promises'[i].bundle = choice[k]
                              /\ verdict(k) = "Available"
                              /\ \A j \in 1 .. n : j < k => verdict(j) = "Unavailable"
      BY <2>5, <2>6, <2>7
    <3>2. reply'.value = k - 1 /\ reply'.value + 1 = k
      BY <3>1, <2>4
    <3>3. \A j \in 1 .. reply'.value : j \in 1 .. n /\ j < k
      BY <3>2, <2>1
    <3> QED BY <3>1, <3>2, <3>3, <2>3
  <2> QED BY <2>1, <2>3, <2>6, <2>7
<1>2. IndexInv /\ [Next]_vars => [A]_vars
  <2> HIDE DEF A
  <2> QED BY <1>1
<1>3. Spec => [][A]_vars
  <2> HIDE DEF A
  <2> QED BY <1>2, IndexInvariant, PTL DEF Spec
<1> QED BY <1>3 DEF ChoicesTakeFirstFit

\* The anchors of a search are the times of its grid, one by one in their order.
LEMMA AnchorsAreGrid ==
  ASSUME NEW e \in Int, NEW l \in Int, NEW d \in Int, d > 0, e <= l
  PROVE  /\ \A k \in 1 .. ((l - e) \div d) + 1 :
              e + (k - 1) * d \in e .. l /\ ((e + (k - 1) * d) - e) % d = 0
         /\ \A a \in e .. l : (a - e) % d = 0 =>
              \E k \in 1 .. ((l - e) \div d) + 1 : a = e + (k - 1) * d
         /\ \A j, k \in Int : e + (j - 1) * d < e + (k - 1) * d => j < k
         /\ ((l - e) \div d) + 1 \in Nat
<1>1. ASSUME NEW k \in 1 .. ((l - e) \div d) + 1
      PROVE  e + (k - 1) * d \in e .. l /\ ((e + (k - 1) * d) - e) % d = 0
  <2>1. e + (k - 1) * d \in e .. l
    BY AnchorInRange
  <2> DEFINE c == k - 1
             z == c * d
  <2>2. c \in Int /\ z \in Int
    OBVIOUS
  <2>3. z % d = 0
    <3> HIDE DEF c
    <3>1. z \div d \in Int /\ z % d \in 0 .. d - 1 /\ z = d * (z \div d) + (z % d)
      BY <2>2
    <3> DEFINE q == z \div d
               r == z % d
    <3>2. q \in Int /\ r \in Int /\ 0 <= r /\ r < d /\ c * d = d * q + r
      BY <3>1
    <3> HIDE DEF q, r, z
    <3>3. (c - q) * d = r
      BY <2>2, <3>2
    <3>4. c - q = 0
      BY <2>2, <3>2, <3>3
    <3>5. r = 0
      BY <3>3, <3>4
    <3> QED BY <3>5 DEF r
  <2>4. (e + (k - 1) * d) - e = z
    BY <2>2
  <2> QED BY <2>1, <2>3, <2>4
<1>2. ASSUME NEW a \in e .. l, (a - e) % d = 0
      PROVE  \E k \in 1 .. ((l - e) \div d) + 1 : a = e + (k - 1) * d
  <2> DEFINE x == a - e
             y == l - e
             p == x \div d
             q == y \div d
  <2>1. x \in Int /\ y \in Int /\ 0 <= x /\ x <= y /\ x % d = 0
    BY <1>2
  <2>2. p \in Int /\ x = d * p
    <3> HIDE DEF x
    <3> QED BY <2>1
  <2>3. q \in Int /\ y < d * q + d
    <3> HIDE DEF y
    <3> QED BY <2>1
  <2>4. 0 <= p /\ p <= q
    <3> HIDE DEF x, y, p, q
    <3> QED BY <2>1, <2>2, <2>3
  <2>5. p + 1 \in 1 .. q + 1 /\ a = e + ((p + 1) - 1) * d
    <3>1. a = e + x
      BY <2>1
    <3> HIDE DEF x, y, p, q
    <3> QED BY <2>1, <2>2, <2>3, <2>4, <3>1
  <2> QED BY <2>5
<1>3. \A j, k \in Int : e + (j - 1) * d < e + (k - 1) * d => j < k
  OBVIOUS
<1>4. ((l - e) \div d) + 1 \in Nat
  OBVIOUS
<1> QED BY <1>1, <1>2, <1>3, <1>4

\* A first-slot hold takes the earliest anchor of its grid that fits, and is refused as
\* unavailable only if none does, the last anchor of the grid included.
THEOREM SlotHoldsAreEarliestFit == Spec => SlotHoldsTakeEarliestFit
<1> DEFINE grid(q) == {a \in q.earliest .. q.latest : (a - q.earliest) % q.step = 0}
           Fits(q, a) == /\ q.at[a] # Unplaceable
                         /\ OracleAdmits(q.at[a], ExpiredPromises(reply'.at))
           A == reply'.tag \in {"SlotHeld", "Unavailable"} =>
                  \A i \in PromiseId, deadline \in Instant, q \in SlotQuery :
                    HoldFirstSlot(i, q, deadline, reply'.at) =>
                      /\ reply'.tag = "SlotHeld" =>
                           /\ reply'.value \in grid(q)
                           /\ Fits(q, reply'.value)
                           /\ \A a \in grid(q) : a < reply'.value => ~Fits(q, a)
                           /\ promises'[i].bundle = q.at[reply'.value]
                      /\ reply'.tag = "Unavailable" => \A a \in grid(q) : ~Fits(q, a)
<1>1. ASSUME IndexInv PROVE A
  <2> SUFFICES ASSUME reply'.tag \in {"SlotHeld", "Unavailable"},
                      NEW i \in PromiseId, NEW deadline \in Instant, NEW q \in SlotQuery,
                      HoldFirstSlot(i, q, deadline, reply'.at)
               PROVE  /\ reply'.tag = "SlotHeld" =>
                           /\ reply'.value \in grid(q)
                           /\ Fits(q, reply'.value)
                           /\ \A a \in grid(q) : a < reply'.value => ~Fits(q, a)
                           /\ promises'[i].bundle = q.at[reply'.value]
                      /\ reply'.tag = "Unavailable" => \A a \in grid(q) : ~Fits(q, a)
    OBVIOUS
  <2> DEFINE now == reply'.at
             n == ((q.latest - q.earliest) \div q.step) + 1
             at(k) == Anchor(q, k)
             values == [k \in DOMAIN SlotCandidates(q) |-> Anchor(q, k)]
             candidates == SlotCandidates(q)
             verdict(a) == Verdict(q.at[a], RestoredSlack(now))
  <2>1. /\ q.earliest <= q.latest /\ q.step > 0
        /\ HoldFirst(i, candidates, deadline, "SlotHeld", values, now)
    <3>1. reply'.tag \in HoldTags \union {"Unavailable"}
      BY DEF HoldTags
    <3>2. \A tag \in {"InvalidSearchRange", "InvalidStep"} : ~Reject(tag, 0, now)
      BY DEF Reject, Answer
    <3> QED BY <3>1, <3>2, HoldReaches DEF HoldFirstSlot
  <2>2. /\ q.earliest \in Int /\ q.latest \in Int /\ q.step \in Int
        /\ \A a \in q.earliest .. q.latest : q.at[a] \in Bundle \union {Unplaceable}
    BY CandidatesAreBundles
  <2>3. /\ n \in Nat
        /\ \A k \in 1 .. n : at(k) \in grid(q)
        /\ \A a \in grid(q) : \E k \in 1 .. n : a = at(k)
        /\ \A j, k \in 1 .. n : at(j) < at(k) => j < k
    <3>1. /\ \A k \in 1 .. n : at(k) \in q.earliest .. q.latest /\ (at(k) - q.earliest) % q.step = 0
          /\ \A a \in q.earliest .. q.latest :
               (a - q.earliest) % q.step = 0 => \E k \in 1 .. n : a = at(k)
          /\ \A j, k \in Int : at(j) < at(k) => j < k
          /\ n \in Nat
      <4> DEFINE e == q.earliest
                 l == q.latest
                 d == q.step
      <4>1. e \in Int /\ l \in Int /\ d \in Int /\ d > 0 /\ e <= l
        BY <2>1, <2>2
      <4>2. n = ((l - e) \div d) + 1 /\ \A k : at(k) = e + (k - 1) * d
        BY DEF Anchor
      <4> HIDE DEF e, l, d, n, at
      <4>3. /\ \A k \in 1 .. ((l - e) \div d) + 1 :
                 e + (k - 1) * d \in e .. l /\ ((e + (k - 1) * d) - e) % d = 0
            /\ \A a \in e .. l : (a - e) % d = 0 =>
                 \E k \in 1 .. ((l - e) \div d) + 1 : a = e + (k - 1) * d
            /\ \A j, k \in Int : e + (j - 1) * d < e + (k - 1) * d => j < k
            /\ ((l - e) \div d) + 1 \in Nat
        BY <4>1, AnchorsAreGrid
      <4>4. \A k \in 1 .. n : at(k) \in e .. l /\ (at(k) - e) % d = 0
        BY <4>2, <4>3
      <4>5. \A a \in e .. l : (a - e) % d = 0 => \E k \in 1 .. n : a = at(k)
        BY <4>2, <4>3
      <4>6. \A j, k \in Int : at(j) < at(k) => j < k
        BY <4>2, <4>3
      <4>7. n \in Nat
        BY <4>2, <4>3
      <4> QED BY <4>4, <4>5, <4>6, <4>7 DEF e, l, d
    <3>2. \A k \in 1 .. n : k \in Int
      BY <3>1
    <3> HIDE DEF n, at
    <3> QED BY <3>1, <3>2
  <2>4. /\ DOMAIN candidates = 1 .. n
        /\ \A k \in 1 .. n : values[k] = at(k) /\ candidates[k] = q.at[at(k)]
    BY DEF SlotCandidates
  <2>5. ASSUME NEW a \in grid(q) PROVE verdict(a) = "Available" <=> Fits(q, a)
    <3>1. q.at[a] \in Bundle \union {Unplaceable}
      BY <2>2
    <3>2. CASE q.at[a] = Unplaceable
      BY <3>2 DEF Verdict
    <3>3. CASE q.at[a] \in Bundle
      BY <1>1, <3>3, ExpiredAdmissionDecides, CandidatesAreBundles
    <3> QED BY <3>1, <3>2, <3>3
  <2>6. "SlotHeld" \in HoldTags
    BY DEF HoldTags
  <2> HIDE DEF n, values, now, at, grid, candidates
  <2>7. /\ reply'.tag \in HoldTags =>
             \E k \in 1 .. n :
               /\ reply'.value = values[k] /\ promises'[i].bundle = candidates[k]
               /\ Verdict(candidates[k], RestoredSlack(now)) = "Available"
               /\ \A j \in 1 .. n :
                    j < k => Verdict(candidates[j], RestoredSlack(now)) = "Unavailable"
        /\ reply'.tag = "Unavailable" =>
             \A k \in 1 .. n : Verdict(candidates[k], RestoredSlack(now)) = "Unavailable"
    <3>1. HoldFirst(i, candidates, deadline, "SlotHeld", values, now)
      BY <2>1
    <3>2. n \in Nat
      BY <2>3
    <3>3. DOMAIN candidates = 1 .. n
      BY <2>4
    <3> HIDE DEF verdict, Fits
    <3> QED BY ONLY <3>1, <3>2, <3>3, <2>6, i \in PromiseId, OrderedSearch
  <2>8. \A k \in 1 .. n : Verdict(candidates[k], RestoredSlack(now)) = verdict(at(k))
    BY <2>4
  <2> HIDE DEF verdict, Fits
  <2>9. ASSUME reply'.tag = "SlotHeld"
        PROVE  /\ reply'.value \in grid(q)
               /\ Fits(q, reply'.value)
               /\ \A a \in grid(q) : a < reply'.value => ~Fits(q, a)
               /\ promises'[i].bundle = q.at[reply'.value]
    <3>1. PICK k \in 1 .. n :
            /\ reply'.value = values[k] /\ promises'[i].bundle = candidates[k]
            /\ verdict(at(k)) = "Available"
            /\ \A j \in 1 .. n : j < k => verdict(at(j)) = "Unavailable"
      BY <2>6, <2>7, <2>8, <2>9
    <3>2. /\ reply'.value = at(k) /\ promises'[i].bundle = q.at[at(k)] /\ at(k) \in grid(q)
      BY <3>1, <2>3, <2>4
    <3>3. ASSUME NEW a \in grid(q), a < at(k) PROVE ~Fits(q, a)
      <4>1. PICK j \in 1 .. n : a = at(j)
        BY <2>3
      <4>2. j < k
        BY <4>1, <3>3, <2>3
      <4>3. verdict(a) = "Unavailable"
        BY <4>1, <4>2, <3>1
      <4> QED BY <4>3, <2>5
    <3> QED BY <3>1, <3>2, <3>3, <2>5
  <2>10. ASSUME reply'.tag = "Unavailable", NEW a \in grid(q) PROVE ~Fits(q, a)
    <3>1. PICK k \in 1 .. n : a = at(k)
      BY <2>3
    <3>2. verdict(a) = "Unavailable"
      BY <3>1, <2>7, <2>8, <2>10
    <3> QED BY <3>2, <2>5
  <2> QED BY <2>9, <2>10
<1>2. IndexInv /\ [Next]_vars => [A]_vars
  <2> HIDE DEF A
  <2> QED BY <1>1
<1>3. Spec => [][A]_vars
  <2> HIDE DEF A
  <2> QED BY <1>2, IndexInvariant, PTL DEF Spec
<1> QED BY <1>3 DEF SlotHoldsTakeEarliestFit

-----------------------------------------------------------------------------
(* Ranks: the due holds are numbered 1, 2, ..., each number used once.      *)

\* No two due holds have the same rank, and the expiring ones have the ranks
\* 1 .. Cardinality(Expiring(now)).
LEMMA RanksAreUsedOnce ==
  ASSUME PromisesTyped, sequence \in 0 .. MaxSequence, NEW now
  PROVE  /\ \A i, j \in Expiring(now) : Rank(i, now) = Rank(j, now) => i = j
         /\ \A k \in 1 .. Cardinality(Expiring(now)) :
              \E i \in Expiring(now) : Rank(i, now) = k
<1>1. /\ IsFiniteSet(Due(now)) /\ IsFiniteSet(Expiring(now))
      /\ \A i \in Expiring(now) : Rank(i, now) \in 1 .. Cardinality(Expiring(now))
  BY ExpirationsAreNumbered
<1>2. ASSUME NEW i \in Expiring(now), NEW j \in Expiring(now), Precedes(j, i)
      PROVE  Rank(j, now) < Rank(i, now)
  BY <1>2, RanksIncrease DEF Expiring
<1>3. ASSUME NEW i \in Expiring(now), NEW j \in Expiring(now), Rank(i, now) = Rank(j, now)
      PROVE  i = j
  <2>1. i \in PromiseId /\ j \in PromiseId
    BY DEF Expiring, Due
  <2>2. i = j \/ Precedes(i, j) \/ Precedes(j, i)
    BY <2>1, PrecedesIsTotalOrder
  <2>3. Rank(i, now) \in Int /\ Rank(j, now) \in Int
    BY <1>1
  <2> QED BY <1>2, <1>3, <2>2, <2>3
<1>4. \A k \in 1 .. Cardinality(Expiring(now)) : \E i \in Expiring(now) : Rank(i, now) = k
  <2> DEFINE S == Expiring(now)
             rank == [i \in S |-> Rank(i, now)]
  <2>1. rank \in [S -> 1 .. Cardinality(S)]
    BY <1>1
  <2>2. \A x, y \in S : rank[x] = rank[y] => x = y
    BY <1>3
  <2>3. \A x \in S : rank[x] = Rank(x, now)
    OBVIOUS
  <2> HIDE DEF S, rank
  <2>4. IsFiniteSet(S)
    BY <1>1 DEF S
  <2>5. \A k \in 1 .. Cardinality(S) : \E x \in S : rank[x] = k
    BY <2>1, <2>2, <2>4, RanksFill
  <2> QED BY <2>3, <2>5 DEF S
<1> QED BY <1>3, <1>4

-----------------------------------------------------------------------------
(* Deficits: two deficits of one timeline are the same or do not meet.      *)

Deficit == [from : Time, to : 1 .. Horizon, quantity : Int]

\* The timelines of the engine.
Line == [Time -> Int]

\* What it means to be one of the deficits of a timeline.
LEMMA DeficitSpan ==
  ASSUME NEW line \in Line, NEW d \in Deficits(line)
  PROVE  /\ d \in Deficit
         /\ IsDeficit(line, d.from, d.to)
         /\ d.quantity = -line[d.from]
<1>1. PICK span \in Time \X (1 .. Horizon) :
        /\ IsDeficit(line, span[1], span[2])
        /\ d = [from |-> span[1], to |-> span[2], quantity |-> -line[span[1]]]
  BY DEF Deficits
<1>2. span[1] \in Time /\ span[2] \in 1 .. Horizon
  OBVIOUS
<1>3. line[span[1]] \in Int
  BY <1>2 DEF Line
<1>4. -line[span[1]] \in Int
  BY <1>3
<1> QED BY <1>1, <1>2, <1>4 DEF Deficit

\* A maximal stretch of one slack ends where another one begins: deficits of one
\* timeline that overlap, or begin at one cell, are the same.
LEMMA DeficitsAreApart ==
  ASSUME NEW line \in Line, NEW d \in Deficits(line), NEW e \in Deficits(line),
         Overlaps(d, e) \/ d.from = e.from
  PROVE  d = e
<1> DEFINE a == d.from
           z == d.to
           b == e.from
           y == e.to
<1>1. /\ a \in Time /\ b \in Time /\ z \in 1 .. Horizon /\ y \in 1 .. Horizon
      /\ IsDeficit(line, a, z) /\ IsDeficit(line, b, y)
      /\ d.quantity = -line[a] /\ e.quantity = -line[b]
      /\ d \in Deficit /\ e \in Deficit
  BY DeficitSpan DEF Deficit
<1>2. /\ a \in Nat /\ b \in Nat /\ z \in Nat /\ y \in Nat /\ Horizon \in Nat
      /\ a < z /\ b < y /\ z <= Horizon /\ y <= Horizon
      /\ a < y /\ b < z
  <2>1. a \in Nat /\ b \in Nat /\ z \in Nat /\ y \in Nat /\ Horizon \in Nat
        /\ z <= Horizon /\ y <= Horizon
    BY <1>1, CountsAreNatural DEF Time
  <2>2. a < z /\ b < y
    BY <1>1 DEF IsDeficit
  <2>3. (a < y /\ b < z) \/ a = b
    BY DEF Overlaps
  <2> HIDE DEF a, b, y, z
  <2> QED BY <2>1, <2>2, <2>3
<1>3. /\ \A t \in a .. z - 1 : line[t] = line[a]
      /\ \A t \in b .. y - 1 : line[t] = line[b]
      /\ a # 0 => line[a - 1] # line[a]
      /\ b # 0 => line[b - 1] # line[b]
      /\ z # Horizon => line[z] # line[a]
      /\ y # Horizon => line[y] # line[b]
  BY <1>1 DEF IsDeficit
<1>4. a = b
  <2> HIDE DEF a, b, z, y
  <2>1. CASE a < b
    <3>1. b \in a .. z - 1 /\ b - 1 \in a .. z - 1 /\ b # 0
      BY <1>2, <2>1
    <3> QED BY <1>3, <3>1
  <2>2. CASE b < a
    <3>1. a \in b .. y - 1 /\ a - 1 \in b .. y - 1 /\ a # 0
      BY <1>2, <2>2
    <3> QED BY <1>3, <3>1
  <2> QED BY <1>2, <2>1, <2>2
<1>5. z = y
  <2> HIDE DEF a, b, z, y
  <2>1. CASE z < y
    <3>1. z \in b .. y - 1 /\ z # Horizon
      BY <1>2, <2>1
    <3> QED BY <1>3, <1>4, <3>1
  <2>2. CASE y < z
    <3>1. y \in a .. z - 1 /\ y # Horizon
      BY <1>2, <2>2
    <3> QED BY <1>3, <1>4, <3>1
  <2> QED BY <1>2, <2>1, <2>2
<1> QED BY <1>1, <1>4, <1>5 DEF Deficit

\* InTimeOrder lists the deficits of a timeline, each once.
LEMMA TimeOrderListsAll ==
  ASSUME NEW line \in Line, NEW ds \in SUBSET Deficits(line)
  PROVE  /\ InTimeOrder(ds) \in Seq(ds)
         /\ {InTimeOrder(ds)[k] : k \in DOMAIN InTimeOrder(ds)} = ds
<1> DEFINE from == [d \in ds |-> d.from]
           rank == [d \in ds |-> Cardinality({e \in ds : e.from <= d.from})]
<1>1. \A d \in ds : d.from \in Time /\ d.from \in Int
  BY DeficitSpan DEF Deficit, Time
<1>2. \A d, e \in ds : d.from = e.from => d = e
  BY DeficitsAreApart
<1>3. IsFiniteSet(ds)
  <2>1. IsFiniteSet(Time)
    <3>1. 0 \in Int /\ Horizon - 1 \in Int
      BY CountsAreNatural
    <3> QED BY <3>1, FS_Interval DEF Time
  <2>2. from \in Injection(ds, Time)
    BY <1>1, <1>2 DEF Injection, IsInjective
  <2> HIDE DEF from
  <2> QED BY <2>1, <2>2, FS_Injection
<1>4. ASSUME NEW d \in ds PROVE rank[d] \in 1 .. Cardinality(ds)
  <2> DEFINE upTo == {e \in ds : e.from <= d.from}
  <2>1. upTo \in SUBSET ds /\ d \in upTo
    BY <1>1
  <2>2. rank[d] = Cardinality(upTo)
    OBVIOUS
  <2> HIDE DEF upTo, rank
  <2>3. IsFiniteSet(upTo) /\ Cardinality(upTo) \in Nat /\ Cardinality(ds) \in Nat
        /\ Cardinality(upTo) <= Cardinality(ds)
    BY <1>3, <2>1, SmallerPart
  <2>4. Cardinality(upTo) # 0
    BY <2>1, <2>3, FS_EmptySet
  <2> QED BY <2>2, <2>3, <2>4
<1>5. ASSUME NEW d \in ds, NEW e \in ds, d.from < e.from PROVE rank[d] < rank[e]
  <2> DEFINE upToD == {x \in ds : x.from <= d.from}
             upToE == {x \in ds : x.from <= e.from}
  <2>1. upToD \in SUBSET upToE /\ e \in upToE /\ e \notin upToD /\ upToE \in SUBSET ds
    BY <1>1, <1>5
  <2>2. rank[d] = Cardinality(upToD) /\ rank[e] = Cardinality(upToE)
    OBVIOUS
  <2> HIDE DEF upToD, upToE, rank
  <2>3. IsFiniteSet(upToE)
    BY <1>3, <2>1, FS_Subset
  <2> QED BY <2>1, <2>2, <2>3, SmallerPart
<1>6. \A d, e \in ds : rank[d] = rank[e] => d = e
  <2>1. SUFFICES ASSUME NEW d \in ds, NEW e \in ds, rank[d] = rank[e] PROVE d = e
    OBVIOUS
  <2>2. rank[d] \in Int /\ rank[e] \in Int
    BY <1>4
  <2> HIDE DEF rank
  <2> QED BY <1>1, <1>2, <1>5, <2>1, <2>2
<1>7. \A k \in 1 .. Cardinality(ds) : \E d \in ds : rank[d] = k
  <2>1. rank \in [ds -> 1 .. Cardinality(ds)]
    BY <1>4
  <2> HIDE DEF rank
  <2> QED BY <1>3, <1>6, <2>1, RanksFill
<1>8. ASSUME NEW k \in 1 .. Cardinality(ds)
      PROVE  InTimeOrder(ds)[k] \in ds /\ rank[InTimeOrder(ds)[k]] = k
  <2>1. \E d \in ds : Cardinality({e \in ds : e.from <= d.from}) = k
    BY <1>7
  <2> QED BY <2>1 DEF InTimeOrder
<1>9. Cardinality(ds) \in Nat
  BY <1>3, FS_CardinalityType
<1>10. InTimeOrder(ds) \in Seq(ds) /\ DOMAIN InTimeOrder(ds) = 1 .. Cardinality(ds)
  <2>1. InTimeOrder(ds) \in [1 .. Cardinality(ds) -> ds]
    BY <1>8 DEF InTimeOrder
  <2> QED BY <1>9, <2>1, RowIsSequence
<1>11. ASSUME NEW d \in ds PROVE \E k \in DOMAIN InTimeOrder(ds) : InTimeOrder(ds)[k] = d
  <2>1. rank[d] \in DOMAIN InTimeOrder(ds)
    BY <1>4, <1>10
  <2> HIDE DEF rank
  <2> QED BY <1>6, <1>8, <1>10, <2>1
<1> QED BY <1>8, <1>10, <1>11

-----------------------------------------------------------------------------
(* The audit records one command appends.                                   *)

PromiseNotice ==
  [kind : PromiseKinds, subject : PromiseId, version : 1 .. MaxSequence, seq : 1 .. MaxSequence]
PoolNotice == [kind : {"ResourceCreated", "CapacityRevised"}, subject : Pool, seq : 1 .. MaxSequence]
DeficitNotice ==
  [kind : DeficitKinds, subject : Pool, seq : 1 .. MaxSequence, deficit : Deficit,
   affected : SUBSET PromiseId]
Notice == PromiseNotice \union PoolNotice \union DeficitNotice

\* The sequence numbers of an extract of the log, read from sequence number x on,
\* lead to y without a gap; only deficits share a number with what precedes them.
Numbered(log, x, y) ==
  /\ log \in Seq(Notice)
  /\ \A k \in DOMAIN log :
       LET before == IF k = 1 THEN x ELSE log[k - 1].seq IN
       log[k].seq = IF log[k].kind \in DeficitKinds THEN before ELSE before + 1
  /\ log # <<>> => log[1].kind \notin DeficitKinds
  /\ y = IF log = <<>> THEN x ELSE log[Len(log)].seq

\* The records about promise i.
Mine(log, i) == {k \in DOMAIN log : log[k].kind \in PromiseKinds /\ log[k].subject = i}

\* What happened to promise i, when its record became next, is in the log: nothing,
\* or one new version.
Told(log, i, next) ==
  IF next = promises[i] THEN Mine(log, i) = {}
  ELSE \E k \in DOMAIN log :
         /\ Mine(log, i) = {k}
         /\ log[k].version = promises[i].version + 1
         /\ next.version = log[k].version
         /\ next.updated = log[k].seq
         /\ next.created = IF promises[i].version = 0 THEN log[k].seq ELSE promises[i].created

\* Extracts that follow each other are one extract.
LEMMA NumberedConcat ==
  ASSUME NEW x, NEW y, NEW z, NEW a, NEW b, Numbered(a, x, y), Numbered(b, y, z)
  PROVE  Numbered(a \o b, x, z)
<1>1. a \in Seq(Notice) /\ b \in Seq(Notice)
  BY DEF Numbered
<1> DEFINE c == a \o b
<1>2. /\ c \in Seq(Notice)
      /\ Len(a) \in Nat /\ Len(b) \in Nat
      /\ DOMAIN a = 1 .. Len(a) /\ DOMAIN b = 1 .. Len(b) /\ DOMAIN c = 1 .. Len(a) + Len(b)
      /\ Len(c) = Len(a) + Len(b)
      /\ \A k \in 1 .. Len(a) : c[k] = a[k]
      /\ \A k \in 1 .. Len(b) : c[Len(a) + k] = b[k]
  BY <1>1
<1>3. /\ a = <<>> <=> Len(a) = 0
      /\ b = <<>> <=> Len(b) = 0
      /\ c = <<>> <=> Len(c) = 0
  BY <1>1, <1>2
<1> HIDE DEF c
<1>4. ASSUME NEW k \in DOMAIN c
      PROVE  LET before == IF k = 1 THEN x ELSE c[k - 1].seq IN
             c[k].seq = IF c[k].kind \in DeficitKinds THEN before ELSE before + 1
  <2>1. CASE k \in 1 .. Len(a)
    <3>1. k # 1 => k - 1 \in 1 .. Len(a)
      BY <1>2, <2>1
    <3> QED BY <1>2, <2>1, <3>1 DEF Numbered
  <2>2. CASE k = Len(a) + 1 /\ Len(a) > 0
    <3>1. 1 \in 1 .. Len(b) /\ Len(a) \in 1 .. Len(a) /\ k # 1 /\ k - 1 = Len(a)
      BY <1>2, <2>2
    <3>2. c[k] = b[1] /\ c[k - 1] = a[Len(a)]
      BY <1>2, <2>2, <3>1
    <3>3. y = a[Len(a)].seq
      BY <1>2, <1>3, <2>2 DEF Numbered
    <3>4. b[1].seq = IF b[1].kind \in DeficitKinds THEN y ELSE y + 1
      BY <1>2, <3>1 DEF Numbered
    <3> QED BY <3>1, <3>2, <3>3, <3>4
  <2>3. CASE k = 1 /\ Len(a) = 0
    <3>1. 1 \in 1 .. Len(b) /\ c[k] = b[1] /\ y = x
      <4>1. 1 \in 1 .. Len(b) /\ Len(a) + 1 = 1
        BY <1>2, <2>3
      <4>2. c[Len(a) + 1] = b[1]
        BY <1>2, <4>1
      <4>3. y = x
        BY <1>3, <2>3 DEF Numbered
      <4> QED BY <2>3, <4>1, <4>2, <4>3
    <3>2. b[1].seq = IF b[1].kind \in DeficitKinds THEN y ELSE y + 1
      BY <1>2, <3>1 DEF Numbered
    <3> QED BY <2>3, <3>1, <3>2
  <2>4. CASE k \in Len(a) + 2 .. Len(a) + Len(b)
    <3>0. Len(a) \in Nat /\ Len(b) \in Nat
      BY <1>2
    <3>1. PICK j \in 2 .. Len(b) :
            k = Len(a) + j /\ k - 1 = Len(a) + (j - 1) /\ k # 1 /\ j # 1
            /\ j - 1 \in 1 .. Len(b) /\ j \in 1 .. Len(b)
      <4>1. k - Len(a) \in 2 .. Len(b) /\ k = Len(a) + (k - Len(a))
        BY <2>4, <3>0
      <4> QED BY <2>4, <3>0, <4>1
    <3>2. c[k] = b[j] /\ c[k - 1] = b[j - 1]
      BY <1>2, <3>1
    <3>3. b[j].seq = IF b[j].kind \in DeficitKinds THEN b[j - 1].seq ELSE b[j - 1].seq + 1
      BY <1>2, <3>1 DEF Numbered
    <3> QED BY <3>1, <3>2, <3>3
  <2> QED BY <1>2, <2>1, <2>2, <2>3, <2>4
<1>5. c # <<>> => c[1].kind \notin DeficitKinds
  <2>1. SUFFICES ASSUME c # <<>> PROVE c[1].kind \notin DeficitKinds
    OBVIOUS
  <2>2. CASE Len(a) > 0
    <3>1. c[1] = a[1] /\ a # <<>>
      BY <1>2, <1>3, <2>2
    <3> QED BY <3>1 DEF Numbered
  <2>3. CASE Len(a) = 0
    <3>1. 1 \in 1 .. Len(b) /\ Len(a) + 1 = 1 /\ b # <<>>
      BY <1>2, <1>3, <2>1, <2>3
    <3>2. c[Len(a) + 1] = b[1]
      BY <1>2, <3>1
    <3> QED BY <3>1, <3>2 DEF Numbered
  <2> QED BY <1>2, <2>2, <2>3
<1>6. z = IF c = <<>> THEN x ELSE c[Len(c)].seq
  <2>1. CASE Len(b) > 0
    <3>1. c # <<>> /\ b # <<>> /\ Len(b) \in 1 .. Len(b) /\ Len(c) = Len(a) + Len(b)
      BY <1>2, <1>3, <2>1
    <3>2. c[Len(a) + Len(b)] = b[Len(b)]
      BY <1>2, <3>1
    <3> QED BY <3>1, <3>2 DEF Numbered
  <2>2. CASE Len(b) = 0
    <3>1. z = y /\ Len(c) = Len(a) /\ (c = <<>> <=> a = <<>>)
      BY <1>2, <1>3, <2>2 DEF Numbered
    <3>2. a # <<>> => Len(a) \in 1 .. Len(a) /\ c[Len(c)] = a[Len(a)]
      BY <1>2, <1>3, <3>1
    <3>3. y = IF a = <<>> THEN x ELSE a[Len(a)].seq
      BY DEF Numbered
    <3> QED BY <3>1, <3>2, <3>3
  <2> QED BY <1>2, <2>1, <2>2
<1>7. Numbered(c, x, z)
  BY <1>2, <1>4, <1>5, <1>6 DEF Numbered
<1> QED BY <1>7 DEF c

\* The expirations of one command have sequence numbers of their own, in a row.
LEMMA ExpiryIsNumbered ==
  ASSUME RecordInv, NEW now
  PROVE  /\ Numbered(ExpiryEvents(now), sequence, ExpiredSequence(now))
         /\ Len(ExpiryEvents(now)) = Cardinality(Expiring(now))
         /\ \A k \in 1 .. Cardinality(Expiring(now)) : \E i \in Expiring(now) :
              /\ Rank(i, now) = k
              /\ ExpiryEvents(now)[k] =
                   PromiseEvent("HoldExpired", i, promises[i].version + 1, sequence + k)
<1> DEFINE n == Cardinality(Expiring(now))
           log == ExpiryEvents(now)
<1>1. n \in Nat /\ sequence \in Nat /\ sequence + n <= MaxSequence /\ MaxSequence \in Nat
  BY ExpirationsAreNumbered, CountsAreNatural DEF RecordInv
<1>2. ASSUME NEW k \in 1 .. n
      PROVE  \E i \in Expiring(now) :
               /\ Rank(i, now) = k
               /\ log[k] = PromiseEvent("HoldExpired", i, promises[i].version + 1, sequence + k)
  <2>1. \E i \in Expiring(now) : Rank(i, now) = k
    BY RanksAreUsedOnce DEF RecordInv
  <2> QED BY <2>1 DEF ExpiryEvents
<1>3. ASSUME NEW k \in 1 .. n
      PROVE  log[k] \in Notice /\ log[k].seq = sequence + k /\ log[k].kind = "HoldExpired"
  <2>1. PICK i \in Expiring(now) :
          log[k] = PromiseEvent("HoldExpired", i, promises[i].version + 1, sequence + k)
    BY <1>2
  <2>2. i \in PromiseId /\ promises[i] \in PromiseRecord /\ promises[i].state # "Absent"
    BY ExpiredRecord
  <2>3. promises[i].version + 1 \in 1 .. MaxSequence
    <3>1. /\ promises[i].version \in 1 .. MaxSequence /\ promises[i].updated \in 1 .. MaxSequence
          /\ promises[i].version <= promises[i].updated /\ promises[i].updated <= sequence
      BY <2>2 DEF PromiseRecord, RecordInv, VersionsFollowSequence
    <3>2. n # 0
      OBVIOUS
    <3> HIDE DEF n
    <3> QED BY <1>1, <3>1, <3>2
  <2>4. sequence + k \in 1 .. MaxSequence
    <3> HIDE DEF n
    <3> QED BY <1>1
  <2> HIDE DEF log
  <2> QED BY <2>1, <2>2, <2>3, <2>4 DEF PromiseEvent, Notice, PromiseNotice, PromiseKinds
<1>4. log \in [1 .. n -> Notice]
  BY <1>3 DEF ExpiryEvents
<1> HIDE DEF n
<1>5. log \in Seq(Notice) /\ Len(log) = n /\ DOMAIN log = 1 .. n
  BY <1>1, <1>4, RowIsSequence
<1>6. log = <<>> <=> n = 0
  BY <1>1, <1>5
<1>7. ExpiredSequence(now) = sequence + n
  BY DEF ExpiredSequence, n
<1> HIDE DEF log
<1>8. ASSUME NEW k \in DOMAIN log
      PROVE  LET before == IF k = 1 THEN sequence ELSE log[k - 1].seq IN
             log[k].seq = IF log[k].kind \in DeficitKinds THEN before ELSE before + 1
  <2>1. k # 1 => k - 1 \in 1 .. n
    BY <1>1, <1>5
  <2>2. log[k].seq = sequence + k /\ log[k].kind = "HoldExpired"
        /\ (k # 1 => log[k - 1].seq = sequence + (k - 1))
    BY <1>3, <1>5, <2>1
  <2>3. k \in Int
    BY <1>1, <1>5
  <2> QED BY <1>1, <2>2, <2>3 DEF DeficitKinds
<1>9. log # <<>> => log[1].kind \notin DeficitKinds
  <2>1. n # 0 => 1 \in 1 .. n
    BY <1>1
  <2> QED BY <1>3, <1>6, <2>1 DEF DeficitKinds
<1>10. ExpiredSequence(now) = IF log = <<>> THEN sequence ELSE log[Len(log)].seq
  <2>1. n # 0 => n \in 1 .. n
    BY <1>1
  <2> QED BY <1>1, <1>3, <1>5, <1>6, <1>7, <2>1
<1>11. Numbered(log, sequence, ExpiredSequence(now))
  BY <1>5, <1>8, <1>9, <1>10 DEF Numbered
<1> QED BY <1>2, <1>5, <1>11 DEF log, n

\* They tell of every hold that expires, and of no other promise.
LEMMA ExpiryIsTold ==
  ASSUME RecordInv, NEW now, NEW i \in PromiseId
  PROVE  /\ Told(ExpiryEvents(now), i, ExpiredPromises(now)[i])
         /\ i \in Expiring(now) <=> ExpiredPromises(now)[i] # promises[i]
<1> DEFINE n == Cardinality(Expiring(now))
           log == ExpiryEvents(now)
           next == ExpiredPromises(now)[i]
<1>1. /\ n \in Nat /\ DOMAIN log = 1 .. n
      /\ \A k \in 1 .. n : \E j \in Expiring(now) :
           /\ Rank(j, now) = k
           /\ log[k] = PromiseEvent("HoldExpired", j, promises[j].version + 1, sequence + k)
  <2>1. log \in Seq(Notice) /\ Len(log) = n
    BY ExpiryIsNumbered DEF Numbered
  <2> QED BY <2>1, ExpiryIsNumbered
<1>2. CASE i \notin Expiring(now)
  <2>1. next = promises[i]
    BY <1>2 DEF ExpiredPromises
  <2>2. Mine(log, i) = {}
    <3>1. SUFFICES ASSUME NEW k \in DOMAIN log, log[k].subject = i PROVE FALSE
      BY DEF Mine
    <3>2. PICK j \in Expiring(now) : log[k].subject = j
      BY <1>1 DEF PromiseEvent
    <3> QED BY <1>2, <3>1, <3>2
  <2> QED BY <1>2, <2>1, <2>2 DEF Told
<1>3. CASE i \in Expiring(now)
  <2>1. PICK k \in 1 .. n : k = Rank(i, now)
    BY <1>3, ExpirationsAreNumbered DEF RecordInv
  <2>2. log[k] = PromiseEvent("HoldExpired", i, promises[i].version + 1, sequence + k)
    <3>1. PICK j \in Expiring(now) :
           /\ Rank(j, now) = k
           /\ log[k] = PromiseEvent("HoldExpired", j, promises[j].version + 1, sequence + k)
      BY <1>1
    <3>2. j = i
      BY <1>3, <2>1, <3>1, RanksAreUsedOnce DEF RecordInv
    <3> QED BY <3>1, <3>2
  <2>3. Mine(log, i) = {k}
    <3>1. k \in Mine(log, i)
      BY <1>1, <2>2 DEF Mine, PromiseEvent, PromiseKinds
    <3>2. ASSUME NEW m \in Mine(log, i) PROVE m = k
      <4>1. PICK j \in Expiring(now) : Rank(j, now) = m /\ log[m].subject = j
        BY <1>1 DEF Mine, PromiseEvent
      <4> QED BY <2>1, <4>1 DEF Mine
    <3> QED BY <3>1, <3>2
  <2>4. next = NextVersion(promises[i], "Expired", 0, promises[i].bundle, sequence + Rank(i, now))
        /\ promises[i] \in PromiseRecord
    BY <1>3, ExpiredRecord
  <2>5. promises[i].version \in Nat \ {0}
    BY <2>4, CountsAreNatural DEF PromiseRecord
  <2>6. next.version = promises[i].version + 1 /\ next.version # promises[i].version
        /\ next.updated = sequence + k /\ next.created = promises[i].created
    BY <2>1, <2>4, <2>5 DEF NextVersion
  <2>7. log[k].version = promises[i].version + 1 /\ log[k].seq = sequence + k
    BY <2>2 DEF PromiseEvent
  <2>8. next # promises[i]
    BY <2>6
  <2> HIDE DEF next, log
  <2>9. Told(log, i, next)
    BY <1>1, <2>1, <2>3, <2>5, <2>6, <2>7, <2>8 DEF Told
  <2> QED BY <1>3, <2>8, <2>9 DEF next, log
<1> QED BY <1>2, <1>3

\* The records about a promise in two extracts that follow each other.
LEMMA MineConcat ==
  ASSUME NEW a \in Seq(Notice), NEW b \in Seq(Notice), NEW i
  PROVE  /\ \A k : k \in Mine(a \o b, i) <=>
                   k \in Mine(a, i) \/ \E m \in Mine(b, i) : k = Len(a) + m
         /\ a \o b \in Seq(Notice)
         /\ \A k \in DOMAIN a : k \in DOMAIN (a \o b) /\ (a \o b)[k] = a[k]
         /\ \A k \in DOMAIN b : Len(a) + k \in DOMAIN (a \o b) /\ (a \o b)[Len(a) + k] = b[k]
<1> DEFINE c == a \o b
<1>1. /\ c \in Seq(Notice)
      /\ Len(a) \in Nat /\ Len(b) \in Nat
      /\ DOMAIN a = 1 .. Len(a) /\ DOMAIN b = 1 .. Len(b) /\ DOMAIN c = 1 .. Len(a) + Len(b)
      /\ \A k \in 1 .. Len(a) : c[k] = a[k]
      /\ \A k \in 1 .. Len(b) : c[Len(a) + k] = b[k]
  OBVIOUS
<1>2. /\ \A k \in DOMAIN a : k \in DOMAIN c /\ c[k] = a[k]
      /\ \A k \in DOMAIN b : Len(a) + k \in DOMAIN c /\ c[Len(a) + k] = b[k]
  <2> HIDE DEF c
  <2>1. \A k \in 1 .. Len(a) : k \in 1 .. Len(a) + Len(b)
    BY <1>1
  <2>2. \A k \in 1 .. Len(b) : Len(a) + k \in 1 .. Len(a) + Len(b)
    BY <1>1
  <2> QED BY <1>1, <2>1, <2>2
<1> HIDE DEF c
<1>3. ASSUME NEW k \in DOMAIN c PROVE k \in DOMAIN a \/ \E m \in DOMAIN b : k = Len(a) + m
  <2>1. CASE k \in 1 .. Len(a)
    BY <1>1, <2>1
  <2>2. CASE k \notin 1 .. Len(a)
    <3>1. k - Len(a) \in 1 .. Len(b) /\ k = Len(a) + (k - Len(a))
      BY <1>1, <2>2
    <3> QED BY <1>1, <3>1
  <2> QED BY <2>1, <2>2
<1>4. ASSUME NEW k \in Mine(c, i)
      PROVE  k \in Mine(a, i) \/ \E m \in Mine(b, i) : k = Len(a) + m
  BY <1>2, <1>3 DEF Mine
<1>5. Mine(a, i) \subseteq Mine(c, i) /\ \A m \in Mine(b, i) : Len(a) + m \in Mine(c, i)
  BY <1>2 DEF Mine
<1> QED BY <1>1, <1>2, <1>4, <1>5 DEF c

\* A command that appends records about pools tells of the expirations only.
LEMMA PoolNoticesTellNothing ==
  ASSUME RecordInv, NEW now, NEW own \in Seq(Notice),
         \A k \in DOMAIN own : own[k].kind \notin PromiseKinds,
         NEW i \in PromiseId
  PROVE  Told(ExpiryEvents(now) \o own, i, ExpiredPromises(now)[i])
<1> DEFINE old == ExpiryEvents(now)
           log == old \o own
           next == ExpiredPromises(now)[i]
<1>1. old \in Seq(Notice)
  BY ExpiryIsNumbered DEF Numbered
<1>2. Mine(own, i) = {}
  BY DEF Mine
<1>3. Mine(log, i) = Mine(old, i)
      /\ \A k \in DOMAIN old : k \in DOMAIN log /\ log[k] = old[k]
  <2>1. \A k : k \in Mine(log, i) <=> k \in Mine(old, i) \/ \E m \in Mine(own, i) : k = Len(old) + m
    BY <1>1, MineConcat
  <2>2. \A k : k \in Mine(log, i) <=> k \in Mine(old, i)
    BY <1>2, <2>1
  <2> QED BY <1>1, <2>2, MineConcat
<1>4. Told(old, i, next)
  BY ExpiryIsTold
<1> HIDE DEF old, log, next
<1>5. Told(log, i, next)
  BY <1>3, <1>4 DEF Told
<1> QED BY <1>5 DEF old, log, next

\* A command that moves one promise, which does not expire, tells of it.
LEMMA PromiseNoticeTells ==
  ASSUME RecordInv, NEW now, NEW i \in PromiseId, i \notin Expiring(now), NEW next,
         NEW own \in PromiseNotice, own.subject = i,
         own.version = promises[i].version + 1, next.version = own.version,
         promises[i].version \in Nat, next.updated = own.seq,
         next.created = IF promises[i].version = 0 THEN own.seq ELSE promises[i].created,
         NEW j \in PromiseId
  PROVE  Told(ExpiryEvents(now) \o <<own>>, j,
              [ExpiredPromises(now) EXCEPT ![i] = next][j])
<1> DEFINE old == ExpiryEvents(now)
           log == old \o <<own>>
           expired == ExpiredPromises(now)
           table == [expired EXCEPT ![i] = next]
<1>1. old \in Seq(Notice) /\ <<own>> \in Seq(Notice)
  BY ExpiryIsNumbered DEF Numbered, Notice
<1>2. /\ \A k : k \in Mine(<<own>>, i) <=> k = 1
      /\ j # i => Mine(<<own>>, j) = {}
  <2>1. DOMAIN <<own>> = {1} /\ <<own>>[1] = own
    OBVIOUS
  <2>2. own.kind \in PromiseKinds
    BY DEF PromiseNotice
  <2> QED BY <2>1, <2>2 DEF Mine
<1>3. /\ \A m \in PromiseId : \A k :
            k \in Mine(log, m) <=> k \in Mine(old, m) \/ \E n \in Mine(<<own>>, m) : k = Len(old) + n
      /\ \A k \in DOMAIN old : k \in DOMAIN log /\ log[k] = old[k]
      /\ Len(old) + 1 \in DOMAIN log /\ log[Len(old) + 1] = own
  <2>1. DOMAIN <<own>> = {1} /\ <<own>>[1] = own
    OBVIOUS
  <2>2. ASSUME NEW x
        PROVE  \A k : k \in Mine(log, x) <=>
                        k \in Mine(old, x) \/ \E n \in Mine(<<own>>, x) : k = Len(old) + n
    <3> DEFINE single == <<own>>
    <3>1. single \in Seq(Notice)
      BY <1>1
    <3> HIDE DEF single, old
    <3>2. \A k : k \in Mine(old \o single, x) <=>
                   k \in Mine(old, x) \/ \E n \in Mine(single, x) : k = Len(old) + n
      BY <1>1, <3>1, MineConcat
    <3> QED BY <3>2 DEF single
  <2>3. /\ \A k \in DOMAIN old : k \in DOMAIN log /\ log[k] = old[k]
        /\ \A k \in DOMAIN <<own>> : Len(old) + k \in DOMAIN log /\ log[Len(old) + k] = <<own>>[k]
    BY <1>1, MineConcat
  <2> HIDE DEF old, log
  <2> QED BY <2>1, <2>2, <2>3
<1>4. Told(old, j, expired[j]) /\ Told(old, i, expired[i]) /\ expired[i] = promises[i]
  BY ExpiryIsTold DEF ExpiredPromises
<1>5. DOMAIN expired = PromiseId
  BY DEF ExpiredPromises
<1> HIDE DEF old, log, expired, table
<1>6. ASSUME j = i PROVE Told(log, j, table[j])
  <2>1. Mine(old, i) = {} /\ table[j] = next
    BY <1>4, <1>5, <1>6 DEF Told, table
  <2>2. Mine(log, i) = {Len(old) + 1}
    <3>1. \A k : k \in Mine(log, i) <=> \E n \in Mine(<<own>>, i) : k = Len(old) + n
      BY <1>3, <2>1
    <3>2. \A k : k \in Mine(log, i) <=> k = Len(old) + 1
      BY <1>2, <3>1
    <3> QED BY <3>2
  <2>3. next # promises[i]
    <3>1. promises[i].version + 1 # promises[i].version
      OBVIOUS
    <3> QED BY <3>1
  <2> QED BY <1>3, <1>6, <2>1, <2>2, <2>3 DEF Told
<1>7. ASSUME j # i PROVE Told(log, j, table[j])
  <2>1. \A k : k \in Mine(log, j) <=> k \in Mine(old, j)
    BY <1>2, <1>3, <1>7
  <2>2. Mine(log, j) = Mine(old, j) /\ table[j] = expired[j]
    <3>1. Mine(log, j) = Mine(old, j)
      BY <2>1 DEF Mine
    <3> QED BY <1>5, <1>7, <3>1 DEF table
  <2> QED BY <1>3, <1>4, <2>2 DEF Told
<1>8. Told(log, j, table[j])
  BY <1>6, <1>7
<1> QED BY <1>8 DEF old, log, expired, table

\* One record with the next number.
LEMMA NextIsNumbered ==
  ASSUME NEW x, NEW own \in Notice, own.kind \notin DeficitKinds, own.seq = x + 1
  PROVE  Numbered(<<own>>, x, x + 1)
<1>1. <<own>> \in Seq(Notice) /\ DOMAIN <<own>> = {1} /\ <<own>>[1] = own /\ Len(<<own>>) = 1
      /\ <<own>> # <<>>
  OBVIOUS
<1> QED BY <1>1 DEF Numbered

\* The records of a revision share its sequence number.
LEMMA NoticesAreNumbered ==
  ASSUME TypeInv, NEW now, NEW p \in Pool, NEW curve \in Curve, SequenceLeft(now)
  PROVE  /\ Numbered(Notices(p, curve, now), ExpiredSequence(now), NextSequence(now))
         /\ \A k \in DOMAIN Notices(p, curve, now) :
              Notices(p, curve, now)[k].kind \notin PromiseKinds
<1> DEFINE seq == NextSequence(now)
           ps == ExpiredPromises(now)
           before == Deficits(RestoredSlack(now)[p])
           after == Deficits(Rebuilt(p, curve, now))
           gone == Resolved(before, after)
           new == Announced(before, after)
           DeficitEvent(kind, d) ==
             [kind |-> kind, subject |-> p, seq |-> seq,
              deficit |-> d, affected |-> Affected(ps, p, d)]
           head == [kind |-> "CapacityRevised", subject |-> p, seq |-> seq]
           goneLog == [k \in DOMAIN gone |-> DeficitEvent("DeficitResolved", gone[k])]
           newLog == [k \in DOMAIN new |-> DeficitEvent(AnnouncedKind(new[k], before), new[k])]
           log == (<<head>> \o goneLog) \o newLog
<1>1. /\ RecordInv /\ seq \in 1 .. MaxSequence
      /\ RestoredSlack(now)[p] \in Line
      /\ ps \in PromiseTable
  BY TypeInvFacts, NextSequenceTyped, RestoredSlackTyped, ExpirationsTyped
  DEF RecordInv, PromiseTable, Line
<1>2. Rebuilt(p, curve, now) \in Line
  <2>1. curve \in [Time -> Int]
    BY CurvesBoundCapacity
  <2> QED BY <1>1, <2>1, UsageTyped DEF Rebuilt, Line
<1>3. gone \in Seq(Deficit) /\ new \in Seq(Deficit)
  <2>1. before \subseteq Deficit /\ after \subseteq Deficit
    BY <1>1, <1>2, DeficitSpan
  <2>2. gone \in Seq({d \in before : \A e \in after : ~Overlaps(d, e)})
    BY <1>1, TimeOrderListsAll DEF Resolved
  <2>3. new \in Seq(after \ before)
    BY <1>2, TimeOrderListsAll DEF Announced
  <2> HIDE DEF before, after, gone, new
  <2> QED BY <2>1, <2>2, <2>3, SeqMonotonic
<1>4. \A kind \in DeficitKinds, d \in Deficit : DeficitEvent(kind, d) \in DeficitNotice
  <2>1. \A d : Affected(ps, p, d) \in SUBSET PromiseId
    BY DEF Affected
  <2> HIDE DEF seq, ps
  <2> QED BY <1>1, <2>1 DEF DeficitNotice
<1>5. /\ goneLog \in Seq(Notice) /\ DOMAIN goneLog = DOMAIN gone
      /\ \A k \in DOMAIN goneLog : goneLog[k].kind \in DeficitKinds /\ goneLog[k].seq = seq
  <2> HIDE DEF gone
  <2>1. Len(gone) \in Nat /\ DOMAIN gone = 1 .. Len(gone) /\ \A k \in DOMAIN gone : gone[k] \in Deficit
    BY <1>3
  <2>2. "DeficitResolved" \in DeficitKinds
    BY DEF DeficitKinds
  <2> HIDE DEF DeficitEvent
  <2>3. goneLog \in [1 .. Len(gone) -> Notice]
    BY <1>4, <2>1, <2>2 DEF Notice
  <2>4. goneLog \in Seq(Notice)
    BY <2>1, <2>3, RowIsSequence
  <2> QED BY <2>2, <2>4 DEF DeficitEvent
<1>6. /\ newLog \in Seq(Notice) /\ DOMAIN newLog = DOMAIN new
      /\ \A k \in DOMAIN newLog : newLog[k].kind \in DeficitKinds /\ newLog[k].seq = seq
  <2> HIDE DEF new, before
  <2>1. Len(new) \in Nat /\ DOMAIN new = 1 .. Len(new) /\ \A k \in DOMAIN new : new[k] \in Deficit
    BY <1>3
  <2>2. \A d : AnnouncedKind(d, before) \in DeficitKinds
    BY DEF DeficitKinds, AnnouncedKind
  <2> HIDE DEF DeficitEvent
  <2>3. newLog \in [1 .. Len(new) -> Notice]
    BY <1>4, <2>1, <2>2 DEF Notice
  <2>4. newLog \in Seq(Notice)
    BY <2>1, <2>3, RowIsSequence
  <2> QED BY <2>2, <2>4 DEF DeficitEvent
<1>7. <<head>> \in Seq(Notice)
  <2>1. head \in PoolNotice
    BY <1>1 DEF PoolNotice
  <2> HIDE DEF head
  <2> QED BY <2>1 DEF Notice
<1>8. log = Notices(p, curve, now)
  BY DEF Notices, RevisionEvents
<1>9. /\ log \in Seq(Notice) /\ Len(log) \in Nat /\ Len(log) >= 1 /\ DOMAIN log = 1 .. Len(log)
      /\ log[1] = head
      /\ \A k \in 2 .. Len(log) : log[k].kind \in DeficitKinds /\ log[k].seq = seq
  <2> DEFINE first == <<head>>
             mid == first \o goneLog
  <2>1. first \in Seq(Notice) /\ Len(first) = 1 /\ first[1] = head
    BY <1>7
  <2> HIDE DEF first, goneLog, newLog, head, seq
  <2>2. /\ mid \in Seq(Notice) /\ Len(mid) \in Nat /\ Len(mid) >= 1
        /\ mid[1] = head
        /\ \A k \in 2 .. Len(mid) : mid[k].kind \in DeficitKinds /\ mid[k].seq = seq
    <3>1. /\ mid \in Seq(Notice) /\ Len(goneLog) \in Nat
          /\ DOMAIN goneLog = 1 .. Len(goneLog)
          /\ Len(mid) = 1 + Len(goneLog)
          /\ mid[1] = first[1]
      <4>1. /\ goneLog \in Seq(Notice) /\ Len(goneLog) \in Nat
            /\ DOMAIN goneLog = 1 .. Len(goneLog)
        BY <1>5
      <4>2. /\ mid \in Seq(Notice) /\ Len(mid) = Len(first) + Len(goneLog)
            /\ \A k \in 1 .. Len(first) + Len(goneLog) :
                 mid[k] = IF k <= Len(first) THEN first[k] ELSE goneLog[k - Len(first)]
        BY <2>1, <4>1, ConcatProperties
      <4> HIDE DEF mid
      <4> QED BY <2>1, <4>1, <4>2
    <3>2. ASSUME NEW k \in 2 .. Len(mid) PROVE k - 1 \in DOMAIN goneLog /\ mid[k] = goneLog[k - 1]
      BY <1>5, <2>1, <3>1
    <3> HIDE DEF mid
    <3> QED BY <1>5, <2>1, <3>1, <3>2
  <2>3. log = mid \o newLog
    BY DEF first
  <2> HIDE DEF mid, log
  <2>4. /\ log \in Seq(Notice) /\ Len(newLog) \in Nat /\ DOMAIN newLog = 1 .. Len(newLog)
        /\ Len(log) = Len(mid) + Len(newLog) /\ DOMAIN log = 1 .. Len(log)
        /\ \A k \in 1 .. Len(mid) : log[k] = mid[k]
        /\ \A k \in 1 .. Len(newLog) : log[Len(mid) + k] = newLog[k]
    BY <1>6, <2>2, <2>3
  <2>5. ASSUME NEW k \in 2 .. Len(log)
        PROVE  log[k].kind \in DeficitKinds /\ log[k].seq = seq
    <3>1. CASE k <= Len(mid)
      <4>1. k \in 2 .. Len(mid) /\ k \in 1 .. Len(mid)
        BY <2>2, <2>4, <3>1
      <4> QED BY <2>2, <2>4, <4>1
    <3>2. CASE k > Len(mid)
      <4> DEFINE n == k - Len(mid)
      <4>1. n \in 1 .. Len(newLog) /\ k = Len(mid) + n
        BY <2>2, <2>4, <3>2
      <4> HIDE DEF n
      <4>2. log[k] = newLog[n]
        BY <2>4, <4>1
      <4> QED BY <1>6, <2>4, <4>1, <4>2
    <3> QED BY <2>2, <2>4, <3>1, <3>2
  <2>6. 1 \in 1 .. Len(mid) /\ Len(log) >= 1 /\ Len(log) \in Nat
    BY <2>2, <2>4
  <2> QED BY <2>2, <2>4, <2>5, <2>6
<1>10. head.kind = "CapacityRevised" /\ head.seq = seq
  OBVIOUS
<1> HIDE DEF log, head, seq
<1>11. \A k \in DOMAIN log : log[k].seq = seq /\ log[k].kind \notin PromiseKinds
  <2>1. ASSUME NEW k \in DOMAIN log PROVE k = 1 \/ k \in 2 .. Len(log)
    BY <1>9
  <2> QED BY <1>9, <1>10, <2>1 DEF PromiseKinds, DeficitKinds
<1>12. seq = ExpiredSequence(now) + 1
  BY DEF seq, NextSequence
<1>13. ASSUME NEW k \in DOMAIN log
       PROVE  LET prior == IF k = 1 THEN ExpiredSequence(now) ELSE log[k - 1].seq IN
              log[k].seq = IF log[k].kind \in DeficitKinds THEN prior ELSE prior + 1
  <2>1. CASE k = 1
    BY <1>9, <1>10, <1>12, <2>1 DEF DeficitKinds
  <2>2. CASE k # 1
    <3>1. k - 1 \in DOMAIN log /\ k \in 2 .. Len(log)
      BY <1>9, <2>2
    <3> QED BY <1>9, <1>11, <2>2, <3>1
  <2> QED BY <2>1, <2>2
<1>14. Numbered(log, ExpiredSequence(now), seq)
  <2>1. log # <<>> /\ Len(log) \in DOMAIN log
    BY <1>9
  <2> QED BY <1>9, <1>10, <1>11, <1>13, <2>1 DEF Numbered, DeficitKinds
<1> QED BY <1>8, <1>11, <1>14 DEF seq

\* The extract of one command: numbered from the sequence it found to the one it
\* leaves, telling of every promise it changed.
Logged(log) ==
  /\ events' = events \o log
  /\ Numbered(log, sequence, sequence')
  /\ \A i \in PromiseId : Told(log, i, promises'[i])

\* The records of a command that appends own to its expirations.
LEMMA LoggedAfterExpirations ==
  ASSUME RecordInv, events \in Seq(Notice), NEW now, NEW own,
         events' = (events \o ExpiryEvents(now)) \o own,
         Numbered(own, ExpiredSequence(now), sequence'),
         \A i \in PromiseId : Told(ExpiryEvents(now) \o own, i, promises'[i])
  PROVE  Logged(ExpiryEvents(now) \o own)
<1>1. Numbered(ExpiryEvents(now), sequence, ExpiredSequence(now))
  BY ExpiryIsNumbered
<1>2. ExpiryEvents(now) \in Seq(Notice) /\ own \in Seq(Notice)
  BY <1>1 DEF Numbered
<1>3. events' = events \o (ExpiryEvents(now) \o own)
  BY <1>2, ConcatAssociative
<1> QED BY <1>1, <1>3, NumberedConcat DEF Logged

\* Whatever a command does, it appends such an extract.
LEMMA EffectIsLogged ==
  ASSUME TypeInv, events \in Seq(Notice), NEW now \in Instant, Effect(now)
  PROVE  \E log : Logged(log)
<1> DEFINE expiry == ExpiryEvents(now)
<1>1. RecordInv
  BY TypeInvFacts
<1>2. CASE ExpiryOnly(now)
  <2>1. Logged(expiry)
    BY <1>1, <1>2, ExpiryIsNumbered, ExpiryIsTold DEF Logged, ExpiryOnly
  <2> QED BY <2>1
<1>3. ASSUME NEW p \in Pool, NEW curve \in Curve, PoolCreated(p, curve, now)
      PROVE  \E log : Logged(log)
  <2> DEFINE notice == [kind |-> "ResourceCreated", subject |-> p, seq |-> NextSequence(now)]
             own == <<notice>>
  <2>1. NextSequence(now) \in 1 .. MaxSequence /\ NextSequence(now) = ExpiredSequence(now) + 1
    BY <1>1, <1>3, NextSequenceTyped DEF PoolCreated, NextSequence
  <2>2. notice \in Notice /\ notice.kind \notin PromiseKinds \union DeficitKinds
    BY <2>1 DEF Notice, PoolNotice, PromiseKinds, DeficitKinds
  <2>3. notice.seq = ExpiredSequence(now) + 1
    BY <2>1
  <2>4. /\ events' = (events \o ExpiryEvents(now)) \o own
        /\ promises' = ExpiredPromises(now) /\ sequence' = ExpiredSequence(now) + 1
    BY <1>3, <2>1 DEF PoolCreated
  <2> HIDE DEF notice
  <2>5. own \in Seq(Notice) /\ \A k \in DOMAIN own : own[k].kind \notin PromiseKinds
    BY <2>2
  <2>6. Numbered(own, ExpiredSequence(now), sequence')
    BY <2>2, <2>3, <2>4, NextIsNumbered
  <2> HIDE DEF own
  <2>7. \A i \in PromiseId : Told(ExpiryEvents(now) \o own, i, promises'[i])
    BY <1>1, <2>4, <2>5, PoolNoticesTellNothing
  <2> QED BY <1>1, <2>4, <2>6, <2>7, LoggedAfterExpirations
<1>4. ASSUME NEW p \in Pool, NEW curve \in Curve, NEW mode \in {"Strict", "Force"},
             CapacityRevised(p, curve, mode, now)
      PROVE  \E log : Logged(log)
  <2> DEFINE own == Notices(p, curve, now)
  <2>1. /\ events' = (events \o ExpiryEvents(now)) \o own /\ SequenceLeft(now)
        /\ promises' = ExpiredPromises(now) /\ sequence' = NextSequence(now)
    BY <1>4 DEF CapacityRevised
  <2>2. /\ Numbered(own, ExpiredSequence(now), sequence')
        /\ \A k \in DOMAIN own : own[k].kind \notin PromiseKinds
    BY <2>1, NoticesAreNumbered
  <2> HIDE DEF own
  <2>3. own \in Seq(Notice)
    BY <2>2 DEF Numbered
  <2>4. \A i \in PromiseId : Told(ExpiryEvents(now) \o own, i, promises'[i])
    BY <1>1, <2>1, <2>2, <2>3, PoolNoticesTellNothing
  <2> QED BY <1>1, <2>1, <2>2, <2>4, LoggedAfterExpirations
<1>5. ASSUME NEW i \in PromiseId, i \notin Expiring(now), SequenceLeft(now), NEW next,
             NEW kind \in PromiseKinds,
             promises[i].version \in Nat, next.version = promises[i].version + 1,
             next.version \in 1 .. MaxSequence, next.updated = NextSequence(now),
             next.created = IF promises[i].version = 0 THEN NextSequence(now)
                            ELSE promises[i].created,
             events' = (events \o ExpiryEvents(now)) \o
                         <<PromiseEvent(kind, i, next.version, NextSequence(now))>>,
             promises' = [ExpiredPromises(now) EXCEPT ![i] = next],
             sequence' = NextSequence(now)
      PROVE  \E log : Logged(log)
  <2> DEFINE notice == PromiseEvent(kind, i, next.version, NextSequence(now))
             own == <<notice>>
  <2>1. NextSequence(now) \in 1 .. MaxSequence /\ NextSequence(now) = ExpiredSequence(now) + 1
    BY <1>1, <1>5, NextSequenceTyped DEF NextSequence
  <2>2. notice \in PromiseNotice /\ notice.kind \notin DeficitKinds /\ notice.subject = i
        /\ notice.version = next.version /\ notice.seq = NextSequence(now)
    BY <1>5, <2>1 DEF PromiseNotice, PromiseKinds, DeficitKinds, PromiseEvent
  <2>3. events' = (events \o ExpiryEvents(now)) \o own
    BY <1>5
  <2> HIDE DEF notice
  <2>4. notice \in Notice
    BY <2>2 DEF Notice
  <2>5. Numbered(own, ExpiredSequence(now), sequence')
    BY <1>5, <2>1, <2>2, <2>4, NextIsNumbered
  <2>6. ASSUME NEW j \in PromiseId PROVE Told(ExpiryEvents(now) \o own, j, promises'[j])
    <3>1. Told(ExpiryEvents(now) \o <<notice>>, j,
               [ExpiredPromises(now) EXCEPT ![i] = next][j])
      BY <1>1, <1>5, <2>2, PromiseNoticeTells
    <3> QED BY <1>5, <3>1
  <2> HIDE DEF own
  <2> QED BY <1>1, <2>3, <2>5, <2>6, LoggedAfterExpirations
<1>6. ASSUME NEW i \in PromiseId, NEW b \in Bundle, NEW deadline \in Instant,
             PromiseHeld(i, b, deadline, now)
      PROVE  \E log : Logged(log)
  <2> DEFINE next == [state |-> "Held", deadline |-> deadline, bundle |-> b, version |-> 1,
                      created |-> NextSequence(now), updated |-> NextSequence(now)]
  <2>1. promises[i].state = "Absent"
    BY <1>6 DEF PromiseHeld, HoldAllowed
  <2>2. promises[i] = Absent /\ promises[i].version = 0 /\ i \notin Expiring(now)
    <3>1. promises[i] = Absent
      BY <1>1, <2>1 DEF RecordInv, PromisesTyped, PromiseRecord
    <3> QED BY <2>1, <3>1 DEF Absent, Expiring, Due
  <2>3. 1 \in 1 .. MaxSequence
    BY <1>1, <1>6, NextSequenceTyped, CountsAreNatural DEF PromiseHeld
  <2>4. /\ next.version = 1 /\ next.updated = NextSequence(now)
        /\ next.created = NextSequence(now)
    OBVIOUS
  <2>5. /\ events' = (events \o ExpiryEvents(now)) \o
                       <<PromiseEvent("HoldCreated", i, next.version, NextSequence(now))>>
        /\ promises' = [ExpiredPromises(now) EXCEPT ![i] = next]
        /\ sequence' = NextSequence(now) /\ SequenceLeft(now)
    BY <1>6 DEF PromiseHeld
  <2>6. "HoldCreated" \in PromiseKinds
    BY DEF PromiseKinds
  <2> HIDE DEF next
  <2>7. /\ promises[i].version \in Nat /\ next.version = promises[i].version + 1
        /\ next.version \in 1 .. MaxSequence
        /\ next.created = IF promises[i].version = 0 THEN NextSequence(now)
                          ELSE promises[i].created
    BY <2>2, <2>3, <2>4
  <2> QED BY <1>5, <2>2, <2>4, <2>5, <2>6, <2>7
<1>7. ASSUME NEW i \in PromiseId, NEW state \in {"Held", "Committed", "Released"},
             NEW deadline \in Instant \union {0}, NEW b \in Bundle, NEW sl,
             PromiseMoved(i, NextVersion(ExpiredPromises(now)[i], state, deadline, b,
                                         NextSequence(now)), sl, now)
      PROVE  \E log : Logged(log)
  <2> DEFINE next == NextVersion(promises[i], state, deadline, b, NextSequence(now))
  <2>1. /\ promises[i] \in PromiseRecord /\ ExpiredPromises(now)[i] = promises[i]
        /\ promises[i].version < NextSequence(now) /\ SequenceLeft(now)
    BY <1>1, <1>7, ActiveHasRecord DEF PromiseMoved
  <2>2. i \notin Expiring(now)
    BY <1>1, <2>1, ExpiryIsTold
  <2>3. NextSequence(now) \in 1 .. MaxSequence
    BY <1>1, <2>1, NextSequenceTyped
  <2>4. /\ next \in PromiseRecord /\ next.version = promises[i].version + 1
        /\ next.updated = NextSequence(now) /\ next.created = promises[i].created
    <3> DEFINE seq == NextSequence(now)
    <3>1. state \in {"Held", "Committed", "Released", "Expired"} /\ seq \in 1 .. MaxSequence
      BY <2>3
    <3> HIDE DEF seq
    <3>2. \A r \in PromiseRecord : r.version < seq =>
            /\ NextVersion(r, state, deadline, b, seq) \in PromiseRecord
            /\ NextVersion(r, state, deadline, b, seq).version = r.version + 1
            /\ NextVersion(r, state, deadline, b, seq).updated = seq
            /\ NextVersion(r, state, deadline, b, seq).created = r.created
      BY <3>1, NextVersionTyped
    <3>3. promises[i] \in PromiseRecord /\ promises[i].version < seq
      BY <2>1 DEF seq
    <3> QED BY <3>2, <3>3 DEF seq
  <2>5. /\ promises[i].version \in Nat /\ promises[i].version # 0
        /\ next.version \in 1 .. MaxSequence
    BY <2>1, <2>4, CountsAreNatural DEF PromiseRecord
  <2>6. /\ events' = (events \o ExpiryEvents(now)) \o
                       <<PromiseEvent(reply'.tag, i, next.version, NextSequence(now))>>
        /\ promises' = [ExpiredPromises(now) EXCEPT ![i] = next]
        /\ sequence' = NextSequence(now)
        /\ reply'.tag \in PromiseKinds
    BY <1>7, <2>1 DEF PromiseMoved, PromiseKinds
  <2> HIDE DEF next
  <2> QED BY <1>5, <2>1, <2>2, <2>4, <2>5, <2>6
<1>8. ASSUME NEW i \in PromiseId, PromiseCommitted(i, now) PROVE \E log : Logged(log)
  <2>1. ExpiredPromises(now)[i].bundle \in Bundle
    BY <1>1, <1>8, ActiveHasRecord DEF PromiseCommitted, PromiseMoved
  <2> QED BY <1>7, <1>8, <2>1 DEF PromiseCommitted, Advance
<1>9. ASSUME NEW i \in PromiseId, PromiseReleased(i, now) PROVE \E log : Logged(log)
  <2>1. ExpiredPromises(now)[i].bundle \in Bundle
    BY <1>1, <1>9, ActiveHasRecord DEF PromiseReleased, PromiseMoved
  <2> QED BY <1>7, <1>9, <2>1 DEF PromiseReleased, Advance
<1>10. ASSUME NEW i \in PromiseId, NEW b \in Bundle, NEW target \in ReplacementState,
              PromiseReplaced(i, b, target, now)
       PROVE  \E log : Logged(log)
  <2>1. target.state \in {"Held", "Committed"} /\ target.deadline \in Instant \union {0}
    BY DEF ReplacementState
  <2> DEFINE state == target.state
             deadline == target.deadline
  <2>2. PICK sl : PromiseMoved(i, NextVersion(ExpiredPromises(now)[i], state, deadline, b,
                                              NextSequence(now)), sl, now)
    BY <1>10 DEF PromiseReplaced
  <2>3. state \in {"Held", "Committed", "Released"} /\ deadline \in Instant \union {0}
    BY <2>1
  <2> HIDE DEF state, deadline
  <2> QED BY <1>7, <2>2, <2>3
<1> QED BY <1>2, <1>3, <1>4, <1>6, <1>8, <1>9, <1>10 DEF Effect

-----------------------------------------------------------------------------
(* The audit log is the history of the promise table.                       *)

\* The records of promise i are its versions, in their order, and date it.
TrailIsHistory(i) ==
  /\ {events[k].version : k \in Mine(events, i)} = 1 .. promises[i].version
  /\ \A k \in Mine(events, i) :
       /\ \A j \in Mine(events, i) : j < k => events[j].version < events[k].version
       /\ events[k].version = 1 => promises[i].created = events[k].seq
       /\ events[k].version = promises[i].version => promises[i].updated = events[k].seq

AuditInv ==
  /\ TypeInv
  /\ Numbered(events, 0, sequence)
  /\ \A i \in PromiseId : TrailIsHistory(i)

\* The invariant says what AuditTrailMatchesState says.
LEMMA AuditInvMatches ==
  ASSUME AuditInv
  PROVE  AuditTrailMatchesState
<1>1. \A i \in PromiseId : TrailOf(i) = Mine(events, i)
  BY DEF TrailOf, Mine
<1>2. \A i \in PromiseId : TrailIsHistory(i)
  BY DEF AuditInv
<1>3. Numbered(events, 0, sequence)
  BY DEF AuditInv
<1> QED BY <1>1, <1>2, <1>3 DEF AuditTrailMatchesState, TrailIsHistory, Numbered

\* A new version of a promise, or none, goes on with its history.
LEMMA HistoryGoesOn ==
  ASSUME AuditInv, NEW log, Logged(log), NEW i \in PromiseId
  PROVE  TrailIsHistory(i)'
<1> DEFINE n == Len(events)
           version == promises[i].version
<1>1. /\ events \in Seq(Notice) /\ log \in Seq(Notice) /\ events' = events \o log
      /\ Told(log, i, promises'[i]) /\ TrailIsHistory(i)
  BY DEF AuditInv, Logged, Numbered
<1>2. /\ \A k : k \in Mine(events', i) <=>
                  k \in Mine(events, i) \/ \E m \in Mine(log, i) : k = n + m
      /\ \A k \in DOMAIN events : events'[k] = events[k]
      /\ \A k \in DOMAIN log : events'[n + k] = log[k]
      /\ n \in Nat /\ DOMAIN events = 1 .. n
      /\ DOMAIN log \subseteq Nat \ {0}
  <2>1. /\ \A k : k \in Mine(events', i) <=>
                    k \in Mine(events, i) \/ \E m \in Mine(log, i) : k = n + m
        /\ \A k \in DOMAIN events : events'[k] = events[k]
        /\ \A k \in DOMAIN log : events'[n + k] = log[k]
    BY <1>1, MineConcat
  <2>2. n \in Nat /\ DOMAIN events = 1 .. n /\ DOMAIN log = 1 .. Len(log) /\ Len(log) \in Nat
    BY <1>1
  <2> QED BY <2>1, <2>2
<1>3. Mine(events, i) \subseteq 1 .. n
  BY <1>2 DEF Mine
<1>4. version \in Nat
  <2>1. promises[i] \in PromiseRecord \/ promises[i] = Absent
    BY DEF AuditInv, TypeInv, TypeOK
  <2> QED BY <2>1, CountsAreNatural DEF PromiseRecord, Absent
<1>5. /\ {events[k].version : k \in Mine(events, i)} = 1 .. version
      /\ \A k \in Mine(events, i) :
           /\ events[k].version \in 1 .. version
           /\ \A j \in Mine(events, i) : j < k => events[j].version < events[k].version
           /\ events[k].version = 1 => promises[i].created = events[k].seq
           /\ events[k].version = version => promises[i].updated = events[k].seq
  BY <1>1 DEF TrailIsHistory
<1> HIDE DEF n
<1>6. CASE promises'[i] = promises[i]
  <2>1. Mine(log, i) = {}
    BY <1>1, <1>6 DEF Told
  <2>2. Mine(events', i) = Mine(events, i)
    <3>1. \A k : k \in Mine(events', i) <=> k \in Mine(events, i)
      BY <1>2, <2>1
    <3> QED BY <3>1 DEF Mine
  <2>3. \A k \in Mine(events, i) : events'[k] = events[k]
    BY <1>2, <1>3
  <2> QED BY <1>5, <1>6, <2>2, <2>3 DEF TrailIsHistory
<1>7. CASE promises'[i] # promises[i]
  <2>1. PICK m \in DOMAIN log :
          /\ Mine(log, i) = {m}
          /\ log[m].version = version + 1
          /\ promises'[i].version = log[m].version
          /\ promises'[i].updated = log[m].seq
          /\ promises'[i].created = IF version = 0 THEN log[m].seq ELSE promises[i].created
    BY <1>1, <1>7 DEF Told
  <2> DEFINE last == n + m
  <2>2. /\ \A k : k \in Mine(events', i) <=> k \in Mine(events, i) \/ k = last
        /\ last \in Nat /\ last > n
        /\ events'[last] = log[m]
        /\ \A k \in Mine(events, i) : events'[k] = events[k] /\ k < last /\ k \in Nat
    <3>1. \A k : k \in Mine(events', i) <=> k \in Mine(events, i) \/ k = last
      BY <1>2, <2>1
    <3>2. last \in Nat /\ last > n /\ events'[last] = log[m]
      BY <1>2
    <3>3. \A k \in Mine(events, i) : events'[k] = events[k] /\ k < last /\ k \in Nat
      BY <1>2, <1>3, <3>2
    <3> QED BY <3>1, <3>2, <3>3
  <2> HIDE DEF last
  <2>3. {events'[k].version : k \in Mine(events', i)} = 1 .. promises'[i].version
    <3>1. \A k \in Mine(events', i) : events'[k].version \in 1 .. version + 1
      BY <1>4, <1>5, <2>1, <2>2
    <3>2. ASSUME NEW v \in 1 .. version + 1
          PROVE  \E k \in Mine(events', i) : events'[k].version = v
      <4>1. CASE v = version + 1
        BY <2>1, <2>2, <4>1
      <4>2. CASE v \in 1 .. version
        <5>1. PICK k \in Mine(events, i) : events[k].version = v
          BY <1>5, <4>2
        <5> QED BY <2>2, <5>1
      <4> QED BY <1>4, <4>1, <4>2
    <3>3. promises'[i].version = version + 1
      BY <2>1
    <3> QED BY <3>1, <3>2, <3>3
  <2>4. ASSUME NEW k \in Mine(events', i)
        PROVE  /\ \A j \in Mine(events', i) : j < k => events'[j].version < events'[k].version
               /\ events'[k].version = 1 => promises'[i].created = events'[k].seq
               /\ events'[k].version = promises'[i].version =>
                    promises'[i].updated = events'[k].seq
    <3>1. CASE k = last
      <4>1. \A j \in Mine(events', i) : j < k => j \in Mine(events, i)
        BY <2>2, <3>1
      <4>2. \A j \in Mine(events', i) : j < k => events'[j].version < events'[k].version
        BY <1>4, <1>5, <2>1, <2>2, <3>1, <4>1
      <4> QED BY <1>4, <2>1, <2>2, <3>1, <4>2
    <3>2. CASE k \in Mine(events, i)
      <4>1. \A j \in Mine(events', i) : j < k => j \in Mine(events, i)
        BY <2>2, <3>2
      <4>2. \A j \in Mine(events', i) : j < k => events'[j].version < events'[k].version
        BY <1>5, <2>2, <3>2, <4>1
      <4>3. events'[k].version \in 1 .. version /\ events'[k] = events[k]
        BY <1>5, <2>2, <3>2
      <4>4. events'[k].version = 1 => promises'[i].created = events'[k].seq
        BY <1>4, <1>5, <2>1, <3>2, <4>3
      <4>5. events'[k].version # promises'[i].version
        BY <1>4, <2>1, <4>3
      <4> QED BY <4>2, <4>4, <4>5
    <3> QED BY <2>2, <3>1, <3>2
  <2> QED BY <2>3, <2>4 DEF TrailIsHistory
<1> QED BY <1>6, <1>7

\* Every command keeps the audit log a history.
LEMMA EffectAudited ==
  ASSUME AuditInv, NEW now \in Instant, Effect(now)
  PROVE  AuditInv'
<1>1. PICK log : Logged(log)
  BY EffectIsLogged DEF AuditInv, Numbered
<1>2. Numbered(events, 0, sequence)'
  BY <1>1, NumberedConcat DEF AuditInv, Logged
<1>3. TypeInv'
  BY EffectTyped DEF AuditInv
<1>4. \A i \in PromiseId : TrailIsHistory(i)'
  BY <1>1, HistoryGoesOn
<1> QED BY <1>2, <1>3, <1>4 DEF AuditInv

\* The empty log is the history of the empty table.
LEMMA InitAudited ==
  ASSUME Init
  PROVE  AuditInv
<1>1. Numbered(events, 0, sequence)
  BY DEF Init, Numbered
<1>2. ASSUME NEW i \in PromiseId PROVE TrailIsHistory(i)
  <2>1. Mine(events, i) = {} /\ promises[i].version = 0
    BY DEF Init, Mine, Absent
  <2> QED BY <2>1 DEF TrailIsHistory
<1> QED BY <1>1, <1>2, InitTyped DEF AuditInv

\* The audit log (Engine::audit_log) is the history of the promise table, in every
\* reachable state: the events of a promise are its versions 1, 2, ..., they date its
\* creation and its last change, and sequence numbers run without a gap, shared
\* only by the events of one capacity revision.
THEOREM AuditTrailIsHistory == Spec => []AuditTrailMatchesState
<1>1. AuditInv /\ [Next]_vars => AuditInv'
  <2>1. AuditInv /\ UNCHANGED vars => AuditInv'
    BY StutterTyped DEF vars, AuditInv, Numbered, TrailIsHistory, Mine
  <2> QED BY <2>1, NextHasEffect, EffectAudited
<1>2. Spec => []AuditInv
  BY <1>1, InitAudited, PTL DEF Spec
<1> QED BY <1>2, AuditInvMatches, PTL

-----------------------------------------------------------------------------
(* The deficit records of a revision.                                       *)

\* Taking away what is gone and what overlaps something new, and adding what is
\* new, leads from the deficits of one timeline to those of another.
LEMMA ChangesRebuild ==
  ASSUME NEW old \in Line, NEW line \in Line
  PROVE  LET before == Deficits(old)
             after == Deficits(line)
             gone == {d \in before : \A e \in after : ~Overlaps(d, e)}
             told == after \ before
         IN  after = {d \in before \ gone : \A e \in told : ~Overlaps(d, e)} \union told
<1> DEFINE before == Deficits(old)
           after == Deficits(line)
           gone == {d \in before : \A e \in after : ~Overlaps(d, e)}
           told == after \ before
           kept == {d \in before \ gone : \A e \in told : ~Overlaps(d, e)}
<1>1. ASSUME NEW d \in after, d \in before PROVE d \in kept
  <2>1. Overlaps(d, d)
    <3>1. d.from < d.to
      BY DeficitSpan DEF IsDeficit
    <3> QED BY <3>1 DEF Overlaps
  <2>2. d \notin gone
    BY <2>1
  <2>3. ASSUME NEW e \in told, Overlaps(d, e) PROVE FALSE
    <3>1. d = e
      BY <1>1, <2>3, DeficitsAreApart
    <3> QED BY <1>1, <3>1
  <2> QED BY <1>1, <2>2, <2>3
<1>2. ASSUME NEW d \in kept PROVE d \in after
  <2>1. PICK e \in after : Overlaps(d, e)
    OBVIOUS
  <2>2. e \in before
    BY <2>1
  <2>3. d = e
    BY <2>1, <2>2, DeficitsAreApart
  <2> QED BY <2>3
<1> QED BY <1>1, <1>2

\* The deficits of pool q that the records of these kinds name.
DeficitsTold(log, q, kinds) ==
  {log[k].deficit : k \in {j \in DOMAIN log : log[j].kind \in kinds /\ log[j].subject = q}}

\* The deficit records of a log are of pool p, and name the promises their deficits affect.
NamesAffected(log, ps, p, before, after) ==
  \A k \in DOMAIN log : log[k].kind \in DeficitKinds =>
    /\ log[k].subject = p
    /\ log[k].affected = Affected(ps, p, log[k].deficit)
    /\ log[k].deficit \in IF log[k].kind = "DeficitResolved" THEN before ELSE after

\* The records of a revision list the deficits that are gone, then the new ones, each
\* with the promises it affects, and nothing about other pools.
LEMMA NoticesList ==
  ASSUME TypeInv, NEW now, NEW p \in Pool, NEW curve \in Curve, SequenceLeft(now),
         NEW q \in Pool
  PROVE  LET log == Notices(p, curve, now)
             before == Deficits(RestoredSlack(now)[p])
             after == Deficits(Rebuilt(p, curve, now))
         IN  /\ DeficitsTold(log, q, {"DeficitResolved"}) =
                  IF q = p THEN {d \in before : \A e \in after : ~Overlaps(d, e)} ELSE {}
             /\ DeficitsTold(log, q, {"DeficitCreated", "DeficitChanged"}) =
                  IF q = p THEN after \ before ELSE {}
             /\ NamesAffected(log, ExpiredPromises(now), p, before, after)
<1> DEFINE seq == NextSequence(now)
           ps == ExpiredPromises(now)
           before == Deficits(RestoredSlack(now)[p])
           after == Deficits(Rebuilt(p, curve, now))
           gone == Resolved(before, after)
           new == Announced(before, after)
           DeficitEvent(kind, d) ==
             [kind |-> kind, subject |-> p, seq |-> seq,
              deficit |-> d, affected |-> Affected(ps, p, d)]
           head == [kind |-> "CapacityRevised", subject |-> p, seq |-> seq]
           goneLog == [k \in DOMAIN gone |-> DeficitEvent("DeficitResolved", gone[k])]
           newLog == [k \in DOMAIN new |-> DeficitEvent(AnnouncedKind(new[k], before), new[k])]
           log == (<<head>> \o goneLog) \o newLog
           resolved == {"DeficitResolved"}
           announced == {"DeficitCreated", "DeficitChanged"}
           About(kinds) == {log[k].deficit : k \in {j \in DOMAIN log :
                              log[j].kind \in kinds /\ log[j].subject = q}}
<1>1. RestoredSlack(now)[p] \in Line /\ Rebuilt(p, curve, now) \in Line
  <2>1. curve \in [Time -> Int]
    BY CurvesBoundCapacity
  <2>2. RestoredSlack(now)[p] \in Line /\ ps \in PromiseTable
    BY TypeInvFacts, RestoredSlackTyped, ExpirationsTyped DEF RecordInv, PromiseTable, Line
  <2> QED BY <2>1, <2>2, UsageTyped DEF Rebuilt, Line
<1>2. /\ gone \in Seq(Deficits(RestoredSlack(now)[p])) /\ new \in Seq(after)
      /\ {gone[k] : k \in DOMAIN gone} = {d \in before : \A e \in after : ~Overlaps(d, e)}
      /\ {new[k] : k \in DOMAIN new} = after \ before
  <2>1. /\ gone \in Seq({d \in before : \A e \in after : ~Overlaps(d, e)})
        /\ {gone[k] : k \in DOMAIN gone} = {d \in before : \A e \in after : ~Overlaps(d, e)}
    BY <1>1, TimeOrderListsAll DEF Resolved
  <2>2. /\ new \in Seq(after \ before)
        /\ {new[k] : k \in DOMAIN new} = after \ before
    BY <1>1, TimeOrderListsAll DEF Announced
  <2> HIDE DEF gone, new
  <2> QED BY <2>1, <2>2, SeqMonotonic
<1>3. log = Notices(p, curve, now)
  BY DEF Notices, RevisionEvents
<1> HIDE DEF gone, new, before, after
<1>4. /\ \A k \in DOMAIN goneLog : /\ goneLog[k].kind = "DeficitResolved"
                                   /\ goneLog[k].subject = p /\ goneLog[k].deficit = gone[k]
                                   /\ goneLog[k].affected = Affected(ps, p, gone[k])
      /\ DOMAIN goneLog = DOMAIN gone
  OBVIOUS
<1>5. /\ \A k \in DOMAIN newLog : /\ newLog[k].kind \in announced
                                  /\ newLog[k].subject = p /\ newLog[k].deficit = new[k]
                                  /\ newLog[k].affected = Affected(ps, p, new[k])
      /\ DOMAIN newLog = DOMAIN new
  BY DEF AnnouncedKind
<1>6. head.kind = "CapacityRevised" /\ head.subject = p
  OBVIOUS
<1>7. \E S : <<head>> \in Seq(S) /\ goneLog \in Seq(S) /\ newLog \in Seq(S)
  <2> DEFINE S == {head} \union {goneLog[k] : k \in DOMAIN gone}
                         \union {newLog[k] : k \in DOMAIN new}
  <2>1. /\ Len(gone) \in Nat /\ DOMAIN gone = 1 .. Len(gone)
        /\ Len(new) \in Nat /\ DOMAIN new = 1 .. Len(new)
    BY <1>2
  <2>2. goneLog \in [1 .. Len(gone) -> S] /\ newLog \in [1 .. Len(new) -> S]
    <3> HIDE DEF DeficitEvent
    <3> QED BY <2>1
  <2>3. head \in S
    OBVIOUS
  <2> HIDE DEF S, goneLog, newLog, head
  <2>4. goneLog \in Seq(S)
    BY <2>1, <2>2, RowIsSequence
  <2>5. newLog \in Seq(S)
    BY <2>1, <2>2, RowIsSequence
  <2>6. <<head>> \in Seq(S)
    BY <2>3
  <2> QED BY <2>4, <2>5, <2>6
<1>8. PICK S : <<head>> \in Seq(S) /\ goneLog \in Seq(S) /\ newLog \in Seq(S)
  BY <1>7
<1> HIDE DEF head, goneLog, newLog
<1>9. \A k : k \in DOMAIN log <=>
        \/ k = 1
        \/ \E m \in DOMAIN gone : k = 1 + m
        \/ \E m \in DOMAIN new : k = 1 + Len(goneLog) + m
  <2>1. /\ Len(goneLog) \in Nat /\ DOMAIN gone = 1 .. Len(goneLog)
        /\ Len(newLog) \in Nat /\ DOMAIN new = 1 .. Len(newLog)
        /\ DOMAIN log = 1 .. 1 + Len(goneLog) + Len(newLog)
    BY <1>4, <1>5, <1>8
  <2> HIDE DEF log
  <2>2. ASSUME NEW k \in 1 .. 1 + Len(goneLog) + Len(newLog)
        PROVE  \/ k = 1
               \/ \E m \in 1 .. Len(goneLog) : k = 1 + m
               \/ \E m \in 1 .. Len(newLog) : k = 1 + Len(goneLog) + m
    <3>1. CASE k > 1 /\ k <= 1 + Len(goneLog)
      <4>1. k - 1 \in 1 .. Len(goneLog) /\ k = 1 + (k - 1)
        BY <2>1, <3>1
      <4> QED BY <4>1
    <3>2. CASE k > 1 + Len(goneLog)
      <4>1. k - (1 + Len(goneLog)) \in 1 .. Len(newLog)
            /\ k = 1 + Len(goneLog) + (k - (1 + Len(goneLog)))
        BY <2>1, <3>2
      <4> QED BY <4>1
    <3> QED BY <2>1, <3>1, <3>2
  <2>3. \A m \in 1 .. Len(goneLog) : 1 + m \in 1 .. 1 + Len(goneLog) + Len(newLog)
    BY <2>1
  <2>4. \A m \in 1 .. Len(newLog) : 1 + Len(goneLog) + m \in 1 .. 1 + Len(goneLog) + Len(newLog)
    BY <2>1
  <2>5. 1 \in 1 .. 1 + Len(goneLog) + Len(newLog)
    BY <2>1
  <2> QED BY <2>1, <2>2, <2>3, <2>4, <2>5
<1>10. /\ log[1] = head
       /\ \A m \in DOMAIN gone : log[1 + m] = goneLog[m]
       /\ \A m \in DOMAIN new : log[1 + Len(goneLog) + m] = newLog[m]
  <2> DEFINE first == <<head>>
             mid == first \o goneLog
  <2>1. first \in Seq(S) /\ Len(first) = 1 /\ first[1] = head
    BY <1>8
  <2>2. Len(goneLog) \in Nat /\ Len(newLog) \in Nat
        /\ DOMAIN gone = 1 .. Len(goneLog) /\ DOMAIN new = 1 .. Len(newLog)
    BY <1>4, <1>5, <1>8
  <2> HIDE DEF first
  <2>3. /\ mid \in Seq(S) /\ Len(mid) = 1 + Len(goneLog)
        /\ mid[1] = head /\ \A m \in DOMAIN gone : mid[1 + m] = goneLog[m]
    <3>1. /\ mid \in Seq(S) /\ Len(mid) = Len(first) + Len(goneLog)
          /\ \A i \in 1 .. Len(first) + Len(goneLog) :
               mid[i] = IF i <= Len(first) THEN first[i] ELSE goneLog[i - Len(first)]
      BY <1>8, <2>1, ConcatProperties
    <3> HIDE DEF mid
    <3> QED BY <2>1, <2>2, <3>1
  <2>4. log = mid \o newLog
    BY DEF first
  <2> HIDE DEF mid, log
  <2>5. \A i \in 1 .. Len(mid) + Len(newLog) :
          log[i] = IF i <= Len(mid) THEN mid[i] ELSE newLog[i - Len(mid)]
    BY <1>8, <2>3, <2>4, ConcatProperties
  <2>6. log[1] = head /\ \A m \in DOMAIN gone : log[1 + m] = goneLog[m]
    BY <2>2, <2>3, <2>5
  <2>7. ASSUME NEW m \in DOMAIN new PROVE log[1 + Len(goneLog) + m] = newLog[m]
    <3> DEFINE k == 1 + Len(goneLog) + m
    <3>1. k \in 1 .. Len(mid) + Len(newLog) /\ ~(k <= Len(mid)) /\ k - Len(mid) = m
      BY <2>2, <2>3
    <3> HIDE DEF k
    <3>2. log[k] = newLog[m]
      BY <2>5, <3>1
    <3> QED BY <3>2 DEF k
  <2> QED BY <2>6, <2>7
<1> HIDE DEF log
<1>11. About(resolved) = IF q = p THEN {gone[k] : k \in DOMAIN gone} ELSE {}
  <2>1. ASSUME NEW k \in DOMAIN log, log[k].kind \in resolved, log[k].subject = q
        PROVE  q = p /\ \E m \in DOMAIN gone : log[k].deficit = gone[m]
    BY <1>4, <1>5, <1>6, <1>9, <1>10, <2>1
  <2>2. ASSUME NEW m \in DOMAIN gone
        PROVE  1 + m \in DOMAIN log /\ log[1 + m].kind \in resolved
               /\ log[1 + m].subject = p /\ log[1 + m].deficit = gone[m]
    BY <1>4, <1>9, <1>10
  <2> QED BY <2>1, <2>2
<1>12. About(announced) = IF q = p THEN {new[k] : k \in DOMAIN new} ELSE {}
  <2>1. ASSUME NEW k \in DOMAIN log, log[k].kind \in announced, log[k].subject = q
        PROVE  q = p /\ \E m \in DOMAIN new : log[k].deficit = new[m]
    BY <1>4, <1>5, <1>6, <1>9, <1>10, <2>1
  <2>2. ASSUME NEW m \in DOMAIN new
        PROVE  /\ 1 + Len(goneLog) + m \in DOMAIN log
               /\ log[1 + Len(goneLog) + m].kind \in announced
               /\ log[1 + Len(goneLog) + m].subject = p
               /\ log[1 + Len(goneLog) + m].deficit = new[m]
    BY <1>5, <1>9, <1>10
  <2> QED BY <2>1, <2>2
<1>13. /\ About(resolved) =
            IF q = p THEN {d \in before : \A e \in after : ~Overlaps(d, e)} ELSE {}
       /\ About(announced) = IF q = p THEN after \ before ELSE {}
  BY <1>2, <1>11, <1>12
<1>14. ASSUME NEW k \in DOMAIN log, log[k].kind \in DeficitKinds
       PROVE  /\ log[k].subject = p
              /\ log[k].affected = Affected(ps, p, log[k].deficit)
              /\ log[k].deficit \in IF log[k].kind = "DeficitResolved" THEN before ELSE after
  <2> HIDE DEF ps
  <2>1. k # 1
    BY <1>6, <1>10, <1>14 DEF DeficitKinds
  <2>2. CASE \E m \in DOMAIN gone : k = 1 + m
    <3>1. PICK m \in DOMAIN gone : log[k] = goneLog[m]
      BY <1>10, <2>2
    <3>2. gone[m] \in before
      BY <1>2
    <3> QED BY <1>4, <3>1, <3>2
  <2>3. CASE \E m \in DOMAIN new : k = 1 + Len(goneLog) + m
    <3>1. PICK m \in DOMAIN new : log[k] = newLog[m]
      BY <1>10, <2>3
    <3>2. new[m] \in after
      BY <1>2
    <3> QED BY <1>5, <3>1, <3>2
  <2> QED BY <1>9, <2>1, <2>2, <2>3
<1>15. NamesAffected(log, ps, p, before, after)
  BY <1>14 DEF NamesAffected
<1> QED BY <1>3, <1>13, <1>15 DEF before, after, DeficitsTold

\* A step that answers CapacityRevised is a revision, made at the time it answers.
LEMMA RevisionAnswers ==
  ASSUME NEW now \in Instant, Effect(now), reply'.tag = "CapacityRevised"
  PROVE  /\ reply'.at = now
         /\ \E p \in Pool, curve \in Curve, mode \in {"Strict", "Force"} :
              CapacityRevised(p, curve, mode, now)
<1>1. ~ExpiryOnly(now)
  BY DEF ExpiryOnly, SuccessTags
<1>2. \A p \in Pool, curve \in Curve : ~PoolCreated(p, curve, now)
  BY DEF PoolCreated
<1>3. \A i \in PromiseId, b \in Bundle, deadline \in Instant : ~PromiseHeld(i, b, deadline, now)
  BY DEF PromiseHeld, HoldTags
<1>4. \A i, next, sl : ~PromiseMoved(i, next, sl, now)
  BY DEF PromiseMoved
<1>5. PICK p \in Pool, curve \in Curve, mode \in {"Strict", "Force"} :
        CapacityRevised(p, curve, mode, now)
  <2>1. \A i \in PromiseId : ~PromiseCommitted(i, now) /\ ~PromiseReleased(i, now)
    BY <1>4 DEF PromiseCommitted, PromiseReleased
  <2>2. \A i \in PromiseId, b \in Bundle, target \in ReplacementState :
          ~PromiseReplaced(i, b, target, now)
    BY <1>4 DEF PromiseReplaced
  <2> QED BY <1>1, <1>2, <1>3, <2>1, <2>2 DEF Effect
<1> QED BY <1>5 DEF CapacityRevised

\* What a log grew by is the extract that was appended to it.
LEMMA NewPart ==
  ASSUME NEW S, NEW a \in Seq(S), NEW b \in Seq(S)
  PROVE  SubSeq(a \o b, Len(a) + 1, Len(a \o b)) = b
<1>1. /\ a \o b \in Seq(S) /\ Len(a \o b) = Len(a) + Len(b)
      /\ \A k \in 1 .. Len(a) + Len(b) :
           (a \o b)[k] = IF k <= Len(a) THEN a[k] ELSE b[k - Len(a)]
  BY ConcatProperties
<1> DEFINE c == a \o b
           part == SubSeq(c, Len(a) + 1, Len(c))
<1>2. /\ c \in Seq(S) /\ Len(c) = Len(a) + Len(b) /\ Len(a) \in Nat /\ Len(b) \in Nat
      /\ \A k \in 1 .. Len(b) : c[Len(a) + k] = b[k]
  BY <1>1
<1> HIDE DEF c
<1>3. /\ part \in Seq(S) /\ Len(part) = Len(b)
      /\ \A k \in 1 .. Len(b) : part[k] = c[Len(a) + k]
  BY <1>2, SubSeqProperties
<1> HIDE DEF part
<1>4. part = b
  BY <1>2, <1>3, SeqEqual
<1> QED BY <1>4 DEF part, c

\* The records of these kinds in one log are records of the other.
SpeaksAs(log, own, kinds) ==
  \A k \in DOMAIN log : log[k].kind \in kinds => \E m \in DOMAIN own : log[k] = own[m]

\* Expirations say nothing about deficits: what a log says about them is what its
\* part after the expirations says.
LEMMA ExpirationsSayNothing ==
  ASSUME RecordInv, NEW now, NEW own \in Seq(Notice), NEW q, NEW kinds \in SUBSET DeficitKinds
  PROVE  /\ DeficitsTold(ExpiryEvents(now) \o own, q, kinds) = DeficitsTold(own, q, kinds)
         /\ SpeaksAs(ExpiryEvents(now) \o own, own, kinds)
<1> DEFINE a == ExpiryEvents(now)
           log == a \o own
<1>1. /\ a \in Seq(Notice)
      /\ \A k \in DOMAIN a : a[k].kind = "HoldExpired"
  <2>1. a \in Seq(Notice) /\ Len(a) = Cardinality(Expiring(now))
    BY ExpiryIsNumbered DEF Numbered
  <2>2. \A k \in 1 .. Len(a) : a[k].kind = "HoldExpired"
    <3>1. ASSUME NEW k \in 1 .. Len(a) PROVE a[k].kind = "HoldExpired"
      <4>1. k \in 1 .. Cardinality(Expiring(now))
        BY <2>1
      <4>2. PICK i \in Expiring(now) :
              ExpiryEvents(now)[k] =
                PromiseEvent("HoldExpired", i, promises[i].version + 1, sequence + k)
        BY <4>1, ExpiryIsNumbered
      <4> QED BY <4>2 DEF PromiseEvent
    <3> QED BY <3>1
  <2> HIDE DEF a
  <2> QED BY <2>1, <2>2
<1> HIDE DEF a
<1>2. /\ Len(a) \in Nat /\ Len(own) \in Nat /\ DOMAIN a = 1 .. Len(a)
      /\ DOMAIN own = 1 .. Len(own) /\ DOMAIN log = 1 .. Len(a) + Len(own)
      /\ \A k \in 1 .. Len(a) : log[k] = a[k]
      /\ \A k \in 1 .. Len(own) : log[Len(a) + k] = own[k]
      /\ \A k \in 1 .. Len(a) + Len(own) : k > Len(a) =>
           /\ k - Len(a) \in 1 .. Len(own)
           /\ log[k] = own[k - Len(a)]
  BY <1>1
<1> HIDE DEF log
<1>3. "HoldExpired" \notin kinds
  BY DEF DeficitKinds
<1>4. ASSUME NEW k \in DOMAIN log, log[k].kind \in kinds
      PROVE  k - Len(a) \in DOMAIN own /\ log[k] = own[k - Len(a)]
  <2>1. ~(k \in 1 .. Len(a))
    BY <1>1, <1>2, <1>3, <1>4
  <2> QED BY <1>2, <2>1
<1>5. ASSUME NEW k \in DOMAIN own
      PROVE  Len(a) + k \in DOMAIN log /\ log[Len(a) + k] = own[k]
  BY <1>2
<1>6. DeficitsTold(log, q, kinds) = DeficitsTold(own, q, kinds)
  BY <1>4, <1>5 DEF DeficitsTold
<1>7. SpeaksAs(log, own, kinds)
  BY <1>4 DEF SpeaksAs
<1> QED BY <1>6, <1>7 DEF a, log

\* What the log grows by in a revision: the expirations, then its own records.
LEMMA RevisionLog ==
  ASSUME AuditInv, NEW now \in Instant, NEW p \in Pool, NEW curve \in Curve,
         NEW mode \in {"Strict", "Force"}, CapacityRevised(p, curve, mode, now)
  PROVE  /\ ExpiryEvents(now) \in Seq(Notice) /\ Notices(p, curve, now) \in Seq(Notice)
         /\ SubSeq(events', Len(events) + 1, Len(events')) =
              ExpiryEvents(now) \o Notices(p, curve, now)
<1> DEFINE own == Notices(p, curve, now)
           log == ExpiryEvents(now) \o own
<1>1. /\ TypeInv /\ RecordInv /\ events \in Seq(Notice) /\ SequenceLeft(now)
      /\ events' = (events \o ExpiryEvents(now)) \o own
  BY TypeInvFacts DEF AuditInv, Numbered, CapacityRevised
<1>2. ExpiryEvents(now) \in Seq(Notice) /\ own \in Seq(Notice)
  BY <1>1, ExpiryIsNumbered, NoticesAreNumbered DEF Numbered
<1> HIDE DEF own
<1>3. events' = events \o log /\ log \in Seq(Notice)
  BY <1>1, <1>2, ConcatAssociative
<1>4. SubSeq(events', Len(events) + 1, Len(events')) = log
  <2> HIDE DEF log
  <2> QED BY <1>1, <1>3, NewPart
<1> QED BY <1>2, <1>4 DEF own

\* The deficit records of one revision (append_capacity_deficit_events) are complete:
\* whoever knows the deficits before it and applies them knows those after it.
LEMMA RevisionTellsDeficits ==
  ASSUME AuditInv, NEW now \in Instant, NEW p \in Pool, NEW curve \in Curve,
         NEW mode \in {"Strict", "Force"}, CapacityRevised(p, curve, mode, now), NEW q \in Pool
  PROVE  LET new == SubSeq(events', Len(events) + 1, Len(events'))
             known == Deficits(RestoredSlack(now)[q])
             gone == DeficitsTold(new, q, {"DeficitResolved"})
             told == DeficitsTold(new, q, {"DeficitCreated", "DeficitChanged"})
         IN  Deficits(slack'[q]) =
               {d \in known \ gone : \A e \in told : ~Overlaps(d, e)} \union told
<1> DEFINE own == Notices(p, curve, now)
           log == ExpiryEvents(now) \o own
           old == RestoredSlack(now)[p]
           line == Rebuilt(p, curve, now)
           before == Deficits(old)
           after == Deficits(line)
           resolved == {"DeficitResolved"}
           announced == {"DeficitCreated", "DeficitChanged"}
<1>1. /\ TypeInv /\ RecordInv /\ events \in Seq(Notice) /\ SequenceLeft(now)
      /\ events' = (events \o ExpiryEvents(now)) \o own
      /\ slack' = [RestoredSlack(now) EXCEPT ![p] = line]
  BY TypeInvFacts DEF AuditInv, Numbered, CapacityRevised
<1>2. ExpiryEvents(now) \in Seq(Notice) /\ own \in Seq(Notice)
  BY RevisionLog
<1>3. SubSeq(events', Len(events) + 1, Len(events')) = log
  BY RevisionLog
<1>4. DeficitsTold(log, q, resolved) = DeficitsTold(own, q, resolved) /\ DeficitsTold(log, q, announced) = DeficitsTold(own, q, announced)
  <2>1. resolved \in SUBSET DeficitKinds /\ announced \in SUBSET DeficitKinds
    BY DEF DeficitKinds
  <2> HIDE DEF own, resolved, announced
  <2> QED BY <1>1, <1>2, <2>1, ExpirationsSayNothing
<1>5. /\ DeficitsTold(own, q, resolved) =
           IF q = p THEN {d \in before : \A e \in after : ~Overlaps(d, e)} ELSE {}
      /\ DeficitsTold(own, q, announced) = IF q = p THEN after \ before ELSE {}
  BY <1>1, NoticesList
<1>6. old \in Line /\ line \in Line /\ RestoredSlack(now) \in [Pool -> [Time -> Int]]
  <2>1. curve \in [Time -> Int]
    BY CurvesBoundCapacity
  <2>2. RestoredSlack(now) \in [Pool -> [Time -> Int]] /\ ExpiredPromises(now) \in PromiseTable
    BY <1>1, TypeInvFacts, RestoredSlackTyped, ExpirationsTyped DEF RecordInv, PromiseTable
  <2> QED BY <2>1, <2>2, UsageTyped DEF Rebuilt, Line
<1>7. CASE q = p
  <2>1. slack'[q] = line /\ RestoredSlack(now)[q] = old
    BY <1>1, <1>6, <1>7
  <2>2. after = {d \in before \ {d \in before : \A e \in after : ~Overlaps(d, e)} :
                   \A e \in after \ before : ~Overlaps(d, e)} \union (after \ before)
    BY <1>6, ChangesRebuild
  <2> HIDE DEF own, log, old, line, before, after, resolved, announced
  <2>3. /\ DeficitsTold(log, q, resolved) = {d \in before : \A e \in after : ~Overlaps(d, e)}
        /\ DeficitsTold(log, q, announced) = after \ before
    BY <1>4, <1>5, <1>7
  <2>4. after = {d \in before \ DeficitsTold(log, q, resolved) :
                   \A e \in DeficitsTold(log, q, announced) : ~Overlaps(d, e)} \union DeficitsTold(log, q, announced)
    BY <2>2, <2>3
  <2> QED BY <1>3, <2>1, <2>4 DEF before, after, resolved, announced
<1>8. CASE q # p
  <2>1. slack'[q] = RestoredSlack(now)[q]
    BY <1>1, <1>6, <1>8
  <2> HIDE DEF own, log, old, line, before, after, resolved, announced
  <2>2. DeficitsTold(log, q, resolved) = {} /\ DeficitsTold(log, q, announced) = {}
    BY <1>4, <1>5, <1>8
  <2>3. Deficits(slack'[q]) =
          {d \in Deficits(RestoredSlack(now)[q]) \ DeficitsTold(log, q, resolved) :
             \A e \in DeficitsTold(log, q, announced) : ~Overlaps(d, e)} \union DeficitsTold(log, q, announced)
    BY <2>1, <2>2
  <2> QED BY <1>3, <2>3 DEF resolved, announced
<1> QED BY <1>7, <1>8

\* Whatever is taken from a pool in a cell of a deficit is taken by the promises the
\* deficit affects.
LEMMA AffectedMakeDeficit ==
  ASSUME NEW ps \in PromiseTable, NEW p \in Pool, NEW curve \in [Time -> Int],
         NEW line \in Line, \A t \in Time : line[t] = curve[t] - Usage(ps, p, t),
         NEW d \in Deficits(line)
  PROVE  MakeDeficit(Affected(ps, p, d), ps, p, curve, d)
<1> DEFINE S == Affected(ps, p, d)
<1>1. /\ d \in Deficit /\ IsDeficit(line, d.from, d.to) /\ d.quantity = -line[d.from]
  BY DeficitSpan
<1>2. d.from .. d.to - 1 \subseteq Time
  <2>1. d.from \in 0 .. Horizon - 1 /\ d.to \in 1 .. Horizon
    BY <1>1 DEF Deficit, Time
  <2> QED BY <2>1, CountsAreNatural DEF Time
<1>3. ASSUME NEW t \in d.from .. d.to - 1
      PROVE  Total([i \in PromiseId |-> IF i \in S THEN Load(ps[i], p, t) ELSE 0])
               - curve[t] = d.quantity
  <2>1. t \in Time
    BY <1>2
  <2>2. ASSUME NEW i \in PromiseId, i \notin S PROVE Load(ps[i], p, t) = 0
    <3>1. Load(ps[i], p, t) \in Nat
      BY <2>1, LoadTyped
    <3>2. CASE Active(ps[i])
      <4>1. ~(Load(ps[i], p, t) > 0)
        BY <2>2, <3>2 DEF Affected
      <4> QED BY <3>1, <4>1
    <3> QED BY <3>2 DEF Load
  <2>3. [i \in PromiseId |-> IF i \in S THEN Load(ps[i], p, t) ELSE 0] =
          [i \in PromiseId |-> Load(ps[i], p, t)]
    <3> HIDE DEF S
    <3> QED BY <2>2
  <2>4. line[t] = line[d.from]
    BY <1>1 DEF IsDeficit
  <2>5. line[t] = curve[t] - Usage(ps, p, t) /\ curve[t] \in Int /\ Usage(ps, p, t) \in Nat
    BY <2>1, UsageTyped
  <2>6. Usage(ps, p, t) - curve[t] = d.quantity
    BY <1>1, <2>4, <2>5
  <2> HIDE DEF S
  <2> QED BY <2>3, <2>6 DEF Usage
<1>4. \A i \in S : \E t \in d.from .. d.to - 1 : Load(ps[i], p, t) > 0
  BY DEF Affected
<1> HIDE DEF S
<1>5. MakeDeficit(S, ps, p, curve, d)
  BY <1>3, <1>4 DEF MakeDeficit
<1> QED BY <1>5 DEF S

\* The deficit records of one revision name the promises that make their deficits.
LEMMA RevisionNamesMakers ==
  ASSUME AuditInv, IndexInv, NEW now \in Instant, NEW p \in Pool, NEW curve \in Curve,
         NEW mode \in {"Strict", "Force"}, CapacityRevised(p, curve, mode, now), NEW q \in Pool
  PROVE  LET new == SubSeq(events', Len(events) + 1, Len(events'))
         IN  \A k \in DOMAIN new :
               new[k].kind \in DeficitKinds /\ new[k].subject = q =>
                 MakeDeficit(new[k].affected, promises', q,
                   IF new[k].kind = "DeficitResolved" THEN pools[q] ELSE pools'[q],
                   new[k].deficit)
<1> DEFINE own == Notices(p, curve, now)
           log == ExpiryEvents(now) \o own
           ps == ExpiredPromises(now)
           old == RestoredSlack(now)[p]
           line == Rebuilt(p, curve, now)
<1>1. /\ TypeInv /\ RecordInv /\ SequenceLeft(now) /\ p \in Live /\ promises' = ps
      /\ pools' = [pools EXCEPT ![p] = curve]
  BY TypeInvFacts DEF AuditInv, CapacityRevised
<1>2. own \in Seq(Notice) /\ SubSeq(events', Len(events) + 1, Len(events')) = log
  BY RevisionLog
<1>3. /\ pools[p] \in [Time -> Int] /\ curve \in [Time -> Int] /\ pools'[p] = curve
      /\ ps \in PromiseTable
  <2>1. pools \in [Pool -> Curve \union {NoCurve}] /\ pools[p] \in Curve
    BY <1>1 DEF TypeInv, TypeOK, Live
  <2> QED BY <1>1, <2>1, CurvesBoundCapacity, ExpirationsTyped DEF PromiseTable
<1>4. old \in Line /\ line \in Line
  BY <1>1, <1>3, TypeInvFacts, RestoredSlackTyped, UsageTyped DEF Rebuilt, Line, RecordInv
<1>5. /\ \A t \in Time : old[t] = pools[p][t] - Usage(ps, p, t)
      /\ \A t \in Time : line[t] = curve[t] - Usage(ps, p, t)
  BY <1>1, ExpirationIndexed DEF Indexed, Rebuilt
<1> HIDE DEF ps, old, line
<1>6. \A d \in Deficits(old) : MakeDeficit(Affected(ps, p, d), ps, p, pools[p], d)
  BY <1>3, <1>4, <1>5, AffectedMakeDeficit
<1>7. \A d \in Deficits(line) : MakeDeficit(Affected(ps, p, d), ps, p, curve, d)
  BY <1>3, <1>4, <1>5, AffectedMakeDeficit
<1>8. NamesAffected(own, ps, p, Deficits(old), Deficits(line))
  BY <1>1, NoticesList DEF ps, old, line
<1>9. \A k \in DOMAIN log : log[k].kind \in DeficitKinds =>
        \E m \in DOMAIN own : log[k] = own[m]
  <2>1. DeficitKinds \in SUBSET DeficitKinds
    OBVIOUS
  <2> HIDE DEF own
  <2>2. SpeaksAs(ExpiryEvents(now) \o own, own, DeficitKinds)
    BY <1>1, <1>2, <2>1, ExpirationsSayNothing
  <2> QED BY <2>2 DEF SpeaksAs
<1> HIDE DEF own, log
<1>10. ASSUME NEW k \in DOMAIN log, log[k].kind \in DeficitKinds, log[k].subject = q
       PROVE  MakeDeficit(log[k].affected, ps, q,
                IF log[k].kind = "DeficitResolved" THEN pools[q] ELSE pools'[q], log[k].deficit)
  <2>1. /\ q = p /\ log[k].affected = Affected(ps, p, log[k].deficit)
        /\ log[k].deficit \in
             IF log[k].kind = "DeficitResolved" THEN Deficits(old) ELSE Deficits(line)
    BY <1>8, <1>9, <1>10 DEF NamesAffected
  <2> QED BY <1>3, <1>6, <1>7, <2>1
<1> QED BY <1>1, <1>2, <1>10

\* RevisionNoticesRebuildDeficits holds of every step: revise_capacity_at leaves no
\* change of a deficit out of the audit log and reports none that did not happen, and
\* the promises it names with a deficit are those that make it.
THEOREM NoticesRebuildDeficits == Spec => RevisionNoticesRebuildDeficits
<1> DEFINE Rebuilds ==
      reply'.tag = "CapacityRevised" =>
        LET new == SubSeq(events', Len(events) + 1, Len(events'))
            About(kinds, p) == {new[k].deficit : k \in {j \in DOMAIN new :
                                   new[j].kind \in kinds /\ new[j].subject = p}}
        IN  \A p \in Pool :
              LET known == Deficits(RestoredSlack(reply'.at)[p])
                  gone == About({"DeficitResolved"}, p)
                  told == About({"DeficitCreated", "DeficitChanged"}, p)
              IN  /\ Deficits(slack'[p]) =
                       {d \in known \ gone : \A e \in told : ~Overlaps(d, e)} \union told
                  /\ \A k \in DOMAIN new :
                       new[k].kind \in DeficitKinds /\ new[k].subject = p =>
                         MakeDeficit(new[k].affected, promises', p,
                           IF new[k].kind = "DeficitResolved" THEN pools[p] ELSE pools'[p],
                           new[k].deficit)
<1>1. AuditInv /\ IndexInv /\ Next => Rebuilds
  <2> SUFFICES ASSUME AuditInv, IndexInv, Next, reply'.tag = "CapacityRevised" PROVE Rebuilds
    OBVIOUS
  <2>1. PICK now \in Instant : Effect(now)
    BY NextHasEffect
  <2>2. PICK p \in Pool, curve \in Curve, mode \in {"Strict", "Force"} :
          CapacityRevised(p, curve, mode, now)
    BY <2>1, RevisionAnswers
  <2>3. reply'.at = now
    BY <2>1, RevisionAnswers
  <2>4. \A q \in Pool :
          LET new == SubSeq(events', Len(events) + 1, Len(events'))
              known == Deficits(RestoredSlack(now)[q])
              gone == DeficitsTold(new, q, {"DeficitResolved"})
              told == DeficitsTold(new, q, {"DeficitCreated", "DeficitChanged"})
          IN  Deficits(slack'[q]) =
                {d \in known \ gone : \A e \in told : ~Overlaps(d, e)} \union told
    BY <2>2, RevisionTellsDeficits
  <2>5. \A q \in Pool :
          LET new == SubSeq(events', Len(events) + 1, Len(events'))
          IN  \A k \in DOMAIN new :
                new[k].kind \in DeficitKinds /\ new[k].subject = q =>
                  MakeDeficit(new[k].affected, promises', q,
                    IF new[k].kind = "DeficitResolved" THEN pools[q] ELSE pools'[q],
                    new[k].deficit)
    BY <2>2, RevisionNamesMakers
  <2> QED BY <2>3, <2>4, <2>5 DEF DeficitsTold
<1>2. AuditInv /\ [Next]_vars => AuditInv'
  <2>1. AuditInv /\ UNCHANGED vars => AuditInv'
    BY StutterTyped DEF vars, AuditInv, Numbered, TrailIsHistory, Mine
  <2> QED BY <2>1, NextHasEffect, EffectAudited
<1>3. AuditInv /\ IndexInv /\ [Next]_vars => [Rebuilds]_vars
  BY <1>1
<1> QED BY <1>2, <1>3, InitAudited, IndexInvariant, PTL DEF Spec, RevisionNoticesRebuildDeficits
=============================================================================
