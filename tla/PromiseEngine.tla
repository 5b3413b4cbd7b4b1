--------------------------- MODULE PromiseEngine ---------------------------
(***************************************************************************)
(* The deterministic state machine of PromiseDB: Engine::apply_once and    *)
(* the handlers it dispatches to (src/src/engine.rs).                      *)
(*                                                                         *)
(* Every handler runs to completion on &mut self, so each is one action.   *)
(* It first expires the holds that are due at the command's timestamp and  *)
(* keeps those expirations whatever becomes of the command itself.         *)
(*                                                                         *)
(* Time is a row of cells 0 .. Horizon-1, a capacity curve a function from *)
(* cells to capacity, and the slack timeline of a pool a function from     *)
(* cells to slack: the value SlackTimeline::slack_at returns.  A bundle is *)
(* known by its demand in every cell and by the cells where one of its     *)
(* claims starts or ends.                                                  *)
(***************************************************************************)
EXTENDS Integers, Sequences, FiniteSets, SequencesExt, Sums

CONSTANTS
  NumPools,      \* pool identities are 1 .. NumPools, in their UUID order
  NumPromises,   \* promise identities are 1 .. NumPromises, in their UUID order
  Horizon,       \* number of time cells
  Curve,         \* capacity curves: functions from Time to capacity
  NoCurve,       \* the curve of a pool that does not exist
  Bundle,        \* bundles of claims
  Demand,        \* Demand[b][p][t]: what bundle b takes from pool p in cell t
  Boundary,      \* Boundary[b][p]: cells where a claim of b on p starts or ends
  Choice,        \* ordered alternatives: non-empty sequences of bundles
  SlotQuery,     \* first-slot searches: records [earliest, latest, step, at]
  Unplaceable,   \* a relative bundle that cannot be placed at an anchor
  Instant,       \* authoritative timestamps and deadlines
  Version,       \* the promise versions clients expect
  MaxQuantity,   \* MAX_QUANTITY, the largest quantity a claim or curve may have
  MaxSequence    \* the largest sequence number

Time == 0 .. Horizon - 1
Pool == 1 .. NumPools
PromiseId == 1 .. NumPromises

\* Slack is an i64, one wider below than the largest quantity; the demand of a
\* whole bundle is added up as a u64.
Slack == -(MaxQuantity + 1) .. MaxQuantity
MaxDemand == 2 * MaxQuantity + 1

ASSUME CountsAreNatural ==
  /\ NumPools \in Nat
  /\ NumPromises \in Nat
  /\ Horizon \in Nat
  /\ MaxQuantity \in Nat
  /\ MaxSequence \in Nat
  /\ Instant \subseteq Int
  /\ Version \subseteq Nat

ASSUME CurvesBoundCapacity ==
  /\ Curve \subseteq [Time -> 0 .. MaxQuantity]
  /\ NoCurve \notin Curve

\* Claim::new rejects a zero quantity, so demand is what its claims add up to,
\* and it can only change where a claim starts or ends.
ASSUME DemandChangesAtBoundaries ==
  /\ Demand \in [Bundle -> [Pool -> [Time -> Nat]]]
  /\ Boundary \in [Bundle -> [Pool -> SUBSET Time]]
  /\ \A b \in Bundle, p \in Pool, t \in Time :
       (t # 0 /\ t \notin Boundary[b][p]) => Demand[b][p][t] = Demand[b][p][t - 1]

ASSUME CandidatesAreBundles ==
  /\ Unplaceable \notin Bundle
  /\ Choice \subseteq Seq(Bundle)
  /\ \A q \in SlotQuery : /\ q.earliest \in Int /\ q.latest \in Int /\ q.step \in Int
                          /\ \A a \in q.earliest .. q.latest :
                               q.at[a] \in Bundle \union {Unplaceable}

VARIABLES
  pools,      \* pool |-> its capacity curve, NoCurve while it does not exist
  slack,      \* pool |-> its slack timeline (all zero while it does not exist)
  promises,   \* promise id |-> its record; state "Absent" while it does not exist
  sequence,   \* the last global sequence number used
  events,     \* the audit log
  reply,      \* the response to the last command and its timestamp
  forced      \* history: the pools whose capacity was ever revised by force

vars == <<pools, slack, promises, sequence, events, reply, forced>>

-----------------------------------------------------------------------------
(* Sums over the promise identities, one promise at a time. *)

Total(load) == SumTo(load, NumPromises)

Absent == [state |-> "Absent", deadline |-> 0, bundle |-> Unplaceable,
           version |-> 0, created |-> 0, updated |-> 0]

\* Mutant of NextVersion: the version stays.
SameVersion(promise, state, deadline, bundle, seq) ==
  [state |-> state, deadline |-> deadline, bundle |-> bundle,
   version |-> promise.version, created |-> promise.created, updated |-> seq]

\* Every change of a promise (commit, release, replace, expire) is its next version.
NextVersion(promise, state, deadline, bundle, seq) ==
  [state |-> state, deadline |-> deadline, bundle |-> bundle,
   version |-> promise.version + 1, created |-> promise.created, updated |-> seq]

Active(promise) == promise.state \in {"Held", "Committed"}

\* What the claims of a promise take from cell t of pool p.
Load(promise, p, t) == IF Active(promise) THEN Demand[promise.bundle][p][t] ELSE 0

Usage(ps, p, t) == Total([i \in PromiseId |-> Load(ps[i], p, t)])

PoolsOf(b) == {p \in Pool : \E t \in Time : Demand[b][p][t] > 0}

Live == {p \in Pool : pools[p] # NoCurve}

-----------------------------------------------------------------------------
(* process_expirations: due holds expire in the order of deadline and id,   *)
(* each with a sequence number of its own, until the sequence is exhausted. *)

\* Mutant of Precedes: the map of promises is not sorted by deadline.
PrecedesById(i, j) == i < j

Precedes(i, j) ==
  \/ promises[i].deadline < promises[j].deadline
  \/ promises[i].deadline = promises[j].deadline /\ i < j

\* Mutant of Due: a hold outlives the instant of its deadline.
DueAfterDeadline(now) ==
  {i \in PromiseId : promises[i].state = "Held" /\ promises[i].deadline < now}

Due(now) == {i \in PromiseId : promises[i].state = "Held" /\ promises[i].deadline <= now}

Rank(i, now) == Cardinality({j \in Due(now) : Precedes(j, i) \/ j = i})

Expiring(now) == {i \in Due(now) : sequence + Rank(i, now) <= MaxSequence}

AllExpire(now) == Expiring(now) = Due(now)

\* Mutant of ExpiredPromises: all holds of one pass share a sequence number.
ExpiredTogether(now) ==
  [i \in PromiseId |->
     IF i \in Expiring(now)
     THEN NextVersion(promises[i], "Expired", 0, promises[i].bundle, sequence + 1)
     ELSE promises[i]]

ExpiredPromises(now) ==
  [i \in PromiseId |->
     IF i \in Expiring(now)
     THEN NextVersion(promises[i], "Expired", 0, promises[i].bundle,
                      sequence + Rank(i, now))
     ELSE promises[i]]

\* Mutant of RestoredSlack: capacity is given back before the expiration has its
\* sequence number.
RestoredTooEarly(now) ==
  [p \in Pool |-> [t \in Time |->
     slack[p][t] + Total([i \in PromiseId |->
                            IF i \in Due(now) THEN Load(promises[i], p, t) ELSE 0])]]

RestoredSlack(now) ==
  [p \in Pool |-> [t \in Time |->
     slack[p][t] + Total([i \in PromiseId |->
                            IF i \in Expiring(now) THEN Load(promises[i], p, t) ELSE 0])]]

ExpiredSequence(now) == sequence + Cardinality(Expiring(now))

PromiseEvent(kind, i, version, seq) ==
  [kind |-> kind, subject |-> i, version |-> version, seq |-> seq]

ExpiryEvents(now) ==
  [k \in 1 .. Cardinality(Expiring(now)) |->
     LET i == CHOOSE i \in Expiring(now) : Rank(i, now) = k
     IN  PromiseEvent("HoldExpired", i, promises[i].version + 1, sequence + k)]

\* A response: its kind, one number of its payload, and the command's timestamp.
Answer(tag, value, now) == reply' = [tag |-> tag, value |-> value, at |-> now]

\* A command that changes nothing of its own still keeps the expirations.
Reject(tag, value, now) ==
  /\ promises' = ExpiredPromises(now)
  /\ slack' = RestoredSlack(now)
  /\ sequence' = ExpiredSequence(now)
  /\ events' = events \o ExpiryEvents(now)
  /\ Answer(tag, value, now)
  /\ UNCHANGED <<pools, forced>>

\* process_expirations ran out of sequence numbers: its error is the response.
ExpiryOverflows(now) == ~AllExpire(now) /\ Reject("SequenceOverflow", 0, now)

\* SequenceNumber::next after the expirations.
NextSequence(now) == ExpiredSequence(now) + 1
\* Mutant of SequenceLeft: one number too many.
SequenceLeftOffByOne(now) == NextSequence(now) <= MaxSequence + 1
SequenceLeft(now) == NextSequence(now) <= MaxSequence

-----------------------------------------------------------------------------
(* Admission of a bundle against slack timelines.                           *)

\* Mutants of WindowStarts: the base timeline is only sampled where a claim
\* starts or ends; windows that are in deficit already are passed over.
ClaimWindows(b, p, base) ==
  {t \in Time : Demand[b][p][t] > 0 /\ (t = 0 \/ t \in Boundary[b][p])}
WindowsWithoutDeficit(b, p, base) ==
  {t \in Time : /\ Demand[b][p][t] > 0
                /\ t = 0 \/ t \in Boundary[b][p] \/ base[t] # base[t - 1]
                /\ base[t] >= 0}

\* Where evaluate_pool_on_timeline samples the base timeline: the claims'
\* boundaries, and the points of the base timeline that lie in a claim.
WindowStarts(b, p, base) ==
  {t \in Time : /\ Demand[b][p][t] > 0
                /\ t = 0 \/ t \in Boundary[b][p] \/ base[t] # base[t - 1]}

\* Mutant of FitsPool: a bundle may not use a pool up.
FitsPoolStrictly(b, p, base, floor) ==
  \A t \in WindowStarts(b, p, base) : base[t] - Demand[b][p][t] > floor[t]

FitsPool(b, p, base, floor) ==
  \A t \in WindowStarts(b, p, base) : base[t] - Demand[b][p][t] >= floor[t]

NoDeficit == [t \in Time |-> 0]

\* Pools are evaluated in order; the first that is missing, or whose claims add
\* up to more than a quantity holds, makes the evaluation an error.
Erring(b) ==
  {p \in PoolsOf(b) : p \notin Live \/ \E t \in Time : Demand[b][p][t] > MaxDemand}

FirstError(b) ==
  LET p == CHOOSE p \in Erring(b) : \A other \in Erring(b) : p <= other
  IN  IF p \in Live THEN "QuantityOverflow" ELSE "ResourcePoolNotFound"

\* The answer of evaluate_bundle_admission, after materialization.
Verdict(candidate, sl) ==
  IF candidate = Unplaceable THEN "TimestampOverflow"
  ELSE IF Erring(candidate) # {} THEN FirstError(candidate)
  ELSE IF \A p \in PoolsOf(candidate) : FitsPool(candidate, p, sl[p], NoDeficit)
       THEN "Available"
       ELSE "Unavailable"

\* Mutant of Decides: the search runs backwards.
DecidesLast(k, candidates, sl) ==
  /\ k \in DOMAIN candidates
  /\ Verdict(candidates[k], sl) # "Unavailable"
  /\ \A j \in k + 1 .. Len(candidates) : Verdict(candidates[j], sl) = "Unavailable"

\* The candidate at which an ordered search stops: an error stops it too.
Decides(k, candidates, sl) ==
  /\ k \in DOMAIN candidates
  /\ Verdict(candidates[k], sl) # "Unavailable"
  /\ \A j \in 1 .. k - 1 : Verdict(candidates[j], sl) = "Unavailable"

Consume(sl, b) == [p \in Pool |-> [t \in Time |-> sl[p][t] - Demand[b][p][t]]]
Restore(sl, b) == [p \in Pool |-> [t \in Time |-> sl[p][t] + Demand[b][p][t]]]

-----------------------------------------------------------------------------
(* Deficits: the normalized intervals of negative slack, and the audit      *)
(* records a capacity revision emits about them.                            *)

\* Maximal stretches from a to z - 1 of one negative slack.
IsDeficit(line, a, z) ==
  /\ a < z
  /\ \A t \in a .. z - 1 : line[t] = line[a] /\ line[t] < 0
  /\ a # 0 => line[a - 1] # line[a]
  /\ z # Horizon => line[z] # line[a]

Deficits(line) ==
  {[from |-> span[1], to |-> span[2], quantity |-> -line[span[1]]] :
     span \in {x \in Time \X (1 .. Horizon) : IsDeficit(line, x[1], x[2])}}

Overlaps(d, e) == d.from < e.to /\ e.from < d.to

\* Mutant of Affected: a claim has to be in force when the deficit begins.
AffectedAtStart(ps, p, d) ==
  {i \in PromiseId : Active(ps[i]) /\ Load(ps[i], p, d.from) > 0}

\* The active promises with a claim on the pool that overlaps the deficit.
Affected(ps, p, d) ==
  {i \in PromiseId : Active(ps[i]) /\ \E t \in d.from .. d.to - 1 : Load(ps[i], p, t) > 0}

\* Deficits of one timeline, which do not overlap, as they follow each other in time.
InTimeOrder(ds) ==
  [k \in 1 .. Cardinality(ds) |->
     CHOOSE d \in ds : Cardinality({e \in ds : e.from <= d.from}) = k]

\* The deficits of a revision in the order and with the kinds of its events.
Resolved(before, after) == InTimeOrder({d \in before : \A e \in after : ~Overlaps(d, e)})

\* Mutant of Announced: a deficit that changes is not reported again.
AnnouncedIfNew(before, after) ==
  InTimeOrder({d \in after : \A e \in before : ~Overlaps(d, e)})

Announced(before, after) == InTimeOrder(after \ before)

AnnouncedKind(d, before) ==
  IF \E e \in before : Overlaps(d, e) THEN "DeficitChanged" ELSE "DeficitCreated"

RevisionEvents(p, before, after, ps, seq) ==
  LET gone == Resolved(before, after)
      new == Announced(before, after)
      DeficitEvent(kind, d) ==
        [kind |-> kind, subject |-> p, seq |-> seq,
         deficit |-> d, affected |-> Affected(ps, p, d)]
  IN  <<[kind |-> "CapacityRevised", subject |-> p, seq |-> seq]>>
      \o [k \in DOMAIN gone |-> DeficitEvent("DeficitResolved", gone[k])]
      \o [k \in DOMAIN new |-> DeficitEvent(AnnouncedKind(new[k], before), new[k])]

-----------------------------------------------------------------------------
Init ==
  /\ pools = [p \in Pool |-> NoCurve]
  /\ slack = [p \in Pool |-> [t \in Time |-> 0]]
  /\ promises = [i \in PromiseId |-> Absent]
  /\ sequence = 0
  /\ events = <<>>
  /\ reply = [tag |-> "None", value |-> 0, at |-> 0]
  /\ forced = {}

\* create_resource_pool_at
CreateResourcePool(p, curve, now) ==
  \/ ExpiryOverflows(now)
  \/ /\ AllExpire(now)
     /\ \/ p \in Live /\ Reject("ResourcePoolAlreadyExists", 0, now)
        \/ p \notin Live /\ ~SequenceLeft(now) /\ Reject("SequenceOverflow", 0, now)
        \/ /\ p \notin Live
           /\ SequenceLeft(now)
           /\ pools' = [pools EXCEPT ![p] = curve]
           /\ slack' = [RestoredSlack(now) EXCEPT ![p] = curve]
           /\ promises' = ExpiredPromises(now)
           /\ sequence' = NextSequence(now)
           /\ events' = (events \o ExpiryEvents(now)) \o
                <<[kind |-> "ResourceCreated", subject |-> p, seq |-> NextSequence(now)]>>
           /\ Answer("ResourcePoolCreated", 0, now)
           /\ UNCHANGED forced

\* The checked arithmetic of a timeline: every slack fits i64.
Representable(line) == \A t \in Time : line[t] \in Slack

\* revise_capacity_at: the candidate timeline is rebuilt from the new curve and
\* every active promise; i64 may be too narrow for it.
ReviseCapacity(p, curve, mode, now) ==
  LET ps == ExpiredPromises(now)
      rebuilt == [t \in Time |-> curve[t] - Usage(ps, p, t)]
      before == Deficits(RestoredSlack(now)[p])
      after == Deficits(rebuilt)
  IN
  \/ ExpiryOverflows(now)
  \/ /\ AllExpire(now)
     /\ \/ p \notin Live /\ Reject("ResourcePoolNotFound", 0, now)
        \/ /\ p \in Live
           /\ ~Representable(rebuilt)
           /\ Reject("IndexOverflow", 0, now)
        \/ /\ p \in Live
           /\ Representable(rebuilt)
           /\ mode = "Strict"
           /\ \E t \in Time : rebuilt[t] < 0
           /\ Reject("CapacityRevisionCreatesDeficit", 0, now)
        \/ /\ p \in Live
           /\ Representable(rebuilt)
           /\ mode = "Force" \/ \A t \in Time : rebuilt[t] >= 0
           /\ \/ ~SequenceLeft(now) /\ Reject("SequenceOverflow", 0, now)
              \/ /\ SequenceLeft(now)
                 /\ pools' = [pools EXCEPT ![p] = curve]
                 /\ slack' = [RestoredSlack(now) EXCEPT ![p] = rebuilt]
                 /\ promises' = ps
                 /\ sequence' = NextSequence(now)
                 /\ events' = (events \o ExpiryEvents(now))
                      \o RevisionEvents(p, before, after, ps, NextSequence(now))
                 /\ Answer("CapacityRevised", NextSequence(now), now)
                 /\ forced' = IF mode = "Force" THEN forced \union {p} ELSE forced

-----------------------------------------------------------------------------
(* accept_hold and the three commands that end in it.                       *)

AcceptHold(i, b, deadline, tag, value, now) ==
  \/ ~SequenceLeft(now) /\ Reject("SequenceOverflow", 0, now)
  \/ /\ SequenceLeft(now)
     /\ promises' = [ExpiredPromises(now) EXCEPT ![i] =
          [state |-> "Held", deadline |-> deadline, bundle |-> b, version |-> 1,
           created |-> NextSequence(now), updated |-> NextSequence(now)]]
     /\ slack' = Consume(RestoredSlack(now), b)
     /\ sequence' = NextSequence(now)
     /\ events' = (events \o ExpiryEvents(now)) \o
          <<PromiseEvent("HoldCreated", i, 1, NextSequence(now))>>
     /\ Answer(tag, value, now)
     /\ UNCHANGED <<pools, forced>>

\* The guards hold_with_id_at, hold_choice_at and hold_slot_at begin with.
HoldRefused(i, deadline, now) ==
  \/ promises[i].state # "Absent" /\ Reject("PromiseAlreadyExists", 0, now)
  \/ promises[i].state = "Absent" /\ deadline <= now /\ Reject("InvalidExpiration", 0, now)

HoldAllowed(i, deadline, now) == promises[i].state = "Absent" /\ deadline > now

\* Mutant of HoldFirst: it searches timelines that miss what expires in this command.
HoldFirstBeforeExpiry(i, candidates, deadline, tag, values, now) ==
  \/ \E k \in DOMAIN candidates :
       /\ Decides(k, candidates, slack)
       /\ Verdict(candidates[k], slack) = "Available"
       /\ AcceptHold(i, candidates[k], deadline, tag, values[k], now)
  \/ /\ \A k \in DOMAIN candidates : ~Decides(k, candidates, slack)
     /\ Reject("Unavailable", Len(candidates), now)

\* The first candidate that fits is held; an error before it is the response.
\* values[k] is what the response says of candidate k.
HoldFirst(i, candidates, deadline, tag, values, now) ==
  \/ \E k \in DOMAIN candidates :
       /\ Decides(k, candidates, RestoredSlack(now))
       /\ LET verdict == Verdict(candidates[k], RestoredSlack(now)) IN
          \/ /\ verdict = "Available"
             /\ AcceptHold(i, candidates[k], deadline, tag, values[k], now)
          \/ verdict # "Available" /\ Reject(verdict, 0, now)
  \/ /\ \A k \in DOMAIN candidates : ~Decides(k, candidates, RestoredSlack(now))
     /\ Reject("Unavailable", Len(candidates), now)

\* hold_with_id_at
Hold(i, b, deadline, now) ==
  \/ ExpiryOverflows(now)
  \/ /\ AllExpire(now)
     /\ \/ HoldRefused(i, deadline, now)
        \/ /\ HoldAllowed(i, deadline, now)
           /\ HoldFirst(i, <<b>>, deadline, "Held", <<0>>, now)

\* hold_choice_at
HoldOneOf(i, choice, deadline, now) ==
  \/ ExpiryOverflows(now)
  \/ /\ AllExpire(now)
     /\ \/ HoldRefused(i, deadline, now)
        \/ /\ HoldAllowed(i, deadline, now)
           /\ HoldFirst(i, choice, deadline, "ChoiceHeld",
                        [k \in DOMAIN choice |-> k - 1], now)

\* Mutant of SlotCandidates: the latest anchor is left out.
SlotCandidatesBeforeLatest(q) ==
  [k \in 1 .. (q.latest - q.earliest) \div q.step |-> q.at[q.earliest + (k - 1) * q.step]]

\* search_slots: the anchors from earliest to latest, step apart.
Anchor(q, k) == q.earliest + (k - 1) * q.step
SlotCandidates(q) ==
  [k \in 1 .. ((q.latest - q.earliest) \div q.step) + 1 |-> q.at[Anchor(q, k)]]

\* hold_slot_at
HoldFirstSlot(i, q, deadline, now) ==
  \/ ExpiryOverflows(now)
  \/ /\ AllExpire(now)
     /\ \/ HoldRefused(i, deadline, now)
        \/ /\ HoldAllowed(i, deadline, now)
           /\ \/ q.earliest > q.latest /\ Reject("InvalidSearchRange", 0, now)
              \/ q.earliest <= q.latest /\ q.step <= 0 /\ Reject("InvalidStep", 0, now)
              \/ /\ q.earliest <= q.latest
                 /\ q.step > 0
                 /\ HoldFirst(i, SlotCandidates(q), deadline, "SlotHeld",
                              [k \in DOMAIN SlotCandidates(q) |-> Anchor(q, k)], now)

-----------------------------------------------------------------------------
(* Commands on an existing promise.  A hold that is due has expired by the  *)
(* time they look at it.                                                    *)

\* The checks commit_at and release_at share, in their order: the sequence is
\* reserved before the promise is looked up.
TransitionRefused(i, version, states, now) ==
  LET promise == ExpiredPromises(now)[i] IN
  \/ ~SequenceLeft(now) /\ Reject("SequenceOverflow", 0, now)
  \/ /\ SequenceLeft(now)
     /\ \/ promise.state = "Absent" /\ Reject("PromiseNotFound", 0, now)
        \/ promise.state = "Expired" /\ Reject("HoldExpired", 0, now)
        \/ /\ promise.state \notin {"Absent", "Expired"}
           /\ promise.version # version
           /\ Reject("VersionConflict", 0, now)
        \/ /\ promise.state \notin states \union {"Absent", "Expired"}
           /\ promise.version = version
           /\ Reject("InvalidPromiseState", 0, now)

\* Promise::commit and Promise::release keep the bundle and drop the deadline.
Advance(promise, state, now) ==
  NextVersion(promise, state, 0, promise.bundle, NextSequence(now))

PublishTransition(i, promise, sl, kind, now) ==
  /\ promises' = [ExpiredPromises(now) EXCEPT ![i] = promise]
  /\ slack' = sl
  /\ sequence' = NextSequence(now)
  /\ events' = (events \o ExpiryEvents(now)) \o
       <<PromiseEvent(kind, i, promise.version, NextSequence(now))>>
  /\ Answer(kind, promise.version, now)
  /\ UNCHANGED <<pools, forced>>

\* commit_at
Commit(i, version, now) ==
  LET promise == ExpiredPromises(now)[i] IN
  \/ ExpiryOverflows(now)
  \/ /\ AllExpire(now)
     /\ \/ TransitionRefused(i, version, {"Held"}, now)
        \/ /\ SequenceLeft(now)
           /\ promise.state = "Held"
           /\ promise.version = version
           /\ PublishTransition(i, Advance(promise, "Committed", now), RestoredSlack(now),
                                "HoldCommitted", now)

\* release_at
Release(i, version, now) ==
  LET promise == ExpiredPromises(now)[i] IN
  \/ ExpiryOverflows(now)
  \/ /\ AllExpire(now)
     /\ \/ TransitionRefused(i, version, {"Held", "Committed"}, now)
        \/ /\ SequenceLeft(now)
           /\ Active(promise)
           /\ promise.version = version
           /\ PublishTransition(i, Advance(promise, "Released", now),
                                Restore(RestoredSlack(now), promise.bundle),
                                "PromiseReleased", now)

\* Mutant of DeficitFloor: pools of the old bundle are not checked at all.
NoFloor(old, sl, p) == [t \in Time |-> IF p \in PoolsOf(old) THEN -2 * MaxDemand ELSE 0]

\* replace_at: the deficit a replacement may leave in a pool of the old bundle.
DeficitFloor(old, sl, p) ==
  [t \in Time |-> IF p \in PoolsOf(old) /\ sl[p][t] < 0 THEN sl[p][t] ELSE 0]

\* What replace_at checks before admission; the sequence is reserved only after
\* the promise is found.
ReplaceRefused(i, version, target, now) ==
  LET promise == ExpiredPromises(now)[i] IN
  \/ promise.state = "Absent" /\ Reject("PromiseNotFound", 0, now)
  \/ promise.state = "Expired" /\ Reject("HoldExpired", 0, now)
  \/ /\ promise.state \notin {"Absent", "Expired"}
     /\ \/ ~SequenceLeft(now) /\ Reject("SequenceOverflow", 0, now)
        \/ /\ SequenceLeft(now)
           /\ \/ promise.version # version /\ Reject("VersionConflict", 0, now)
              \/ /\ promise.version = version
                 /\ ~Active(promise)
                 /\ Reject("InvalidPromiseState", 0, now)
              \/ /\ promise.version = version
                 /\ Active(promise)
                 /\ target.state = "Held" /\ target.deadline <= now
                 /\ Reject("InvalidExpiration", 0, now)

\* ReplacementState: held until a new deadline, or committed.
ReplacementState ==
  [state : {"Held"}, deadline : Instant] \union {[state |-> "Committed", deadline |-> 0]}

Replace(i, version, b, target, now) ==
  LET promise == ExpiredPromises(now)[i]
      current == RestoredSlack(now)
      base == Restore(current, promise.bundle)
  IN
  \/ ExpiryOverflows(now)
  \/ /\ AllExpire(now)
     /\ \/ ReplaceRefused(i, version, target, now)
        \/ /\ SequenceLeft(now)
           /\ Active(promise)
           /\ promise.version = version
           /\ target.state = "Committed" \/ target.deadline > now
           /\ \/ Erring(b) # {} /\ Reject(FirstError(b), 0, now)
              \/ /\ Erring(b) = {}
                 /\ \E p \in PoolsOf(b) :
                      ~FitsPool(b, p, base[p], DeficitFloor(promise.bundle, current, p))
                 /\ Reject("Unavailable", 1, now)
              \/ /\ Erring(b) = {}
                 /\ \A p \in PoolsOf(b) :
                      FitsPool(b, p, base[p], DeficitFloor(promise.bundle, current, p))
                 /\ PublishTransition(i,
                      NextVersion(promise, target.state, target.deadline, b,
                                  NextSequence(now)),
                      Consume(base, b), "PromiseReplaced", now)

\* CommandOperation::ProcessExpirations
ProcessExpirations(now) ==
  \/ ExpiryOverflows(now)
  \/ AllExpire(now) /\ Reject("ExpirationsProcessed", Cardinality(Due(now)), now)

-----------------------------------------------------------------------------
Next ==
  \E now \in Instant :
    \/ \E p \in Pool, curve \in Curve :
         \/ CreateResourcePool(p, curve, now)
         \/ \E mode \in {"Strict", "Force"} : ReviseCapacity(p, curve, mode, now)
    \/ \E i \in PromiseId, deadline \in Instant :
         \/ \E b \in Bundle : Hold(i, b, deadline, now)
         \/ \E choice \in Choice : HoldOneOf(i, choice, deadline, now)
         \/ \E q \in SlotQuery : HoldFirstSlot(i, q, deadline, now)
    \/ \E i \in PromiseId, version \in Version :
         \/ Commit(i, version, now)
         \/ Release(i, version, now)
         \/ \E b \in Bundle, target \in ReplacementState :
              Replace(i, version, b, target, now)
    \/ ProcessExpirations(now)

Spec == Init /\ [][Next]_vars

-----------------------------------------------------------------------------
(* Properties.                                                              *)

PromiseKinds ==
  {"HoldCreated", "HoldCommitted", "PromiseReleased", "PromiseReplaced", "HoldExpired"}
DeficitKinds == {"DeficitCreated", "DeficitChanged", "DeficitResolved"}
HoldTags == {"Held", "ChoiceHeld", "SlotHeld"}

PromiseRecord ==
  [state : {"Held", "Committed", "Released", "Expired"}, deadline : Instant \union {0},
   bundle : Bundle, version : 1 .. MaxSequence,
   created : 1 .. MaxSequence, updated : 1 .. MaxSequence]

\* The type of the state, which the public accessors of Engine rely on.
TypeOK ==
  /\ pools \in [Pool -> Curve \union {NoCurve}]
  /\ slack \in [Pool -> [Time -> Int]]
  /\ promises \in [PromiseId -> PromiseRecord \union {Absent}]
  /\ sequence \in 0 .. MaxSequence
  /\ forced \subseteq Pool
  /\ reply.at \in Instant \union {0}

\* The maintained index is the one rebuild_slack_timelines would reconstruct:
\* every transition updates the timelines of every pool it touches, and only
\* those, by exactly what the promise table says.
IndexMatchesPromises ==
  \A p \in Pool, t \in Time :
    slack[p][t] = IF p \in Live THEN pools[p][t] - Usage(promises, p, t) ELSE 0

\* Capacity is only overcommitted in a pool whose capacity was cut by force:
\* no sequence of holds, replacements and strict revisions gets there.
NoUnforcedDeficit == \A p \in Pool \ forced, t \in Time : slack[p][t] >= 0

\* Slack always fits its integer type, so that no restore or consume of a
\* timeline can fail half way through a command.
SlackIsRepresentable == slack \in [Pool -> [Time -> Slack]]

\* The indexed admission path answers what the slow path over capacity curves
\* and active promises (check_availability, the oracle of the tests) answers.
OracleAdmits(b, ps) ==
  /\ PoolsOf(b) \subseteq Live
  /\ \A p \in PoolsOf(b), t \in Time :
       Demand[b][p][t] > 0 => Usage(ps, p, t) + Demand[b][p][t] <= pools[p][t]

AdmissionAgreesWithOracle ==
  \A b \in Bundle : Verdict(b, slack) = "Available" <=> OracleAdmits(b, promises)

\* The audit log is the history of the promise table: the events of a promise
\* are its versions 1, 2, ..., they date its creation and its last change, and
\* sequence numbers run without a gap, shared only by the events of a revision.
TrailOf(i) == {k \in DOMAIN events : events[k].kind \in PromiseKinds /\ events[k].subject = i}

AuditTrailMatchesState ==
  /\ \A i \in PromiseId :
       /\ {events[k].version : k \in TrailOf(i)} = 1 .. promises[i].version
       /\ \A k \in TrailOf(i) :
            /\ \A j \in TrailOf(i) : j < k => events[j].version < events[k].version
            /\ events[k].version = 1 => promises[i].created = events[k].seq
            /\ events[k].version = promises[i].version => promises[i].updated = events[k].seq
  /\ \A k \in DOMAIN events :
       LET before == IF k = 1 THEN 0 ELSE events[k - 1].seq IN
       events[k].seq = IF events[k].kind \in DeficitKinds THEN before ELSE before + 1
  /\ sequence = IF events = <<>> THEN 0 ELSE events[Len(events)].seq

\* Only a capacity revision may make the worst deficit of a pool worse.
DeficitsNeverDeepen ==
  [][reply'.tag # "CapacityRevised" =>
       \A p \in Pool, t \in Time :
         slack'[p][t] < 0 => \E s \in Time : slack[p][s] <= slack'[p][t]]_vars

\* "New holds cannot worsen a deficit": a new hold leaves every cell in deficit
\* at least as it was.
HoldsNeverWorsenDeficits ==
  [][reply'.tag \in HoldTags =>
       \A p \in Pool, t \in Time : slack'[p][t] < 0 => slack'[p][t] >= slack[p][t]]_vars

\* "Replace may retain negative slack only when the final value is no worse than
\* the previous value."
ReplacementsNeverWorsenDeficits ==
  [][reply'.tag = "PromiseReplaced" =>
       \A p \in Pool, t \in Time : slack'[p][t] < 0 => slack'[p][t] >= slack[p][t]]_vars

\* A first-slot hold takes the earliest anchor of its grid that fits, and
\* is refused as unavailable only if no anchor fits; the oracle decides what
\* fits, after the expirations of the command itself.
SlotHoldsTakeEarliestFit ==
  [][reply'.tag \in {"SlotHeld", "Unavailable"} =>
       \A i \in PromiseId, deadline \in Instant, q \in SlotQuery :
         HoldFirstSlot(i, q, deadline, reply'.at) =>
           LET grid == {a \in q.earliest .. q.latest : (a - q.earliest) % q.step = 0}
               Fits(a) == /\ q.at[a] # Unplaceable
                          /\ OracleAdmits(q.at[a], ExpiredPromises(reply'.at))
           IN  /\ reply'.tag = "SlotHeld" =>
                    /\ reply'.value \in grid
                    /\ Fits(reply'.value)
                    /\ \A a \in grid : a < reply'.value => ~Fits(a)
                    /\ promises'[i].bundle = q.at[reply'.value]
               /\ reply'.tag = "Unavailable" => \A a \in grid : ~Fits(a)]_vars

\* A choice takes the first of its alternatives that fits, in the client's order,
\* also when a hold that expires in the same command makes the room.
ChoicesTakeFirstFit ==
  [][reply'.tag \in {"ChoiceHeld", "Unavailable"} =>
       \A i \in PromiseId, deadline \in Instant, choice \in Choice :
         HoldOneOf(i, choice, deadline, reply'.at) =>
           LET Fits(k) == OracleAdmits(choice[k], ExpiredPromises(reply'.at))
           IN  /\ reply'.tag = "ChoiceHeld" =>
                    /\ Fits(reply'.value + 1)
                    /\ \A k \in 1 .. reply'.value : ~Fits(k)
                    /\ promises'[i].bundle = choice[reply'.value + 1]
               /\ reply'.tag = "Unavailable" => \A k \in DOMAIN choice : ~Fits(k)]_vars

\* Released and Expired are final, an expired hold was never committed, and a
\* promise that changes gains one version and a later sequence number.
LifecycleIsVersioned ==
  [][\A i \in PromiseId : promises'[i] # promises[i] =>
       /\ promises[i].state \notin {"Released", "Expired"}
       /\ promises'[i].state = "Expired" => promises[i].state = "Held"
       /\ promises'[i].version = promises[i].version + 1
       /\ promises'[i].updated > promises[i].updated
       /\ promises'[i].updated > sequence /\ promises'[i].updated <= sequence'
       /\ promises[i].state # "Absent" => promises'[i].created = promises[i].created]_vars

\* A command first expires the holds that are due at its timestamp, by deadline and
\* identity, each with a later sequence number than those before it.  If the numbers
\* run out, the holds that stay are the last of that order and the command fails;
\* else no hold is due after any command.
HoldsExpireInOrder ==
  [][LET now == reply'.at
         DueIn(ps) == {i \in PromiseId : ps[i].state = "Held" /\ ps[i].deadline <= now}
         Sooner(i, j) == \/ promises[i].deadline < promises[j].deadline
                         \/ promises[i].deadline = promises[j].deadline /\ i < j
         due == DueIn(promises)
         gone == {i \in due : promises'[i].state = "Expired"}
     IN  /\ DueIn(promises') = due \ gone
         /\ due # gone => reply'.tag = "SequenceOverflow" /\ sequence' = MaxSequence
         /\ \A i \in due, j \in gone :
              Sooner(i, j) => i \in gone /\ promises'[i].updated < promises'[j].updated]_vars

\* The promises in S make deficit d of pool p under a curve: in all of its cells they
\* take more than there is by its quantity, and each takes something in one of them.
MakeDeficit(S, ps, p, curve, d) ==
  /\ \A t \in d.from .. d.to - 1 :
       Total([i \in PromiseId |-> IF i \in S THEN Load(ps[i], p, t) ELSE 0]) - curve[t] = d.quantity
  /\ \A i \in S : \E t \in d.from .. d.to - 1 : Load(ps[i], p, t) > 0

\* A reader who knows the deficits of a pool and applies the deficit events of a
\* revision (a resolved deficit goes, a created or changed one replaces whatever
\* it overlaps) knows the deficits after the revision.  The promises an event names as
\* affected are those that make its deficit: under the new curve, or, if it is resolved,
\* the old one.
RevisionNoticesRebuildDeficits ==
  [][reply'.tag = "CapacityRevised" =>
       LET new == SubSeq(events', Len(events) + 1, Len(events'))
           About(kinds, p) == {new[k].deficit : k \in {j \in DOMAIN new :
                                  new[j].kind \in kinds /\ new[j].subject = p}}
       IN  \A p \in Pool :
             LET known == Deficits(RestoredSlack(reply'.at)[p])
                 gone == About({"DeficitResolved"}, p)
                 told == About({"DeficitCreated", "DeficitChanged"}, p)
             IN  /\ Deficits(slack'[p]) =
                      {d \in known \ gone : \A e \in told : ~Overlaps(d, e)} \union told
                 /\ \A k \in DOMAIN new :
                      new[k].kind \in DeficitKinds /\ new[k].subject = p =>
                        MakeDeficit(new[k].affected, promises', p,
                          IF new[k].kind = "DeficitResolved" THEN pools[p] ELSE pools'[p],
                          new[k].deficit)]_vars
=============================================================================
