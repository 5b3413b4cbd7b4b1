-------------------------- MODULE CoordinatorProofs --------------------------
(***************************************************************************)
(* Theorems about Coordinator: whatever the batches, failures and crashes, *)
(* the log, the idempotency records and the answers of clients agree, and  *)
(* the coordinator implements the service of ExactlyOnce.                  *)
(***************************************************************************)
EXTENDS Coordinator, PromiseEngineProofs

-----------------------------------------------------------------------------
(* What clients, the log and the idempotency records agree on.              *)

Entry == [hash : Operation, response : Response]
RecordTable == [Identity -> Entry \union {NoRecord}]

\* A table of the entities of S that changed.
Changes(S, V) == UNION {[T -> V] : T \in SUBSET S}

EngineState ==
  [pools : [Pool -> Curve \union {NoCurve}], slack : [Pool -> [Time -> Int]],
   promises : PromiseTable, sequence : 0 .. MaxSequence, events : Seq(Notice),
   records : RecordTable]

DurableItem ==
  [number : Nat, identity : Identity, hash : Operation, response : Response,
   pools : Changes(Pool, Curve \union {NoCurve}),
   promises : Changes(PromiseId, PromiseRecord \union {Absent}),
   events : Seq(Notice), final : 0 .. MaxSequence, after : EngineState]

\* VersionsFollowSequence, of a state that is not the candidate.
VersionsFollow(ps, seq) ==
  \A i \in DOMAIN ps : ps[i].state # "Absent" => ps[i].version <= ps[i].updated /\ ps[i].updated <= seq

CoordTypes ==
  /\ TypeInv
  /\ events \in Seq(Notice)
  /\ records \in RecordTable
  /\ published \in EngineState
  /\ VersionsFollow(published.promises, published.sequence)
  /\ deployment \in Deployments
  /\ phase \in {"Idle", "Preparing", "Appended", "Persisted", "Recovering"}
  /\ batch \in Seq(DurableItem)
  /\ log \in Seq(DurableItem)
  /\ answers \in Seq(Identity \X Response)
  /\ Len(batch) <= Len(answers) /\ Len(answers) <= MaxBatch
  /\ Len(log) <= MaxRecord
  /\ synced \in 0 .. Len(log)
  /\ nextRecord \in 1 .. Len(log) + 1
  /\ torn \in BOOLEAN /\ poisoned \in BOOLEAN

\* Promises whose records are in the log have versions in range.
LoggedVersions ==
  /\ \A k \in DOMAIN log : VersionsFollow(log[k].promises, log[k].final)
  /\ \A k \in DOMAIN batch : VersionsFollow(batch[k].promises, batch[k].final)

EntryOf(item) == [hash |-> item.hash, response |-> item.response]

\* A record with its number.
FrameOf(item, number) == [item EXCEPT !.number = number]

\* No identity occurs twice.
Once(items) == \A j, k \in DOMAIN items : items[j].identity = items[k].identity => j = k

\* The table keeps what the first n items say, and nothing else.
Keeps(table, items, n) ==
  /\ \A k \in 1 .. n : table[items[k].identity] = EntryOf(items[k])
  /\ \A i \in Identity : table[i] # NoRecord => \E k \in 1 .. n : items[k].identity = i

\* The candidate's table is the published one and what the batch adds to it.
BatchExtendsTable ==
  /\ Once(batch)
  /\ \A k \in DOMAIN batch : /\ published.records[batch[k].identity] = NoRecord
                             /\ records[batch[k].identity] = EntryOf(batch[k])
  /\ \A i \in Identity : published.records[i] # NoRecord => records[i] = published.records[i]
  /\ \A i \in Identity : records[i] # NoRecord =>
       published.records[i] # NoRecord \/ \E k \in DOMAIN batch : batch[k].identity = i

\* Answers are read from the candidate's table.
AnswersAreRecorded ==
  \A k \in DOMAIN answers : answers[k][2].tag # "IdempotencyConflict" =>
    /\ records[answers[k][1]] # NoRecord
    /\ answers[k][2] = records[answers[k][1]].response

\* Where recovery and apply_batch stand in the log.
PhaseInv ==
  /\ phase = "Recovering" =>
       /\ Keeps(records, log, nextRecord - 1)
       /\ batch = <<>> /\ answers = <<>> /\ ~poisoned
       /\ published = EmptyState
  /\ phase # "Recovering" =>
       /\ Keeps(published.records, log, nextRecord - 1)
       /\ BatchExtendsTable
       /\ AnswersAreRecorded
  /\ phase = "Idle" => batch = <<>> /\ answers = <<>>
  /\ phase \in {"Preparing", "Appended", "Persisted"} => ~poisoned
  /\ phase \in {"Idle", "Preparing"} /\ ~poisoned => Len(log) = nextRecord - 1
  /\ phase \in {"Appended", "Persisted"} =>
       /\ Len(log) = nextRecord - 1 + Len(batch)
       /\ \A k \in DOMAIN batch :
            log[nextRecord - 1 + k] = FrameOf(batch[k], nextRecord + k - 1)

CoordInv == CoordTypes /\ LoggedVersions /\ Once(log) /\ PhaseInv

Steady == deployment.durability = "Sync" /\ "Process" \notin deployment.crashes
SyncInv ==
  Steady => /\ phase \in {"Recovering", "Persisted"} => synced = Len(log)
            /\ phase # "Recovering" => synced >= nextRecord - 1

ToldInv ==
  \A answer \in told :
    \E k \in 1 .. (IF "Power" \in deployment.crashes THEN synced ELSE Len(log)) :
      answer = <<log[k].identity, log[k].response>>

-----------------------------------------------------------------------------
(* What the coordinator uses of the engine.                                 *)

\* apply_once dispatches to the handlers of the engine.
LEMMA CommandIsStep ==
  ASSUME NEW op \in Operation, NEW now \in Instant, ApplyOnce(op, now)
  PROVE  Next
<1>1. CASE op.name = "CreateResourcePool"
  <2>1. op.pool \in Pool /\ op.curve \in Curve
    BY <1>1 DEF Operation
  <2> QED BY <1>1, <2>1 DEF ApplyOnce, Next
<1>2. CASE op.name = "ReviseCapacity"
  <2>1. op.pool \in Pool /\ op.curve \in Curve /\ op.mode \in {"Strict", "Force"}
    BY <1>2 DEF Operation
  <2> QED BY <1>2, <2>1 DEF ApplyOnce, Next
<1>3. CASE op.name = "Hold"
  <2>1. op.promise \in PromiseId /\ op.bundle \in Bundle /\ op.deadline \in Instant
    BY <1>3 DEF Operation
  <2> QED BY <1>3, <2>1 DEF ApplyOnce, Next
<1>4. CASE op.name = "HoldOneOf"
  <2>1. op.promise \in PromiseId /\ op.choice \in Choice /\ op.deadline \in Instant
    BY <1>4 DEF Operation
  <2> QED BY <1>4, <2>1 DEF ApplyOnce, Next
<1>5. CASE op.name = "HoldFirstSlot"
  <2>1. op.promise \in PromiseId /\ op.query \in SlotQuery /\ op.deadline \in Instant
    BY <1>5 DEF Operation
  <2> QED BY <1>5, <2>1 DEF ApplyOnce, Next
<1>6. CASE op.name \in {"Commit", "Release"}
  <2>1. op.promise \in PromiseId /\ op.version \in Version
    BY <1>6 DEF Operation
  <2> QED BY <1>6, <2>1 DEF ApplyOnce, Next
<1>7. CASE op.name = "Replace"
  <2>1. op.promise \in PromiseId /\ op.version \in Version /\ op.bundle \in Bundle
        /\ op.target \in ReplacementState
    BY <1>7 DEF Operation
  <2> QED BY <1>7, <2>1 DEF ApplyOnce, Next
<1>8. CASE op.name = "ProcessExpirations"
  BY <1>8 DEF ApplyOnce, Next
<1> QED BY <1>1, <1>2, <1>3, <1>4, <1>5, <1>6, <1>7, <1>8 DEF ApplyOnce

\* The response of a handler is a response.
Answered(now) ==
  \E tag \in ResponseTag, value \in Int : reply' = [tag |-> tag, value |-> value, at |-> now]

\* A refusal is answered with its kind and one number.
LEMMA RejectAnswers ==
  ASSUME NEW now, NEW tag \in ResponseTag, NEW value \in Int, Reject(tag, value, now)
  PROVE  Answered(now)
BY DEF Reject, Answer, Answered

\* What admission says of a candidate is the kind of a response.
LEMMA VerdictIsTag ==
  ASSUME NEW b, NEW sl
  PROVE  /\ Verdict(b, sl) # "Available" => Verdict(b, sl) \in ResponseTag
         /\ FirstError(b) \in ResponseTag
<1>1. /\ FirstError(b) = "QuantityOverflow" \/ FirstError(b) = "ResourcePoolNotFound"
      /\ \/ Verdict(b, sl) = "TimestampOverflow" \/ Verdict(b, sl) = FirstError(b)
         \/ Verdict(b, sl) = "Available" \/ Verdict(b, sl) = "Unavailable"
  BY DEF Verdict, FirstError
<1>2. /\ "QuantityOverflow" \in ResponseTag /\ "ResourcePoolNotFound" \in ResponseTag
      /\ "TimestampOverflow" \in ResponseTag /\ "Unavailable" \in ResponseTag
  BY DEF ResponseTag, HoldTags
<1> QED BY <1>1, <1>2

\* The commands that end in accept_hold answer.
LEMMA HoldFirstAnswers ==
  ASSUME NEW i \in PromiseId, NEW candidates, NEW deadline, NEW tag \in ResponseTag, NEW values,
         NEW now, Len(candidates) \in Int,
         \A k \in DOMAIN candidates : values[k] \in Int,
         HoldFirst(i, candidates, deadline, tag, values, now)
  PROVE  Answered(now)
<1>1. ASSUME Reject("Unavailable", Len(candidates), now) PROVE Answered(now)
  <2>1. "Unavailable" \in ResponseTag
    BY DEF ResponseTag, HoldTags
  <2> QED BY <1>1, <2>1, RejectAnswers
<1>2. ASSUME NEW k \in DOMAIN candidates, AcceptHold(i, candidates[k], deadline, tag, values[k], now)
      PROVE  Answered(now)
  <2>1. ASSUME Reject("SequenceOverflow", 0, now) PROVE Answered(now)
    <3>1. "SequenceOverflow" \in ResponseTag
      BY DEF ResponseTag, HoldTags
    <3> QED BY <2>1, <3>1, RejectAnswers
  <2>2. ASSUME Answer(tag, values[k], now) PROVE Answered(now)
    BY <2>2 DEF Answer, Answered
  <2> QED BY <1>2, <2>1, <2>2 DEF AcceptHold
<1>3. ASSUME NEW k \in DOMAIN candidates, Verdict(candidates[k], RestoredSlack(now)) # "Available",
             Reject(Verdict(candidates[k], RestoredSlack(now)), 0, now)
      PROVE  Answered(now)
  BY <1>3, RejectAnswers, VerdictIsTag
<1> QED BY <1>1, <1>2, <1>3 DEF HoldFirst

\* Refusals with a kind alone.
LEMMA PlainRefusals ==
  ASSUME NEW now
  PROVE  \A tag \in {"SequenceOverflow", "ResourcePoolAlreadyExists", "ResourcePoolNotFound",
                     "IndexOverflow", "CapacityRevisionCreatesDeficit", "PromiseAlreadyExists",
                     "InvalidExpiration", "InvalidSearchRange", "InvalidStep",
                     "PromiseNotFound", "HoldExpired", "VersionConflict",
                     "InvalidPromiseState"} :
           Reject(tag, 0, now) => Answered(now)
<1>1. \A tag \in {"SequenceOverflow", "ResourcePoolAlreadyExists", "ResourcePoolNotFound",
                  "IndexOverflow", "CapacityRevisionCreatesDeficit", "PromiseAlreadyExists",
                  "InvalidExpiration", "InvalidSearchRange", "InvalidStep",
                  "PromiseNotFound", "HoldExpired", "VersionConflict",
                  "InvalidPromiseState"} : tag \in ResponseTag
  BY DEF ResponseTag, HoldTags
<1>2. 0 \in Int
  OBVIOUS
<1> QED BY <1>1, <1>2, RejectAnswers

\* Every handler ends in a response.
LEMMA NextAnswers ==
  ASSUME TypeInv, Next
  PROVE  [tag |-> reply'.tag, value |-> reply'.value] \in Response
<1> SUFFICES ASSUME NEW now \in Instant,
        \/ \E p \in Pool, curve \in Curve :
             \/ CreateResourcePool(p, curve, now)
             \/ \E mode \in {"Strict", "Force"} : ReviseCapacity(p, curve, mode, now)
        \/ \E i \in PromiseId, deadline \in Instant :
             \/ \E b \in Bundle : Hold(i, b, deadline, now)
             \/ \E choice \in Choice : HoldOneOf(i, choice, deadline, now)
             \/ \E q \in SlotQuery : HoldFirstSlot(i, q, deadline, now)
        \/ \E i \in PromiseId, version \in Version :
             \/ Commit(i, version, now)
             \/ Release(i, version, now)
             \/ \E b \in Bundle, target \in ReplacementState :
                  Replace(i, version, b, target, now)
        \/ ProcessExpirations(now)
      PROVE  Answered(now)
  BY DEF Next, Answered, Response
<1>1. RecordInv
  BY TypeInvFacts
<1>2. \A tag \in ResponseTag, value \in Int : Answer(tag, value, now) => Answered(now)
  BY DEF Answer, Answered
<1>3. ExpiryOverflows(now) => Answered(now)
  BY PlainRefusals DEF ExpiryOverflows
<1>4. ASSUME NEW p \in Pool, NEW curve \in Curve, CreateResourcePool(p, curve, now)
      PROVE  Answered(now)
  <2>1. "ResourcePoolCreated" \in ResponseTag
    BY DEF ResponseTag, HoldTags
  <2> QED BY <1>2, <1>3, <1>4, <2>1, PlainRefusals DEF CreateResourcePool
<1>5. ASSUME NEW p \in Pool, NEW curve \in Curve, NEW mode \in {"Strict", "Force"},
             ReviseCapacity(p, curve, mode, now)
      PROVE  Answered(now)
  <2>1. "CapacityRevised" \in ResponseTag
    BY DEF ResponseTag, HoldTags
  <2>2. SequenceLeft(now) => NextSequence(now) \in Int
    BY <1>1, NextSequenceTyped, CountsAreNatural
  <2> QED BY <1>2, <1>3, <1>5, <2>1, <2>2, PlainRefusals DEF ReviseCapacity
<1>6. ASSUME NEW i \in PromiseId, NEW deadline \in Instant, HoldRefused(i, deadline, now)
      PROVE  Answered(now)
  BY <1>6, PlainRefusals DEF HoldRefused
<1>7. "Held" \in ResponseTag /\ "ChoiceHeld" \in ResponseTag /\ "SlotHeld" \in ResponseTag
  BY DEF ResponseTag, HoldTags
<1>8. ASSUME NEW i \in PromiseId, NEW deadline \in Instant, NEW b \in Bundle,
             Hold(i, b, deadline, now)
      PROVE  Answered(now)
  <2>1. HoldFirst(i, <<b>>, deadline, "Held", <<0>>, now) => Answered(now)
    BY <1>7, HoldFirstAnswers
  <2> QED BY <1>3, <1>6, <1>8, <2>1 DEF Hold
<1>9. ASSUME NEW i \in PromiseId, NEW deadline \in Instant, NEW choice \in Choice,
             HoldOneOf(i, choice, deadline, now)
      PROVE  Answered(now)
  <2> DEFINE values == [k \in DOMAIN choice |-> k - 1]
  <2>1. Len(choice) \in Nat /\ DOMAIN choice = 1 .. Len(choice)
    BY CandidatesAreBundles
  <2>2. \A k \in DOMAIN choice : values[k] \in Int
    BY <2>1
  <2> HIDE DEF values
  <2>3. HoldFirst(i, choice, deadline, "ChoiceHeld", values, now) => Answered(now)
    BY <1>7, <2>1, <2>2, HoldFirstAnswers
  <2> QED BY <1>3, <1>6, <1>9, <2>3 DEF HoldOneOf, values
<1>10. ASSUME NEW i \in PromiseId, NEW deadline \in Instant, NEW q \in SlotQuery,
              HoldFirstSlot(i, q, deadline, now)
       PROVE  Answered(now)
  <2> DEFINE candidates == SlotCandidates(q)
             values == [k \in DOMAIN candidates |-> Anchor(q, k)]
  <2>1. q.earliest \in Int /\ q.latest \in Int /\ q.step \in Int
    BY CandidatesAreBundles
  <2>2. ASSUME q.earliest <= q.latest, q.step > 0
        PROVE  /\ Len(candidates) \in Int
               /\ \A k \in DOMAIN candidates : values[k] \in Int
    <3> DEFINE n == ((q.latest - q.earliest) \div q.step) + 1
    <3>1. n \in Nat
      BY <2>1, <2>2
    <3>2. Len(candidates) = n /\ DOMAIN candidates = 1 .. n
      <4>1. candidates = [k \in 1 .. n |-> q.at[Anchor(q, k)]]
        BY DEF SlotCandidates
      <4> HIDE DEF n, candidates
      <4>2. candidates \in [1 .. n -> {candidates[k] : k \in 1 .. n}]
        BY <4>1
      <4> QED BY <3>1, <4>2, RowIsSequence
    <3>3. ASSUME NEW k \in 1 .. n PROVE Anchor(q, k) \in Int
      <4>1. k - 1 \in Int
        BY <3>1
      <4>2. (k - 1) * q.step \in Int
        BY <2>1, <4>1
      <4> QED BY <2>1, <4>2 DEF Anchor
    <3> HIDE DEF n, candidates
    <3> QED BY <3>1, <3>2, <3>3
  <2> HIDE DEF candidates, values
  <2>3. q.earliest <= q.latest /\ q.step > 0
        /\ HoldFirst(i, candidates, deadline, "SlotHeld", values, now) => Answered(now)
    BY <1>7, <2>2, HoldFirstAnswers
  <2> QED BY <1>3, <1>6, <1>10, <2>3, PlainRefusals DEF HoldFirstSlot, candidates, values
<1>11. ASSUME NEW i \in PromiseId, NEW version, NEW states, TransitionRefused(i, version, states, now)
       PROVE  Answered(now)
  BY <1>11, PlainRefusals DEF TransitionRefused
<1>12. ASSUME NEW i \in PromiseId, NEW next, NEW sl, NEW kind \in ResponseTag, next.version \in Int,
              PublishTransition(i, next, sl, kind, now)
       PROVE  Answered(now)
  BY <1>2, <1>12 DEF PublishTransition
<1>13. ASSUME NEW i \in PromiseId, SequenceLeft(now), Active(ExpiredPromises(now)[i])
       PROVE  ExpiredPromises(now)[i].version \in Int
  <2>1. ExpiredPromises(now)[i] \in PromiseRecord
    BY <1>1, <1>13, ActiveHasRecord
  <2> QED BY <2>1, CountsAreNatural DEF PromiseRecord
<1>14. "HoldCommitted" \in ResponseTag /\ "PromiseReleased" \in ResponseTag /\ "PromiseReplaced" \in ResponseTag
       /\ "Unavailable" \in ResponseTag /\ "ExpirationsProcessed" \in ResponseTag
  BY DEF ResponseTag, HoldTags
<1>15. ASSUME NEW i \in PromiseId, NEW version \in Version, Commit(i, version, now)
       PROVE  Answered(now)
  <2>1. ASSUME SequenceLeft(now), ExpiredPromises(now)[i].state = "Held"
        PROVE  Advance(ExpiredPromises(now)[i], "Committed", now).version \in Int
    BY <1>13, <2>1 DEF Active, Advance, NextVersion
  <2> QED BY <1>3, <1>11, <1>12, <1>14, <1>15, <2>1 DEF Commit
<1>16. ASSUME NEW i \in PromiseId, NEW version \in Version, Release(i, version, now)
       PROVE  Answered(now)
  <2>1. ASSUME SequenceLeft(now), Active(ExpiredPromises(now)[i])
        PROVE  Advance(ExpiredPromises(now)[i], "Released", now).version \in Int
    BY <1>13, <2>1 DEF Advance, NextVersion
  <2> QED BY <1>3, <1>11, <1>12, <1>14, <1>16, <2>1 DEF Release
<1>17. ASSUME NEW i \in PromiseId, NEW version \in Version, NEW b \in Bundle,
              NEW target \in ReplacementState, Replace(i, version, b, target, now)
       PROVE  Answered(now)
  <2>1. ReplaceRefused(i, version, target, now) => Answered(now)
    BY PlainRefusals DEF ReplaceRefused
  <2>2. Reject(FirstError(b), 0, now) => Answered(now)
    BY RejectAnswers, VerdictIsTag
  <2>3. Reject("Unavailable", 1, now) => Answered(now)
    BY <1>14, RejectAnswers
  <2>4. ASSUME SequenceLeft(now), Active(ExpiredPromises(now)[i])
        PROVE  NextVersion(ExpiredPromises(now)[i], target.state, target.deadline, b,
                           NextSequence(now)).version \in Int
    BY <1>13, <2>4 DEF NextVersion
  <2> QED BY <1>3, <1>12, <1>14, <1>17, <2>1, <2>2, <2>3, <2>4 DEF Replace
<1>18. ASSUME ProcessExpirations(now) PROVE Answered(now)
  <2>1. Cardinality(Due(now)) \in Int
    <3>1. IsFiniteSet(Due(now))
      BY <1>1, ExpirationsAreNumbered DEF RecordInv
    <3> QED BY <3>1, FS_CardinalityType
  <2> QED BY <1>3, <1>14, <1>18, <2>1, RejectAnswers DEF ProcessExpirations
<1> QED BY <1>4, <1>5, <1>8, <1>9, <1>10, <1>15, <1>16, <1>17, <1>18

-----------------------------------------------------------------------------
(* The log and the tables.                                                  *)

\* A record that gets its number keeps everything else.
LEMMA FramedItem ==
  ASSUME NEW item \in DurableItem, NEW n \in Nat
  PROVE  LET framed == FrameOf(item, n) IN
         /\ framed \in DurableItem
         /\ framed.number = n
         /\ framed.identity = item.identity /\ framed.hash = item.hash
         /\ framed.response = item.response
         /\ framed.pools = item.pools /\ framed.promises = item.promises
         /\ framed.events = item.events /\ framed.final = item.final
         /\ framed.after = item.after
<1> DEFINE C == Changes(Pool, Curve \union {NoCurve})
           D == Changes(PromiseId, PromiseRecord \union {Absent})
<1> HIDE DEF C, D
<1>1. DurableItem = [number : Nat, identity : Identity, hash : Operation, response : Response,
                     pools : C, promises : D, events : Seq(Notice), final : 0 .. MaxSequence,
                     after : EngineState]
  BY DEF DurableItem, C, D
<1> QED BY <1>1 DEF FrameOf

\* The log grew by the first n items of the batch.
GrownBy(n) ==
  /\ log' \in Seq(DurableItem) /\ Len(log') = Len(log) + n
  /\ \A k \in 1 .. Len(log) : log'[k] = log[k]
  /\ \A k \in 1 .. n : log'[Len(log) + k] = FrameOf(batch[k], nextRecord + k - 1)

\* The frames of a batch are items.
LEMMA FramedTyped ==
  ASSUME CoordTypes
  PROVE  /\ Framed \in Seq(DurableItem) /\ Len(Framed) = Len(batch)
         /\ \A k \in 1 .. Len(batch) :
              Framed[k] = FrameOf(batch[k], nextRecord + k - 1)
<1>1. /\ batch \in Seq(DurableItem) /\ Len(batch) \in Nat /\ DOMAIN batch = 1 .. Len(batch)
      /\ nextRecord \in Nat /\ nextRecord >= 1
  <2>1. log \in Seq(DurableItem) /\ Len(log) \in Nat
    BY DEF CoordTypes
  <2> QED BY <2>1 DEF CoordTypes
<1>2. ASSUME NEW k \in 1 .. Len(batch)
      PROVE  FrameOf(batch[k], nextRecord + k - 1) \in DurableItem
  <2>1. batch[k] \in DurableItem /\ nextRecord + k - 1 \in Nat
    BY <1>1
  <2> QED BY <2>1, FramedItem
<1>3. Framed \in [1 .. Len(batch) -> DurableItem]
  BY <1>1, <1>2 DEF Framed, FrameOf
<1>4. \A k \in 1 .. Len(batch) : Framed[k] = FrameOf(batch[k], nextRecord + k - 1)
  BY <1>1 DEF Framed, FrameOf
<1> HIDE DEF Framed
<1> QED BY <1>1, <1>3, <1>4, RowIsSequence

\* An append that stopped after n items.
LEMMA PartialAppendGrows ==
  ASSUME CoordTypes, NEW n \in 0 .. Len(batch), log' = log \o SubSeq(Framed, 1, n)
  PROVE  GrownBy(n)
<1> DEFINE part == SubSeq(Framed, 1, n)
<1>1. /\ log \in Seq(DurableItem) /\ Len(log) \in Nat /\ Len(batch) \in Nat /\ n \in Nat
      /\ DOMAIN log = 1 .. Len(log)
  BY DEF CoordTypes
<1>2. /\ part \in Seq(DurableItem) /\ Len(part) = n
      /\ \A k \in 1 .. n : part[k] = FrameOf(batch[k], nextRecord + k - 1)
  <2>1. /\ Framed \in Seq(DurableItem) /\ Len(Framed) = Len(batch)
        /\ \A k \in 1 .. Len(batch) :
             Framed[k] = FrameOf(batch[k], nextRecord + k - 1)
    BY FramedTyped
  <2>2. /\ part \in Seq(DurableItem) /\ Len(part) = n
        /\ \A k \in 1 .. n : part[k] = Framed[k]
    <3> HIDE DEF Framed
    <3>1. Len(part) = n /\ \A k \in 1 .. n : part[k] = Framed[1 + k - 1]
      BY <1>1, <2>1, SubSeqProperties
    <3>2. \A k \in 1 .. n : 1 + k - 1 = k
      BY <1>1
    <3> QED BY <1>1, <2>1, <3>1, <3>2, SubSeqProperties
  <2> QED BY <1>1, <2>1, <2>2
<1> HIDE DEF part
<1>3. /\ log' \in Seq(DurableItem) /\ Len(log') = Len(log) + n
      /\ \A k \in 1 .. Len(log) + n : log'[k] = IF k <= Len(log) THEN log[k] ELSE part[k - Len(log)]
  <2>1. log' = log \o part
    BY DEF part
  <2> DEFINE whole == log \o part
  <2>2. /\ whole \in Seq(DurableItem) /\ Len(whole) = Len(log) + Len(part)
        /\ \A k \in 1 .. Len(log) + Len(part) :
             whole[k] = IF k <= Len(log) THEN log[k] ELSE part[k - Len(log)]
    BY <1>1, <1>2, ConcatProperties
  <2> HIDE DEF whole
  <2>3. log' = whole
    BY <2>1 DEF whole
  <2> QED BY <1>2, <2>2, <2>3
<1>4. \A k \in 1 .. n : log'[Len(log) + k] = part[k]
  <2> SUFFICES ASSUME NEW k \in 1 .. n PROVE log'[Len(log) + k] = part[k]
    OBVIOUS
  <2> DEFINE j == Len(log) + k
  <2>1. j \in 1 .. Len(log) + n /\ ~(j <= Len(log)) /\ j - Len(log) = k
    BY <1>1
  <2> HIDE DEF j
  <2>2. log'[j] = part[k]
    BY <1>3, <2>1
  <2> QED BY <2>2 DEF j
<1> QED BY <1>1, <1>2, <1>3, <1>4 DEF GrownBy

\* An append that completed.
LEMMA AppendGrows ==
  ASSUME CoordTypes, log' = log \o Framed
  PROVE  GrownBy(Len(batch))
<1>1. /\ Framed \in Seq(DurableItem) /\ Len(Framed) = Len(batch) /\ Len(batch) \in Nat
  BY FramedTyped DEF CoordTypes
<1>2. SubSeq(Framed, 1, Len(batch)) = Framed
  <2> HIDE DEF Framed
  <2>1. SubSeq(Framed, 1, Len(batch)) \in Seq(DurableItem)
        /\ Len(SubSeq(Framed, 1, Len(batch))) = Len(batch)
        /\ \A k \in 1 .. Len(batch) : SubSeq(Framed, 1, Len(batch))[k] = Framed[k]
    BY <1>1
  <2> QED BY <1>1, <2>1, SeqEqual
<1>3. Len(batch) \in 0 .. Len(batch)
  BY <1>1
<1> QED BY <1>2, <1>3, PartialAppendGrows

\* However much of a batch an append wrote, the log has no identity twice and still
\* fits its record sequences.
LEMMA GrownLog ==
  ASSUME CoordInv, phase = "Preparing", HasRecordSequences,
         NEW n \in 0 .. Len(batch), GrownBy(n)
  PROVE  /\ Once(log')
         /\ Len(log') <= MaxRecord
         /\ \A k \in DOMAIN log' : VersionsFollow(log'[k].promises, log'[k].final)
<1>1. /\ Len(log) \in Nat /\ Len(batch) \in Nat /\ n \in Nat /\ n <= Len(batch)
      /\ DOMAIN log = 1 .. Len(log) /\ DOMAIN batch = 1 .. Len(batch)
      /\ DOMAIN log' = 1 .. Len(log) + n
      /\ nextRecord \in Nat /\ Len(log) = nextRecord - 1 /\ MaxRecord \in Nat
      /\ batch \in Seq(DurableItem) /\ log \in Seq(DurableItem)
      /\ Once(log) /\ BatchExtendsTable /\ Keeps(published.records, log, nextRecord - 1)
  <2>1. batch \in Seq(DurableItem) /\ log \in Seq(DurableItem) /\ log' \in Seq(DurableItem)
    BY DEF CoordInv, CoordTypes, GrownBy
  <2> QED BY <2>1, CoordinatorConstants DEF CoordInv, CoordTypes, PhaseInv, GrownBy
<1>2. ASSUME NEW k \in 1 .. n
      PROVE  /\ batch[k] \in DurableItem
             /\ log'[Len(log) + k].identity = batch[k].identity
             /\ log'[Len(log) + k].promises = batch[k].promises
             /\ log'[Len(log) + k].final = batch[k].final
  <2>1. batch[k] \in DurableItem /\ nextRecord + k - 1 \in Nat
    BY <1>1
  <2>2. log'[Len(log) + k] = FrameOf(batch[k], nextRecord + k - 1)
    BY DEF GrownBy
  <2>3. /\ FrameOf(batch[k], nextRecord + k - 1).identity = batch[k].identity
        /\ FrameOf(batch[k], nextRecord + k - 1).promises = batch[k].promises
        /\ FrameOf(batch[k], nextRecord + k - 1).final = batch[k].final
    BY <2>1, FramedItem
  <2> QED BY <2>1, <2>2, <2>3
<1>3. \A k \in 1 .. Len(log) : log'[k] = log[k]
  BY DEF GrownBy
<1>4. ASSUME NEW k \in DOMAIN log'
      PROVE  k \in 1 .. Len(log) \/ (k - Len(log) \in 1 .. n /\ Len(log) + (k - Len(log)) = k)
  BY <1>1
<1>5. ASSUME NEW j \in 1 .. Len(log), NEW k \in 1 .. n
      PROVE  log'[j].identity # log'[Len(log) + k].identity
  <2>1. published.records[log[j].identity] = EntryOf(log[j])
    BY <1>1 DEF Keeps
  <2>2. EntryOf(log[j]) # NoRecord
    <3>1. log[j] \in DurableItem
      BY <1>1
    <3>2. log[j].hash \in Operation /\ log[j].response \in Response
      BY <3>1 DEF DurableItem
    <3>3. EntryOf(log[j]) \in Entry
      BY <3>2 DEF EntryOf, Entry
    <3> QED BY <3>3, RequestsAreCommands DEF Entry
  <2>3. published.records[batch[k].identity] = NoRecord
    BY <1>1 DEF BatchExtendsTable
  <2> QED BY <1>2, <1>3, <2>1, <2>2, <2>3
<1>6. ASSUME NEW j \in DOMAIN log', NEW k \in DOMAIN log', log'[j].identity = log'[k].identity
      PROVE  j = k
  <2>1. CASE j \in 1 .. Len(log) /\ k \in 1 .. Len(log)
    BY <1>1, <1>3, <1>6, <2>1 DEF Once
  <2>2. CASE j \in 1 .. Len(log) /\ k \notin 1 .. Len(log)
    <3>1. k - Len(log) \in 1 .. n /\ Len(log) + (k - Len(log)) = k
      BY <1>4, <2>2
    <3>2. log'[j].identity # log'[Len(log) + (k - Len(log))].identity
      BY <1>5, <2>2, <3>1
    <3> QED BY <1>6, <3>1, <3>2
  <2>3. CASE j \notin 1 .. Len(log) /\ k \in 1 .. Len(log)
    <3>1. j - Len(log) \in 1 .. n /\ Len(log) + (j - Len(log)) = j
      BY <1>4, <2>3
    <3>2. log'[k].identity # log'[Len(log) + (j - Len(log))].identity
      BY <1>5, <2>3, <3>1
    <3> QED BY <1>6, <3>1, <3>2
  <2>4. CASE j \notin 1 .. Len(log) /\ k \notin 1 .. Len(log)
    <3>1. /\ j - Len(log) \in 1 .. n /\ Len(log) + (j - Len(log)) = j
          /\ k - Len(log) \in 1 .. n /\ Len(log) + (k - Len(log)) = k
      BY <1>4, <2>4
    <3>2. batch[j - Len(log)].identity = batch[k - Len(log)].identity
      BY <1>2, <1>6, <3>1
    <3>3. j - Len(log) \in DOMAIN batch /\ k - Len(log) \in DOMAIN batch
      BY <1>1, <3>1
    <3>4. j - Len(log) = k - Len(log)
      BY <1>1, <3>2, <3>3 DEF BatchExtendsTable, Once
    <3> QED BY <1>1, <3>1, <3>4
  <2> QED BY <2>1, <2>2, <2>3, <2>4
<1>7. Len(log') <= MaxRecord
  <2>1. Len(log') = Len(log) + n
    BY DEF GrownBy
  <2> QED BY <1>1, <2>1 DEF HasRecordSequences
<1>8. ASSUME NEW k \in DOMAIN log' PROVE VersionsFollow(log'[k].promises, log'[k].final)
  <2>1. CASE k \in 1 .. Len(log)
    BY <1>1, <1>3, <2>1 DEF CoordInv, LoggedVersions
  <2>2. CASE k \notin 1 .. Len(log)
    <3>1. k - Len(log) \in 1 .. n /\ Len(log) + (k - Len(log)) = k
      BY <1>4, <2>2
    <3>2. /\ log'[k].promises = batch[k - Len(log)].promises
          /\ log'[k].final = batch[k - Len(log)].final
      BY <1>2, <3>1
    <3>3. k - Len(log) \in DOMAIN batch
      BY <1>1, <3>1
    <3> QED BY <3>2, <3>3 DEF CoordInv, LoggedVersions
  <2> QED BY <2>1, <2>2
<1> QED BY <1>6, <1>7, <1>8 DEF Once

-----------------------------------------------------------------------------
(* Candidates that are thrown away.                                         *)

\* A database that was never written to.
LEMMA EmptyStateTyped ==
  /\ EmptyState \in EngineState
  /\ VersionsFollow(EmptyState.promises, EmptyState.sequence)
  /\ EmptyState.records = [i \in Identity |-> NoRecord]
<1>1. [p \in Pool |-> [t \in Time |-> 0]] \in [Pool -> [Time -> Int]]
  OBVIOUS
<1>2. [i \in PromiseId |-> Absent] \in PromiseTable
  BY DEF PromiseTable
<1>3. [i \in Identity |-> NoRecord] \in RecordTable
  BY DEF RecordTable
<1>4. 0 \in 0 .. MaxSequence /\ <<>> \in Seq(Notice)
  BY CountsAreNatural
<1>5. [p \in Pool |-> NoCurve] \in [Pool -> Curve \union {NoCurve}]
  OBVIOUS
<1>6. EmptyState \in EngineState
  BY <1>1, <1>2, <1>3, <1>4, <1>5 DEF EmptyState, EngineState
<1>7. /\ EmptyState.promises = [i \in PromiseId |-> Absent]
      /\ EmptyState.records = [i \in Identity |-> NoRecord]
  BY DEF EmptyState
<1>8. \A i \in PromiseId : [j \in PromiseId |-> Absent][i].state = "Absent"
  BY DEF Absent
<1> QED BY <1>6, <1>7, <1>8 DEF VersionsFollow

\* Throwing the candidate away for a good state leaves a good candidate.
LEMMA ResumeTyped ==
  ASSUME NEW st \in EngineState, VersionsFollow(st.promises, st.sequence), Resume(st)
  PROVE  /\ TypeInv' /\ events' \in Seq(Notice)
         /\ records' = st.records /\ records' \in RecordTable
<1>1. /\ st.pools \in [Pool -> Curve \union {NoCurve}] /\ st.slack \in [Pool -> [Time -> Int]]
      /\ st.promises \in PromiseTable /\ st.sequence \in 0 .. MaxSequence
      /\ st.events \in Seq(Notice) /\ st.records \in RecordTable
  BY DEF EngineState
<1>2. reply'.at = 0 /\ forced' = {}
  BY DEF Resume, NoReply
<1>3. TypeOK'
  BY <1>1, <1>2 DEF Resume, TypeOK, PromiseTable
<1>4. DOMAIN st.promises = PromiseId
  BY <1>1 DEF PromiseTable
<1>5. VersionsFollowSequence'
  BY <1>4 DEF Resume, VersionsFollowSequence, VersionsFollow
<1> QED BY <1>1, <1>3, <1>5 DEF Resume, TypeInv

\* An empty table keeps what no items say.
LEMMA EmptyTableKeeps ==
  ASSUME NEW items
  PROVE  Keeps([i \in Identity |-> NoRecord], items, 0)
BY DEF Keeps

\* What a table keeps of the first n items does not depend on later ones.
LEMMA KeepsPrefix ==
  ASSUME NEW table, NEW items, NEW others, NEW n \in Int,
         \A k \in 1 .. n : others[k] = items[k], Keeps(table, items, n)
  PROVE  Keeps(table, others, n)
BY DEF Keeps

\* What every step that ends with the candidate dropped for the published state leaves.
LEMMA DroppedCandidate ==
  ASSUME CoordInv, phase # "Recovering", Resume(published), EndBatch,
         published' = published, nextRecord' = nextRecord, deployment' = deployment,
         Keeps(published.records, log', nextRecord - 1),
         ~poisoned' => Len(log') = nextRecord - 1,
         log' \in Seq(DurableItem), Len(log') >= Len(log), Len(log') <= MaxRecord, Once(log'),
         \A k \in DOMAIN log' : VersionsFollow(log'[k].promises, log'[k].final),
         synced' = synced, torn' \in BOOLEAN, poisoned' \in BOOLEAN
  PROVE  CoordInv'
<1>1. /\ published \in EngineState /\ VersionsFollow(published.promises, published.sequence)
      /\ deployment \in Deployments /\ Len(log) \in Nat /\ Len(log') \in Nat
      /\ synced \in 0 .. Len(log) /\ nextRecord \in 1 .. Len(log) + 1
  <2>1. log \in Seq(DurableItem)
    BY DEF CoordInv, CoordTypes
  <2> QED BY <2>1 DEF CoordInv, CoordTypes
<1>2. /\ TypeInv' /\ events' \in Seq(Notice)
      /\ records' = published.records /\ records' \in RecordTable
  BY <1>1, ResumeTyped
<1>3. synced' \in 0 .. Len(log') /\ nextRecord' \in 1 .. Len(log') + 1
  BY <1>1
<1>4. phase' = "Idle" /\ batch' = <<>> /\ answers' = <<>>
  BY DEF EndBatch
<1>5. /\ batch' \in Seq(DurableItem) /\ answers' \in Seq(Identity \X Response)
      /\ Len(batch') = 0 /\ Len(answers') = 0 /\ 0 <= MaxBatch
      /\ DOMAIN batch' = {} /\ DOMAIN answers' = {}
  BY <1>4, CoordinatorConstants
<1>6. CoordTypes'
  BY <1>1, <1>2, <1>3, <1>4, <1>5 DEF CoordTypes
<1>7. LoggedVersions'
  BY <1>5 DEF LoggedVersions
<1>8. BatchExtendsTable' /\ AnswersAreRecorded'
  BY <1>2, <1>5 DEF BatchExtendsTable, AnswersAreRecorded, Once
<1>9. PhaseInv'
  BY <1>2, <1>4, <1>8 DEF PhaseInv
<1> QED BY <1>6, <1>7, <1>9 DEF CoordInv

\* What every crash leaves.
LEMMA Stopped ==
  ASSUME CoordInv, Stop, log' \in Seq(DurableItem), Len(log') <= MaxRecord, Once(log'),
         \A k \in DOMAIN log' : VersionsFollow(log'[k].promises, log'[k].final),
         synced' \in 0 .. Len(log'), torn' \in BOOLEAN
  PROVE  CoordInv'
<1>1. /\ TypeInv' /\ events' \in Seq(Notice)
      /\ records' = EmptyState.records /\ records' \in RecordTable
  BY EmptyStateTyped, ResumeTyped DEF Stop
<1>2. /\ phase' = "Recovering" /\ batch' = <<>> /\ answers' = <<>> /\ nextRecord' = 1
      /\ poisoned' = FALSE /\ published' = EmptyState /\ deployment' = deployment
  BY DEF Stop
<1>3. /\ batch' \in Seq(DurableItem) /\ answers' \in Seq(Identity \X Response)
      /\ Len(batch') = 0 /\ Len(answers') = 0 /\ 0 <= MaxBatch /\ Len(log') \in Nat
      /\ DOMAIN batch' = {} /\ DOMAIN answers' = {}
  BY <1>2, CoordinatorConstants
<1>4. CoordTypes'
  <2>1. deployment \in Deployments
    BY DEF CoordInv, CoordTypes
  <2>2. nextRecord' \in 1 .. Len(log') + 1
    BY <1>2, <1>3
  <2>3. /\ published' \in EngineState /\ poisoned' \in BOOLEAN
        /\ VersionsFollow(published'.promises, published'.sequence)
    BY <1>2, EmptyStateTyped
  <2> QED BY <1>1, <1>2, <1>3, <2>1, <2>2, <2>3 DEF CoordTypes
<1>5. LoggedVersions'
  BY <1>3 DEF LoggedVersions
<1>6. Keeps(records', log', nextRecord' - 1)
  <2>1. nextRecord' - 1 = 0
    BY <1>2
  <2> QED BY <1>1, <2>1, EmptyStateTyped, EmptyTableKeeps
<1>7. PhaseInv'
  BY <1>2, <1>6 DEF PhaseInv
<1> QED BY <1>4, <1>5, <1>7 DEF CoordInv

-----------------------------------------------------------------------------
(* Every step keeps the invariant.                                          *)

\* What execution changes of a table, against any other one.
LEMMA ChangedTyped ==
  ASSUME NEW S, NEW V, NEW value \in [S -> V], NEW base
  PROVE  /\ Changed(value, base) \in Changes(S, V)
         /\ DOMAIN Changed(value, base) \subseteq S
         /\ \A x \in DOMAIN Changed(value, base) : Changed(value, base)[x] = value[x]
         /\ \A x \in S : x \in DOMAIN Changed(value, base) <=> value[x] # base[x]
<1> DEFINE ids == {x \in DOMAIN value : value[x] # base[x]}
<1>1. ids \subseteq S /\ Changed(value, base) = [x \in ids |-> value[x]]
  BY DEF Changed
<1>2. Changed(value, base) \in [ids -> V] /\ ids \in SUBSET S
  BY <1>1
<1>3. \A x \in S : x \in ids <=> value[x] # base[x]
  OBVIOUS
<1> HIDE DEF ids
<1>4. Changed(value, base) \in Changes(S, V)
  BY <1>2 DEF Changes
<1> QED BY <1>1, <1>3, <1>4

\* A command executed for the first time is answered by the engine's response, and
\* its record holds what it changed.
LEMMA ExecutionTyped ==
  ASSUME CoordTypes, NEW request \in Request, NEW now \in Instant, PrepareNew(request, now)
  PROVE  /\ TypeInv' /\ events' \in Seq(Notice)
         /\ request.identity \in Identity
         /\ \E item \in DurableItem :
              /\ item.identity = request.identity
              /\ item.final = sequence'
              /\ item.promises = Changed(promises', published.promises)
              /\ item.pools = Changed(pools', published.pools)
              /\ item.events = SubSeq(events', Len(events) + 1, Len(events'))
              /\ item.after = State'
              /\ records' = [records EXCEPT ![request.identity] = EntryOf(item)]
              /\ answers' = Append(answers, <<request.identity, item.response>>)
              /\ batch' = Append(batch, item)
<1> DEFINE response == [tag |-> reply'.tag, value |-> reply'.value]
           item == [number |-> 0, identity |-> request.identity, hash |-> request.op,
                    response |-> response,
                    pools |-> Changed(pools', Base.pools),
                    promises |-> Changed(promises', Base.promises),
                    events |-> SubSeq(events', Len(events) + 1, Len(events')),
                    final |-> sequence',
                    after |-> State']
<1>1. request.op \in Operation /\ request.identity \in Identity
  BY RequestsAreCommands DEF Identity
<1>2. ApplyOnce(request.op, now) /\ Next
  BY <1>1, CommandIsStep DEF PrepareNew
<1>3. TypeInv /\ events \in Seq(Notice) /\ records \in RecordTable /\ published \in EngineState
  BY DEF CoordTypes
<1>4. PICK time \in Instant : Effect(time)
  BY <1>2, NextHasEffect
<1>5. TypeInv'
  BY <1>3, <1>4, EffectTyped
<1>6. events' \in Seq(Notice) /\ SubSeq(events', Len(events) + 1, Len(events')) \in Seq(Notice)
  <2>1. PICK extract : Logged(extract)
    BY <1>3, <1>4, EffectIsLogged
  <2>2. extract \in Seq(Notice) /\ events' = events \o extract
    BY <2>1 DEF Logged, Numbered
  <2>3. SubSeq(events', Len(events) + 1, Len(events')) = extract
    BY <1>3, <2>2, NewPart
  <2> QED BY <1>3, <2>2, <2>3
<1>7. response \in Response
  BY <1>2, <1>3, NextAnswers
<1>8. /\ records' = [records EXCEPT ![request.identity] =
                       [hash |-> request.op, response |-> response]]
      /\ answers' = Append(answers, <<request.identity, response>>)
      /\ batch' = Append(batch, item)
  BY DEF PrepareNew
<1>9. records' \in RecordTable
  <2>1. [hash |-> request.op, response |-> response] \in Entry
    BY <1>1, <1>7 DEF Entry
  <2> HIDE DEF response
  <2> QED BY <1>1, <1>3, <1>8, <2>1 DEF RecordTable
<1>10. /\ pools' \in [Pool -> Curve \union {NoCurve}] /\ slack' \in [Pool -> [Time -> Int]]
       /\ promises' \in PromiseTable /\ sequence' \in 0 .. MaxSequence
  BY <1>5 DEF TypeInv, TypeOK, PromiseTable
<1>11. State' \in EngineState
  BY <1>6, <1>9, <1>10 DEF State, EngineState
<1>12. /\ Changed(pools', Base.pools) \in Changes(Pool, Curve \union {NoCurve})
       /\ Changed(promises', Base.promises) \in Changes(PromiseId, PromiseRecord \union {Absent})
  BY <1>10, ChangedTyped DEF PromiseTable
<1>13. item \in DurableItem
  <2> HIDE DEF response
  <2> QED BY <1>1, <1>6, <1>7, <1>10, <1>11, <1>12 DEF DurableItem
<1>14. /\ item.identity = request.identity /\ item.final = sequence'
       /\ item.promises = Changed(promises', published.promises)
       /\ item.pools = Changed(pools', published.pools)
       /\ item.events = SubSeq(events', Len(events) + 1, Len(events'))
       /\ item.after = State'
       /\ item.response = response
       /\ EntryOf(item) = [hash |-> request.op, response |-> response]
  BY DEF EntryOf, Base
<1> HIDE DEF item
<1> QED BY <1>1, <1>5, <1>6, <1>8, <1>13, <1>14

\* An entry is never the absence of an entry.
LEMMA EntryIsSomething ==
  ASSUME NEW item \in DurableItem
  PROVE  /\ EntryOf(item) \in Entry /\ EntryOf(item) # NoRecord
         /\ EntryOf(item).response = item.response
         /\ item.identity \in Identity /\ item.response \in Response
<1>1. item.hash \in Operation /\ item.response \in Response /\ item.identity \in Identity
  BY DEF DurableItem
<1>2. EntryOf(item) \in Entry
  BY <1>1 DEF EntryOf, Entry
<1> QED BY <1>1, <1>2, RequestsAreCommands DEF Entry, EntryOf

\* prepare_batch executes a new command on the candidate.
LEMMA PrepareNewKeeps ==
  ASSUME CoordInv, NEW request \in Request, NEW now \in Instant, PrepareNew(request, now)
  PROVE  CoordInv'
<1> DEFINE me == request.identity
<1>1. /\ TypeInv' /\ events' \in Seq(Notice) /\ me \in Identity
  BY ExecutionTyped DEF CoordInv
<1>2. PICK item \in DurableItem :
        /\ item.identity = me
        /\ item.final = sequence'
        /\ item.promises = Changed(promises', published.promises)
        /\ records' = [records EXCEPT ![me] = EntryOf(item)]
        /\ answers' = Append(answers, <<me, item.response>>)
        /\ batch' = Append(batch, item)
  BY ExecutionTyped DEF CoordInv
<1> HIDE DEF me
<1>3. /\ EntryOf(item) \in Entry /\ EntryOf(item) # NoRecord
      /\ EntryOf(item).response = item.response /\ item.response \in Response
  BY EntryIsSomething
<1>4. /\ phase \in {"Idle", "Preparing"} /\ ~poisoned /\ Len(answers) < MaxBatch
      /\ records[me] = NoRecord /\ phase' = "Preparing"
      /\ UNCHANGED <<deployment, published, log, synced, torn, nextRecord, poisoned, told>>
  BY DEF PrepareNew, CanPrepare, me
<1>5. /\ records \in RecordTable /\ batch \in Seq(DurableItem) /\ log \in Seq(DurableItem)
      /\ answers \in Seq(Identity \X Response)
      /\ Len(batch) \in Nat /\ Len(answers) \in Nat /\ MaxBatch \in Nat
      /\ Len(batch) <= Len(answers)
      /\ DOMAIN batch = 1 .. Len(batch) /\ DOMAIN answers = 1 .. Len(answers)
  <2>1. /\ records \in RecordTable /\ batch \in Seq(DurableItem) /\ log \in Seq(DurableItem)
        /\ answers \in Seq(Identity \X Response) /\ Len(batch) <= Len(answers)
    BY DEF CoordInv, CoordTypes
  <2> QED BY <2>1, CoordinatorConstants
<1>6. /\ batch' \in Seq(DurableItem) /\ Len(batch') = Len(batch) + 1
      /\ DOMAIN batch' = 1 .. Len(batch) + 1
      /\ \A k \in 1 .. Len(batch) : batch'[k] = batch[k]
      /\ batch'[Len(batch) + 1] = item
  BY <1>2, <1>5, AppendProperties
<1>7. /\ answers' \in Seq(Identity \X Response) /\ Len(answers') = Len(answers) + 1
      /\ DOMAIN answers' = 1 .. Len(answers) + 1
      /\ \A k \in 1 .. Len(answers) : answers'[k] = answers[k]
      /\ answers'[Len(answers) + 1] = <<me, item.response>>
  <2> DEFINE answer == <<me, item.response>>
  <2>1. answer \in Identity \X Response /\ answers' = Append(answers, answer)
    BY <1>1, <1>2, <1>3
  <2> HIDE DEF answer
  <2>2. /\ answers' \in Seq(Identity \X Response) /\ Len(answers') = Len(answers) + 1
        /\ DOMAIN answers' = 1 .. Len(answers) + 1
        /\ \A k \in 1 .. Len(answers) : answers'[k] = answers[k]
        /\ answers'[Len(answers) + 1] = answer
    BY <1>5, <2>1, AppendProperties
  <2> QED BY <2>2 DEF answer
<1>8. /\ records' \in RecordTable
      /\ records'[me] = EntryOf(item)
      /\ \A i \in Identity : i # me => records'[i] = records[i]
  BY <1>1, <1>2, <1>3, <1>5 DEF RecordTable
<1>9. BatchExtendsTable /\ AnswersAreRecorded /\ Keeps(published.records, log, nextRecord - 1)
      /\ Len(log) = nextRecord - 1
  BY <1>4 DEF CoordInv, PhaseInv
<1>10. CoordTypes'
  BY <1>1, <1>4, <1>5, <1>6, <1>7, <1>8 DEF CoordInv, CoordTypes
<1>11. LoggedVersions'
  <2>1. VersionsFollow(item.promises, item.final)
    <3>1. promises' \in PromiseTable
      BY <1>1 DEF TypeInv, TypeOK, PromiseTable
    <3>2. /\ DOMAIN item.promises \subseteq PromiseId
          /\ \A i \in DOMAIN item.promises : item.promises[i] = promises'[i]
      <4>1. \A V : promises' \in [PromiseId -> V] =>
              /\ DOMAIN Changed(promises', published.promises) \subseteq PromiseId
              /\ \A x \in DOMAIN Changed(promises', published.promises) :
                   Changed(promises', published.promises)[x] = promises'[x]
        BY ChangedTyped
      <4> QED BY <1>2, <3>1, <4>1 DEF PromiseTable
    <3>3. \A i \in PromiseId : promises'[i].state # "Absent" =>
            promises'[i].version <= promises'[i].updated /\ promises'[i].updated <= sequence'
      BY <1>1 DEF TypeInv, VersionsFollowSequence
    <3> QED BY <1>2, <3>2, <3>3 DEF VersionsFollow
  <2>2. \A k \in DOMAIN batch' : k \in DOMAIN batch \/ k = Len(batch) + 1
    BY <1>5, <1>6
  <2>3. \A k \in DOMAIN batch' : VersionsFollow(batch'[k].promises, batch'[k].final)
    BY <1>5, <1>6, <2>1, <2>2 DEF CoordInv, LoggedVersions
  <2>4. log' = log
    BY <1>4
  <2> QED BY <2>3, <2>4 DEF CoordInv, LoggedVersions
<1>12. BatchExtendsTable'
  <2>1. published.records[me] = NoRecord
    BY <1>1, <1>4, <1>9 DEF BatchExtendsTable
  <2>2. \A k \in 1 .. Len(batch) : batch[k].identity \in Identity /\ batch[k].identity # me
    <3>1. ASSUME NEW k \in 1 .. Len(batch) PROVE batch[k].identity \in Identity /\ batch[k].identity # me
      <4>1. batch[k] \in DurableItem /\ records[batch[k].identity] = EntryOf(batch[k])
        BY <1>5, <1>9 DEF BatchExtendsTable
      <4> QED BY <1>4, <4>1, EntryIsSomething
    <3> QED BY <3>1
  <2>3. \A k \in DOMAIN batch' : k \in 1 .. Len(batch) \/ k = Len(batch) + 1
    BY <1>5, <1>6
  <2>4. Once(batch')
    BY <1>2, <1>5, <1>6, <1>9, <2>2, <2>3 DEF Once, BatchExtendsTable
  <2>5. \A k \in DOMAIN batch' : /\ published.records[batch'[k].identity] = NoRecord
                                 /\ records'[batch'[k].identity] = EntryOf(batch'[k])
    BY <1>2, <1>5, <1>6, <1>8, <1>9, <2>1, <2>2, <2>3 DEF BatchExtendsTable
  <2>6. \A i \in Identity : published.records[i] # NoRecord => records'[i] = published.records[i]
    BY <1>8, <1>9, <2>1 DEF BatchExtendsTable
  <2>7. ASSUME NEW i \in Identity, records'[i] # NoRecord
        PROVE  published.records[i] # NoRecord \/ \E k \in DOMAIN batch' : batch'[k].identity = i
    <3>1. CASE i = me
      <4>1. Len(batch) + 1 \in DOMAIN batch'
        BY <1>5, <1>6
      <4> QED BY <1>2, <1>6, <3>1, <4>1
    <3>2. CASE i # me
      <4>1. \A k \in DOMAIN batch : k \in DOMAIN batch' /\ batch'[k] = batch[k]
        BY <1>5, <1>6
      <4> QED BY <1>8, <1>9, <2>7, <3>2, <4>1 DEF BatchExtendsTable
    <3> QED BY <3>1, <3>2
  <2>8. published' = published
    BY <1>4
  <2> QED BY <2>4, <2>5, <2>6, <2>7, <2>8 DEF BatchExtendsTable
<1>13. AnswersAreRecorded'
  <2>1. ASSUME NEW k \in DOMAIN answers', answers'[k][2].tag # "IdempotencyConflict"
        PROVE  /\ records'[answers'[k][1]] # NoRecord
               /\ answers'[k][2] = records'[answers'[k][1]].response
    <3>1. CASE k \in 1 .. Len(answers)
      <4>1. answers'[k] = answers[k] /\ answers[k] \in Identity \X Response
        BY <1>5, <1>7, <3>1
      <4>2. /\ records[answers[k][1]] # NoRecord
            /\ answers[k][2] = records[answers[k][1]].response
        BY <1>5, <1>9, <2>1, <3>1, <4>1 DEF AnswersAreRecorded
      <4>3. answers[k][1] # me /\ answers[k][1] \in Identity
        BY <1>4, <4>1, <4>2
      <4> QED BY <1>8, <4>1, <4>2, <4>3
    <3>2. CASE k = Len(answers) + 1
      BY <1>3, <1>7, <1>8, <3>2
    <3> QED BY <1>5, <1>7, <3>1, <3>2
  <2> QED BY <2>1 DEF AnswersAreRecorded
<1>14. PhaseInv'
  BY <1>4, <1>9, <1>12, <1>13 DEF PhaseInv
<1>15. Once(log')
  BY <1>4 DEF CoordInv
<1> QED BY <1>10, <1>11, <1>14, <1>15 DEF CoordInv

\* prepare_batch answers an identity that was seen before from its record.
LEMMA PrepareSeenKeeps ==
  ASSUME CoordInv, NEW request \in Request, PrepareSeen(request)
  PROVE  CoordInv'
<1> DEFINE me == request.identity
           record == records[me]
           response == IF record.hash = request.op THEN record.response
                       ELSE [tag |-> "IdempotencyConflict", value |-> 0]
<1>1. /\ phase \in {"Idle", "Preparing"} /\ ~poisoned /\ Len(answers) < MaxBatch
      /\ record # NoRecord /\ phase' = "Preparing"
      /\ answers' = Append(answers, <<me, response>>)
      /\ UNCHANGED <<deployment, records, published, batch, log, synced, torn,
                     nextRecord, poisoned>>
      /\ UNCHANGED vars
  BY DEF PrepareSeen, CanPrepare, engine, vars
<1>2. /\ records \in RecordTable /\ answers \in Seq(Identity \X Response)
      /\ Len(batch) <= Len(answers) /\ Len(answers) \in Nat /\ MaxBatch \in Nat
      /\ Len(batch) \in Nat
      /\ DOMAIN answers = 1 .. Len(answers)
  <2>1. /\ batch \in Seq(DurableItem)
        /\ records \in RecordTable /\ answers \in Seq(Identity \X Response)
        /\ Len(batch) <= Len(answers)
    BY DEF CoordInv, CoordTypes
  <2> QED BY <2>1, CoordinatorConstants
<1>3. me \in Identity /\ response \in Response
      /\ (response.tag # "IdempotencyConflict" => response = record.response)
  <2>1. me \in Identity
    BY DEF Identity
  <2>2. record \in Entry
    BY <1>1, <1>2, <2>1 DEF RecordTable
  <2>3. record.response \in Response
    BY <2>2 DEF Entry
  <2>4. [tag |-> "IdempotencyConflict", value |-> 0] \in Response
    BY DEF Response, ResponseTag
  <2> QED BY <2>1, <2>3, <2>4
<1> HIDE DEF response
<1>4. /\ answers' \in Seq(Identity \X Response) /\ Len(answers') = Len(answers) + 1
      /\ DOMAIN answers' = 1 .. Len(answers) + 1
      /\ \A k \in 1 .. Len(answers) : answers'[k] = answers[k]
      /\ answers'[Len(answers) + 1] = <<me, response>>
  <2> DEFINE answer == <<me, response>>
  <2>1. answer \in Identity \X Response /\ answers' = Append(answers, answer)
    BY <1>1, <1>3
  <2> HIDE DEF answer
  <2>2. /\ answers' \in Seq(Identity \X Response) /\ Len(answers') = Len(answers) + 1
        /\ DOMAIN answers' = 1 .. Len(answers) + 1
        /\ \A k \in 1 .. Len(answers) : answers'[k] = answers[k]
        /\ answers'[Len(answers) + 1] = answer
    BY <1>2, <2>1, AppendProperties
  <2> QED BY <2>2 DEF answer
<1>5. TypeInv' /\ events' = events
  BY <1>1, StutterTyped DEF CoordInv, CoordTypes, vars
<1>6. CoordTypes'
  BY <1>1, <1>2, <1>4, <1>5 DEF CoordInv, CoordTypes
<1>7. LoggedVersions' /\ Once(log') /\ BatchExtendsTable'
  BY <1>1 DEF CoordInv, LoggedVersions, PhaseInv, BatchExtendsTable
<1>8. AnswersAreRecorded'
  <2>1. ASSUME NEW k \in DOMAIN answers', answers'[k][2].tag # "IdempotencyConflict"
        PROVE  /\ records[answers'[k][1]] # NoRecord
               /\ answers'[k][2] = records[answers'[k][1]].response
    <3>1. CASE k \in 1 .. Len(answers)
      BY <1>1, <1>2, <1>4, <2>1, <3>1 DEF CoordInv, PhaseInv, AnswersAreRecorded
    <3>2. CASE k = Len(answers) + 1
      BY <1>1, <1>3, <1>4, <2>1, <3>2
    <3> QED BY <1>2, <1>4, <3>1, <3>2
  <2>2. records' = records
    BY <1>1
  <2> QED BY <2>1, <2>2 DEF AnswersAreRecorded
<1>9. PhaseInv'
  BY <1>1, <1>7, <1>8 DEF CoordInv, PhaseInv
<1> QED BY <1>6, <1>7, <1>9 DEF CoordInv

\* A batch without new commands ends without I/O.
LEMMA AnswerSeenKeeps ==
  ASSUME CoordInv, AnswerSeen
  PROVE  CoordInv'
<1>1. /\ phase = "Preparing" /\ batch = <<>>
      /\ phase' = "Idle" /\ batch' = <<>> /\ answers' = <<>>
      /\ UNCHANGED <<deployment, records, published, log, synced, torn, nextRecord, poisoned>>
      /\ UNCHANGED vars
  BY DEF AnswerSeen, EndBatch, engine, vars
<1>2. TypeInv' /\ events' = events
  BY <1>1, StutterTyped DEF CoordInv, CoordTypes, vars
<1>3. /\ answers' \in Seq(Identity \X Response) /\ Len(answers') = 0 /\ Len(batch') = 0
      /\ DOMAIN answers' = {} /\ 0 <= MaxBatch
  BY <1>1, CoordinatorConstants
<1>4. CoordTypes'
  BY <1>1, <1>2, <1>3 DEF CoordInv, CoordTypes
<1>5. LoggedVersions' /\ Once(log') /\ BatchExtendsTable' /\ AnswersAreRecorded'
  BY <1>1, <1>3 DEF CoordInv, LoggedVersions, PhaseInv, BatchExtendsTable, AnswersAreRecorded
<1>6. PhaseInv'
  BY <1>1, <1>5 DEF CoordInv, PhaseInv
<1> QED BY <1>4, <1>5, <1>6 DEF CoordInv

\* A batch that fails before any I/O leaves the published state.
LEMMA AbandonKeeps ==
  ASSUME CoordInv, Abandon
  PROVE  CoordInv'
<1>1. /\ phase = "Preparing" /\ Resume(published) /\ EndBatch
      /\ UNCHANGED <<deployment, published, log, synced, torn, nextRecord, poisoned>>
  BY DEF Abandon
<1>2. /\ log \in Seq(DurableItem) /\ Len(log) \in Nat /\ Len(log) <= MaxRecord /\ Once(log)
      /\ torn \in BOOLEAN /\ poisoned \in BOOLEAN
      /\ \A k \in DOMAIN log : VersionsFollow(log[k].promises, log[k].final)
      /\ Keeps(published.records, log, nextRecord - 1) /\ Len(log) = nextRecord - 1
  <2>1. log \in Seq(DurableItem)
    BY DEF CoordInv, CoordTypes
  <2> QED BY <1>1, <2>1 DEF CoordInv, CoordTypes, LoggedVersions, PhaseInv
<1> QED BY <1>1, <1>2, DroppedCandidate

\* The append of a whole batch.
LEMMA AppendBatchKeeps ==
  ASSUME CoordInv, AppendBatch
  PROVE  CoordInv'
<1>1. /\ phase = "Preparing" /\ HasRecordSequences /\ log' = log \o Framed
      /\ phase' \in {"Appended", "Persisted"}
      /\ UNCHANGED <<deployment, records, published, batch, answers, synced, torn,
                     nextRecord, poisoned>>
      /\ UNCHANGED vars
  BY DEF AppendBatch, engine, vars
<1>2. /\ Len(log) \in Nat /\ Len(batch) \in Nat /\ synced \in 0 .. Len(log)
      /\ nextRecord \in 1 .. Len(log) + 1 /\ Len(log) = nextRecord - 1
      /\ DOMAIN batch = 1 .. Len(batch)
      /\ Keeps(published.records, log, nextRecord - 1)
  <2>1. log \in Seq(DurableItem) /\ batch \in Seq(DurableItem)
    BY DEF CoordInv, CoordTypes
  <2> QED BY <1>1, <2>1 DEF CoordInv, CoordTypes, PhaseInv
<1>3. GrownBy(Len(batch))
  BY <1>1, AppendGrows DEF CoordInv
<1>4. /\ Once(log') /\ Len(log') <= MaxRecord
      /\ \A k \in DOMAIN log' : VersionsFollow(log'[k].promises, log'[k].final)
  BY <1>1, <1>2, <1>3, GrownLog
<1>5. /\ log' \in Seq(DurableItem) /\ Len(log') = Len(log) + Len(batch)
      /\ \A k \in 1 .. Len(log) : log'[k] = log[k]
      /\ \A k \in 1 .. Len(batch) : log'[Len(log) + k] = FrameOf(batch[k], nextRecord + k - 1)
  BY <1>3 DEF GrownBy
<1>6. synced' \in 0 .. Len(log') /\ nextRecord' \in 1 .. Len(log') + 1
  BY <1>1, <1>2, <1>5
<1>7. TypeInv' /\ events' = events
  BY <1>1, StutterTyped DEF CoordInv, CoordTypes, vars
<1>8. CoordTypes'
  BY <1>1, <1>4, <1>5, <1>6, <1>7 DEF CoordInv, CoordTypes
<1>9. LoggedVersions' /\ BatchExtendsTable' /\ AnswersAreRecorded'
  BY <1>1, <1>4 DEF CoordInv, LoggedVersions, PhaseInv, BatchExtendsTable, AnswersAreRecorded
<1>10. Keeps(published.records, log', nextRecord - 1)
  BY <1>2, <1>5, KeepsPrefix
<1>11. PhaseInv'
  BY <1>1, <1>2, <1>5, <1>9, <1>10 DEF CoordInv, PhaseInv
<1> QED BY <1>4, <1>8, <1>9, <1>11 DEF CoordInv

\* Making the records durable.
LEMMA MakeDurableKeeps ==
  ASSUME CoordInv, MakeDurable
  PROVE  CoordInv'
<1>1. /\ phase = "Appended" /\ phase' = "Persisted"
      /\ synced' = IF deployment.durability = "Sync" THEN Len(log) ELSE synced
      /\ UNCHANGED <<deployment, records, published, batch, answers, log, torn,
                     nextRecord, poisoned>>
      /\ UNCHANGED vars
  BY DEF MakeDurable, engine, vars
<1>2. Len(log) \in Nat /\ synced \in 0 .. Len(log)
  <2>1. log \in Seq(DurableItem)
    BY DEF CoordInv, CoordTypes
  <2> QED BY <2>1 DEF CoordInv, CoordTypes
<1>3. synced' \in 0 .. Len(log')
  BY <1>1, <1>2
<1>4. TypeInv' /\ events' = events
  BY <1>1, StutterTyped DEF CoordInv, CoordTypes, vars
<1>5. CoordTypes'
  BY <1>1, <1>3, <1>4 DEF CoordInv, CoordTypes
<1>6. LoggedVersions' /\ Once(log') /\ BatchExtendsTable' /\ AnswersAreRecorded'
  BY <1>1 DEF CoordInv, LoggedVersions, PhaseInv, BatchExtendsTable, AnswersAreRecorded
<1>7. PhaseInv'
  BY <1>1, <1>6 DEF CoordInv, PhaseInv
<1> QED BY <1>5, <1>6, <1>7 DEF CoordInv

\* While a batch is in the log, the candidate's table keeps what the whole log says.
LEMMA CandidateKeepsLog ==
  ASSUME CoordInv, phase \in {"Appended", "Persisted"}
  PROVE  Keeps(records, log, Len(log))
<1>1. /\ log \in Seq(DurableItem) /\ batch \in Seq(DurableItem)
      /\ Len(log) \in Nat /\ Len(batch) \in Nat /\ nextRecord \in Nat /\ nextRecord >= 1
      /\ Len(log) = nextRecord - 1 + Len(batch)
      /\ DOMAIN batch = 1 .. Len(batch)
      /\ Keeps(published.records, log, nextRecord - 1) /\ BatchExtendsTable
      /\ \A k \in DOMAIN batch : log[nextRecord - 1 + k] = FrameOf(batch[k], nextRecord + k - 1)
  <2>1. log \in Seq(DurableItem) /\ batch \in Seq(DurableItem)
    BY DEF CoordInv, CoordTypes
  <2> QED BY <2>1 DEF CoordInv, CoordTypes, PhaseInv
<1>2. ASSUME NEW k \in 1 .. Len(batch)
      PROVE  /\ log[nextRecord - 1 + k].identity = batch[k].identity
             /\ EntryOf(log[nextRecord - 1 + k]) = EntryOf(batch[k])
             /\ nextRecord - 1 + k \in 1 .. Len(log)
  <2>1. batch[k] \in DurableItem /\ nextRecord + k - 1 \in Nat
    BY <1>1
  <2>2. log[nextRecord - 1 + k] = FrameOf(batch[k], nextRecord + k - 1)
    BY <1>1
  <2>3. /\ FrameOf(batch[k], nextRecord + k - 1).identity = batch[k].identity
        /\ FrameOf(batch[k], nextRecord + k - 1).hash = batch[k].hash
        /\ FrameOf(batch[k], nextRecord + k - 1).response = batch[k].response
    BY <2>1, FramedItem
  <2>4. nextRecord - 1 + k \in 1 .. Len(log)
    BY <1>1
  <2> QED BY <2>2, <2>3, <2>4 DEF EntryOf
<1>3. ASSUME NEW k \in 1 .. Len(log) PROVE records[log[k].identity] = EntryOf(log[k])
  <2>1. CASE k <= nextRecord - 1
    <3>1. published.records[log[k].identity] = EntryOf(log[k])
      BY <1>1, <2>1 DEF Keeps
    <3>2. log[k] \in DurableItem
      BY <1>1
    <3>3. log[k].identity \in Identity /\ EntryOf(log[k]) # NoRecord
      BY <3>2, EntryIsSomething
    <3> QED BY <1>1, <3>1, <3>3 DEF BatchExtendsTable
  <2>2. CASE ~(k <= nextRecord - 1)
    <3> DEFINE j == k - (nextRecord - 1)
    <3>1. j \in 1 .. Len(batch) /\ nextRecord - 1 + j = k
      BY <1>1, <2>2
    <3> HIDE DEF j
    <3>2. log[k].identity = batch[j].identity /\ EntryOf(log[k]) = EntryOf(batch[j])
      BY <1>2, <3>1
    <3> QED BY <1>1, <3>1, <3>2 DEF BatchExtendsTable
  <2> QED BY <2>1, <2>2
<1>4. ASSUME NEW i \in Identity, records[i] # NoRecord
      PROVE  \E k \in 1 .. Len(log) : log[k].identity = i
  <2>1. CASE published.records[i] # NoRecord
    <3>1. PICK k \in 1 .. nextRecord - 1 : log[k].identity = i
      BY <1>1, <2>1 DEF Keeps
    <3>2. k \in 1 .. Len(log)
      BY <1>1
    <3> QED BY <3>1, <3>2
  <2>2. CASE \E k \in DOMAIN batch : batch[k].identity = i
    <3>1. PICK k \in 1 .. Len(batch) : batch[k].identity = i
      BY <1>1, <2>2
    <3> QED BY <1>2, <3>1
  <2> QED BY <1>1, <1>4, <2>1, <2>2 DEF BatchExtendsTable
<1> QED BY <1>3, <1>4 DEF Keeps

\* The candidate becomes the published state.
LEMMA PublishKeeps ==
  ASSUME CoordInv, Publish
  PROVE  CoordInv'
<1>1. /\ phase = "Persisted" /\ published' = State /\ nextRecord' = nextRecord + Len(batch)
      /\ phase' = "Idle" /\ batch' = <<>> /\ answers' = <<>>
      /\ UNCHANGED <<deployment, records, log, synced, torn, poisoned>>
      /\ UNCHANGED vars
  BY DEF Publish, EndBatch, engine, vars
<1>2. /\ Len(log) \in Nat /\ Len(log) = nextRecord - 1 + Len(batch) /\ nextRecord \in Nat
      /\ Len(batch) \in Nat
  <2>1. log \in Seq(DurableItem) /\ batch \in Seq(DurableItem)
    BY DEF CoordInv, CoordTypes
  <2> QED BY <1>1, <2>1 DEF CoordInv, CoordTypes, PhaseInv
<1>3. nextRecord' - 1 = Len(log) /\ nextRecord' \in 1 .. Len(log') + 1
  BY <1>1, <1>2
<1>4. TypeInv' /\ events' = events
  BY <1>1, StutterTyped DEF CoordInv, CoordTypes, vars
<1>5. State \in EngineState /\ VersionsFollow(State.promises, State.sequence)
      /\ State.records = records
  <2>1. TypeInv /\ events \in Seq(Notice) /\ records \in RecordTable
    BY DEF CoordInv, CoordTypes
  <2>2. /\ pools \in [Pool -> Curve \union {NoCurve}] /\ slack \in [Pool -> [Time -> Int]]
        /\ promises \in PromiseTable /\ sequence \in 0 .. MaxSequence
    BY <2>1 DEF TypeInv, TypeOK, PromiseTable
  <2>3. DOMAIN promises = PromiseId
    BY <2>2 DEF PromiseTable
  <2>4. VersionsFollow(promises, sequence)
    BY <2>1, <2>3 DEF TypeInv, VersionsFollowSequence, VersionsFollow
  <2> QED BY <2>1, <2>2, <2>4 DEF State, EngineState
<1>6. /\ answers' \in Seq(Identity \X Response) /\ batch' \in Seq(DurableItem)
      /\ Len(answers') = 0 /\ Len(batch') = 0
      /\ DOMAIN answers' = {} /\ DOMAIN batch' = {} /\ 0 <= MaxBatch
  BY <1>1, CoordinatorConstants
<1>7. CoordTypes'
  BY <1>1, <1>3, <1>4, <1>5, <1>6 DEF CoordInv, CoordTypes
<1>8. LoggedVersions' /\ Once(log')
  BY <1>1, <1>6 DEF CoordInv, LoggedVersions
<1>9. BatchExtendsTable' /\ AnswersAreRecorded'
  BY <1>1, <1>5, <1>6 DEF BatchExtendsTable, AnswersAreRecorded, Once
<1>10. Keeps(records, log, Len(log))
  BY <1>1, CandidateKeepsLog
<1>11. PhaseInv'
  BY <1>1, <1>3, <1>5, <1>9, <1>10 DEF CoordInv, PhaseInv
<1> QED BY <1>7, <1>8, <1>11 DEF CoordInv

\* A failed append or synchronization poisons the database.
LEMMA PersistFailsKeeps ==
  ASSUME CoordInv, PersistFails
  PROVE  CoordInv'
<1>1. /\ \/ phase = "Preparing" /\ HasRecordSequences /\ PartialAppend
         \/ phase = "Appended" /\ UNCHANGED <<log, torn>>
      /\ poisoned' = TRUE /\ published' = published /\ Resume(published) /\ EndBatch
      /\ UNCHANGED <<deployment, synced, nextRecord>>
  BY DEF PersistFails, AfterFailure
<1>2. /\ log \in Seq(DurableItem) /\ Len(log) \in Nat /\ Len(batch) \in Nat
      /\ Len(log) <= MaxRecord /\ Once(log) /\ nextRecord \in 1 .. Len(log) + 1
      /\ torn \in BOOLEAN
      /\ \A k \in DOMAIN log : VersionsFollow(log[k].promises, log[k].final)
      /\ Keeps(published.records, log, nextRecord - 1) /\ phase # "Recovering"
  <2>1. log \in Seq(DurableItem) /\ batch \in Seq(DurableItem)
    BY DEF CoordInv, CoordTypes
  <2> QED BY <1>1, <2>1 DEF CoordInv, CoordTypes, LoggedVersions, PhaseInv
<1>3. CASE phase = "Appended" /\ UNCHANGED <<log, torn>>
  BY <1>1, <1>2, <1>3, DroppedCandidate
<1>4. ASSUME phase = "Preparing", HasRecordSequences, NEW n \in 0 .. Len(batch),
             log' = log \o SubSeq(Framed, 1, n),
             torn' \in (IF n < Len(batch) THEN BOOLEAN ELSE {FALSE})
      PROVE  CoordInv'
  <2>1. GrownBy(n)
    BY <1>4, PartialAppendGrows DEF CoordInv
  <2>2. /\ Once(log') /\ Len(log') <= MaxRecord
        /\ \A k \in DOMAIN log' : VersionsFollow(log'[k].promises, log'[k].final)
    BY <1>4, <2>1, GrownLog
  <2>3. log' \in Seq(DurableItem) /\ Len(log') >= Len(log)
    BY <1>2, <2>1 DEF GrownBy
  <2>4. Keeps(published.records, log', nextRecord - 1)
    <3>1. \A k \in 1 .. nextRecord - 1 : log'[k] = log[k]
      BY <1>2, <2>1 DEF GrownBy
    <3> QED BY <1>2, <3>1, KeepsPrefix
  <2>5. torn' \in BOOLEAN /\ poisoned' \in BOOLEAN /\ poisoned'
    BY <1>1, <1>4
  <2> QED BY <1>1, <1>2, <2>2, <2>3, <2>4, <2>5, DroppedCandidate
<1> QED BY <1>1, <1>3, <1>4 DEF PartialAppend

\* The process ends.
LEMMA CrashProcessKeeps ==
  ASSUME CoordInv, CrashProcess
  PROVE  CoordInv'
<1>1. /\ Stop
      /\ \/ UNCHANGED <<log, synced, torn>>
         \/ phase = "Preparing" /\ HasRecordSequences /\ PartialAppend /\ synced' = synced
  BY DEF CrashProcess, store
<1>2. /\ log \in Seq(DurableItem) /\ Len(log) \in Nat /\ Len(batch) \in Nat
      /\ Len(log) <= MaxRecord /\ Once(log) /\ synced \in 0 .. Len(log)
      /\ torn \in BOOLEAN
      /\ \A k \in DOMAIN log : VersionsFollow(log[k].promises, log[k].final)
  <2>1. log \in Seq(DurableItem) /\ batch \in Seq(DurableItem)
    BY DEF CoordInv, CoordTypes
  <2> QED BY <2>1 DEF CoordInv, CoordTypes, LoggedVersions
<1>3. CASE UNCHANGED <<log, synced, torn>>
  BY <1>1, <1>2, <1>3, Stopped
<1>4. ASSUME phase = "Preparing", HasRecordSequences, synced' = synced,
             NEW n \in 0 .. Len(batch), log' = log \o SubSeq(Framed, 1, n),
             torn' \in (IF n < Len(batch) THEN BOOLEAN ELSE {FALSE})
      PROVE  CoordInv'
  <2>1. GrownBy(n)
    BY <1>4, PartialAppendGrows DEF CoordInv
  <2>2. /\ Once(log') /\ Len(log') <= MaxRecord
        /\ \A k \in DOMAIN log' : VersionsFollow(log'[k].promises, log'[k].final)
    BY <1>4, <2>1, GrownLog
  <2>3. log' \in Seq(DurableItem) /\ Len(log') = Len(log) + n /\ n \in Nat
    BY <1>2, <2>1 DEF GrownBy
  <2>4. torn' \in BOOLEAN /\ synced' \in 0 .. Len(log')
    <3>1. torn' \in BOOLEAN
      BY <1>4
    <3>2. synced' \in 0 .. Len(log) /\ Len(log') = Len(log) + n
      BY <1>2, <1>4, <2>3
    <3> QED BY <1>2, <2>3, <3>1, <3>2
  <2> QED BY <1>1, <2>2, <2>3, <2>4, Stopped
<1> QED BY <1>1, <1>3, <1>4 DEF PartialAppend

\* What a loss of power leaves of the log.
LEMMA CutLog ==
  ASSUME CoordTypes, NEW n \in synced .. Len(log), log' = SubSeq(log, 1, n)
  PROVE  /\ log' \in Seq(DurableItem) /\ Len(log') = n
         /\ DOMAIN log' = 1 .. n /\ DOMAIN log = 1 .. Len(log)
         /\ n \in Nat /\ Len(log) \in Nat /\ synced \in 0 .. n /\ n <= Len(log)
         /\ \A k \in 1 .. n : log'[k] = log[k]
<1>1. /\ log \in Seq(DurableItem) /\ Len(log) \in Nat /\ synced \in 0 .. Len(log)
      /\ DOMAIN log = 1 .. Len(log)
  BY DEF CoordTypes
<1>2. n \in 0 .. Len(log) /\ n \in Nat /\ n <= Len(log) /\ synced \in 0 .. n
  BY <1>1
<1>3. log' \in Seq(DurableItem) /\ Len(log') = n /\ \A k \in 1 .. n : log'[k] = log[k]
  <2>1. Len(log') = n /\ \A k \in 1 .. n : log'[k] = log[1 + k - 1]
    BY <1>1, <1>2, SubSeqProperties
  <2>2. \A k \in 1 .. n : 1 + k - 1 = k
    BY <1>2
  <2> QED BY <1>1, <1>2, <2>1, <2>2, SubSeqProperties
<1> QED BY <1>1, <1>2, <1>3

\* The machine stops.
LEMMA LosePowerKeeps ==
  ASSUME CoordInv, LosePower
  PROVE  CoordInv'
<1>1. PICK n \in synced .. Len(log) :
        log' = SubSeq(log, 1, n) /\ torn' \in BOOLEAN /\ synced' = n
  BY DEF LosePower
<1>2. Stop
  BY DEF LosePower
<1>3. /\ log' \in Seq(DurableItem) /\ Len(log') = n
      /\ DOMAIN log' = 1 .. n /\ DOMAIN log = 1 .. Len(log)
      /\ n \in Nat /\ Len(log) \in Nat /\ n <= Len(log)
      /\ \A k \in 1 .. n : log'[k] = log[k]
  BY <1>1, CutLog DEF CoordInv
<1>4. Len(log') <= MaxRecord
  BY <1>3, CoordinatorConstants DEF CoordInv, CoordTypes
<1>5. Once(log') /\ \A k \in DOMAIN log' : VersionsFollow(log'[k].promises, log'[k].final)
  <2>1. \A k \in DOMAIN log' : k \in DOMAIN log /\ log'[k] = log[k]
    BY <1>3
  <2> QED BY <2>1 DEF CoordInv, LoggedVersions, Once
<1>6. synced' \in 0 .. Len(log')
  BY <1>1, <1>3
<1> QED BY <1>1, <1>2, <1>3, <1>4, <1>5, <1>6, Stopped

\* Every audit record has a sequence number.
LEMMA NoticeTyped ==
  ASSUME NEW e \in Notice
  PROVE  e.seq \in Int
<1>1. e.seq \in 1 .. MaxSequence
  BY DEF Notice, PromiseNotice, PoolNotice, DeficitNotice
<1> QED BY <1>1

\* An extract of the log of events that is contiguous does not go back.
LEMMA ContiguousGrows ==
  ASSUME CoordTypes, NEW item \in DurableItem, SequenceIsContiguous(item)
  PROVE  sequence <= item.final
<1> DEFINE evs == item.events
           n == Len(evs)
           seqs == [k \in 0 .. n |-> IF k = 0 THEN sequence ELSE evs[k].seq]
<1>1. /\ evs \in Seq(Notice) /\ n \in Nat /\ DOMAIN evs = 1 .. n
      /\ sequence \in Nat /\ item.final \in Nat
  <2>1. evs \in Seq(Notice) /\ item.final \in 0 .. MaxSequence
    BY DEF DurableItem
  <2>2. sequence \in 0 .. MaxSequence
    BY DEF CoordTypes, TypeInv, TypeOK
  <2> QED BY <2>1, <2>2, CountsAreNatural
<1>2. /\ \A k \in 1 .. n : IF k = 1 THEN seqs[k] = seqs[0] + 1 ELSE seqs[k] - seqs[k - 1] \in {0, 1}
      /\ seqs[n] = item.final
  BY DEF SequenceIsContiguous
<1>3. seqs[0] = sequence /\ \A k \in 0 .. n : seqs[k] \in Int
  <2>1. \A k \in 1 .. n : evs[k].seq \in Int
    <3>1. \A k \in 1 .. n : evs[k] \in Notice
      BY <1>1
    <3>2. \A e \in Notice : e.seq \in Int
      BY NoticeTyped
    <3> QED BY <3>1, <3>2
  <2>2. \A k \in 0 .. n : k = 0 \/ k \in 1 .. n
    BY <1>1
  <2> QED BY <1>1, <2>1, <2>2
<1> HIDE DEF seqs
<1> DEFINE Low == {k \in 0 .. n : ~(sequence <= seqs[k])}
<1>4. Low = {}
  <2> SUFFICES ASSUME Low # {} PROVE FALSE
    OBVIOUS
  <2>1. Low \in SUBSET Nat
    BY <1>1
  <2>2. PICK m \in Low : \A k \in Low : m <= k
    <3> HIDE DEF Low
    <3> QED BY <2>1, LeastNatural
  <2>3. m \in 0 .. n /\ m # 0
    BY <1>1, <1>3, <2>2
  <2>4. m \in 1 .. n /\ m - 1 \in 0 .. n /\ ~(m <= m - 1)
    BY <1>1, <2>3
  <2>5. sequence <= seqs[m - 1]
    BY <2>2, <2>4
  <2>6. seqs[m - 1] <= seqs[m]
    <3>1. IF m = 1 THEN seqs[m] = seqs[0] + 1 ELSE seqs[m] - seqs[m - 1] \in {0, 1}
      BY <1>2, <2>4
    <3>2. seqs[m] \in Int /\ seqs[m - 1] \in Int
      BY <1>3, <2>3, <2>4
    <3>3. CASE m = 1
      <4>1. m - 1 = 0
        BY <3>3
      <4> QED BY <3>1, <3>2, <3>3, <4>1
    <3>4. CASE m # 1
      BY <3>1, <3>2, <3>4
    <3> QED BY <3>3, <3>4
  <2>7. sequence <= seqs[m]
    <3>1. seqs[m] \in Int /\ seqs[m - 1] \in Int
      BY <1>3, <2>3, <2>4
    <3> QED BY <1>1, <2>5, <2>6, <3>1
  <2> QED BY <2>2, <2>7
<1>5. n \in 0 .. n
  BY <1>1
<1> QED BY <1>2, <1>4, <1>5

\* install_transition keeps the types and the bounds of versions.
LEMMA InstalledTyped ==
  ASSUME NEW S, NEW V, NEW value \in [S -> V], NEW changed \in Changes(S, V)
  PROVE  /\ Installed(value, changed) \in [S -> V]
         /\ DOMAIN changed \subseteq S
         /\ \A x \in S : Installed(value, changed)[x] =
                           IF x \in DOMAIN changed THEN changed[x] ELSE value[x]
<1>1. PICK T \in SUBSET S : changed \in [T -> V]
  BY DEF Changes
<1> QED BY <1>1 DEF Installed

\* Recovery installs one record.
LEMMA InstallRecordKeeps ==
  ASSUME CoordInv, InstallRecord
  PROVE  CoordInv'
<1> DEFINE item == Item
<1>1. /\ phase = "Recovering" /\ nextRecord <= Len(log) /\ Installable(item)
      /\ pools' = Installed(pools, item.pools)
      /\ promises' = Installed(promises, item.promises)
      /\ sequence' = item.final
      /\ events' = events \o item.events
      /\ records' = [records EXCEPT ![item.identity] =
                       [hash |-> item.hash, response |-> item.response]]
      /\ nextRecord' = nextRecord + 1
      /\ UNCHANGED <<deployment, slack, reply, forced, published, phase, batch, answers,
                     log, synced, torn, poisoned>>
  BY DEF InstallRecord
<1>2. /\ log \in Seq(DurableItem) /\ Len(log) \in Nat /\ DOMAIN log = 1 .. Len(log)
      /\ nextRecord \in Nat /\ nextRecord \in 1 .. Len(log)
  <2>1. log \in Seq(DurableItem) /\ nextRecord \in 1 .. Len(log) + 1
    BY DEF CoordInv, CoordTypes
  <2> QED BY <1>1, <2>1
<1>3. item = log[nextRecord] /\ item \in DurableItem
  BY <1>2 DEF Item
<1> HIDE DEF item
<1>4. /\ item.pools \in Changes(Pool, Curve \union {NoCurve})
      /\ item.promises \in Changes(PromiseId, PromiseRecord \union {Absent})
      /\ item.events \in Seq(Notice) /\ item.final \in 0 .. MaxSequence
  BY <1>3 DEF DurableItem
<1>5. /\ TypeInv /\ events \in Seq(Notice) /\ records \in RecordTable
      /\ pools \in [Pool -> Curve \union {NoCurve}] /\ promises \in PromiseTable
  BY DEF CoordInv, CoordTypes, TypeInv, TypeOK, PromiseTable
<1>6. pools' \in [Pool -> Curve \union {NoCurve}]
  <2>1. \A V : pools \in [Pool -> V] /\ item.pools \in Changes(Pool, V) =>
               Installed(pools, item.pools) \in [Pool -> V]
    BY InstalledTyped
  <2> QED BY <1>1, <1>4, <1>5, <2>1
<1>7. /\ promises' \in PromiseTable
      /\ DOMAIN item.promises \subseteq PromiseId
      /\ \A i \in PromiseId : promises'[i] =
           IF i \in DOMAIN item.promises THEN item.promises[i] ELSE promises[i]
  <2>1. \A V : promises \in [PromiseId -> V] /\ item.promises \in Changes(PromiseId, V) =>
               /\ Installed(promises, item.promises) \in [PromiseId -> V]
               /\ DOMAIN item.promises \subseteq PromiseId
               /\ \A i \in PromiseId : Installed(promises, item.promises)[i] =
                    IF i \in DOMAIN item.promises THEN item.promises[i] ELSE promises[i]
    BY InstalledTyped
  <2> QED BY <1>1, <1>4, <1>5, <2>1 DEF PromiseTable
<1>8. TypeOK'
  BY <1>1, <1>4, <1>5, <1>6, <1>7 DEF TypeInv, TypeOK, PromiseTable
<1>9. VersionsFollowSequence'
  <2>1. sequence <= item.final /\ sequence \in Nat /\ item.final \in Nat
    <3>1. SequenceIsContiguous(item)
      BY <1>1 DEF Installable
    <3>2. sequence \in 0 .. MaxSequence
      BY <1>5 DEF TypeInv, TypeOK
    <3> QED BY <1>3, <1>4, <3>1, <3>2, ContiguousGrows, CountsAreNatural DEF CoordInv
  <2>2. VersionsFollow(item.promises, item.final)
    BY <1>2, <1>3 DEF CoordInv, LoggedVersions
  <2> SUFFICES ASSUME NEW i \in PromiseId, promises'[i].state # "Absent"
               PROVE  promises'[i].version <= promises'[i].updated /\ promises'[i].updated <= sequence'
    BY DEF VersionsFollowSequence
  <2>3. CASE i \in DOMAIN item.promises
    BY <1>1, <1>7, <2>2, <2>3 DEF VersionsFollow
  <2>4. CASE i \notin DOMAIN item.promises
    <3>1. promises'[i] = promises[i]
      BY <1>7, <2>4
    <3>2. /\ promises[i].version <= promises[i].updated /\ promises[i].updated <= sequence
          /\ promises[i] \in PromiseRecord
      <4>1. promises[i] \in PromiseRecord
        BY <1>5, <2>4, <3>1 DEF PromiseTable, Absent
      <4> QED BY <1>5, <3>1, <4>1 DEF TypeInv, VersionsFollowSequence
    <3>3. promises[i].updated \in Int
      BY <3>2, CountsAreNatural DEF PromiseRecord
    <3> QED BY <1>1, <2>1, <3>1, <3>2, <3>3
  <2> QED BY <2>3, <2>4
<1>10. TypeInv'
  BY <1>8, <1>9 DEF TypeInv
<1>11. events' \in Seq(Notice)
  <2>1. events \o item.events \in Seq(Notice)
    BY <1>4, <1>5, ConcatProperties
  <2> QED BY <1>1, <2>1
<1>12. /\ EntryOf(item) \in Entry /\ EntryOf(item) # NoRecord /\ item.identity \in Identity
       /\ records' = [records EXCEPT ![item.identity] = EntryOf(item)]
       /\ records[item.identity] = NoRecord
  BY <1>1, <1>3, EntryIsSomething DEF EntryOf, Installable
<1>13. /\ records' \in RecordTable
       /\ records'[item.identity] = EntryOf(item)
       /\ \A i \in Identity : i # item.identity => records'[i] = records[i]
  BY <1>5, <1>12 DEF RecordTable
<1>14. nextRecord' \in 1 .. Len(log') + 1 /\ nextRecord' - 1 = nextRecord
  BY <1>1, <1>2
<1>15. CoordTypes'
  BY <1>1, <1>10, <1>11, <1>13, <1>14 DEF CoordInv, CoordTypes
<1>16. LoggedVersions' /\ Once(log')
  BY <1>1 DEF CoordInv, LoggedVersions
<1>17. Keeps(records', log, nextRecord)
  <2>1. Keeps(records, log, nextRecord - 1)
    BY <1>1 DEF CoordInv, PhaseInv
  <2>2. \A k \in 1 .. nextRecord : k = nextRecord \/ k \in 1 .. nextRecord - 1
    BY <1>2
  <2>3. \A k \in 1 .. nextRecord - 1 : k \in 1 .. Len(log) /\ k # nextRecord
    BY <1>2
  <2>4. ASSUME NEW k \in 1 .. nextRecord PROVE records'[log[k].identity] = EntryOf(log[k])
    <3>1. CASE k = nextRecord
      BY <1>3, <1>13, <3>1
    <3>2. CASE k \in 1 .. nextRecord - 1
      <4>1. log[k].identity \in Identity /\ log[k].identity # item.identity
        <5>1. log[k] \in DurableItem
          BY <1>2, <2>3, <3>2
        <5>2. log[k].identity \in Identity
          BY <5>1, EntryIsSomething
        <5> QED BY <1>2, <1>3, <2>3, <3>2, <5>2 DEF CoordInv, Once
      <4> QED BY <1>13, <2>1, <3>2, <4>1 DEF Keeps
    <3> QED BY <2>2, <3>1, <3>2
  <2>5. ASSUME NEW i \in Identity, records'[i] # NoRecord
        PROVE  \E k \in 1 .. nextRecord : log[k].identity = i
    <3>1. CASE i = item.identity
      <4>1. nextRecord \in 1 .. nextRecord
        BY <1>2
      <4> QED BY <1>3, <3>1, <4>1
    <3>2. CASE i # item.identity
      <4>1. PICK k \in 1 .. nextRecord - 1 : log[k].identity = i
        BY <1>13, <2>1, <2>5, <3>2 DEF Keeps
      <4>2. k \in 1 .. nextRecord
        BY <1>2
      <4> QED BY <4>1, <4>2
    <3> QED BY <3>1, <3>2
  <2> QED BY <2>4, <2>5 DEF Keeps
<1>18. PhaseInv'
  BY <1>1, <1>14, <1>17 DEF CoordInv, PhaseInv
<1> QED BY <1>15, <1>16, <1>18 DEF CoordInv

\* The index recovery computes is an index.
LEMMA RebuiltTyped ==
  ASSUME CoordTypes
  PROVE  RebuiltSlack \in [Pool -> [Time -> Int]]
<1>1. pools \in [Pool -> Curve \union {NoCurve}] /\ promises \in PromiseTable
  BY DEF CoordTypes, TypeInv, TypeOK, PromiseTable
<1>2. ASSUME NEW p \in Pool, NEW t \in Time
      PROVE  (IF pools[p] = NoCurve THEN 0 ELSE pools[p][t] - Usage(promises, p, t)) \in Int
  <2>1. CASE pools[p] # NoCurve
    <3>1. pools[p][t] \in Int
      <4>1. pools[p] \in [Time -> 0 .. MaxQuantity]
        BY <1>1, <2>1, CurvesBoundCapacity
      <4> QED BY <4>1
    <3>2. Usage(promises, p, t) \in Nat
      BY <1>1, UsageTyped
    <3> QED BY <2>1, <3>1, <3>2
  <2> QED BY <2>1
<1> QED BY <1>2 DEF RebuiltSlack

\* Recovery ends.
LEMMA FinishRecoveryKeeps ==
  ASSUME CoordInv, FinishRecovery
  PROVE  CoordInv'
<1>1. /\ phase = "Recovering" /\ nextRecord > Len(log) /\ phase' = "Idle"
      /\ slack' = RebuiltSlack /\ published' = [State EXCEPT !.slack = RebuiltSlack]
      /\ synced' = IF torn THEN Len(log) ELSE synced
      /\ torn' = FALSE
      /\ UNCHANGED <<deployment, pools, promises, sequence, events, reply, forced,
                     records, batch, answers, log, nextRecord, poisoned>>
  BY DEF FinishRecovery
<1>2. /\ Len(log) \in Nat /\ synced \in 0 .. Len(log) /\ nextRecord \in 1 .. Len(log) + 1
  <2>1. log \in Seq(DurableItem)
    BY DEF CoordInv, CoordTypes
  <2> QED BY <2>1 DEF CoordInv, CoordTypes
<1>3. nextRecord' - 1 = Len(log) /\ nextRecord - 1 = Len(log) /\ synced' \in 0 .. Len(log')
  BY <1>1, <1>2
<1>4. /\ TypeInv /\ events \in Seq(Notice) /\ records \in RecordTable
      /\ pools \in [Pool -> Curve \union {NoCurve}] /\ promises \in PromiseTable
      /\ sequence \in 0 .. MaxSequence /\ RebuiltSlack \in [Pool -> [Time -> Int]]
  BY RebuiltTyped DEF CoordInv, CoordTypes, TypeInv, TypeOK, PromiseTable
<1>5. TypeInv'
  BY <1>1, <1>4 DEF TypeInv, TypeOK, VersionsFollowSequence
<1>6. /\ published' \in EngineState /\ published'.records = records
      /\ VersionsFollow(published'.promises, published'.sequence)
  <2> HIDE DEF RebuiltSlack
  <2>1. published' = [pools |-> pools, slack |-> RebuiltSlack, promises |-> promises,
                      sequence |-> sequence, events |-> events, records |-> records]
    BY <1>1 DEF State
  <2>2. DOMAIN promises = PromiseId
    BY <1>4 DEF PromiseTable
  <2>3. VersionsFollow(promises, sequence)
    BY <1>4, <2>2 DEF TypeInv, VersionsFollowSequence, VersionsFollow
  <2> QED BY <1>4, <2>1, <2>3 DEF EngineState
<1>7. CoordTypes'
  BY <1>1, <1>3, <1>4, <1>5, <1>6 DEF CoordInv, CoordTypes
<1>8. LoggedVersions' /\ Once(log')
  BY <1>1 DEF CoordInv, LoggedVersions
<1>9. batch = <<>> /\ answers = <<>> /\ ~poisoned /\ Keeps(records, log, nextRecord - 1)
  BY <1>1 DEF CoordInv, PhaseInv
<1>10. BatchExtendsTable' /\ AnswersAreRecorded'
  <2>1. DOMAIN batch' = {} /\ DOMAIN answers' = {}
    BY <1>1, <1>9
  <2> QED BY <1>1, <1>6, <2>1 DEF BatchExtendsTable, AnswersAreRecorded, Once
<1>11. PhaseInv'
  BY <1>1, <1>3, <1>6, <1>9, <1>10 DEF PhaseInv
<1> QED BY <1>7, <1>8, <1>11 DEF CoordInv

-----------------------------------------------------------------------------
(* The invariant, and the types of the coordinator.                         *)

\* A new database.
LEMMA CoordInit ==
  ASSUME CInit
  PROVE  CoordInv
<1>1. /\ TypeInv /\ events = <<>>
      /\ deployment \in Deployments /\ records = [i \in Identity |-> NoRecord]
      /\ published = EmptyState /\ phase = "Idle" /\ batch = <<>> /\ answers = <<>>
      /\ log = <<>> /\ synced = 0 /\ torn = FALSE /\ nextRecord = 1 /\ poisoned = FALSE
  BY InitTyped DEF CInit, Init
<1>2. /\ DOMAIN log = {} /\ DOMAIN batch = {} /\ DOMAIN answers = {}
      /\ Len(log) = 0 /\ Len(batch) = 0 /\ Len(answers) = 0 /\ nextRecord - 1 = 0
      /\ 0 <= MaxBatch /\ 0 <= MaxRecord
  BY <1>1, CoordinatorConstants
<1>3. records \in RecordTable /\ events \in Seq(Notice) /\ batch \in Seq(DurableItem)
      /\ log \in Seq(DurableItem) /\ answers \in Seq(Identity \X Response)
  BY <1>1 DEF RecordTable
<1>4. published \in EngineState /\ VersionsFollow(published.promises, published.sequence)
      /\ published.records = records
  BY <1>1, EmptyStateTyped
<1>5. CoordTypes
  <2>1. torn \in BOOLEAN /\ poisoned \in BOOLEAN
    BY <1>1
  <2>2. synced \in 0 .. Len(log) /\ nextRecord \in 1 .. Len(log) + 1 /\ Len(batch) <= Len(answers)
        /\ Len(answers) <= MaxBatch /\ Len(log) <= MaxRecord
    BY <1>1, <1>2
  <2> QED BY <1>1, <1>3, <1>4, <2>1, <2>2 DEF CoordTypes
<1>6. LoggedVersions /\ Once(log) /\ BatchExtendsTable /\ AnswersAreRecorded
  BY <1>2, <1>4 DEF LoggedVersions, Once, BatchExtendsTable, AnswersAreRecorded
<1>7. Keeps(published.records, log, nextRecord - 1)
  BY <1>1, <1>2, <1>4, EmptyTableKeeps
<1>8. PhaseInv
  BY <1>1, <1>2, <1>6, <1>7 DEF PhaseInv
<1> QED BY <1>5, <1>6, <1>8 DEF CoordInv

\* A step of the coordinator, or none, keeps the invariant.
LEMMA CoordStep ==
  ASSUME CoordInv, [CNext]_cvars
  PROVE  CoordInv'
<1>1. CASE UNCHANGED cvars
  <2>1. /\ UNCHANGED <<deployment, records, published, phase, batch, answers, log, synced, torn,
                       nextRecord, poisoned>>
        /\ UNCHANGED vars
    BY <1>1 DEF cvars, vars
  <2>2. TypeInv' /\ events' = events
    BY <2>1, StutterTyped DEF CoordInv, CoordTypes, vars
  <2>3. CoordTypes'
    BY <2>1, <2>2 DEF CoordInv, CoordTypes
  <2>4. LoggedVersions' /\ Once(log') /\ PhaseInv'
    BY <2>1 DEF CoordInv, LoggedVersions, PhaseInv, BatchExtendsTable, AnswersAreRecorded
  <2> QED BY <2>3, <2>4 DEF CoordInv
<1>2. ASSUME NEW request \in Request, NEW now \in Instant, PrepareNew(request, now)
      PROVE  CoordInv'
  BY <1>2, PrepareNewKeeps
<1>3. ASSUME NEW request \in Request, PrepareSeen(request)
      PROVE  CoordInv'
  BY <1>3, PrepareSeenKeeps
<1>4. CASE AnswerSeen BY <1>4, AnswerSeenKeeps
<1>5. CASE Abandon BY <1>5, AbandonKeeps
<1>6. CASE AppendBatch BY <1>6, AppendBatchKeeps
<1>7. CASE MakeDurable BY <1>7, MakeDurableKeeps
<1>8. CASE Publish BY <1>8, PublishKeeps
<1>9. CASE PersistFails BY <1>9, PersistFailsKeeps
<1>10. CASE CrashProcess BY <1>10, CrashProcessKeeps
<1>11. CASE LosePower BY <1>11, LosePowerKeeps
<1>12. CASE InstallRecord BY <1>12, InstallRecordKeeps
<1>13. CASE FinishRecovery BY <1>13, FinishRecoveryKeeps
<1> QED BY <1>1, <1>2, <1>3, <1>4, <1>5, <1>6, <1>7, <1>8, <1>9, <1>10, <1>11, <1>12, <1>13
        DEF CNext

\* Whatever is executed, fails, crashes or is recovered, the log holds every identity
\* once and the published table keeps exactly what the records up to nextRecord say:
\* apply_batch never publishes an idempotency record that is not in the log.
THEOREM CoordInvariant == CSpec => []CoordInv
<1>1. CInit => CoordInv
  BY CoordInit
<1>2. CoordInv /\ [CNext]_cvars => CoordInv'
  BY CoordStep
<1> QED BY <1>1, <1>2, PTL DEF CSpec

\* The coordinator's state is what its fields promise (Database, RecordReader), with
\* the record sequence never beyond its last value.
THEOREM CoordinatorTyped == CSpec => []CTypeOK
<1>1. CoordInv => CTypeOK
  <2> SUFFICES ASSUME CoordInv PROVE CTypeOK
    OBVIOUS
  <2>1. /\ CoordTypes /\ TypeOK /\ log \in Seq(DurableItem) /\ Len(log) \in Nat
        /\ Len(log) <= MaxRecord /\ MaxRecord \in Nat
        /\ nextRecord \in 1 .. Len(log) + 1
    <3>1. CoordTypes
      BY DEF CoordInv
    <3> QED BY <3>1, CoordinatorConstants DEF CoordTypes, TypeInv
  <2>2. nextRecord \in 1 .. MaxRecord + 1
    BY <2>1
  <2> QED BY <2>1, <2>2 DEF CoordTypes, CTypeOK
<1> QED BY <1>1, CoordInvariant, PTL

-----------------------------------------------------------------------------
(* What readers see is in the log, and what clients were told stays there.  *)

\* Databases with Durability::Sync are not restarted while the machine keeps running:
\* recovery does not synchronize what it finds in the log unless it cuts a partial
\* record off, and publishes it.
SyncedRestarts == \A d \in Deployments : d.durability = "Sync" => "Process" \notin d.crashes

\* A loss of power happens to databases that are synchronized, and only to them.
PowerIsSynced ==
  \A d \in Deployments :
    "Power" \in d.crashes => d.durability = "Sync" /\ "Process" \notin d.crashes

\* The log keeps what it has, and may have more.
LogExtends ==
  /\ Len(log') \in Nat /\ Len(log') >= Len(log)
  /\ \A k \in 1 .. Len(log) : log'[k] = log[k]

\* What a step of the coordinator does to the log.
LEMMA LogSteps ==
  ASSUME CoordInv, [CNext]_cvars
  PROVE  /\ deployment' = deployment
         /\ LogExtends \/ LosePower
         /\ log' = log \/ AppendBatch \/ PersistFails \/ CrashProcess \/ LosePower
         /\ told' = told \/ AnswerSeen \/ Publish
<1>1. /\ CoordTypes /\ Len(log) \in Nat /\ Len(batch) \in Nat
  <2>1. CoordTypes
    BY DEF CoordInv
  <2>2. log \in Seq(DurableItem) /\ batch \in Seq(DurableItem)
    BY <2>1 DEF CoordTypes
  <2> QED BY <2>1, <2>2
<1>2. log' = log => LogExtends
  BY <1>1 DEF LogExtends
<1>3. PartialAppend => LogExtends
  <2> SUFFICES ASSUME NEW n \in 0 .. Len(batch), log' = log \o SubSeq(Framed, 1, n)
               PROVE  LogExtends
    BY DEF PartialAppend
  <2>1. GrownBy(n)
    BY <1>1, PartialAppendGrows
  <2>2. Len(log') = Len(log) + n /\ n \in Nat
    BY <1>1, <2>1 DEF GrownBy
  <2>3. Len(log') \in Nat /\ Len(log') >= Len(log)
    BY <1>1, <2>2
  <2> QED BY <2>1, <2>3 DEF GrownBy, LogExtends
<1>4. ASSUME NEW request \in Request, NEW now \in Instant, PrepareNew(request, now)
      PROVE  UNCHANGED <<deployment, log, told>>
  BY <1>4 DEF PrepareNew
<1>5. ASSUME NEW request \in Request, PrepareSeen(request)
      PROVE  UNCHANGED <<deployment, log, told>>
  BY <1>5 DEF PrepareSeen
<1>6. CASE Abandon \/ MakeDurable \/ InstallRecord \/ FinishRecovery \/ UNCHANGED cvars
  <2>1. UNCHANGED <<deployment, log, told>>
    BY <1>6 DEF Abandon, MakeDurable, InstallRecord, FinishRecovery, cvars
  <2> QED BY <1>2, <2>1
<1>7. CASE AnswerSeen \/ Publish
  <2>1. UNCHANGED <<deployment, log>>
    BY <1>7 DEF AnswerSeen, Publish
  <2> QED BY <1>2, <1>7, <2>1
<1>8. CASE AppendBatch
  <2>1. GrownBy(Len(batch)) /\ UNCHANGED <<deployment, told>>
    BY <1>1, <1>8, AppendGrows DEF AppendBatch
  <2>2. Len(log') = Len(log) + Len(batch)
    BY <2>1 DEF GrownBy
  <2>3. Len(log') \in Nat /\ Len(log') >= Len(log)
    BY <1>1, <2>2
  <2>4. LogExtends
    BY <2>1, <2>3 DEF GrownBy, LogExtends
  <2> QED BY <1>8, <2>1, <2>4
<1>9. CASE PersistFails
  <2>1. (PartialAppend \/ log' = log) /\ UNCHANGED <<deployment, told>>
    BY <1>9 DEF PersistFails
  <2> QED BY <1>2, <1>3, <1>9, <2>1
<1>10. CASE CrashProcess
  <2>1. (PartialAppend \/ log' = log) /\ UNCHANGED <<deployment, told>>
    BY <1>10 DEF CrashProcess, Stop, store
  <2> QED BY <1>2, <1>3, <1>10, <2>1
<1>11. CASE LosePower
  <2>1. UNCHANGED <<deployment, told>>
    BY <1>11 DEF LosePower, Stop
  <2> QED BY <1>11, <2>1
<1> QED BY <1>2, <1>4, <1>5, <1>6, <1>7, <1>8, <1>9, <1>10, <1>11 DEF CNext

\* Synchronizing goes on, and only a loss of power takes it back.
LEMMA SyncKept ==
  ASSUME CoordInv, SyncInv, [CNext]_cvars
  PROVE  SyncInv'
<1> SUFFICES ASSUME Steady'
             PROVE  /\ phase' \in {"Recovering", "Persisted"} => synced' = Len(log')
                    /\ phase' # "Recovering" => synced' >= nextRecord' - 1
  BY DEF SyncInv
<1>1. deployment' = deployment
  BY LogSteps
<1>2. /\ deployment.durability = "Sync" /\ "Process" \notin deployment.crashes
      /\ phase \in {"Recovering", "Persisted"} => synced = Len(log)
      /\ phase # "Recovering" => synced >= nextRecord - 1
  <2>1. Steady
    BY <1>1 DEF Steady
  <2> QED BY <2>1 DEF SyncInv, Steady
<1>3. /\ Len(log) \in Nat /\ nextRecord \in Nat /\ synced \in Nat /\ Len(batch) \in Nat
      /\ nextRecord - 1 <= Len(log)
  <2>1. /\ log \in Seq(DurableItem) /\ batch \in Seq(DurableItem) /\ synced \in 0 .. Len(log)
        /\ nextRecord \in 1 .. Len(log) + 1
    BY DEF CoordInv, CoordTypes
  <2> QED BY <2>1
<1>4. ASSUME NEW request \in Request, NEW now \in Instant, PrepareNew(request, now)
      PROVE  phase' = "Preparing" /\ UNCHANGED <<log, synced, nextRecord>> /\ phase # "Recovering"
  BY <1>4 DEF PrepareNew, CanPrepare
<1>5. ASSUME NEW request \in Request, PrepareSeen(request)
      PROVE  phase' = "Preparing" /\ UNCHANGED <<log, synced, nextRecord>> /\ phase # "Recovering"
  BY <1>5 DEF PrepareSeen, CanPrepare
<1>6. CASE AnswerSeen \/ Abandon \/ PersistFails
  <2>1. phase' = "Idle" /\ UNCHANGED <<synced, nextRecord>> /\ phase # "Recovering"
    BY <1>6 DEF AnswerSeen, Abandon, PersistFails, EndBatch
  <2> QED BY <1>2, <2>1
<1>7. CASE AppendBatch
  <2>1. phase' = "Appended" /\ UNCHANGED <<synced, nextRecord>> /\ phase # "Recovering"
    BY <1>2, <1>7 DEF AppendBatch
  <2> QED BY <1>2, <2>1
<1>8. CASE MakeDurable
  <2>1. phase' = "Persisted" /\ synced' = Len(log) /\ log' = log /\ nextRecord' = nextRecord
    BY <1>2, <1>8 DEF MakeDurable
  <2> QED BY <1>3, <2>1
<1>9. CASE Publish
  <2>1. /\ phase = "Persisted" /\ phase' = "Idle" /\ synced' = synced
        /\ nextRecord' = nextRecord + Len(batch)
    BY <1>9 DEF Publish, EndBatch
  <2>2. Len(log) = nextRecord - 1 + Len(batch)
    BY <2>1 DEF CoordInv, PhaseInv
  <2> QED BY <1>2, <1>3, <2>1, <2>2
<1>10. CASE CrashProcess
  BY <1>2, <1>10 DEF CrashProcess
<1>11. CASE LosePower
  <2>1. PICK n \in synced .. Len(log) : log' = SubSeq(log, 1, n) /\ synced' = n
    BY <1>11 DEF LosePower
  <2>2. Len(log') = n
    BY <2>1, CutLog DEF CoordInv
  <2>3. phase' = "Recovering"
    BY <1>11 DEF LosePower, Stop
  <2> QED BY <2>1, <2>2, <2>3
<1>12. CASE InstallRecord
  <2>1. phase = "Recovering" /\ phase' = "Recovering" /\ UNCHANGED <<log, synced>>
    BY <1>12 DEF InstallRecord
  <2> QED BY <1>2, <2>1
<1>13. CASE FinishRecovery
  <2>1. /\ phase = "Recovering" /\ phase' = "Idle" /\ UNCHANGED <<log, nextRecord>>
        /\ synced' = IF torn THEN Len(log) ELSE synced
    BY <1>13 DEF FinishRecovery
  <2>2. synced' = Len(log)
    BY <1>2, <2>1
  <2> QED BY <1>3, <2>1, <2>2
<1>14. CASE UNCHANGED cvars
  <2>1. UNCHANGED <<phase, log, synced, nextRecord>>
    BY <1>14 DEF cvars
  <2> QED BY <1>2, <2>1
<1> QED BY <1>2, <1>4, <1>5, <1>6, <1>7, <1>8, <1>9, <1>10, <1>11, <1>12, <1>13, <1>14 DEF CNext

\* Persist before publish (publish_batch after append and sync): whatever a reader can
\* see was executed by a command whose record is in the log, and with Durability::Sync
\* in the synchronized part of it, if restarts find the log synchronized.
THEOREM PersistBeforePublish ==
  ASSUME SyncedRestarts
  PROVE  CSpec => []ServesOnlyPersisted
<1>1. CInit => SyncInv /\ CoordInv
  <2> SUFFICES ASSUME CInit PROVE SyncInv /\ CoordInv
    OBVIOUS
  <2>1. phase = "Idle" /\ synced = 0 /\ nextRecord = 1
    BY DEF CInit
  <2> QED BY <2>1, CoordInit DEF SyncInv
<1>2. CoordInv /\ SyncInv /\ [CNext]_cvars => CoordInv' /\ SyncInv'
  BY CoordStep, SyncKept
<1>3. CoordInv /\ SyncInv => ServesOnlyPersisted
  <2> SUFFICES ASSUME CoordInv, SyncInv,
                      NEW i \in Identity, published.records[i] # NoRecord
               PROVE  \E k \in 1 .. (IF deployment.durability = "Sync" THEN synced ELSE Len(log)) :
                        log[k].identity = i /\ log[k].response = published.records[i].response
    BY DEF ServesOnlyPersisted
  <2>1. phase # "Recovering"
    <3>1. phase = "Recovering" => published.records = [j \in Identity |-> NoRecord]
      BY EmptyStateTyped DEF CoordInv, PhaseInv
    <3> QED BY <3>1
  <2>2. Keeps(published.records, log, nextRecord - 1)
    BY <2>1 DEF CoordInv, PhaseInv
  <2>3. PICK k \in 1 .. nextRecord - 1 : log[k].identity = i
    BY <2>2 DEF Keeps
  <2>4. published.records[i] = EntryOf(log[k])
    BY <2>2, <2>3 DEF Keeps
  <2>5. /\ log \in Seq(DurableItem) /\ Len(log) \in Nat /\ synced \in Nat
        /\ nextRecord \in Nat /\ nextRecord - 1 <= Len(log) /\ k \in 1 .. Len(log)
    <3>1. /\ log \in Seq(DurableItem) /\ synced \in 0 .. Len(log)
          /\ nextRecord \in 1 .. Len(log) + 1
      BY DEF CoordInv, CoordTypes
    <3>2. Len(log) \in Nat
      BY <3>1
    <3> QED BY <2>3, <3>1, <3>2
  <2>6. log[k].response = published.records[i].response
    BY <2>4 DEF EntryOf
  <2>7. deployment.durability = "Sync" => k \in 1 .. synced
    <3>1. deployment \in Deployments
      BY DEF CoordInv, CoordTypes
    <3>2. deployment.durability = "Sync" => nextRecord - 1 <= synced
      BY <2>1, <3>1 DEF SyncedRestarts, SyncInv, Steady
    <3> QED BY <2>3, <2>5, <3>2
  <2> QED BY <2>3, <2>5, <2>6, <2>7
<1> QED BY <1>1, <1>2, <1>3, PTL DEF CSpec

\* The last record that the answers given may rest on.
Kept == IF "Power" \in deployment.crashes THEN synced ELSE Len(log)

\* Every answer about to be given is the response in a record that is kept.
LEMMA ResultsAreLogged ==
  ASSUME CoordInv, SyncInv, PowerIsSynced, AnswerSeen \/ Publish
  PROVE  \A answer \in Results :
           \E k \in 1 .. Kept : answer = <<log[k].identity, log[k].response>>
<1>1. /\ log \in Seq(DurableItem) /\ Len(log) \in Nat /\ synced \in Nat /\ nextRecord \in Nat
      /\ records \in RecordTable /\ answers \in Seq(Identity \X Response)
      /\ deployment \in Deployments
  <2>1. /\ log \in Seq(DurableItem) /\ synced \in 0 .. Len(log)
        /\ nextRecord \in 1 .. Len(log) + 1
        /\ records \in RecordTable /\ answers \in Seq(Identity \X Response)
        /\ deployment \in Deployments
    BY DEF CoordInv, CoordTypes
  <2> QED BY <2>1
<1>2. "Power" \in deployment.crashes => Steady
  BY <1>1 DEF PowerIsSynced, Steady
<1>3. AnswersAreRecorded /\ Keeps(records, log, Len(log)) /\ Kept = Len(log)
  <2>1. CASE Publish
    <3>1. phase = "Persisted"
      BY <2>1 DEF Publish
    <3>2. Keeps(records, log, Len(log))
      BY <3>1, CandidateKeepsLog
    <3>3. Kept = Len(log)
      BY <1>2, <3>1 DEF SyncInv, Kept
    <3> QED BY <3>1, <3>2, <3>3 DEF CoordInv, PhaseInv
  <2>2. CASE AnswerSeen
    <3>1. phase = "Preparing" /\ batch = <<>> /\ DOMAIN batch = {}
      BY <2>2 DEF AnswerSeen
    <3>2. /\ Keeps(published.records, log, nextRecord - 1) /\ Len(log) = nextRecord - 1
          /\ BatchExtendsTable /\ AnswersAreRecorded
      BY <3>1 DEF CoordInv, PhaseInv
    <3>3. \A i \in Identity : records[i] = published.records[i]
      BY <3>1, <3>2 DEF BatchExtendsTable
    <3>4. \A k \in 1 .. Len(log) : log[k].identity \in Identity
      <4>1. \A k \in 1 .. Len(log) : log[k] \in DurableItem
        BY <1>1
      <4> QED BY <4>1, EntryIsSomething
    <3>5. Keeps(records, log, Len(log))
      BY <3>2, <3>3, <3>4 DEF Keeps
    <3>6. Kept = Len(log)
      <4>1. Steady => synced >= nextRecord - 1
        BY <3>1 DEF SyncInv
      <4>2. synced \in 0 .. Len(log)
        BY DEF CoordInv, CoordTypes
      <4>3. Steady => synced = Len(log)
        BY <1>1, <3>2, <4>1, <4>2
      <4> QED BY <1>2, <4>3 DEF Kept
    <3> QED BY <3>2, <3>5, <3>6
  <2> QED BY <2>1, <2>2
<1>4. ASSUME NEW answer \in Results
      PROVE  \E k \in 1 .. Len(log) : answer = <<log[k].identity, log[k].response>>
  <2>1. PICK n \in DOMAIN answers : answer = answers[n] /\ answer[2].tag # "IdempotencyConflict"
    BY DEF Results
  <2>2. answer \in Identity \X Response
    BY <1>1, <2>1
  <2>3. records[answer[1]] # NoRecord /\ answer[2] = records[answer[1]].response
    BY <1>3, <2>1 DEF AnswersAreRecorded
  <2>4. PICK k \in 1 .. Len(log) : log[k].identity = answer[1]
    BY <1>3, <2>2, <2>3 DEF Keeps
  <2>5. records[answer[1]] = EntryOf(log[k])
    BY <1>3, <2>4 DEF Keeps
  <2>6. answer[2] = log[k].response
    BY <2>3, <2>5 DEF EntryOf
  <2> QED BY <2>2, <2>4, <2>6
<1> QED BY <1>3, <1>4

\* The synchronized part of the log never gets shorter.
LEMMA SyncedGrows ==
  ASSUME CoordInv, [CNext]_cvars
  PROVE  synced' \in Int /\ synced' >= synced
<1>1. synced \in Nat /\ synced <= Len(log) /\ Len(log) \in Nat
  <2>1. log \in Seq(DurableItem) /\ synced \in 0 .. Len(log)
    BY DEF CoordInv, CoordTypes
  <2> QED BY <2>1
<1>2. synced' = synced \/ synced' = Len(log) \/ \E n \in synced .. Len(log) : synced' = n
  <2>1. ASSUME NEW request \in Request, NEW now \in Instant, PrepareNew(request, now)
        PROVE  synced' = synced
    BY <2>1 DEF PrepareNew
  <2>2. ASSUME NEW request \in Request, PrepareSeen(request)
        PROVE  synced' = synced
    BY <2>2 DEF PrepareSeen
  <2>3. CASE AnswerSeen \/ Abandon \/ AppendBatch \/ Publish \/ PersistFails \/ InstallRecord
             \/ UNCHANGED cvars
    BY <2>3 DEF AnswerSeen, Abandon, AppendBatch, Publish, PersistFails, InstallRecord, cvars
  <2>4. CASE MakeDurable \/ FinishRecovery
    BY <2>4 DEF MakeDurable, FinishRecovery
  <2>5. CASE CrashProcess
    BY <2>5 DEF CrashProcess, store
  <2>6. CASE LosePower
    BY <2>6 DEF LosePower
  <2> QED BY <2>1, <2>2, <2>3, <2>4, <2>5, <2>6 DEF CNext
<1> QED BY <1>1, <1>2

\* What clients were told stays in the log, in the part that the crashes of the
\* database spare.
LEMMA ToldKept ==
  ASSUME CoordInv, SyncInv, ToldInv, PowerIsSynced, [CNext]_cvars
  PROVE  ToldInv'
<1>1. /\ log \in Seq(DurableItem) /\ Len(log) \in Nat /\ synced \in Nat /\ synced <= Len(log)
  <2>1. log \in Seq(DurableItem) /\ synced \in 0 .. Len(log)
    BY DEF CoordInv, CoordTypes
  <2> QED BY <2>1
<1>2. /\ deployment' = deployment /\ (LogExtends \/ LosePower)
      /\ told' = told \/ AnswerSeen \/ Publish
  BY LogSteps
<1>3. CoordInv'
  BY CoordStep
<1>4. Kept' \in Int /\ Kept' >= Kept /\ Kept \in 0 .. Len(log)
      /\ \A k \in 1 .. Kept : log'[k] = log[k]
  <2>1. CASE "Power" \notin deployment.crashes
    <3>1. LogExtends
      BY <1>2, <2>1 DEF LosePower
    <3>2. Kept = Len(log) /\ Kept' = Len(log')
      BY <1>2, <2>1 DEF Kept
    <3> QED BY <1>1, <3>1, <3>2 DEF LogExtends
  <2>2. CASE "Power" \in deployment.crashes
    <3>1. Kept = synced /\ Kept' = synced'
      BY <1>2, <2>2 DEF Kept
    <3>2. synced' \in Int /\ synced' >= synced
      BY <1>1, SyncedGrows
    <3>3. \A k \in 1 .. synced : log'[k] = log[k]
      <4>1. CASE LogExtends
        BY <1>1, <4>1 DEF LogExtends
      <4>2. CASE LosePower
        <5>1. PICK n \in synced .. Len(log) : log' = SubSeq(log, 1, n)
          BY <4>2 DEF LosePower
        <5>2. n \in Nat /\ synced \in 0 .. n /\ \A k \in 1 .. n : log'[k] = log[k]
          BY <5>1, CutLog DEF CoordInv
        <5> QED BY <5>2
      <4> QED BY <1>2, <4>1, <4>2
    <3> QED BY <1>1, <3>1, <3>2, <3>3
  <2> QED BY <2>1, <2>2
<1>5. ASSUME NEW answer \in told' PROVE \E k \in 1 .. Kept : answer = <<log[k].identity, log[k].response>>
  <2>1. CASE answer \in told
    BY <2>1 DEF ToldInv, Kept
  <2>2. CASE answer \notin told
    <3>1. AnswerSeen \/ Publish
      BY <1>2, <2>2
    <3>2. answer \in Results
      BY <2>2, <3>1 DEF AnswerSeen, Publish
    <3> QED BY <3>1, <3>2, ResultsAreLogged
  <2> QED BY <2>1, <2>2
<1>6. ASSUME NEW answer \in told'
      PROVE  \E k \in 1 .. Kept' : answer = <<log'[k].identity, log'[k].response>>
  <2>1. PICK k \in 1 .. Kept : answer = <<log[k].identity, log[k].response>>
    BY <1>5
  <2>2. k \in 1 .. Kept' /\ log'[k] = log[k]
    BY <1>4
  <2> QED BY <2>1, <2>2
<1> QED BY <1>6 DEF ToldInv, Kept

-----------------------------------------------------------------------------
(* The coordinator implements the service of ExactlyOnce.                   *)

\* The results that the records of a log hold.
ResultsOf(items) ==
  [i \in Identity |->
     IF \E k \in DOMAIN items : items[k].identity = i
     THEN items[CHOOSE k \in DOMAIN items :
                  items[k].identity = i /\ \A j \in 1 .. k - 1 : items[j].identity # i].response
     ELSE NoRecord]

\* The result of an identity that is in the log is the response in its record.
LEMMA ResultIsResponse ==
  ASSUME NEW items \in Seq(DurableItem), Once(items)
  PROVE  /\ DOMAIN ResultsOf(items) = Identity
         /\ \A k \in DOMAIN items : /\ items[k].identity \in Identity
                                    /\ ResultsOf(items)[items[k].identity] = items[k].response
                                    /\ items[k].response # NoRecord
         /\ \A i \in Identity : ResultsOf(items)[i] # NoRecord =>
              \E k \in DOMAIN items : items[k].identity = i
<1>1. Len(items) \in Nat /\ DOMAIN items = 1 .. Len(items)
  OBVIOUS
<1>2. ASSUME NEW k \in DOMAIN items
      PROVE  /\ items[k].identity \in Identity
             /\ ResultsOf(items)[items[k].identity] = items[k].response
             /\ items[k].response # NoRecord
  <2> DEFINE i == items[k].identity
             First(j) == items[j].identity = i /\ \A l \in 1 .. j - 1 : items[l].identity # i
             first == CHOOSE j \in DOMAIN items : First(j)
  <2>1. items[k] \in DurableItem
    BY <1>1
  <2>2. i \in Identity /\ items[k].response \in Response
    BY <2>1, EntryIsSomething
  <2>3. First(k)
    <3>1. ASSUME NEW l \in 1 .. k - 1, items[l].identity = i PROVE FALSE
      <4>1. l \in DOMAIN items /\ l # k
        BY <1>1
      <4> QED BY <3>1, <4>1 DEF Once
    <3> QED BY <3>1
  <2>4. \E j \in DOMAIN items : First(j)
    BY <2>3
  <2>5. first \in DOMAIN items /\ First(first)
    <3> HIDE DEF First
    <3> QED BY <2>4
  <2>6. first = k
    <3>1. items[first].identity = i /\ first \in DOMAIN items
      BY <2>5
    <3> HIDE DEF first
    <3> QED BY <3>1 DEF Once
  <2>7. ResultsOf(items)[i] = items[first].response
    <3>1. \E j \in DOMAIN items : items[j].identity = i
      OBVIOUS
    <3>2. ResultsOf(items)[i] =
            IF \E j \in DOMAIN items : items[j].identity = i
            THEN items[CHOOSE j \in DOMAIN items :
                         items[j].identity = i /\ \A l \in 1 .. j - 1 : items[l].identity # i].response
            ELSE NoRecord
      <4> HIDE DEF i
      <4> QED BY <2>2 DEF ResultsOf
    <3> QED BY <3>1, <3>2
  <2> HIDE DEF first
  <2> QED BY <2>2, <2>6, <2>7, RequestsAreCommands
<1>3. ASSUME NEW i \in Identity, ResultsOf(items)[i] # NoRecord
      PROVE  \E k \in DOMAIN items : items[k].identity = i
  BY <1>3 DEF ResultsOf
<1>4. DOMAIN ResultsOf(items) = Identity
  BY DEF ResultsOf
<1> QED BY <1>2, <1>3, <1>4

\* Results go from one log to another with the records that hold them.
LEMMA ResultsFollow ==
  ASSUME NEW items \in Seq(DurableItem), Once(items),
         NEW others \in Seq(DurableItem), Once(others), NEW n \in Nat,
         n <= Len(items), n <= Len(others),
         \A k \in 1 .. n : items[k] = others[k]
  PROVE  /\ \A k \in 1 .. n :
              ResultsOf(others)[items[k].identity] = ResultsOf(items)[items[k].identity]
         /\ n = Len(items) => \A i \in Identity : ResultsOf(items)[i] # NoRecord =>
                                ResultsOf(others)[i] = ResultsOf(items)[i]
<1>1. /\ DOMAIN items = 1 .. Len(items) /\ Len(items) \in Nat
      /\ DOMAIN others = 1 .. Len(others) /\ Len(others) \in Nat
  OBVIOUS
<1>2. ASSUME NEW k \in 1 .. n
      PROVE  ResultsOf(others)[items[k].identity] = ResultsOf(items)[items[k].identity]
  <2>1. k \in DOMAIN items /\ k \in DOMAIN others /\ items[k] = others[k]
    BY <1>1
  <2>2. /\ ResultsOf(items)[items[k].identity] = items[k].response
        /\ ResultsOf(others)[others[k].identity] = others[k].response
    BY <2>1, ResultIsResponse
  <2> QED BY <2>1, <2>2
<1>3. ASSUME n = Len(items), NEW i \in Identity, ResultsOf(items)[i] # NoRecord
      PROVE  ResultsOf(others)[i] = ResultsOf(items)[i]
  <2>1. PICK k \in DOMAIN items : items[k].identity = i
    BY <1>3, ResultIsResponse
  <2> QED BY <1>1, <1>2, <1>3, <2>1
<1> QED BY <1>2, <1>3

\* A step that keeps the log's records executes commands.
LEMMA ExtendingExecutes ==
  ASSUME CoordInv, CoordInv', LogExtends, told' = told
  PROVE  Service!Execute
<1>1. /\ log \in Seq(DurableItem) /\ Once(log) /\ log' \in Seq(DurableItem) /\ Once(log')
      /\ Len(log) \in Nat
  <2>1. log \in Seq(DurableItem) /\ Once(log) /\ log' \in Seq(DurableItem) /\ Once(log')
    BY DEF CoordInv, CoordTypes
  <2> QED BY <2>1
<1>2. /\ LogResults = ResultsOf(log) /\ LogResults' = ResultsOf(log')
  BY DEF LogResults, ResultsOf
<1>3. Len(log) <= Len(log') /\ \A k \in 1 .. Len(log) : log[k] = log'[k]
  BY <1>1 DEF LogExtends
<1>4. DOMAIN ResultsOf(log') = Identity
  BY <1>1, ResultIsResponse
<1>5. \A i \in Identity : ResultsOf(log)[i] # NoRecord => ResultsOf(log')[i] = ResultsOf(log)[i]
  BY <1>1, <1>3, ResultsFollow
<1> HIDE DEF LogResults
<1> QED BY <1>2, <1>4, <1>5 DEF Service!Execute

\* An answer is the result of its command.
LEMMA AnsweringTells ==
  ASSUME CoordInv, SyncInv, PowerIsSynced, AnswerSeen \/ Publish
  PROVE  Service!Tell
<1>1. /\ log \in Seq(DurableItem) /\ Once(log) /\ DOMAIN log = 1 .. Len(log) /\ Len(log) \in Nat
      /\ Kept \in 0 .. Len(log)
  <2>1. log \in Seq(DurableItem) /\ Once(log) /\ synced \in 0 .. Len(log)
    BY DEF CoordInv, CoordTypes
  <2> QED BY <2>1 DEF Kept
<1>2. log' = log /\ told' = told \union Results
  BY DEF AnswerSeen, Publish
<1>3. LogResults = ResultsOf(log) /\ LogResults' = ResultsOf(log')
  BY DEF LogResults, ResultsOf
<1>4. ASSUME NEW answer \in told' \ told
      PROVE  \E i \in Identity : LogResults[i] # NoRecord /\ answer = <<i, LogResults[i]>>
  <2>1. PICK k \in 1 .. Kept : answer = <<log[k].identity, log[k].response>>
    BY <1>2, ResultsAreLogged
  <2>2. k \in DOMAIN log
    BY <1>1
  <2>3. /\ log[k].identity \in Identity /\ ResultsOf(log)[log[k].identity] = log[k].response
        /\ log[k].response # NoRecord
    BY <1>1, <2>2, ResultIsResponse
  <2> HIDE DEF LogResults
  <2> QED BY <1>3, <2>1, <2>3
<1> HIDE DEF LogResults
<1> QED BY <1>2, <1>3, <1>4 DEF Service!Tell

\* A loss of power loses no result that a client knows.
LEMMA PowerLoses ==
  ASSUME CoordInv, CoordInv', ToldInv, LosePower
  PROVE  Service!Lose
<1>1. PICK n \in synced .. Len(log) : log' = SubSeq(log, 1, n)
  BY DEF LosePower
<1>2. /\ Len(log') = n /\ n \in Nat /\ n <= Len(log) /\ synced \in 0 .. n
      /\ \A k \in 1 .. n : log'[k] = log[k]
      /\ DOMAIN log = 1 .. Len(log) /\ DOMAIN log' = 1 .. n
  BY <1>1, CutLog DEF CoordInv
<1>3. /\ log \in Seq(DurableItem) /\ Once(log) /\ log' \in Seq(DurableItem) /\ Once(log')
  BY DEF CoordInv, CoordTypes
<1>4. /\ LogResults = ResultsOf(log) /\ LogResults' = ResultsOf(log') /\ told' = told
      /\ "Power" \in deployment.crashes
  BY DEF LogResults, ResultsOf, LosePower, Stop
<1>5. \A k \in 1 .. n : ResultsOf(log')[log[k].identity] = ResultsOf(log)[log[k].identity]
  BY <1>2, <1>3, ResultsFollow
<1>6. ASSUME NEW i \in Identity
      PROVE  ResultsOf(log')[i] = NoRecord \/ ResultsOf(log')[i] = ResultsOf(log)[i]
  <2>1. ASSUME ResultsOf(log')[i] # NoRecord PROVE ResultsOf(log')[i] = ResultsOf(log)[i]
    <3>1. PICK k \in DOMAIN log' : log'[k].identity = i
      BY <1>3, <2>1, ResultIsResponse
    <3> QED BY <1>2, <1>5, <3>1
  <2> QED BY <2>1
<1>7. ASSUME NEW i \in Identity, <<i, ResultsOf(log)[i]>> \in told
      PROVE  ResultsOf(log')[i] = ResultsOf(log)[i]
  <2>1. PICK k \in 1 .. synced : <<i, ResultsOf(log)[i]>> = <<log[k].identity, log[k].response>>
    BY <1>4, <1>7 DEF ToldInv
  <2>2. k \in 1 .. n /\ log[k].identity = i
    BY <1>2, <2>1
  <2> QED BY <1>5, <2>2
<1>8. DOMAIN ResultsOf(log') = Identity
  BY <1>3, ResultIsResponse
<1> HIDE DEF LogResults
<1> QED BY <1>4, <1>6, <1>7, <1>8 DEF Service!Lose

\* A command is executed once, and an answer given survives every crash and is the
\* answer to every retry: apply_batch, the crashes and the recovery of the database
\* implement the service, where a loss of power finds what was answered synchronized.
THEOREM CoordinatorIsExactlyOnce ==
  ASSUME PowerIsSynced
  PROVE  CSpec => ImplementsExactlyOnce
<1>1. CInit => CoordInv /\ SyncInv /\ ToldInv
  <2> SUFFICES ASSUME CInit PROVE SyncInv /\ CoordInv /\ ToldInv
    OBVIOUS
  <2>1. phase = "Idle" /\ synced = 0 /\ nextRecord = 1 /\ told = {}
    BY DEF CInit
  <2> QED BY <2>1, CoordInit DEF SyncInv, ToldInv
<1>2. CoordInv /\ SyncInv /\ ToldInv /\ [CNext]_cvars => CoordInv' /\ SyncInv' /\ ToldInv'
  BY CoordStep, SyncKept, ToldKept
<1>3. CInit => Service!Init
  <2> SUFFICES ASSUME CInit PROVE Service!Init
    OBVIOUS
  <2>1. log = <<>> /\ told = {} /\ DOMAIN log = {}
    BY DEF CInit
  <2>2. LogResults = [i \in Identity |-> NoRecord]
    BY <2>1 DEF LogResults
  <2> QED BY <2>1, <2>2 DEF Service!Init
<1>4. CoordInv /\ SyncInv /\ ToldInv /\ CoordInv' /\ [CNext]_cvars =>
        [Service!Next]_<<LogResults, told>>
  <2> SUFFICES ASSUME CoordInv, SyncInv, ToldInv, CoordInv', [CNext]_cvars
               PROVE  Service!Next \/ UNCHANGED <<LogResults, told>>
    OBVIOUS
  <2>1. /\ LogExtends \/ LosePower
        /\ told' = told \/ AnswerSeen \/ Publish
    BY LogSteps
  <2>2. CASE AnswerSeen \/ Publish
    BY <2>2, AnsweringTells DEF Service!Next
  <2>3. CASE LosePower
    BY <2>3, PowerLoses DEF Service!Next
  <2>4. CASE told' = told /\ LogExtends
    BY <2>4, ExtendingExecutes DEF Service!Next
  <2> QED BY <2>1, <2>2, <2>3, <2>4
<1> QED BY <1>1, <1>2, <1>3, <1>4, PTL DEF CSpec, ImplementsExactlyOnce, Service!Spec

-----------------------------------------------------------------------------
(* What the service promises, and so the coordinator.                       *)

\* Whatever clients were told is still a result.
ToldIsResult ==
  \A answer \in told :
    \E i \in Identity : LogResults[i] # NoRecord /\ answer = <<i, LogResults[i]>>

\* Clients of the service are told results, and a crash keeps the results they were
\* told (idempotency_records, restored by install_transition).
LEMMA ToldIsResultInvariant == Service!Spec => []ToldIsResult
<1>1. Service!Init => ToldIsResult
  BY DEF Service!Init, ToldIsResult
<1>2. ToldIsResult /\ [Service!Next]_<<LogResults, told>> => ToldIsResult'
  <2> SUFFICES ASSUME ToldIsResult, [Service!Next]_<<LogResults, told>>, NEW answer \in told'
               PROVE  \E i \in Identity :
                        LogResults'[i] # NoRecord /\ answer = <<i, LogResults'[i]>>
    BY DEF ToldIsResult
  <2>1. CASE Service!Execute
    BY <2>1 DEF Service!Execute, ToldIsResult
  <2>2. CASE Service!Tell
    BY <2>2 DEF Service!Tell, ToldIsResult
  <2>3. CASE Service!Lose
    <3>1. PICK i \in Identity : LogResults[i] # NoRecord /\ answer = <<i, LogResults[i]>>
      BY <2>3 DEF Service!Lose, ToldIsResult
    <3>2. LogResults'[i] = LogResults[i]
      BY <2>3, <3>1 DEF Service!Lose
    <3> QED BY <3>1, <3>2
  <2>4. CASE UNCHANGED <<LogResults, told>>
    BY <2>4 DEF ToldIsResult
  <2> QED BY <2>1, <2>2, <2>3, <2>4 DEF Service!Next
<1> QED BY <1>1, <1>2, PTL DEF Service!Spec

\* No client of the service is ever answered two ways for one identity: what Database
\* promises with the cached response of Engine::prepare_batch.
THEOREM AnswersAgreeInvariant == Service!Spec => []Service!AnswersAgree
<1>1. ToldIsResult => Service!AnswersAgree
  <2> SUFFICES ASSUME ToldIsResult, NEW i \in Identity, NEW r, NEW s,
                      <<i, r>> \in told, <<i, s>> \in told
               PROVE  r = s
    BY DEF Service!AnswersAgree
  <2>1. PICK j \in Identity : <<i, r>> = <<j, LogResults[j]>>
    BY DEF ToldIsResult
  <2>2. PICK k \in Identity : <<i, s>> = <<k, LogResults[k]>>
    BY DEF ToldIsResult
  <2> QED BY <2>1, <2>2
<1> QED BY <1>1, ToldIsResultInvariant, PTL

\* A client that retries a command is never given two results: the coordinator
\* implements the service, which never does.
THEOREM RetriesAgree ==
  ASSUME PowerIsSynced
  PROVE  CSpec => []RetriesAnswerAlike
BY CoordinatorIsExactlyOnce, AnswersAgreeInvariant, PTL DEF ImplementsExactlyOnce, RetriesAnswerAlike
=============================================================================
