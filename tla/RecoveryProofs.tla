--------------------------- MODULE RecoveryProofs ---------------------------
(***************************************************************************)
(* Theorems about crashes and recovery in Coordinator: the log always      *)
(* leads back to the published state, every prefix of it can be recovered, *)
(* and the published state can be restored from a snapshot.                *)
(***************************************************************************)
EXTENDS CoordinatorProofs

-----------------------------------------------------------------------------
(* What a state that recovery may reach is like.                            *)

\* The pools that exist in a state.
Present(st) == {p \in Pool : st.pools[p] # NoCurve}

\* The index is the one rebuild_slack_timelines computes, and it fits its type.
IndexedState(st) ==
  \A p \in Pool :
    /\ Representable(st.slack[p])
    /\ \A t \in Time :
         st.slack[p][t] = IF st.pools[p] = NoCurve THEN 0
                          ELSE st.pools[p][t] - Usage(st.promises, p, t)

\* Promises, whatever became of them, are on pools that exist.
Founded(st) ==
  \A i \in PromiseId : st.promises[i].state # "Absent" =>
    /\ PoolsOf(st.promises[i].bundle) \subseteq Present(st)
    /\ st.promises[i].created <= st.promises[i].updated

\* The log of events is contiguous and names what exists.
HistoryRefers(st) ==
  /\ Numbered(st.events, 0, st.sequence)
  /\ \A k \in DOMAIN st.events : Describes(st.events[k], st)

MoveTags == {"HoldCommitted", "PromiseReleased", "PromiseReplaced"}

\* The response of a command names what exists, of the kind the command is about.
ResponseRefers(op, response, st) ==
  /\ RefersTo(op, response, st)
  /\ response.tag \in HoldTags \union MoveTags => op.promise \in PromiseId
  /\ response.tag = "ResourcePoolCreated" => op.pool \in Pool

ResponsesRefer(st) ==
  \A i \in Identity : st.records[i] # NoRecord =>
    ResponseRefers(st.records[i].hash, st.records[i].response, st)

\* Commands that give a pool a curve.
SetsCurve(op, p, curve) ==
  op.name \in {"CreateResourcePool", "ReviseCapacity"} /\ op.pool = p /\ op.curve = curve

\* Curves come from commands that were executed.
CurvesRequested(st) ==
  \A p \in Pool : st.pools[p] # NoCurve =>
    \E r \in Request : SetsCurve(r.op, p, st.pools[p]) /\ st.records[r.identity] # NoRecord

Sound(st) ==
  /\ IndexedState(st)
  /\ Founded(st)
  /\ HistoryRefers(st)
  /\ ResponsesRefer(st)
  /\ CurvesRequested(st)

\* A record leads from a state to the one it was taken in.
Follows(st, item) ==
  /\ st.records[item.identity] = NoRecord
  /\ item.after.records = [st.records EXCEPT ![item.identity] = EntryOf(item)]
  /\ item.after.pools = Installed(st.pools, item.pools)
  /\ item.after.promises = Installed(st.promises, item.promises)
  /\ item.after.events = st.events \o item.events
  /\ item.after.sequence = item.final
  /\ Numbered(item.events, st.sequence, item.final)

\* The state before record k, where start is the one before the first.
Prior(items, start, k) == IF k = 1 THEN start ELSE items[k - 1].after

\* Records that follow each other from a state on.
Chain(items, start) ==
  \A k \in DOMAIN items : Sound(items[k].after) /\ Follows(Prior(items, start, k), items[k])

\* The records are numbered as they stand.
InOrder(items) == \A k \in DOMAIN items : items[k].number = k

\* The candidate, but for the index.
Filled(st) ==
  /\ pools = st.pools /\ promises = st.promises /\ sequence = st.sequence
  /\ events = st.events /\ records = st.records

\* Promises of a candidate are those of the published state, or later versions.
Later(ps, base) ==
  \A i \in PromiseId :
    /\ base[i].version <= ps[i].version
    /\ base[i].version = ps[i].version => ps[i] = base[i]

RecoverInv ==
  /\ Sound(published)
  /\ Chain(log, EmptyState) /\ InOrder(log)
  /\ Chain(batch, published)
  /\ phase = "Recovering" => Filled(Prior(log, EmptyState, nextRecord))
  /\ phase # "Recovering" =>
       /\ published = Prior(log, EmptyState, nextRecord)
       /\ State = Prior(batch, published, Len(batch) + 1)
       /\ Later(promises, published.promises)

-----------------------------------------------------------------------------
(* What one command does to the state.                                      *)

\* A command has the effect of its own handler, on what it names.
LEMMA CommandHasEffect ==
  ASSUME NEW op \in Operation, NEW now \in Instant, ApplyOnce(op, now)
  PROVE  \/ ExpiryOnly(now)
         \/ /\ op.name = "CreateResourcePool" /\ op.pool \in Pool /\ op.curve \in Curve
            /\ PoolCreated(op.pool, op.curve, now)
         \/ /\ op.name = "ReviseCapacity" /\ op.pool \in Pool /\ op.curve \in Curve
            /\ op.mode \in {"Strict", "Force"}
            /\ CapacityRevised(op.pool, op.curve, op.mode, now)
         \/ /\ op.promise \in PromiseId /\ op.deadline \in Instant
            /\ \E b \in Bundle : PromiseHeld(op.promise, b, op.deadline, now)
         \/ op.promise \in PromiseId /\ MovedAtMost(op.promise, now)
<1>1. CASE op.name = "CreateResourcePool"
  <2>1. op.pool \in Pool /\ op.curve \in Curve
    BY <1>1 DEF Operation
  <2> QED BY <1>1, <2>1, CreateEffect DEF ApplyOnce
<1>2. CASE op.name = "ReviseCapacity"
  <2>1. op.pool \in Pool /\ op.curve \in Curve /\ op.mode \in {"Strict", "Force"}
    BY <1>2 DEF Operation
  <2> QED BY <1>2, <2>1, ReviseEffect DEF ApplyOnce
<1>3. CASE op.name = "Hold"
  <2>1. op.promise \in PromiseId /\ op.bundle \in Bundle /\ op.deadline \in Instant
    BY <1>3 DEF Operation
  <2> QED BY <1>3, <2>1, HoldEffect DEF ApplyOnce, HeldAtMost
<1>4. CASE op.name = "HoldOneOf"
  <2>1. op.promise \in PromiseId /\ op.choice \in Choice /\ op.deadline \in Instant
    BY <1>4 DEF Operation
  <2> QED BY <1>4, <2>1, HoldEffect DEF ApplyOnce, HeldAtMost
<1>5. CASE op.name = "HoldFirstSlot"
  <2>1. op.promise \in PromiseId /\ op.query \in SlotQuery /\ op.deadline \in Instant
    BY <1>5 DEF Operation
  <2> QED BY <1>5, <2>1, HoldEffect DEF ApplyOnce, HeldAtMost
<1>6. CASE op.name \in {"Commit", "Release"}
  <2>1. op.promise \in PromiseId /\ op.version \in Version
    BY <1>6 DEF Operation
  <2> QED BY <1>6, <2>1, TransitionEffect DEF ApplyOnce
<1>7. CASE op.name = "Replace"
  <2>1. op.promise \in PromiseId /\ op.version \in Version /\ op.bundle \in Bundle
        /\ op.target \in ReplacementState
    BY <1>7 DEF Operation
  <2> QED BY <1>7, <2>1, TransitionEffect DEF ApplyOnce
<1>8. CASE op.name = "ProcessExpirations"
  BY <1>8, SweepEffect DEF ApplyOnce
<1> QED BY <1>1, <1>2, <1>3, <1>4, <1>5, <1>6, <1>7, <1>8 DEF ApplyOnce

\* These are effects of the engine.
LEMMA CommandEffect ==
  ASSUME NEW op \in Operation, NEW now \in Instant, ApplyOnce(op, now)
  PROVE  Effect(now)
BY CommandHasEffect DEF Effect, MovedAtMost

\* Only creation and revision give a pool a curve: the pool and the curve they name.
LEMMA OnlySettersSet ==
  ASSUME NEW op \in Operation, NEW now \in Instant, ApplyOnce(op, now),
         pools \in [Pool -> Curve \union {NoCurve}]
  PROVE  /\ pools' \in [Pool -> Curve \union {NoCurve}]
         /\ \A p \in Pool : pools'[p] # pools[p] => SetsCurve(op, p, pools'[p])
         /\ \A p \in Pool : pools[p] # NoCurve => pools'[p] # NoCurve
<1>1. ASSUME NEW p \in Pool, NEW curve \in Curve, pools' = [pools EXCEPT ![p] = curve]
      PROVE  /\ pools' \in [Pool -> Curve \union {NoCurve}]
             /\ pools'[p] = curve
             /\ \A q \in Pool : q # p => pools'[q] = pools[q]
             /\ \A q \in Pool : pools[q] # NoCurve => pools'[q] # NoCurve
  BY <1>1, CurvesBoundCapacity
<1>2. CASE pools' = pools
  BY <1>2
<1>3. CASE /\ op.name = "CreateResourcePool" /\ op.pool \in Pool /\ op.curve \in Curve
           /\ PoolCreated(op.pool, op.curve, now)
  BY <1>1, <1>3 DEF PoolCreated, SetsCurve
<1>4. CASE /\ op.name = "ReviseCapacity" /\ op.pool \in Pool /\ op.curve \in Curve
           /\ op.mode \in {"Strict", "Force"}
           /\ CapacityRevised(op.pool, op.curve, op.mode, now)
  BY <1>1, <1>4 DEF CapacityRevised, SetsCurve
<1>5. ExpiryOnly(now) => pools' = pools
  BY DEF ExpiryOnly
<1>6. \A i, b, deadline : PromiseHeld(i, b, deadline, now) => pools' = pools
  BY DEF PromiseHeld
<1>7. \A i : MovedAtMost(i, now) => pools' = pools
  BY DEF MovedAtMost, ExpiryOnly, PromiseCommitted, PromiseReleased, PromiseReplaced, PromiseMoved
<1> QED BY <1>2, <1>3, <1>4, <1>5, <1>6, <1>7, CommandHasEffect

\* A bundle whose evaluation meets no error is on pools that exist.
LEMMA AdmittedOnLivePools ==
  ASSUME NEW b, Erring(b) = {}
  PROVE  PoolsOf(b) \subseteq Live
BY DEF Erring

\* A command keeps the bundle of a promise, or gives it one that was admitted.
LEMMA BundlesAreAdmitted ==
  ASSUME RecordInv, NEW now, Effect(now), NEW i \in PromiseId
  PROVE  promises'[i].bundle = promises[i].bundle \/ PoolsOf(promises'[i].bundle) \subseteq Live
<1> DEFINE ps == ExpiredPromises(now)
           Good(b) == b = promises[i].bundle \/ PoolsOf(b) \subseteq Live
<1>1. ps \in PromiseTable /\ \A j \in PromiseId : ps[j].bundle = promises[j].bundle
  BY ExpirationsTyped DEF PromiseTable, ExpiredPromises, NextVersion
<1> HIDE DEF ps
<1>2. ASSUME promises' = ps PROVE Good(promises'[i].bundle)
  BY <1>1, <1>2
<1>3. ASSUME NEW j \in PromiseId, NEW r, promises' = [ps EXCEPT ![j] = r],
             r.bundle = promises[j].bundle \/ PoolsOf(r.bundle) \subseteq Live
      PROVE  Good(promises'[i].bundle)
  <2>1. promises'[i] = IF i = j THEN r ELSE ps[i]
    BY <1>1, <1>3 DEF PromiseTable
  <2> QED BY <1>1, <1>3, <2>1
<1>4. ASSUME NEW j \in PromiseId, NEW b \in Bundle, NEW deadline \in Instant,
             PromiseHeld(j, b, deadline, now)
      PROVE  Good(promises'[i].bundle)
  <2>1. PoolsOf(b) \subseteq Live
    BY <1>4, AdmittedOnLivePools DEF PromiseHeld, Verdict, FirstError
  <2> DEFINE r == [state |-> "Held", deadline |-> deadline, bundle |-> b, version |-> 1,
                   created |-> NextSequence(now), updated |-> NextSequence(now)]
  <2>2. promises' = [ps EXCEPT ![j] = r] /\ r.bundle = b
    BY <1>4 DEF PromiseHeld, ps
  <2> HIDE DEF r
  <2> QED BY <1>3, <2>1, <2>2
<1>5. ASSUME NEW j \in PromiseId, NEW state, NEW deadline, NEW b, NEW sl,
             PromiseMoved(j, NextVersion(ps[j], state, deadline, b, NextSequence(now)), sl, now),
             b = ps[j].bundle \/ PoolsOf(b) \subseteq Live
      PROVE  Good(promises'[i].bundle)
  <2> DEFINE r == NextVersion(ps[j], state, deadline, b, NextSequence(now))
  <2>1. promises' = [ps EXCEPT ![j] = r]
    BY <1>5 DEF PromiseMoved, ps
  <2>2. r.bundle = b
    BY DEF NextVersion
  <2> HIDE DEF r
  <2> QED BY <1>1, <1>3, <1>5, <2>1, <2>2
<1>6. ASSUME NEW j \in PromiseId, PromiseCommitted(j, now) PROVE Good(promises'[i].bundle)
  BY <1>5, <1>6 DEF PromiseCommitted, Advance, ps
<1>7. ASSUME NEW j \in PromiseId, PromiseReleased(j, now) PROVE Good(promises'[i].bundle)
  BY <1>5, <1>7 DEF PromiseReleased, Advance, ps
<1>8. ASSUME NEW j \in PromiseId, NEW b \in Bundle, NEW target \in ReplacementState,
             PromiseReplaced(j, b, target, now)
      PROVE  Good(promises'[i].bundle)
  <2>1. PoolsOf(b) \subseteq Live
    BY <1>8, AdmittedOnLivePools DEF PromiseReplaced
  <2>2. \E sl : PromiseMoved(j, NextVersion(ps[j], target.state, target.deadline, b,
                                            NextSequence(now)), sl, now)
    BY <1>8 DEF PromiseReplaced, ps
  <2> QED BY <1>5, <2>1, <2>2
<1>9. ExpiryOnly(now) => promises' = ps
  BY DEF ExpiryOnly, ps
<1>10. \A p, curve : PoolCreated(p, curve, now) => promises' = ps
  BY DEF PoolCreated, ps
<1>11. \A p, curve, mode : CapacityRevised(p, curve, mode, now) => promises' = ps
  BY DEF CapacityRevised, ps
<1> QED BY <1>2, <1>4, <1>6, <1>7, <1>8, <1>9, <1>10, <1>11 DEF Effect

\* A promise that exists has a version, and goes on existing.
LEMMA PromisesStay ==
  ASSUME TypeInv, TypeInv', NEW now \in Instant, Effect(now), NEW i \in PromiseId
  PROVE  /\ promises[i].version \in Nat /\ promises'[i].version \in Nat
         /\ promises[i].state # "Absent" <=> promises[i].version # 0
         /\ promises'[i].state # "Absent" <=> promises'[i].version # 0
         /\ promises[i].state # "Absent" => promises'[i].state # "Absent"
         /\ promises[i].version <= promises'[i].version
         /\ promises'[i] # promises[i] => promises'[i].version = promises[i].version + 1
<1>1. /\ promises[i] \in PromiseRecord \union {Absent}
      /\ promises'[i] \in PromiseRecord \union {Absent}
  BY DEF TypeInv, TypeOK
<1>2. \A r \in PromiseRecord \union {Absent} :
        r.version \in Nat /\ (r.state # "Absent" <=> r.version # 0)
  BY CountsAreNatural DEF PromiseRecord, Absent
<1>3. promises'[i] # promises[i] => promises'[i].version = promises[i].version + 1
  BY TypeInvFacts, EffectAdvances DEF Advances
<1> QED BY <1>1, <1>2, <1>3

\* After a command, promises are on pools that exist, and changed after they began.
LEMMA EffectFounds ==
  ASSUME TypeInv, TypeInv', events \in Seq(Notice), NEW now \in Instant, Effect(now),
         Founded(State), \A p \in Pool : pools[p] # NoCurve => pools'[p] # NoCurve
  PROVE  Founded(State')
<1>1. /\ State.promises = promises /\ State.pools = pools
      /\ State'.promises = promises' /\ State'.pools = pools'
  BY DEF State
<1>2. Live = Present(State) /\ Live \subseteq Present(State')
  BY <1>1 DEF Live, Present
<1> SUFFICES ASSUME NEW i \in PromiseId, promises'[i].state # "Absent"
             PROVE  /\ PoolsOf(promises'[i].bundle) \subseteq Present(State')
                    /\ promises'[i].created <= promises'[i].updated
  BY <1>1 DEF Founded
<1>3. promises[i].state # "Absent" =>
        /\ PoolsOf(promises[i].bundle) \subseteq Live
        /\ promises[i].created <= promises[i].updated
  BY <1>1, <1>2 DEF Founded
<1>4. CASE promises'[i] = promises[i]
  BY <1>2, <1>3, <1>4
<1>5. CASE promises'[i] # promises[i]
  <2>1. PICK extract : Logged(extract)
    BY EffectIsLogged
  <2>2. \E seq : /\ promises'[i].updated = seq
                 /\ promises'[i].created = IF promises[i].version = 0 THEN seq
                                           ELSE promises[i].created
    BY <1>5, <2>1 DEF Logged, Told
  <2>3. /\ promises[i] \in PromiseRecord \union {Absent}
        /\ promises'[i] \in PromiseRecord
    BY DEF TypeInv, TypeOK, Absent
  <2>4. /\ promises[i].state # "Absent" <=> promises[i].version # 0
        /\ promises'[i].updated > promises[i].updated
    BY <1>5, TypeInvFacts, EffectAdvances, PromisesStay DEF Advances
  <2>5. promises'[i].created <= promises'[i].updated
    <3>1. promises'[i].updated \in Int
      BY <2>3 DEF PromiseRecord
    <3>2. CASE promises[i].version = 0
      BY <2>2, <3>1, <3>2
    <3>3. CASE promises[i].version # 0
      <4>1. promises[i] \in PromiseRecord
        BY <2>3, <3>3 DEF Absent
      <4>2. promises[i].created \in Int /\ promises[i].updated \in Int
        BY <4>1 DEF PromiseRecord
      <4> QED BY <1>3, <2>2, <2>4, <3>1, <3>3, <4>2
    <3> QED BY <3>2, <3>3
  <2>6. PoolsOf(promises'[i].bundle) \subseteq Present(State')
    <3>1. \/ promises'[i].bundle = promises[i].bundle
          \/ PoolsOf(promises'[i].bundle) \subseteq Live
      BY TypeInvFacts, BundlesAreAdmitted
    <3>2. CASE promises[i].version # 0
      BY <1>2, <1>3, <2>4, <3>1, <3>2
    <3>3. CASE promises[i].version = 0
      <4>1. promises[i] = Absent
        BY <2>3, <2>4, <3>3 DEF PromiseRecord
      <4>2. promises'[i].bundle \in Bundle /\ promises[i].bundle = Unplaceable
        BY <2>3, <4>1 DEF PromiseRecord, Absent
      <4> QED BY <1>2, <3>1, <4>2, CandidatesAreBundles
    <3> QED BY <3>2, <3>3
  <2> QED BY <2>5, <2>6
<1> QED BY <1>4, <1>5

-----------------------------------------------------------------------------
(* What the audit records of a command name.                                *)

\* The records of a revision are about its pool, and about active promises.
LEMMA NoticesName ==
  ASSUME TypeInv, NEW now, NEW p \in Pool, NEW curve \in Curve, SequenceLeft(now),
         NEW k \in DOMAIN Notices(p, curve, now)
  PROVE  /\ Notices(p, curve, now)[k].subject = p
         /\ Notices(p, curve, now)[k].kind \in DeficitKinds =>
              \E d : Notices(p, curve, now)[k].affected = Affected(ExpiredPromises(now), p, d)
<1> DEFINE seq == NextSequence(now)
           ps == ExpiredPromises(now)
           before == Deficits(RestoredSlack(now)[p])
           after == Deficits(Rebuilt(p, curve, now))
           gone == Resolved(before, after)
           new == Announced(before, after)
           DeficitEvent(kind, d) ==
             [kind |-> kind, subject |-> p, seq |-> seq,
              deficit |-> d, affected |-> Affected(ps, p, d)]
           head == [kind |-> "CapacityRevised", subject |-> p, seq |-> seq]
           goneLog == [j \in DOMAIN gone |-> DeficitEvent("DeficitResolved", gone[j])]
           newLog == [j \in DOMAIN new |-> DeficitEvent(AnnouncedKind(new[j], before), new[j])]
           OfRevision(e) == e = head \/ \E kind \in DeficitKinds, d \in before \union after :
                                          e = DeficitEvent(kind, d)
           T == {e \in {head} \union {DeficitEvent(x[1], x[2]) :
                          x \in DeficitKinds \X (before \union after)} : OfRevision(e)}
<1>1. /\ RestoredSlack(now)[p] \in Line /\ Rebuilt(p, curve, now) \in Line
  <2>1. ps \in PromiseTable /\ RestoredSlack(now)[p] \in Line
    BY TypeInvFacts, RestoredSlackTyped, ExpirationsTyped DEF RecordInv, PromiseTable, Line
  <2>2. curve \in [Time -> Int]
    BY CurvesBoundCapacity
  <2> QED BY <2>1, <2>2, UsageTyped DEF Rebuilt, Line
<1>2. gone \in Seq(before) /\ new \in Seq(after)
  <2> DEFINE resolved == {d \in before : \A e \in after : ~Overlaps(d, e)}
  <2>1. gone \in Seq(resolved) /\ new \in Seq(after \ before)
    BY <1>1, TimeOrderListsAll DEF Resolved, Announced
  <2>2. resolved \subseteq before /\ after \ before \subseteq after
    OBVIOUS
  <2> HIDE DEF resolved, before, after, gone, new
  <2> QED BY <2>1, <2>2, SeqMonotonic
<1>3. \A kind \in DeficitKinds, d \in before \union after : DeficitEvent(kind, d) \in T
  <2> SUFFICES ASSUME NEW kind \in DeficitKinds, NEW d \in before \union after
               PROVE  DeficitEvent(kind, d) \in T
    OBVIOUS
  <2> HIDE DEF before, after, head
  <2> DEFINE x == <<kind, d>>
  <2>1. x \in DeficitKinds \X (before \union after) /\ x[1] = kind /\ x[2] = d
    OBVIOUS
  <2> HIDE DEF x, DeficitEvent
  <2> QED BY <2>1
<1>4. goneLog \in Seq(T)
  <2> HIDE DEF gone, before, after, T, DeficitEvent
  <2>1. Len(gone) \in Nat /\ DOMAIN gone = 1 .. Len(gone) /\ \A j \in DOMAIN gone : gone[j] \in before
    BY <1>2
  <2>2. "DeficitResolved" \in DeficitKinds
    BY DEF DeficitKinds
  <2>3. goneLog \in [1 .. Len(gone) -> T]
    BY <1>3, <2>1, <2>2
  <2> QED BY <2>1, <2>3, RowIsSequence
<1>5. newLog \in Seq(T)
  <2> HIDE DEF new, before, after, T, DeficitEvent
  <2>1. Len(new) \in Nat /\ DOMAIN new = 1 .. Len(new) /\ \A j \in DOMAIN new : new[j] \in after
    BY <1>2
  <2>2. \A d : AnnouncedKind(d, before) \in DeficitKinds
    BY DEF DeficitKinds, AnnouncedKind
  <2>3. newLog \in [1 .. Len(new) -> T]
    BY <1>3, <2>1, <2>2
  <2> QED BY <2>1, <2>3, RowIsSequence
<1>6. <<head>> \in Seq(T)
  <2>1. head \in T
    OBVIOUS
  <2> HIDE DEF head, T
  <2> QED BY <2>1
<1>7. Notices(p, curve, now) = (<<head>> \o goneLog) \o newLog
  BY DEF Notices, RevisionEvents
<1>8. Notices(p, curve, now) \in Seq(T)
  <2> DEFINE first == <<head>>
  <2>1. first \in Seq(T) /\ Notices(p, curve, now) = (first \o goneLog) \o newLog
    BY <1>6, <1>7
  <2> HIDE DEF first, goneLog, newLog, T
  <2>2. first \o goneLog \in Seq(T)
    BY <1>4, <2>1
  <2>3. (first \o goneLog) \o newLog \in Seq(T)
    BY <1>5, <2>2
  <2> QED BY <2>1, <2>3
<1>9. Notices(p, curve, now)[k] \in T
  <2> HIDE DEF T
  <2> QED BY <1>8
<1>10. OfRevision(Notices(p, curve, now)[k])
  <2> HIDE DEF OfRevision
  <2> QED BY <1>9
<1>11. head.subject = p /\ head.kind \notin DeficitKinds
  BY DEF DeficitKinds
<1>12. \A kind, d : /\ DeficitEvent(kind, d).subject = p
                    /\ DeficitEvent(kind, d).affected = Affected(ps, p, d)
  OBVIOUS
<1> HIDE DEF head, DeficitEvent, ps, before, after
<1>13. OfRevision(Notices(p, curve, now)[k])
  BY <1>10
<1>14. CASE Notices(p, curve, now)[k] = head
  BY <1>11, <1>14
<1>15. ASSUME NEW kind, NEW d, Notices(p, curve, now)[k] = DeficitEvent(kind, d)
       PROVE  /\ Notices(p, curve, now)[k].subject = p
              /\ Notices(p, curve, now)[k].affected = Affected(ps, p, d)
  BY <1>12, <1>15
<1> QED BY <1>13, <1>14, <1>15 DEF ps

\* A sequence whose items are all of one kind.
LEMMA ItemsOfKind ==
  ASSUME NEW S, NEW T, NEW items \in Seq(S), \A k \in DOMAIN items : items[k] \in T
  PROVE  items \in Seq(T)
<1>1. Len(items) \in Nat /\ items \in [1 .. Len(items) -> S]
  OBVIOUS
<1>2. items \in [1 .. Len(items) -> T]
  BY <1>1
<1> QED BY <1>1, <1>2, RowIsSequence

\* A record about a pool names pools and promises of the new state.
NamesPool(e) ==
  e.kind \notin PromiseKinds =>
    /\ pools'[e.subject] # NoCurve
    /\ e.kind \in DeficitKinds => \A i \in e.affected : promises'[i].state # "Absent"

\* A record about a promise names a version it has had.
NamesPromise(e) ==
  e.kind \in PromiseKinds =>
    /\ promises'[e.subject].state # "Absent"
    /\ e.version <= promises'[e.subject].version

\* The records about pools that a command appends name what exists after it.
LEMMA PoolRecordsName ==
  ASSUME TypeInv, events \in Seq(Notice), NEW now \in Instant, Effect(now),
         \A p \in Pool : pools[p] # NoCurve => pools'[p] # NoCurve,
         \A k \in DOMAIN events : NamesPool(events[k])
  PROVE  \A k \in DOMAIN events' : NamesPool(events'[k])
<1> DEFINE T == {e \in Notice : NamesPool(e)}
           expiry == ExpiryEvents(now)
<1>1. RecordInv
  BY TypeInvFacts
<1>2. events \in Seq(T)
  <2>1. \A k \in DOMAIN events : events[k] \in T
    OBVIOUS
  <2> HIDE DEF T
  <2> QED BY <2>1, ItemsOfKind
<1>3. expiry \in Seq(T)
  <2>1. expiry \in Seq(Notice) /\ Len(expiry) = Cardinality(Expiring(now))
    BY <1>1, ExpiryIsNumbered DEF Numbered
  <2>2. \A k \in DOMAIN expiry : expiry[k].kind = "HoldExpired"
    <3>1. DOMAIN expiry = 1 .. Cardinality(Expiring(now))
      BY <2>1
    <3>2. \A i, version, seq : PromiseEvent("HoldExpired", i, version, seq).kind = "HoldExpired"
      BY DEF PromiseEvent
    <3>3. \A k \in 1 .. Cardinality(Expiring(now)) : \E i, version, seq :
            ExpiryEvents(now)[k] = PromiseEvent("HoldExpired", i, version, seq)
      BY <1>1, ExpiryIsNumbered
    <3> QED BY <3>1, <3>2, <3>3
  <2> HIDE DEF expiry
  <2>3. \A k \in DOMAIN expiry : expiry[k] \in T
    BY <2>1, <2>2 DEF NamesPool, PromiseKinds
  <2> HIDE DEF T
  <2> QED BY <2>1, <2>3, ItemsOfKind
<1>4. ASSUME NEW own \in Seq(T), events' = (events \o expiry) \o own
      PROVE  \A k \in DOMAIN events' : NamesPool(events'[k])
  <2> HIDE DEF expiry
  <2>1. events' \in Seq(T)
    <3> HIDE DEF T
    <3>1. events \o expiry \in Seq(T)
      BY <1>2, <1>3
    <3> QED BY <1>4, <3>1
  <2>2. \A k \in DOMAIN events' : events'[k] \in T
    <3> HIDE DEF T
    <3> QED BY <2>1
  <2> QED BY <2>2
<1>5. CASE ExpiryOnly(now)
  <2>1. events' \in Seq(T)
    <3>1. events' = events \o expiry
      BY <1>5 DEF ExpiryOnly
    <3> HIDE DEF T, expiry
    <3> QED BY <1>2, <1>3, <3>1
  <2>2. \A k \in DOMAIN events' : events'[k] \in T
    <3> HIDE DEF T
    <3> QED BY <2>1
  <2> QED BY <2>2
<1>6. ASSUME NEW e \in Notice, NamesPool(e), events' = (events \o expiry) \o <<e>>
      PROVE  \A k \in DOMAIN events' : NamesPool(events'[k])
  <2>1. e \in T
    BY <1>6
  <2>2. <<e>> \in Seq(T)
    <3> HIDE DEF T
    <3> QED BY <2>1
  <2> HIDE DEF T, expiry
  <2> QED BY <1>4, <1>6, <2>2
<1>7. ASSUME NEW p \in Pool, NEW curve \in Curve, PoolCreated(p, curve, now)
      PROVE  \A k \in DOMAIN events' : NamesPool(events'[k])
  <2> DEFINE e == [kind |-> "ResourceCreated", subject |-> p, seq |-> NextSequence(now)]
  <2>1. NextSequence(now) \in 1 .. MaxSequence
    BY <1>1, <1>7, NextSequenceTyped DEF PoolCreated
  <2>2. e \in Notice /\ e.subject = p /\ e.kind \notin DeficitKinds
    BY <2>1 DEF Notice, PoolNotice, DeficitKinds
  <2>3. pools'[p] = curve /\ curve # NoCurve
    BY <1>7, CurvesBoundCapacity DEF PoolCreated, TypeInv, TypeOK
  <2>4. events' = (events \o expiry) \o <<e>>
    BY <1>7 DEF PoolCreated
  <2> HIDE DEF e
  <2>5. NamesPool(e)
    BY <2>2, <2>3 DEF NamesPool
  <2> QED BY <1>6, <2>2, <2>4, <2>5
<1>8. ASSUME NEW p \in Pool, NEW curve \in Curve, NEW mode \in {"Strict", "Force"},
             CapacityRevised(p, curve, mode, now)
      PROVE  \A k \in DOMAIN events' : NamesPool(events'[k])
  <2> DEFINE own == Notices(p, curve, now)
  <2>1. /\ SequenceLeft(now) /\ events' = (events \o expiry) \o own
        /\ promises' = ExpiredPromises(now) /\ pools'[p] # NoCurve
    BY <1>8, CurvesBoundCapacity DEF CapacityRevised, TypeInv, TypeOK
  <2>2. own \in Seq(Notice)
    BY <2>1, NoticesAreNumbered DEF Numbered
  <2>3. ASSUME NEW k \in DOMAIN own PROVE NamesPool(own[k])
    <3>1. /\ own[k].subject = p
          /\ own[k].kind \in DeficitKinds =>
               \E d : own[k].affected = Affected(ExpiredPromises(now), p, d)
      BY <2>1, <2>3, NoticesName
    <3>2. \A d : \A i \in Affected(ExpiredPromises(now), p, d) : promises'[i].state # "Absent"
      BY <2>1 DEF Affected, Active
    <3> HIDE DEF own
    <3> QED BY <2>1, <3>1, <3>2 DEF NamesPool
  <2> HIDE DEF own
  <2>4. \A k \in DOMAIN own : own[k] \in T
    BY <2>2, <2>3
  <2> HIDE DEF T
  <2>5. own \in Seq(T)
    BY <2>2, <2>4, ItemsOfKind
  <2> QED BY <1>4, <2>1, <2>5
<1>9. ASSUME NEW i \in PromiseId, NEW kind \in PromiseKinds, NEW version, NEW seq,
             events' = (events \o expiry) \o <<PromiseEvent(kind, i, version, seq)>>
      PROVE  \A k \in DOMAIN events' : NamesPool(events'[k])
  <2> DEFINE e == PromiseEvent(kind, i, version, seq)
  <2>1. PICK extract : Logged(extract)
    BY EffectIsLogged
  <2>2. events' \in Seq(Notice)
    BY <2>1 DEF Logged, Numbered
  <2>3. expiry \in Seq(Notice)
    BY <1>1, ExpiryIsNumbered DEF Numbered
  <2>4. e.kind \in PromiseKinds
    BY DEF PromiseEvent
  <2>5. e \in Notice
    <3> DEFINE n == Len(events \o expiry) + 1
    <3> HIDE DEF e, expiry
    <3>1. events' = (events \o expiry) \o <<e>>
      BY <1>9 DEF e
    <3>2. events \o expiry \in Seq(Notice)
      BY <2>3
    <3>3. n \in DOMAIN events' /\ events'[n] = e
      BY <3>1, <3>2
    <3> HIDE DEF n
    <3> QED BY <2>2, <3>3
  <2> HIDE DEF e
  <2>6. NamesPool(e)
    BY <2>4 DEF NamesPool
  <2> QED BY <1>6, <1>9, <2>5, <2>6 DEF e
<1>10. ASSUME NEW i \in PromiseId, NEW b, NEW deadline, PromiseHeld(i, b, deadline, now)
       PROVE  \A k \in DOMAIN events' : NamesPool(events'[k])
  BY <1>9, <1>10 DEF PromiseHeld, PromiseKinds
<1>11. ASSUME NEW i \in PromiseId, NEW next, NEW sl, PromiseMoved(i, next, sl, now)
       PROVE  \A k \in DOMAIN events' : NamesPool(events'[k])
  <2>1. reply'.tag \in PromiseKinds
    BY <1>11 DEF PromiseMoved, PromiseKinds
  <2> QED BY <1>9, <1>11, <2>1 DEF PromiseMoved
<1> HIDE DEF expiry, T
<1>12. ASSUME NEW i \in PromiseId,
              \/ PromiseCommitted(i, now)
              \/ PromiseReleased(i, now)
              \/ \E b \in Bundle, target \in ReplacementState : PromiseReplaced(i, b, target, now)
       PROVE  \A k \in DOMAIN events' : NamesPool(events'[k])
  BY <1>11, <1>12 DEF PromiseCommitted, PromiseReleased, PromiseReplaced
<1> QED BY <1>5, <1>7, <1>8, <1>10, <1>12 DEF Effect

\* The records about promises that a command appends name versions they have had.
LEMMA PromiseRecordsName ==
  ASSUME TypeInv, TypeInv', events \in Seq(Notice), NEW now \in Instant, Effect(now),
         \A k \in DOMAIN events : events[k].kind \in PromiseKinds =>
           /\ promises[events[k].subject].state # "Absent"
           /\ events[k].version <= promises[events[k].subject].version
  PROVE  \A k \in DOMAIN events' : NamesPromise(events'[k])
<1> DEFINE T == {e \in Notice : NamesPromise(e)}
<1>1. PICK extract : Logged(extract)
  BY EffectIsLogged
<1>2. /\ extract \in Seq(Notice) /\ events' = events \o extract
      /\ \A i \in PromiseId : Told(extract, i, promises'[i])
  BY <1>1 DEF Logged, Numbered
<1>3. \A e \in Notice : e.kind \in PromiseKinds => e.subject \in PromiseId /\ e.version \in Nat
  BY CountsAreNatural
     DEF Notice, PromiseNotice, PoolNotice, DeficitNotice, PromiseKinds, DeficitKinds
<1>4. \A k \in DOMAIN events : events[k] \in T
  <2> SUFFICES ASSUME NEW k \in DOMAIN events, events[k].kind \in PromiseKinds
               PROVE  /\ promises'[events[k].subject].state # "Absent"
                      /\ events[k].version <= promises'[events[k].subject].version
    BY DEF NamesPromise
  <2>1. events[k] \in Notice
    OBVIOUS
  <2> DEFINE i == events[k].subject
  <2>2. i \in PromiseId /\ events[k].version \in Nat
    BY <1>3, <2>1
  <2>3. promises[i].state # "Absent" /\ events[k].version <= promises[i].version
    OBVIOUS
  <2> HIDE DEF i
  <2>4. /\ promises[i].version \in Nat /\ promises'[i].version \in Nat
        /\ promises'[i].state # "Absent" /\ promises[i].version <= promises'[i].version
    BY <2>2, <2>3, PromisesStay
  <2>5. events[k].version <= promises'[i].version
    BY <2>2, <2>3, <2>4
  <2> QED BY <2>4, <2>5 DEF i
<1>5. \A k \in DOMAIN extract : extract[k] \in T
  <2> SUFFICES ASSUME NEW k \in DOMAIN extract, extract[k].kind \in PromiseKinds
               PROVE  /\ promises'[extract[k].subject].state # "Absent"
                      /\ extract[k].version <= promises'[extract[k].subject].version
    BY <1>2 DEF NamesPromise
  <2>1. extract[k] \in Notice
    BY <1>2
  <2> DEFINE i == extract[k].subject
  <2>2. i \in PromiseId /\ extract[k].version \in Nat
    BY <1>3, <2>1
  <2>3. k \in Mine(extract, i)
    BY DEF Mine
  <2> HIDE DEF i
  <2>4. /\ extract[k].version = promises[i].version + 1
        /\ promises'[i].version = extract[k].version
    BY <1>2, <2>2, <2>3 DEF Told
  <2>5. /\ promises[i].version \in Nat
        /\ promises'[i].state # "Absent" <=> promises'[i].version # 0
    BY <2>2, PromisesStay
  <2>6. promises'[i].state # "Absent" /\ extract[k].version <= promises'[i].version
    BY <2>2, <2>4, <2>5
  <2> QED BY <2>6 DEF i
<1> HIDE DEF T
<1>6. events \in Seq(T) /\ extract \in Seq(T)
  BY <1>2, <1>4, <1>5, ItemsOfKind
<1>7. \A k \in DOMAIN events' : events'[k] \in T
  <2>1. events' \in Seq(T)
    BY <1>2, <1>6
  <2> QED BY <2>1
<1> QED BY <1>7 DEF T

\* After a command, the log of events is contiguous and names what exists.
LEMMA EffectDescribes ==
  ASSUME TypeInv, TypeInv', events \in Seq(Notice), NEW now \in Instant, Effect(now),
         HistoryRefers(State), \A p \in Pool : pools[p] # NoCurve => pools'[p] # NoCurve
  PROVE  HistoryRefers(State')
<1>1. /\ State.promises = promises /\ State.pools = pools
      /\ State.events = events /\ State.sequence = sequence
      /\ State'.promises = promises' /\ State'.pools = pools'
      /\ State'.events = events' /\ State'.sequence = sequence'
  BY DEF State
<1>2. \A k \in DOMAIN events : Describes(events[k], State)
  BY <1>1 DEF HistoryRefers
<1>3. \A k \in DOMAIN events : events[k].kind \in PromiseKinds =>
        /\ promises[events[k].subject].state # "Absent"
        /\ events[k].version <= promises[events[k].subject].version
  BY <1>1, <1>2 DEF Describes
<1>4. ASSUME NEW k \in DOMAIN events PROVE NamesPool(events[k])
  <2> SUFFICES ASSUME events[k].kind \notin PromiseKinds
               PROVE  /\ pools'[events[k].subject] # NoCurve
                      /\ events[k].kind \in DeficitKinds =>
                           \A i \in events[k].affected : promises'[i].state # "Absent"
    BY DEF NamesPool
  <2>1. /\ pools[events[k].subject] # NoCurve
        /\ events[k].kind \in DeficitKinds =>
             \A i \in events[k].affected : promises[i].state # "Absent"
    BY <1>1, <1>2 DEF Describes
  <2>2. events[k] \in Notice
    OBVIOUS
  <2>3. events[k].subject \in Pool
        /\ (events[k].kind \in DeficitKinds => events[k].affected \subseteq PromiseId)
    BY <2>2 DEF Notice, PromiseNotice, PoolNotice, DeficitNotice, DeficitKinds
  <2> QED BY <2>1, <2>3, PromisesStay
<1>5. \A k \in DOMAIN events' : NamesPool(events'[k]) /\ NamesPromise(events'[k])
  BY <1>3, <1>4, PoolRecordsName, PromiseRecordsName
<1>6. \A k \in DOMAIN events' : Describes(events'[k], State')
  BY <1>1, <1>5 DEF Describes, NamesPool, NamesPromise
<1>7. Numbered(events', 0, sequence')
  <2>1. PICK extract : Logged(extract)
    BY EffectIsLogged
  <2>2. Numbered(events, 0, sequence)
    BY <1>1 DEF HistoryRefers
  <2>3. Numbered(events \o extract, 0, sequence')
    BY <2>1, <2>2, NumberedConcat DEF Logged
  <2> QED BY <2>1, <2>3 DEF Logged
<1> QED BY <1>1, <1>6, <1>7 DEF HistoryRefers

-----------------------------------------------------------------------------
(* Responses go on naming what exists.                                      *)

\* The sequence never goes back.
LEMMA SequenceGrows ==
  ASSUME TypeInv, NEW now \in Instant, Effect(now)
  PROVE  sequence \in Nat /\ sequence' \in Nat /\ sequence <= sequence'
<1>1. RecordInv /\ sequence \in 0 .. MaxSequence
  BY TypeInvFacts DEF TypeInv, TypeOK
<1>2. /\ ExpiredSequence(now) \in 0 .. MaxSequence /\ sequence <= ExpiredSequence(now)
      /\ NextSequence(now) = ExpiredSequence(now) + 1
  BY <1>1, ExpirationsTyped DEF NextSequence
<1>3. sequence' = ExpiredSequence(now) \/ sequence' = NextSequence(now)
  BY DEF Effect, ExpiryOnly, PoolCreated, CapacityRevised, PromiseHeld, PromiseCommitted,
         PromiseReleased, PromiseReplaced, PromiseMoved
<1> QED BY <1>1, <1>2, <1>3, CountsAreNatural

\* The response to a command is about what the command did.
LEMMA ResponseIsAbout ==
  ASSUME TypeInv, TypeInv', NEW op \in Operation, NEW now \in Instant, ApplyOnce(op, now)
  PROVE  ResponseRefers(op, [tag |-> reply'.tag, value |-> reply'.value], State')
<1> DEFINE response == [tag |-> reply'.tag, value |-> reply'.value]
<1>1. /\ State'.promises = promises' /\ State'.pools = pools' /\ State'.sequence = sequence'
  BY DEF State
<1>2. response.tag = reply'.tag /\ response.value = reply'.value
  OBVIOUS
<1>3. /\ SuccessTags = HoldTags \union MoveTags \union {"ResourcePoolCreated", "CapacityRevised"}
      /\ "ResourcePoolCreated" \notin HoldTags \union MoveTags
      /\ "CapacityRevised" \notin HoldTags \union MoveTags
      /\ \A tag \in HoldTags : tag \notin MoveTags
  BY DEF SuccessTags, HoldTags, MoveTags
<1> HIDE DEF response
<1>4. CASE ExpiryOnly(now)
  <2>1. response.tag \notin SuccessTags
    BY <1>2, <1>4 DEF ExpiryOnly
  <2> QED BY <1>3, <2>1 DEF ResponseRefers, RefersTo, MoveTags, response
<1>5. CASE /\ op.name = "CreateResourcePool" /\ op.pool \in Pool /\ op.curve \in Curve
           /\ PoolCreated(op.pool, op.curve, now)
  <2>1. response.tag = "ResourcePoolCreated" /\ pools'[op.pool] # NoCurve /\ op.pool \in Pool
    BY <1>2, <1>5, CurvesBoundCapacity DEF PoolCreated, TypeInv, TypeOK
  <2>2. ResponseRefers(op, response, State')
    BY <1>1, <1>3, <2>1 DEF ResponseRefers, RefersTo, MoveTags
  <2> QED BY <2>2 DEF response
<1>6. CASE /\ op.name = "ReviseCapacity" /\ op.pool \in Pool /\ op.curve \in Curve
           /\ op.mode \in {"Strict", "Force"}
           /\ CapacityRevised(op.pool, op.curve, op.mode, now)
  <2>1. response.tag = "CapacityRevised" /\ response.value = sequence'
    BY <1>2, <1>6 DEF CapacityRevised
  <2>2. sequence' \in Int
    BY CommandEffect, SequenceGrows
  <2>3. response.value <= sequence'
    BY <2>1, <2>2
  <2>4. ResponseRefers(op, response, State')
    BY <1>1, <1>3, <2>1, <2>3 DEF ResponseRefers, RefersTo, MoveTags
  <2> QED BY <2>4 DEF response
<1>7. ASSUME op.promise \in PromiseId, NEW b \in Bundle, NEW deadline \in Instant,
             PromiseHeld(op.promise, b, deadline, now)
      PROVE  ResponseRefers(op, response, State')
  <2>1. response.tag \in HoldTags
    BY <1>2, <1>7 DEF PromiseHeld
  <2>2. promises'[op.promise].state # "Absent"
    <3> DEFINE r == [state |-> "Held", deadline |-> deadline, bundle |-> b, version |-> 1,
                     created |-> NextSequence(now), updated |-> NextSequence(now)]
    <3>1. promises' = [ExpiredPromises(now) EXCEPT ![op.promise] = r]
      BY <1>7 DEF PromiseHeld
    <3>2. ExpiredPromises(now) \in PromiseTable
      BY TypeInvFacts, ExpirationsTyped DEF PromiseTable
    <3>3. promises'[op.promise] = r
      BY <1>7, <3>1, <3>2 DEF PromiseTable
    <3> QED BY <3>3
  <2> QED BY <1>1, <1>3, <1>7, <2>1, <2>2 DEF ResponseRefers, RefersTo, MoveTags
<1>8. ASSUME op.promise \in PromiseId, NEW state \in {"Held", "Committed", "Released"},
             NEW deadline, NEW b, NEW sl,
             PromiseMoved(op.promise, NextVersion(ExpiredPromises(now)[op.promise], state,
                                                  deadline, b, NextSequence(now)), sl, now)
      PROVE  ResponseRefers(op, response, State')
  <2> DEFINE r == NextVersion(ExpiredPromises(now)[op.promise], state, deadline, b,
                              NextSequence(now))
  <2>1. response.tag \in MoveTags /\ response.value = r.version
    BY <1>2, <1>8 DEF PromiseMoved, MoveTags
  <2>2. ExpiredPromises(now) \in PromiseTable
    BY TypeInvFacts, ExpirationsTyped DEF PromiseTable
  <2>3. promises'[op.promise] = r
    BY <1>8, <2>2 DEF PromiseMoved, PromiseTable
  <2>4. r.state # "Absent"
    BY DEF NextVersion
  <2>5. promises'[op.promise].version \in Nat
    BY <1>8, CommandEffect, PromisesStay
  <2>6. response.value <= promises'[op.promise].version
    <3> HIDE DEF r
    <3> QED BY <2>1, <2>3, <2>5
  <2>7. promises'[op.promise].state # "Absent"
    <3> HIDE DEF r
    <3> QED BY <2>3, <2>4
  <2> QED BY <1>1, <1>3, <1>8, <2>1, <2>6, <2>7 DEF ResponseRefers, RefersTo, MoveTags
<1>9. ASSUME op.promise \in PromiseId, MovedAtMost(op.promise, now)
      PROVE  ResponseRefers(op, response, State')
  <2>1. ASSUME NEW b \in Bundle, NEW target \in ReplacementState,
               PromiseReplaced(op.promise, b, target, now)
        PROVE  ResponseRefers(op, response, State')
    <3> DEFINE state == target.state
    <3>1. state \in {"Held", "Committed", "Released"}
      BY DEF ReplacementState
    <3>2. \E sl : PromiseMoved(op.promise,
                    NextVersion(ExpiredPromises(now)[op.promise], state, target.deadline, b,
                                NextSequence(now)), sl, now)
      BY <2>1 DEF PromiseReplaced
    <3> HIDE DEF state
    <3> QED BY <1>8, <1>9, <3>1, <3>2
  <2>2. ASSUME PromiseCommitted(op.promise, now) PROVE ResponseRefers(op, response, State')
    BY <1>8, <1>9, <2>2 DEF PromiseCommitted, Advance
  <2>3. ASSUME PromiseReleased(op.promise, now) PROVE ResponseRefers(op, response, State')
    BY <1>8, <1>9, <2>3 DEF PromiseReleased, Advance
  <2>4. ExpiryOnly(now) => ResponseRefers(op, response, State')
    BY <1>4 DEF response
  <2> QED BY <1>9, <2>1, <2>2, <2>3, <2>4 DEF MovedAtMost
<1>10. ResponseRefers(op, response, State')
  BY <1>4, <1>5, <1>6, <1>7, <1>9, CommandHasEffect DEF response
<1> QED BY <1>10 DEF response

\* A response that is kept goes on naming what exists.
LEMMA ResponseStays ==
  ASSUME TypeInv, TypeInv', NEW now \in Instant, Effect(now),
         \A p \in Pool : pools[p] # NoCurve => pools'[p] # NoCurve,
         NEW op, NEW response \in Response, ResponseRefers(op, response, State)
  PROVE  ResponseRefers(op, response, State')
<1>1. /\ State.promises = promises /\ State.pools = pools /\ State.sequence = sequence
      /\ State'.promises = promises' /\ State'.pools = pools' /\ State'.sequence = sequence'
  BY DEF State
<1>2. response.value \in Int
  BY DEF Response
<1>3. ASSUME op.promise \in PromiseId
      PROVE  /\ promises[op.promise].state # "Absent" => promises'[op.promise].state # "Absent"
             /\ response.value <= promises[op.promise].version =>
                  response.value <= promises'[op.promise].version
  <2>1. /\ promises[op.promise].state # "Absent" => promises'[op.promise].state # "Absent"
        /\ promises[op.promise].version \in Nat /\ promises'[op.promise].version \in Nat
        /\ promises[op.promise].version <= promises'[op.promise].version
    BY <1>3, PromisesStay
  <2> QED BY <1>2, <2>1
<1>4. response.value <= sequence => response.value <= sequence'
  BY <1>2, SequenceGrows
<1>5. /\ RefersTo(op, response, State)
      /\ response.tag \in HoldTags \union MoveTags => op.promise \in PromiseId
      /\ response.tag = "ResourcePoolCreated" => op.pool \in Pool
  BY DEF ResponseRefers
<1>6. RefersTo(op, response, State')
  BY <1>1, <1>3, <1>4, <1>5 DEF RefersTo, MoveTags
<1> QED BY <1>5, <1>6 DEF ResponseRefers

-----------------------------------------------------------------------------
(* A command leads from a sound state to a sound state.                     *)

\* The index of a sound candidate is the one the engine's theorems speak of.
LEMMA SoundIsIndexed ==
  ASSUME TypeInv, IndexedState(State), Founded(State)
  PROVE  IndexInv /\ SlackIsRepresentable
<1>1. /\ State.pools = pools /\ State.slack = slack /\ State.promises = promises
  BY DEF State
<1>2. Live = Present(State)
  BY <1>1 DEF Live, Present
<1>3. Indexed(promises, slack)
  BY <1>1 DEF IndexedState, Indexed, Live
<1>4. Supported(promises)
  BY <1>1, <1>2 DEF Founded, Supported, Active
<1>5. SlackIsRepresentable
  <2>1. slack \in [Pool -> [Time -> Int]]
    BY DEF TypeInv, TypeOK
  <2>2. \A p \in Pool : slack[p] \in [Time -> Slack]
    BY <1>1, <2>1 DEF IndexedState, Representable
  <2> QED BY <2>1, <2>2 DEF SlackIsRepresentable
<1> QED BY <1>3, <1>4, <1>5 DEF IndexInv

\* After a command, the index is the one that would be rebuilt.
LEMMA EffectKeepsIndex ==
  ASSUME TypeInv, TypeInv', IndexedState(State), Founded(State), NEW now \in Instant, Effect(now)
  PROVE  IndexedState(State')
<1>1. /\ State'.pools = pools' /\ State'.slack = slack' /\ State'.promises = promises'
  BY DEF State
<1>2. IndexInv /\ SlackIsRepresentable
  BY SoundIsIndexed
<1>3. Indexed(promises, slack)' /\ Supported(promises)'
  BY <1>2, EffectIndexed
<1>4. IndexInv'
  BY <1>3 DEF IndexInv
<1>5. SlackIsRepresentable'
  BY <1>2, <1>4, EffectRepresentable
<1>6. \A p \in Pool : Representable(slack'[p])
  BY <1>5 DEF SlackIsRepresentable, Representable
<1>7. \A p \in Pool, t \in Time :
        slack'[p][t] = IF pools'[p] = NoCurve THEN 0 ELSE pools'[p][t] - Usage(promises', p, t)
  BY <1>3 DEF Indexed, Live
<1> QED BY <1>1, <1>6, <1>7 DEF IndexedState

\* What a command executed for the first time does to the state and its table.
LEMMA ExecutionFacts ==
  ASSUME CoordTypes, NEW request \in Request, NEW now \in Instant, PrepareNew(request, now)
  PROVE  /\ request.op \in Operation /\ request.identity \in Identity
         /\ ApplyOnce(request.op, now) /\ Effect(now)
         /\ TypeInv /\ TypeInv' /\ events \in Seq(Notice)
         /\ records \in RecordTable /\ records[request.identity] = NoRecord
         /\ records'[request.identity] =
              [hash |-> request.op, response |-> [tag |-> reply'.tag, value |-> reply'.value]]
         /\ records'[request.identity] # NoRecord
         /\ \A i \in Identity : i # request.identity => records'[i] = records[i]
         /\ pools \in [Pool -> Curve \union {NoCurve}]
         /\ pools' \in [Pool -> Curve \union {NoCurve}]
         /\ \A p \in Pool : pools'[p] # pools[p] => SetsCurve(request.op, p, pools'[p])
         /\ \A p \in Pool : pools[p] # NoCurve => pools'[p] # NoCurve
<1> DEFINE response == [tag |-> reply'.tag, value |-> reply'.value]
<1>1. request.op \in Operation /\ request.identity \in Identity
  BY RequestsAreCommands DEF Identity
<1>2. ApplyOnce(request.op, now) /\ Effect(now)
  BY <1>1, CommandEffect DEF PrepareNew
<1>3. TypeInv /\ TypeInv' /\ events \in Seq(Notice) /\ records \in RecordTable
  BY ExecutionTyped DEF CoordTypes
<1>4. /\ records[request.identity] = NoRecord
      /\ records' = [records EXCEPT ![request.identity] =
                       [hash |-> request.op, response |-> response]]
  BY DEF PrepareNew
<1>5. [hash |-> request.op, response |-> response] \in Entry
  <2>1. response \in Response
    BY <1>1, <1>2, <1>3, CommandIsStep, NextAnswers
  <2> HIDE DEF response
  <2> QED BY <1>1, <2>1 DEF Entry
<1> DEFINE entry == [hash |-> request.op, response |-> response]
<1>6. entry \in Entry /\ records' = [records EXCEPT ![request.identity] = entry]
  BY <1>4, <1>5
<1>7. entry # NoRecord
  BY <1>6, RequestsAreCommands DEF Entry
<1>8. /\ records'[request.identity] = entry
      /\ \A i \in Identity : i # request.identity => records'[i] = records[i]
  <2> HIDE DEF entry
  <2> QED BY <1>1, <1>3, <1>6 DEF RecordTable
<1>9. /\ pools \in [Pool -> Curve \union {NoCurve}]
      /\ pools' \in [Pool -> Curve \union {NoCurve}]
      /\ \A p \in Pool : pools'[p] # pools[p] => SetsCurve(request.op, p, pools'[p])
      /\ \A p \in Pool : pools[p] # NoCurve => pools'[p] # NoCurve
  <2>1. pools \in [Pool -> Curve \union {NoCurve}]
    BY <1>3 DEF TypeInv, TypeOK
  <2> QED BY <1>1, <1>2, <2>1, OnlySettersSet
<1> QED BY <1>1, <1>2, <1>3, <1>4, <1>7, <1>8, <1>9

\* A command executed on a sound candidate leaves a sound candidate.
LEMMA ExecutionSound ==
  ASSUME CoordTypes, Sound(State), NEW request \in Request, NEW now \in Instant,
         PrepareNew(request, now)
  PROVE  Sound(State')
<1> DEFINE me == request.identity
           op == request.op
           response == [tag |-> reply'.tag, value |-> reply'.value]
<1>1. /\ op \in Operation /\ me \in Identity /\ ApplyOnce(op, now) /\ Effect(now)
      /\ TypeInv /\ TypeInv' /\ events \in Seq(Notice)
      /\ records \in RecordTable /\ records[me] = NoRecord
      /\ records'[me] # NoRecord
      /\ \A i \in Identity : i # me => records'[i] = records[i]
      /\ pools' \in [Pool -> Curve \union {NoCurve}]
      /\ \A p \in Pool : pools'[p] # pools[p] => SetsCurve(op, p, pools'[p])
      /\ \A p \in Pool : pools[p] # NoCurve => pools'[p] # NoCurve
  BY ExecutionFacts
<1>2. records'[me].hash = op /\ records'[me].response = response
  <2>1. records'[me] = [hash |-> op, response |-> response]
    BY ExecutionFacts
  <2> QED BY <2>1
<1> HIDE DEF me, op, response
<1>3. /\ IndexedState(State) /\ Founded(State) /\ HistoryRefers(State)
      /\ ResponsesRefer(State) /\ CurvesRequested(State)
  BY DEF Sound
<1>4. IndexedState(State')
  BY <1>1, <1>3, EffectKeepsIndex
<1>5. Founded(State')
  BY <1>1, <1>3, EffectFounds
<1>6. HistoryRefers(State')
  BY <1>1, <1>3, EffectDescribes
<1>7. /\ State.records = records /\ State.pools = pools
      /\ State'.records = records' /\ State'.pools = pools'
  BY DEF State
<1>8. ResponsesRefer(State')
  <2>1. ASSUME NEW i \in Identity, records'[i] # NoRecord
        PROVE  ResponseRefers(records'[i].hash, records'[i].response, State')
    <3>1. CASE i = me
      <4>1. ResponseRefers(op, response, State')
        BY <1>1, ResponseIsAbout DEF response
      <4> QED BY <1>2, <3>1, <4>1
    <3>2. CASE i # me
      <4>1. records'[i] = records[i] /\ records[i] # NoRecord
        BY <1>1, <2>1, <3>2
      <4>2. records[i].response \in Response
        BY <1>1, <4>1 DEF RecordTable, Entry
      <4>3. ResponseRefers(records[i].hash, records[i].response, State)
        BY <1>3, <1>7, <4>1 DEF ResponsesRefer
      <4>4. ResponseRefers(records[i].hash, records[i].response, State')
        BY <1>1, <4>2, <4>3, ResponseStays
      <4> QED BY <4>1, <4>4
    <3> QED BY <3>1, <3>2
  <2> QED BY <1>7, <2>1 DEF ResponsesRefer
<1>9. CurvesRequested(State')
  <2>1. ASSUME NEW p \in Pool, pools'[p] # NoCurve
        PROVE  \E r \in Request : SetsCurve(r.op, p, pools'[p])
                                  /\ records'[r.identity] # NoRecord
    <3>1. CASE pools'[p] # pools[p]
      BY <1>1, <3>1 DEF op, me
    <3>2. CASE pools'[p] = pools[p]
      <4>1. PICK r \in Request : SetsCurve(r.op, p, pools[p]) /\ records[r.identity] # NoRecord
        BY <1>3, <1>7, <2>1, <3>2 DEF CurvesRequested
      <4>2. r.identity \in Identity /\ r.identity # me
        BY <1>1, <4>1 DEF Identity
      <4>3. records'[r.identity] = records[r.identity]
        BY <1>1, <4>2
      <4> QED BY <3>2, <4>1, <4>3
    <3> QED BY <3>1, <3>2
  <2> QED BY <1>7, <2>1 DEF CurvesRequested
<1> QED BY <1>4, <1>5, <1>6, <1>8, <1>9 DEF Sound

-----------------------------------------------------------------------------
(* The record of a command leads from the state before to the state after.  *)

\* No client asks twice, in different commands, for one curve of one pool: then a
\* batch cannot undo and redo what it publishes (the effects of a command are taken
\* against the state the batch began with).
CurvesAreSetOnce ==
  \A r, s \in Request, p \in Pool, curve \in Curve :
    SetsCurve(r.op, p, curve) /\ SetsCurve(s.op, p, curve) => r.identity = s.identity

NothingIsUndone == MaxBatch <= 1 \/ CurvesAreSetOnce

\* An entity that a command leaves as the batch found it, it did not change.
LEMMA NothingReverts ==
  ASSUME NothingIsUndone, CoordInv, RecoverInv, NEW request \in Request, NEW now \in Instant,
         PrepareNew(request, now)
  PROVE  /\ \A p \in Pool : pools'[p] = published.pools[p] => pools'[p] = pools[p]
         /\ \A i \in PromiseId : promises'[i] = published.promises[i] =>
                                   promises'[i] = promises[i]
         /\ Later(promises', published.promises)
<1>1. /\ phase \in {"Idle", "Preparing"} /\ Len(answers) < MaxBatch
      /\ records[request.identity] = NoRecord
  BY DEF PrepareNew, CanPrepare
<1>2. /\ BatchExtendsTable /\ Sound(published) /\ Later(promises, published.promises)
      /\ State = Prior(batch, published, Len(batch) + 1)
  BY <1>1 DEF CoordInv, PhaseInv, RecoverInv
<1>3. ASSUME NEW p \in Pool, pools'[p] = published.pools[p] PROVE pools'[p] = pools[p]
  <2>1. CASE MaxBatch <= 1
    <3>1. Len(batch) = 0
      <4>1. Len(batch) \in Nat /\ Len(answers) \in Nat /\ Len(batch) <= Len(answers)
        <5>1. batch \in Seq(DurableItem) /\ answers \in Seq(Identity \X Response)
              /\ Len(batch) <= Len(answers)
          BY DEF CoordInv, CoordTypes
        <5> QED BY <5>1
      <4> QED BY <1>1, <2>1, <4>1, CoordinatorConstants
    <3>2. State = published
      BY <1>2, <3>1 DEF Prior
    <3>3. State.pools = pools
      BY DEF State
    <3> HIDE DEF State
    <3> QED BY <1>3, <3>2, <3>3
  <2>2. CASE CurvesAreSetOnce
    <3> SUFFICES ASSUME pools'[p] # pools[p] PROVE FALSE
      OBVIOUS
    <3>1. /\ SetsCurve(request.op, p, pools'[p]) /\ request.identity \in Identity
          /\ pools'[p] \in Curve \union {NoCurve}
          /\ pools[p] # NoCurve => pools'[p] # NoCurve
      BY ExecutionFacts DEF CoordInv
    <3>2. pools'[p] \in Curve /\ published.pools[p] # NoCurve
      BY <1>3, <3>1, CurvesBoundCapacity
    <3>3. PICK r \in Request : /\ SetsCurve(r.op, p, published.pools[p])
                               /\ published.records[r.identity] # NoRecord
      BY <1>2, <3>2 DEF Sound, CurvesRequested
    <3>4. r.identity = request.identity
      BY <1>3, <2>2, <3>1, <3>2, <3>3 DEF CurvesAreSetOnce
    <3>5. records[request.identity] # NoRecord
      BY <1>2, <3>1, <3>3, <3>4 DEF BatchExtendsTable
    <3> QED BY <1>1, <3>5
  <2> QED BY <2>1, <2>2 DEF NothingIsUndone
<1>4. ASSUME NEW i \in PromiseId
      PROVE  /\ promises'[i] = published.promises[i] => promises'[i] = promises[i]
             /\ published.promises[i].version <= promises'[i].version
             /\ published.promises[i].version = promises'[i].version =>
                  promises'[i] = published.promises[i]
  <2>1. /\ promises[i].version \in Nat /\ promises'[i].version \in Nat
        /\ promises[i].version <= promises'[i].version
        /\ promises'[i] # promises[i] => promises'[i].version = promises[i].version + 1
    BY ExecutionFacts, PromisesStay DEF CoordInv
  <2>2. published.promises[i].version \in Nat
    <3>1. published.promises[i] \in PromiseRecord \union {Absent}
      BY DEF CoordInv, CoordTypes, EngineState, PromiseTable
    <3> QED BY <3>1, CountsAreNatural DEF PromiseRecord, Absent
  <2>3. /\ published.promises[i].version <= promises[i].version
        /\ published.promises[i].version = promises[i].version =>
             promises[i] = published.promises[i]
    BY <1>2 DEF Later
  <2> QED BY <2>1, <2>2, <2>3
<1> QED BY <1>3, <1>4 DEF Later

\* Installing what changed gives what it changed to.
LEMMA InstallingChanges ==
  ASSUME NEW S, NEW V, NEW old \in [S -> V], NEW new \in [S -> V], NEW base,
         \A x \in S : new[x] = base[x] => new[x] = old[x]
  PROVE  Installed(old, Changed(new, base)) = new
<1>1. \A x \in DOMAIN Changed(new, base) : Changed(new, base)[x] = new[x]
  BY ChangedTyped
<1>2. \A x \in S : x \in DOMAIN Changed(new, base) <=> new[x] # base[x]
  BY ChangedTyped
<1> DEFINE changed == Changed(new, base)
<1> HIDE DEF changed
<1>3. \A x \in S : (IF x \in DOMAIN changed THEN changed[x] ELSE old[x]) = new[x]
  BY <1>1, <1>2 DEF changed
<1>4. Installed(old, changed) = [x \in S |-> IF x \in DOMAIN changed THEN changed[x] ELSE old[x]]
  BY DEF Installed
<1>5. Installed(old, changed) = new
  BY <1>3, <1>4
<1> QED BY <1>5 DEF changed

\* The record of a command executed for the first time.
LEMMA ExecutionFollows ==
  ASSUME NothingIsUndone, CoordInv, RecoverInv, NEW request \in Request, NEW now \in Instant,
         PrepareNew(request, now)
  PROVE  \E item \in DurableItem :
           /\ batch' = Append(batch, item)
           /\ item.after = State'
           /\ Follows(State, item)
<1>1. PICK item \in DurableItem :
        /\ item.identity = request.identity
        /\ item.final = sequence'
        /\ item.promises = Changed(promises', published.promises)
        /\ item.pools = Changed(pools', published.pools)
        /\ item.events = SubSeq(events', Len(events) + 1, Len(events'))
        /\ item.after = State'
        /\ records' = [records EXCEPT ![request.identity] = EntryOf(item)]
        /\ batch' = Append(batch, item)
  BY ExecutionTyped DEF CoordInv
<1>2. /\ State.pools = pools /\ State.promises = promises /\ State.sequence = sequence
      /\ State.events = events /\ State.records = records
      /\ State'.pools = pools' /\ State'.promises = promises' /\ State'.sequence = sequence'
      /\ State'.events = events' /\ State'.records = records'
  BY DEF State
<1>3. records[request.identity] = NoRecord
  BY ExecutionFacts DEF CoordInv
<1>4. pools' = Installed(pools, item.pools)
  <2>1. /\ pools \in [Pool -> Curve \union {NoCurve}]
        /\ pools' \in [Pool -> Curve \union {NoCurve}]
    BY ExecutionFacts DEF CoordInv
  <2>2. \A x \in Pool : pools'[x] = published.pools[x] => pools'[x] = pools[x]
    BY NothingReverts
  <2>3. \A V : \A old \in [Pool -> V], new \in [Pool -> V] : \A base :
          (\A x \in Pool : new[x] = base[x] => new[x] = old[x]) =>
            Installed(old, Changed(new, base)) = new
    <3> SUFFICES ASSUME NEW V, NEW old \in [Pool -> V], NEW new \in [Pool -> V], NEW base,
                        \A x \in Pool : new[x] = base[x] => new[x] = old[x]
                 PROVE  Installed(old, Changed(new, base)) = new
      OBVIOUS
    <3> QED BY InstallingChanges
  <2>4. \A old \in [Pool -> Curve \union {NoCurve}], new \in [Pool -> Curve \union {NoCurve}] : \A base :
          (\A x \in Pool : new[x] = base[x] => new[x] = old[x]) =>
            Installed(old, Changed(new, base)) = new
    BY <2>3
  <2>5. Installed(pools, Changed(pools', published.pools)) = pools'
    BY <2>1, <2>2, <2>4
  <2> QED BY <1>1, <2>5
<1>5. promises' = Installed(promises, item.promises)
  <2>1. /\ promises \in [PromiseId -> PromiseRecord \union {Absent}]
        /\ promises' \in [PromiseId -> PromiseRecord \union {Absent}]
    BY ExecutionFacts DEF CoordInv, TypeInv, TypeOK
  <2>2. \A x \in PromiseId : promises'[x] = published.promises[x] => promises'[x] = promises[x]
    BY NothingReverts
  <2>3. \A V : \A old \in [PromiseId -> V], new \in [PromiseId -> V] : \A base :
          (\A x \in PromiseId : new[x] = base[x] => new[x] = old[x]) =>
            Installed(old, Changed(new, base)) = new
    <3> SUFFICES ASSUME NEW V, NEW old \in [PromiseId -> V], NEW new \in [PromiseId -> V], NEW base,
                        \A x \in PromiseId : new[x] = base[x] => new[x] = old[x]
                 PROVE  Installed(old, Changed(new, base)) = new
      OBVIOUS
    <3> QED BY InstallingChanges
  <2>4. \A old \in [PromiseId -> PromiseRecord \union {Absent}], new \in [PromiseId -> PromiseRecord \union {Absent}] : \A base :
          (\A x \in PromiseId : new[x] = base[x] => new[x] = old[x]) =>
            Installed(old, Changed(new, base)) = new
    BY <2>3
  <2>5. Installed(promises, Changed(promises', published.promises)) = promises'
    BY <2>1, <2>2, <2>4
  <2> QED BY <1>1, <2>5
<1>6. events' = events \o item.events /\ Numbered(item.events, sequence, item.final)
  <2>1. TypeInv /\ events \in Seq(Notice) /\ Effect(now)
    BY ExecutionFacts DEF CoordInv
  <2>2. PICK extract : Logged(extract)
    BY <2>1, EffectIsLogged
  <2>3. extract \in Seq(Notice) /\ events' = events \o extract
        /\ Numbered(extract, sequence, sequence')
    BY <2>2 DEF Logged, Numbered
  <2>4. item.events = extract
    BY <1>1, <2>1, <2>3, NewPart
  <2> QED BY <1>1, <2>3, <2>4
<1> HIDE DEF State
<1> QED BY <1>1, <1>2, <1>3, <1>4, <1>5, <1>6 DEF Follows

-----------------------------------------------------------------------------
(* Chains of records.                                                       *)

\* The states along a chain are sound states of the engine.
LEMMA PriorIsSound ==
  ASSUME NEW items \in Seq(DurableItem), NEW start \in EngineState, Sound(start),
         Chain(items, start), NEW k \in 1 .. Len(items) + 1
  PROVE  Prior(items, start, k) \in EngineState /\ Sound(Prior(items, start, k))
<1>1. CASE k = 1
  BY <1>1 DEF Prior
<1>2. CASE k # 1
  <2>1. k - 1 \in DOMAIN items
    BY <1>2
  <2>2. Sound(items[k - 1].after)
    BY <2>1 DEF Chain
  <2>3. items[k - 1] \in DurableItem
    BY <2>1
  <2>4. items[k - 1].after \in EngineState
    BY <2>3 DEF DurableItem
  <2> QED BY <1>2, <2>2, <2>4 DEF Prior
<1> QED BY <1>1, <1>2

\* One more record that follows.
LEMMA ChainGoesOn ==
  ASSUME NEW items \in Seq(DurableItem), NEW start, Chain(items, start),
         NEW item \in DurableItem, Sound(item.after),
         Follows(Prior(items, start, Len(items) + 1), item)
  PROVE  /\ Chain(Append(items, item), start)
         /\ Prior(Append(items, item), start, Len(items) + 2) = item.after
<1> DEFINE longer == Append(items, item)
           n == Len(items)
<1>1. /\ longer \in Seq(DurableItem) /\ Len(longer) = n + 1
      /\ \A k \in 1 .. n : longer[k] = items[k]
      /\ longer[n + 1] = item
      /\ n \in Nat /\ DOMAIN items = 1 .. n /\ DOMAIN longer = 1 .. n + 1
  BY AppendProperties
<1> HIDE DEF longer, n
<1>2. \A k \in 1 .. n + 1 : Prior(longer, start, k) = Prior(items, start, k)
  <2> SUFFICES ASSUME NEW k \in 1 .. n + 1 PROVE Prior(longer, start, k) = Prior(items, start, k)
    OBVIOUS
  <2>1. k # 1 => k - 1 \in 1 .. n
    BY <1>1
  <2> QED BY <1>1, <2>1 DEF Prior
<1>3. ASSUME NEW k \in DOMAIN longer
      PROVE  Sound(longer[k].after) /\ Follows(Prior(longer, start, k), longer[k])
  <2>1. CASE k = n + 1
    <3>1. Prior(longer, start, k) = Prior(items, start, n + 1)
      BY <1>1, <1>2, <2>1
    <3>2. longer[k] = item
      BY <1>1, <2>1
    <3> QED BY <3>1, <3>2 DEF n
  <2>2. CASE k # n + 1
    <3>1. k \in 1 .. n /\ k \in 1 .. n + 1
      BY <1>1, <2>2
    <3> QED BY <1>1, <1>2, <3>1 DEF Chain
  <2> QED BY <2>1, <2>2
<1>4. Prior(longer, start, n + 2) = item.after
  <2> DEFINE m == n + 2
  <2>1. m # 1 /\ m - 1 = n + 1
    BY <1>1
  <2> HIDE DEF m
  <2>2. Prior(longer, start, m) = longer[n + 1].after
    BY <2>1 DEF Prior
  <2>3. Prior(longer, start, m) = item.after
    BY <1>1, <2>2
  <2> QED BY <2>3 DEF m
<1>5. Chain(longer, start) /\ Prior(longer, start, n + 2) = item.after
  BY <1>3, <1>4 DEF Chain
<1> QED BY <1>5 DEF longer, n

\* The first n records of a chain.
LEMMA ChainIsCut ==
  ASSUME NEW items, NEW others, NEW start, NEW n \in Nat, Chain(items, start),
         DOMAIN others = 1 .. n, 1 .. n \subseteq DOMAIN items,
         \A k \in 1 .. n : others[k] = items[k]
  PROVE  Chain(others, start)
<1> SUFFICES ASSUME NEW k \in 1 .. n
             PROVE  Sound(others[k].after) /\ Follows(Prior(others, start, k), others[k])
  BY DEF Chain
<1>1. k \in 1 .. n + 1 /\ k \in DOMAIN items /\ others[k] = items[k]
  OBVIOUS
<1>2. Prior(others, start, k) = Prior(items, start, k)
  <2>1. k # 1 => k - 1 \in 1 .. n
    OBVIOUS
  <2> QED BY <2>1 DEF Prior
<1>3. Sound(items[k].after) /\ Follows(Prior(items, start, k), items[k])
  BY <1>1 DEF Chain
<1> QED BY <1>1, <1>2, <1>3

\* A record's number does not change what it leads to.
LEMMA FramedFollows ==
  ASSUME NEW item \in DurableItem, NEW number \in Nat, NEW st, Follows(st, item)
  PROVE  Follows(st, FrameOf(item, number))
<1> DEFINE framed == FrameOf(item, number)
<1>1. /\ framed.identity = item.identity /\ framed.hash = item.hash
      /\ framed.response = item.response
      /\ framed.pools = item.pools /\ framed.promises = item.promises
      /\ framed.events = item.events /\ framed.final = item.final
      /\ framed.after = item.after
  BY FramedItem
<1> HIDE DEF framed
<1>2. EntryOf(framed) = EntryOf(item)
  BY <1>1 DEF EntryOf
<1>3. Follows(st, framed)
  BY <1>1, <1>2 DEF Follows
<1> QED BY <1>3 DEF framed

\* Nothing is a sound state.
LEMMA EmptyIsSound ==
  Sound(EmptyState)
<1>1. /\ EmptyState.pools = [p \in Pool |-> NoCurve]
      /\ EmptyState.slack = [p \in Pool |-> [t \in Time |-> 0]]
      /\ EmptyState.promises = [i \in PromiseId |-> Absent]
      /\ EmptyState.sequence = 0 /\ EmptyState.events = <<>>
      /\ EmptyState.records = [i \in Identity |-> NoRecord]
  BY DEF EmptyState
<1>2. IndexedState(EmptyState)
  <2>1. 0 \in Slack
    BY CountsAreNatural DEF Slack
  <2>2. \A p \in Pool : EmptyState.slack[p] = [t \in Time |-> 0] /\ EmptyState.pools[p] = NoCurve
    BY <1>1
  <2>3. \A p \in Pool : Representable(EmptyState.slack[p])
    BY <2>1, <2>2 DEF Representable
  <2> QED BY <2>2, <2>3 DEF IndexedState
<1>3. Founded(EmptyState)
  <2>1. \A i \in PromiseId : EmptyState.promises[i].state = "Absent"
    BY <1>1 DEF Absent
  <2> QED BY <2>1 DEF Founded
<1>4. HistoryRefers(EmptyState)
  BY <1>1 DEF HistoryRefers, Numbered
<1>5. ResponsesRefer(EmptyState) /\ CurvesRequested(EmptyState)
  BY <1>1 DEF ResponsesRefer, CurvesRequested
<1> HIDE DEF EmptyState
<1> QED BY <1>2, <1>3, <1>4, <1>5 DEF Sound

\* Records, and the frames of the first n of more.
Joined(items, more, n, whole) ==
  /\ Len(whole) = Len(items) + n
  /\ \A k \in 1 .. Len(items) : whole[k] = items[k]
  /\ \A k \in 1 .. n : whole[Len(items) + k] = FrameOf(more[k], Len(items) + k)

\* A chain, and the frames of the first n records of one that goes on from its end.
LEMMA ChainsJoin ==
  ASSUME NEW items \in Seq(DurableItem), NEW more \in Seq(DurableItem),
         NEW whole \in Seq(DurableItem), NEW start, NEW end, NEW n \in 0 .. Len(more),
         Chain(items, start), end = Prior(items, start, Len(items) + 1), Chain(more, end),
         InOrder(items), Joined(items, more, n, whole)
  PROVE  /\ Chain(whole, start) /\ InOrder(whole)
         /\ \A k \in 1 .. Len(items) + 1 : Prior(whole, start, k) = Prior(items, start, k)
         /\ \A k \in 1 .. n + 1 : Prior(whole, start, Len(items) + k) = Prior(more, end, k)
<1> DEFINE l == Len(items)
<1>1. /\ l \in Nat /\ n \in Nat /\ Len(more) \in Nat /\ n <= Len(more)
      /\ DOMAIN items = 1 .. l /\ DOMAIN more = 1 .. Len(more) /\ DOMAIN whole = 1 .. l + n
      /\ end = Prior(items, start, l + 1)
      /\ \A k \in 1 .. l : whole[k] = items[k]
      /\ \A k \in 1 .. n : whole[l + k] = FrameOf(more[k], l + k)
  <2>1. Len(whole) = Len(items) + n
    BY DEF Joined
  <2>2. /\ \A k \in 1 .. Len(items) : whole[k] = items[k]
        /\ \A k \in 1 .. n : whole[Len(items) + k] = FrameOf(more[k], Len(items) + k)
    BY DEF Joined
  <2> QED BY <2>1, <2>2
<1> HIDE DEF l
<1>2. ASSUME NEW k \in 1 .. n
      PROVE  /\ whole[l + k].number = l + k /\ whole[l + k].after = more[k].after
             /\ \A st : Follows(st, more[k]) => Follows(st, whole[l + k])
  <2>1. more[k] \in DurableItem /\ l + k \in Nat
    BY <1>1
  <2>2. whole[l + k] = FrameOf(more[k], l + k)
    BY <1>1
  <2>3. /\ FrameOf(more[k], l + k).number = l + k
        /\ FrameOf(more[k], l + k).after = more[k].after
    BY <2>1, FramedItem
  <2>4. \A st : Follows(st, more[k]) => Follows(st, FrameOf(more[k], l + k))
    BY <2>1, FramedFollows
  <2> QED BY <2>2, <2>3, <2>4
<1>3. ASSUME NEW k \in 1 .. l + 1 PROVE Prior(whole, start, k) = Prior(items, start, k)
  <2>1. k # 1 => k - 1 \in 1 .. l
    BY <1>1
  <2> QED BY <1>1, <2>1 DEF Prior
<1>4. ASSUME NEW k \in 1 .. n + 1 PROVE Prior(whole, start, l + k) = Prior(more, end, k)
  <2>1. CASE k = 1
    <3>1. l + 1 \in 1 .. l + 1
      BY <1>1
    <3>2. Prior(whole, start, l + 1) = end
      BY <1>1, <1>3, <3>1
    <3> QED BY <2>1, <3>2 DEF Prior
  <2>2. CASE k # 1
    <3> DEFINE m == l + k
               j == k - 1
    <3>1. j \in 1 .. n /\ m # 1 /\ m - 1 = l + j
      BY <1>1, <2>2
    <3> HIDE DEF m, j
    <3>2. Prior(whole, start, m) = whole[l + j].after
      BY <3>1 DEF Prior
    <3>3. Prior(more, end, k) = more[j].after
      BY <2>2 DEF Prior, j
    <3>4. Prior(whole, start, m) = Prior(more, end, k)
      BY <1>2, <3>1, <3>2, <3>3
    <3> QED BY <3>4 DEF m
  <2> QED BY <2>1, <2>2
<1>5. ASSUME NEW k \in DOMAIN whole
      PROVE  /\ whole[k].number = k
             /\ Sound(whole[k].after) /\ Follows(Prior(whole, start, k), whole[k])
  <2>1. CASE k \in 1 .. l
    <3>1. k \in 1 .. l + 1 /\ k \in DOMAIN items /\ whole[k] = items[k]
      BY <1>1, <2>1
    <3>2. items[k].number = k
      BY <3>1 DEF InOrder
    <3>3. Sound(items[k].after) /\ Follows(Prior(items, start, k), items[k])
      BY <3>1 DEF Chain
    <3> QED BY <1>3, <3>1, <3>2, <3>3
  <2>2. CASE k \notin 1 .. l
    <3> DEFINE j == k - l
    <3>1. j \in 1 .. n /\ j \in 1 .. n + 1 /\ j \in DOMAIN more /\ l + j = k
      BY <1>1, <2>2
    <3> HIDE DEF j
    <3>2. Sound(more[j].after) /\ Follows(Prior(more, end, j), more[j])
      BY <3>1 DEF Chain
    <3>3. /\ whole[l + j].number = l + j /\ whole[l + j].after = more[j].after
          /\ Follows(Prior(more, end, j), whole[l + j])
      BY <1>2, <3>1, <3>2
    <3>4. Prior(whole, start, l + j) = Prior(more, end, j)
      BY <1>4, <3>1
    <3> QED BY <3>1, <3>2, <3>3, <3>4
  <2> QED BY <2>1, <2>2
<1>6. Chain(whole, start)
  BY <1>5 DEF Chain
<1> QED BY <1>3, <1>4, <1>5, <1>6 DEF l, InOrder

\* The log after an append, complete or not, and the states in it.
LEMMA GrownChain ==
  ASSUME CoordInv, RecoverInv, phase = "Preparing", NEW n \in 0 .. Len(batch), GrownBy(n)
  PROVE  /\ Chain(log', EmptyState) /\ InOrder(log')
         /\ Prior(log', EmptyState, nextRecord) = published
<1>1. /\ log \in Seq(DurableItem) /\ batch \in Seq(DurableItem)
      /\ log' \in Seq(DurableItem) /\ Len(log') = Len(log) + n
      /\ Len(log) \in Nat /\ nextRecord \in Int /\ Len(log) = nextRecord - 1
      /\ Chain(log, EmptyState) /\ Chain(batch, published)
      /\ InOrder(log)
      /\ published = Prior(log, EmptyState, nextRecord)
      /\ \A k \in 1 .. Len(log) : log'[k] = log[k]
  <2>1. log \in Seq(DurableItem)
    BY DEF CoordInv, CoordTypes
  <2> QED BY <2>1 DEF CoordInv, CoordTypes, PhaseInv, RecoverInv, GrownBy
<1>2. nextRecord = Len(log) + 1
  BY <1>1
<1>3. \A k \in 1 .. n : log'[Len(log) + k] = FrameOf(batch[k], Len(log) + k)
  <2> SUFFICES ASSUME NEW k \in 1 .. n
               PROVE  log'[Len(log) + k] = FrameOf(batch[k], Len(log) + k)
    OBVIOUS
  <2>1. log'[Len(log) + k] = FrameOf(batch[k], nextRecord + k - 1)
    BY DEF GrownBy
  <2>2. nextRecord + k - 1 = Len(log) + k
    BY <1>1, <1>2
  <2> QED BY <2>1, <2>2
<1>4. published = Prior(log, EmptyState, Len(log) + 1)
  BY <1>1, <1>2
<1> DEFINE whole == log'
<1>5. whole \in Seq(DurableItem) /\ Joined(log, batch, n, whole)
  BY <1>1, <1>3 DEF Joined
<1> HIDE DEF whole
<1>6. /\ Chain(whole, EmptyState) /\ InOrder(whole)
      /\ \A k \in 1 .. Len(log) + 1 : Prior(whole, EmptyState, k) = Prior(log, EmptyState, k)
  <2>1. \A items \in Seq(DurableItem), more \in Seq(DurableItem), longer \in Seq(DurableItem) :
          \A start, end : \A m \in 0 .. Len(more) :
            Chain(items, start) /\ end = Prior(items, start, Len(items) + 1) /\ Chain(more, end)
              /\ InOrder(items) /\ Joined(items, more, m, longer) =>
            Chain(longer, start) /\ InOrder(longer)
              /\ \A k \in 1 .. Len(items) + 1 : Prior(longer, start, k) = Prior(items, start, k)
    BY ChainsJoin
  <2>2. \A start, end : \A m \in 0 .. Len(batch) :
          Chain(log, start) /\ end = Prior(log, start, Len(log) + 1) /\ Chain(batch, end)
            /\ InOrder(log) /\ Joined(log, batch, m, whole) =>
          Chain(whole, start) /\ InOrder(whole)
            /\ \A k \in 1 .. Len(log) + 1 : Prior(whole, start, k) = Prior(log, start, k)
    BY <1>1, <1>5, <2>1
  <2> QED BY <1>1, <1>4, <1>5, <2>2
<1>7. Prior(whole, EmptyState, nextRecord) = published
  <2>1. Len(log) + 1 \in 1 .. Len(log) + 1
    BY <1>1
  <2> QED BY <1>2, <1>4, <1>6, <2>1
<1> QED BY <1>6, <1>7 DEF whole

-----------------------------------------------------------------------------
(* Every step keeps the chain.                                              *)

\* No records lead nowhere.
LEMMA NoRecords ==
  ASSUME NEW start
  PROVE  Chain(<<>>, start) /\ Prior(<<>>, start, Len(<<>>) + 1) = start
BY DEF Chain, Prior

\* What the first records of the log lead to is a state of the engine.
LEMMA ReplayedState ==
  ASSUME CoordInv, RecoverInv
  PROVE  /\ Prior(log, EmptyState, nextRecord) \in EngineState
         /\ Sound(Prior(log, EmptyState, nextRecord))
<1>1. log \in Seq(DurableItem) /\ nextRecord \in 1 .. Len(log) + 1 /\ Chain(log, EmptyState)
  BY DEF CoordInv, CoordTypes, RecoverInv
<1> QED BY <1>1, EmptyStateTyped, EmptyIsSound, PriorIsSound

\* What the candidate of a batch has come to is sound.
LEMMA CandidateSound ==
  ASSUME CoordInv, RecoverInv, phase # "Recovering"
  PROVE  Sound(State)
<1>1. batch \in Seq(DurableItem) /\ Len(batch) + 1 \in 1 .. Len(batch) + 1
  <2>1. batch \in Seq(DurableItem)
    BY DEF CoordInv, CoordTypes
  <2> QED BY <2>1
<1>2. /\ published \in EngineState /\ Sound(published) /\ Chain(batch, published)
      /\ State = Prior(batch, published, Len(batch) + 1)
  BY DEF CoordInv, CoordTypes, RecoverInv
<1>3. Sound(Prior(batch, published, Len(batch) + 1))
  BY <1>1, <1>2, PriorIsSound
<1> QED BY <1>2, <1>3

\* A candidate that was given up is the published state again.
LEMMA DroppedFollows ==
  ASSUME CoordInv, RecoverInv, phase # "Recovering", Resume(published), EndBatch,
         published' = published, nextRecord' = nextRecord,
         Chain(log', EmptyState), InOrder(log'),
         Prior(log', EmptyState, nextRecord) = published
  PROVE  RecoverInv'
<1>1. State' = published /\ promises' = published.promises
  <2>1. published \in EngineState
    BY DEF CoordInv, CoordTypes
  <2>2. published = [pools |-> published.pools, slack |-> published.slack,
                     promises |-> published.promises, sequence |-> published.sequence,
                     events |-> published.events, records |-> published.records]
    BY <2>1 DEF EngineState
  <2>3. State' = [pools |-> pools', slack |-> slack', promises |-> promises',
                  sequence |-> sequence', events |-> events', records |-> records']
    BY DEF State
  <2> QED BY <2>2, <2>3 DEF Resume
<1>2. batch' = <<>> /\ phase' = "Idle"
  BY DEF EndBatch
<1>3. Chain(batch', published') /\ Prior(batch', published', Len(batch') + 1) = published
  BY <1>2, NoRecords
<1>4. Later(promises', published'.promises)
  <2>1. promises' = published'.promises
    BY <1>1
  <2>2. \A i \in PromiseId : promises'[i].version <= promises'[i].version
    <3>1. promises' \in [PromiseId -> PromiseRecord \union {Absent}]
      BY <1>1 DEF CoordInv, CoordTypes, EngineState, PromiseTable
    <3>2. \A r \in PromiseRecord \union {Absent} : r.version \in Nat
      BY CountsAreNatural DEF PromiseRecord, Absent
    <3> QED BY <3>1, <3>2
  <2> QED BY <2>1, <2>2 DEF Later
<1>5. /\ Sound(published') /\ Chain(log', EmptyState) /\ InOrder(log')
      /\ published' = Prior(log', EmptyState, nextRecord')
  BY DEF RecoverInv
<1> HIDE DEF State
<1> QED BY <1>1, <1>2, <1>3, <1>4, <1>5 DEF RecoverInv

\* A database that stopped is opened from nothing.
LEMMA StoppedFollows ==
  ASSUME Stop, Chain(log', EmptyState), InOrder(log')
  PROVE  RecoverInv'
<1>1. /\ pools' = EmptyState.pools /\ promises' = EmptyState.promises
      /\ sequence' = EmptyState.sequence /\ events' = EmptyState.events
      /\ records' = EmptyState.records
      /\ published' = EmptyState /\ batch' = <<>> /\ nextRecord' = 1 /\ phase' = "Recovering"
  BY DEF Stop, Resume
<1>2. Prior(log', EmptyState, nextRecord') = EmptyState
  BY <1>1 DEF Prior
<1>3. Filled(Prior(log, EmptyState, nextRecord))'
  BY <1>1, <1>2 DEF Filled
<1>4. Sound(published') /\ Chain(batch', published')
  BY <1>1, EmptyIsSound, NoRecords
<1> HIDE DEF EmptyState
<1> QED BY <1>1, <1>3, <1>4 DEF RecoverInv

\* prepare_batch goes on with a command it has not seen.
LEMMA PrepareNewFollows ==
  ASSUME NothingIsUndone, CoordInv, RecoverInv, NEW request \in Request, NEW now \in Instant,
         PrepareNew(request, now)
  PROVE  RecoverInv'
<1>1. /\ phase # "Recovering" /\ phase' = "Preparing"
      /\ published' = published /\ log' = log /\ nextRecord' = nextRecord
  BY DEF PrepareNew, CanPrepare
<1>2. PICK item \in DurableItem :
        batch' = Append(batch, item) /\ item.after = State' /\ Follows(State, item)
  BY ExecutionFollows
<1>3. Sound(State')
  <2>1. Sound(State) /\ CoordTypes
    BY <1>1, CandidateSound DEF CoordInv
  <2> QED BY <2>1, ExecutionSound
<1>4. Later(promises', published'.promises)
  BY <1>1, NothingReverts
<1>5. /\ batch \in Seq(DurableItem) /\ Chain(batch, published)
      /\ State = Prior(batch, published, Len(batch) + 1)
  BY <1>1 DEF CoordInv, CoordTypes, RecoverInv
<1> HIDE DEF State
<1>6. /\ Chain(batch', published) /\ Prior(batch', published, Len(batch) + 2) = State'
      /\ Len(batch') + 1 = Len(batch) + 2
  <2>1. Sound(item.after) /\ Follows(Prior(batch, published, Len(batch) + 1), item)
    BY <1>2, <1>3, <1>5
  <2>2. /\ Chain(Append(batch, item), published)
        /\ Prior(Append(batch, item), published, Len(batch) + 2) = item.after
    BY <1>5, <2>1, ChainGoesOn
  <2>3. Len(Append(batch, item)) = Len(batch) + 1 /\ Len(batch) \in Nat
    BY <1>5
  <2> QED BY <1>2, <2>2, <2>3
<1>7. State' = Prior(batch', published', Len(batch') + 1)
  BY <1>1, <1>6
<1>8. /\ Sound(published') /\ Chain(log', EmptyState) /\ InOrder(log')
      /\ published' = Prior(log', EmptyState, nextRecord')
  BY <1>1 DEF RecoverInv
<1> QED BY <1>1, <1>4, <1>6, <1>7, <1>8 DEF RecoverInv

\* Nothing changes but the phase, the answers and what clients were told.
LEMMA StateStaysFollowed ==
  ASSUME RecoverInv, phase # "Recovering", phase' # "Recovering",
         State' = State, promises' = promises, published' = published, batch' = batch,
         log' = log, nextRecord' = nextRecord
  PROVE  RecoverInv'
<1> HIDE DEF State
<1> QED BY DEF RecoverInv

\* The other steps of prepare_batch and apply_batch, but for the ones that write.
LEMMA BatchStepsFollow ==
  ASSUME CoordInv, RecoverInv,
         \/ \E request \in Request : PrepareSeen(request)
         \/ AnswerSeen
         \/ MakeDurable
  PROVE  RecoverInv'
<1>1. CASE \E request \in Request : PrepareSeen(request)
  <2>1. /\ phase # "Recovering" /\ phase' = "Preparing"
        /\ State' = State /\ promises' = promises /\ published' = published /\ batch' = batch
        /\ log' = log /\ nextRecord' = nextRecord
    BY <1>1 DEF PrepareSeen, CanPrepare, engine, State
  <2> QED BY <2>1, StateStaysFollowed
<1>2. CASE AnswerSeen
  <2>1. /\ phase # "Recovering" /\ phase' = "Idle"
        /\ State' = State /\ promises' = promises /\ published' = published /\ batch' = batch
        /\ log' = log /\ nextRecord' = nextRecord
    BY <1>2 DEF AnswerSeen, EndBatch, engine, State
  <2> QED BY <2>1, StateStaysFollowed
<1>3. CASE MakeDurable
  <2>1. /\ phase # "Recovering" /\ phase' = "Persisted"
        /\ State' = State /\ promises' = promises /\ published' = published /\ batch' = batch
        /\ log' = log /\ nextRecord' = nextRecord
    BY <1>3 DEF MakeDurable, engine, State
  <2> QED BY <2>1, StateStaysFollowed
<1> QED BY <1>1, <1>2, <1>3

\* A batch that fails before any I/O.
LEMMA AbandonFollows ==
  ASSUME CoordInv, RecoverInv, Abandon
  PROVE  RecoverInv'
<1>1. /\ phase # "Recovering" /\ Resume(published) /\ EndBatch
      /\ published' = published /\ nextRecord' = nextRecord /\ log' = log
  BY DEF Abandon
<1>2. /\ Chain(log', EmptyState) /\ InOrder(log')
      /\ Prior(log', EmptyState, nextRecord) = published
  BY <1>1 DEF RecoverInv
<1> QED BY <1>1, <1>2, DroppedFollows

\* WalBackend::append of a group.
LEMMA AppendBatchFollows ==
  ASSUME CoordInv, RecoverInv, AppendBatch
  PROVE  RecoverInv'
<1>1. /\ phase = "Preparing" /\ phase' # "Recovering"
      /\ State' = State /\ promises' = promises /\ published' = published /\ batch' = batch
      /\ nextRecord' = nextRecord
  BY DEF AppendBatch, engine, State
<1>2. Len(batch) \in 0 .. Len(batch) /\ GrownBy(Len(batch))
  <2>1. batch \in Seq(DurableItem) /\ CoordTypes /\ log' = log \o Framed
    BY DEF CoordInv, CoordTypes, AppendBatch
  <2> QED BY <2>1, AppendGrows
<1>3. /\ Chain(log', EmptyState) /\ InOrder(log')
      /\ Prior(log', EmptyState, nextRecord) = published
  BY <1>1, <1>2, GrownChain
<1> HIDE DEF State
<1> QED BY <1>1, <1>3 DEF RecoverInv

\* A write that failed, however much of the batch it left in the log.
LEMMA PersistFailsFollows ==
  ASSUME CoordInv, RecoverInv, PersistFails
  PROVE  RecoverInv'
<1>1. /\ phase # "Recovering" /\ Resume(published) /\ EndBatch
      /\ published' = published /\ nextRecord' = nextRecord
  BY DEF PersistFails, AfterFailure
<1>2. CASE phase = "Preparing" /\ PartialAppend
  <2>1. PICK n \in 0 .. Len(batch) : log' = log \o SubSeq(Framed, 1, n)
    BY <1>2 DEF PartialAppend
  <2>2. GrownBy(n)
    BY <2>1, PartialAppendGrows DEF CoordInv
  <2>3. /\ Chain(log', EmptyState) /\ InOrder(log')
        /\ Prior(log', EmptyState, nextRecord) = published
    BY <1>2, <2>2, GrownChain
  <2> QED BY <1>1, <2>3, DroppedFollows
<1>3. CASE log' = log
  <2>1. /\ Chain(log', EmptyState) /\ InOrder(log')
        /\ Prior(log', EmptyState, nextRecord) = published
    BY <1>1, <1>3 DEF RecoverInv
  <2> QED BY <1>1, <2>1, DroppedFollows
<1> QED BY <1>2, <1>3 DEF PersistFails

\* What a crash of the process leaves in the log.
LEMMA CrashProcessFollows ==
  ASSUME CoordInv, RecoverInv, CrashProcess
  PROVE  RecoverInv'
<1>1. Stop
  BY DEF CrashProcess
<1>2. CASE phase = "Preparing" /\ PartialAppend
  <2>1. PICK n \in 0 .. Len(batch) : log' = log \o SubSeq(Framed, 1, n)
    BY <1>2 DEF PartialAppend
  <2>2. GrownBy(n)
    BY <2>1, PartialAppendGrows DEF CoordInv
  <2>3. Chain(log', EmptyState) /\ InOrder(log')
    BY <1>2, <2>2, GrownChain
  <2> QED BY <1>1, <2>3, StoppedFollows
<1>3. CASE log' = log
  <2>1. Chain(log', EmptyState) /\ InOrder(log')
    BY <1>3 DEF RecoverInv
  <2> QED BY <1>1, <2>1, StoppedFollows
<1> QED BY <1>2, <1>3 DEF CrashProcess, store

\* What a loss of power leaves of the log.
LEMMA LosePowerFollows ==
  ASSUME CoordInv, RecoverInv, LosePower
  PROVE  RecoverInv'
<1>1. PICK n \in synced .. Len(log) : log' = SubSeq(log, 1, n)
  BY DEF LosePower
<1>2. /\ DOMAIN log' = 1 .. n /\ DOMAIN log = 1 .. Len(log)
      /\ n \in Nat /\ Len(log) \in Nat /\ n <= Len(log)
      /\ \A k \in 1 .. n : log'[k] = log[k]
  BY <1>1, CutLog DEF CoordInv
<1> DEFINE cut == log'
<1>3. /\ DOMAIN cut = 1 .. n /\ 1 .. n \subseteq DOMAIN log
      /\ \A k \in 1 .. n : cut[k] = log[k]
  BY <1>2
<1> HIDE DEF cut
<1>4. Chain(log, EmptyState) /\ InOrder(log)
  BY DEF RecoverInv
<1>5. Chain(cut, EmptyState)
  <2>1. \A items, others, start : \A m \in Nat :
          /\ Chain(items, start) /\ DOMAIN others = 1 .. m /\ 1 .. m \subseteq DOMAIN items
          /\ \A k \in 1 .. m : others[k] = items[k]
          => Chain(others, start)
    BY ChainIsCut
  <2> QED BY <1>2, <1>3, <1>4, <2>1
<1>6. InOrder(cut)
  BY <1>3, <1>4 DEF InOrder
<1>7. Stop
  BY DEF LosePower
<1> QED BY <1>5, <1>6, <1>7, StoppedFollows DEF cut

\* publish_batch publishes what the last record of the batch leads to.
LEMMA PublishFollows ==
  ASSUME CoordInv, RecoverInv, Publish
  PROVE  RecoverInv'
<1>1. /\ phase = "Persisted" /\ phase' = "Idle" /\ published' = State /\ State' = State
      /\ promises' = promises /\ nextRecord' = nextRecord + Len(batch) /\ batch' = <<>>
      /\ log' = log
  BY DEF Publish, EndBatch, engine, State
<1>2. /\ log \in Seq(DurableItem) /\ batch \in Seq(DurableItem)
      /\ Len(log) \in Nat /\ Len(batch) \in Nat /\ nextRecord \in Int /\ nextRecord >= 1
      /\ \A k \in DOMAIN batch : log[nextRecord - 1 + k] = FrameOf(batch[k], nextRecord + k - 1)
      /\ State = Prior(batch, published, Len(batch) + 1)
      /\ published = Prior(log, EmptyState, nextRecord)
  <2>1. log \in Seq(DurableItem) /\ batch \in Seq(DurableItem)
    BY DEF CoordInv, CoordTypes
  <2> QED BY <1>1, <2>1 DEF CoordInv, CoordTypes, PhaseInv, RecoverInv
<1>3. Sound(State)
  BY <1>1, CandidateSound
<1>4. promises = State.promises
  BY DEF State
<1> HIDE DEF State
<1>5. State = Prior(log, EmptyState, nextRecord + Len(batch))
  <2>1. CASE Len(batch) = 0
    <3>1. Len(batch) + 1 = 1 /\ nextRecord + Len(batch) = nextRecord
      BY <1>2, <2>1
    <3>2. State = published
      BY <1>2, <3>1 DEF Prior
    <3> QED BY <1>2, <3>1, <3>2
  <2>2. CASE Len(batch) # 0
    <3> DEFINE k == Len(batch)
               m == nextRecord + k
               j == nextRecord - 1 + k
    <3>1. /\ k \in DOMAIN batch /\ k + 1 # 1 /\ k + 1 - 1 = k
          /\ m # 1 /\ m - 1 = j /\ nextRecord + k - 1 \in Nat /\ batch[k] \in DurableItem
      BY <1>2, <2>2
    <3>2. State = batch[k].after
      <4> DEFINE last == k + 1
      <4>1. last # 1 /\ last - 1 = k /\ State = Prior(batch, published, last)
        BY <1>2, <3>1
      <4> HIDE DEF last, k
      <4> QED BY <4>1 DEF Prior
    <3>3. log[j] = FrameOf(batch[k], nextRecord + k - 1)
      BY <1>2, <3>1
    <3>4. FrameOf(batch[k], nextRecord + k - 1).after = batch[k].after
      BY <3>1, FramedItem
    <3>5. log[j].after = State
      BY <3>2, <3>3, <3>4
    <3> HIDE DEF m, j
    <3>6. Prior(log, EmptyState, m) = log[j].after
      BY <3>1 DEF Prior
    <3> QED BY <3>5, <3>6 DEF m
  <2> QED BY <2>1, <2>2
<1>6. Chain(batch', published') /\ Prior(batch', published', Len(batch') + 1) = published'
  BY <1>1, NoRecords
<1>7. Later(promises', published'.promises)
  <2>1. published'.promises = promises'
    BY <1>1, <1>4
  <2>2. \A i \in PromiseId : promises'[i].version <= promises'[i].version
    <3>1. promises' \in [PromiseId -> PromiseRecord \union {Absent}]
      BY <1>1 DEF CoordInv, CoordTypes, TypeInv, TypeOK
    <3>2. \A r \in PromiseRecord \union {Absent} : r.version \in Nat
      BY CountsAreNatural DEF PromiseRecord, Absent
    <3> QED BY <3>1, <3>2
  <2> QED BY <2>1, <2>2 DEF Later
<1>8. Sound(published') /\ Chain(log', EmptyState) /\ InOrder(log')
  BY <1>1, <1>3 DEF RecoverInv
<1>9. published' = Prior(log', EmptyState, nextRecord')
  BY <1>1, <1>5
<1> QED BY <1>1, <1>6, <1>7, <1>8, <1>9 DEF RecoverInv

\* install_transition leads to the state of the record.
LEMMA InstallRecordFollows ==
  ASSUME CoordInv, RecoverInv, InstallRecord
  PROVE  RecoverInv'
<1>1. /\ phase = "Recovering" /\ phase' = "Recovering"
      /\ published' = published /\ batch' = batch /\ log' = log
      /\ nextRecord' = nextRecord + 1 /\ nextRecord <= Len(log)
      /\ pools' = Installed(pools, Item.pools) /\ promises' = Installed(promises, Item.promises)
      /\ sequence' = Item.final /\ events' = events \o Item.events
      /\ records' = [records EXCEPT ![Item.identity] = EntryOf(Item)]
  BY DEF InstallRecord, EntryOf
<1>2. /\ log \in Seq(DurableItem) /\ nextRecord \in Nat /\ nextRecord >= 1
      /\ nextRecord \in DOMAIN log
  <2>1. log \in Seq(DurableItem)
    BY DEF CoordInv, CoordTypes
  <2> QED BY <1>1, <2>1 DEF CoordInv, CoordTypes
<1> DEFINE st == Prior(log, EmptyState, nextRecord)
<1>3. /\ Follows(st, Item)
      /\ pools = st.pools /\ promises = st.promises /\ sequence = st.sequence
      /\ events = st.events /\ records = st.records
  BY <1>1, <1>2 DEF RecoverInv, Chain, Item, Filled
<1> HIDE DEF st
<1>4. /\ pools' = Item.after.pools /\ promises' = Item.after.promises
      /\ sequence' = Item.after.sequence /\ events' = Item.after.events
      /\ records' = Item.after.records
  BY <1>1, <1>3 DEF Follows
<1>5. Prior(log, EmptyState, nextRecord') = Item.after
  <2> DEFINE m == nextRecord'
  <2>1. m # 1 /\ m - 1 = nextRecord
    BY <1>1, <1>2
  <2> HIDE DEF m
  <2>2. Prior(log, EmptyState, m) = log[nextRecord].after
    BY <2>1 DEF Prior
  <2> QED BY <2>2 DEF m, Item
<1>6. Filled(Prior(log, EmptyState, nextRecord))'
  BY <1>1, <1>4, <1>5 DEF Filled
<1>7. /\ Sound(published') /\ Chain(log', EmptyState) /\ InOrder(log')
      /\ Chain(batch', published')
  BY <1>1 DEF RecoverInv
<1> QED BY <1>1, <1>6, <1>7 DEF RecoverInv

\* rebuild_slack_timelines rebuilds the index of a sound state the candidate holds.
LEMMA RebuildsIndex ==
  ASSUME NEW st \in EngineState, IndexedState(st), pools = st.pools, promises = st.promises
  PROVE  RebuiltSlack = st.slack
<1>1. st.slack \in [Pool -> [Time -> Int]]
  BY DEF EngineState
<1>2. \A p \in Pool, t \in Time :
        st.slack[p][t] = IF st.pools[p] = NoCurve THEN 0
                         ELSE st.pools[p][t] - Usage(st.promises, p, t)
  BY DEF IndexedState
<1>3. \A p \in Pool, t \in Time :
        st.slack[p][t] = IF pools[p] = NoCurve THEN 0 ELSE pools[p][t] - Usage(promises, p, t)
  BY <1>2
<1>4. \A p \in Pool : st.slack[p] = [t \in Time |->
        IF pools[p] = NoCurve THEN 0 ELSE pools[p][t] - Usage(promises, p, t)]
  BY <1>1, <1>3
<1> QED BY <1>1, <1>4 DEF RebuiltSlack

\* EngineRecovery::finish publishes what the last record of the log leads to.
LEMMA FinishRecoveryFollows ==
  ASSUME CoordInv, RecoverInv, FinishRecovery
  PROVE  RecoverInv'
<1>1. /\ phase = "Recovering" /\ phase' = "Idle"
      /\ slack' = RebuiltSlack /\ published' = [State EXCEPT !.slack = RebuiltSlack]
      /\ pools' = pools /\ promises' = promises /\ sequence' = sequence
      /\ events' = events /\ records' = records
      /\ batch' = batch /\ log' = log /\ nextRecord' = nextRecord
  BY DEF FinishRecovery
<1>2. batch = <<>>
  BY <1>1 DEF CoordInv, PhaseInv
<1> DEFINE st == Prior(log, EmptyState, nextRecord)
<1>3. st \in EngineState /\ Sound(st) /\ Filled(st)
  BY <1>1, ReplayedState DEF RecoverInv
<1> HIDE DEF st
<1>4. RebuiltSlack = st.slack
  BY <1>3, RebuildsIndex DEF Sound, Filled
<1>5. published' = st /\ State' = st
  <2>1. st = [pools |-> pools, slack |-> st.slack, promises |-> promises,
              sequence |-> sequence, events |-> events, records |-> records]
    BY <1>3 DEF EngineState, Filled
  <2>2. published' = [pools |-> pools, slack |-> RebuiltSlack, promises |-> promises,
                      sequence |-> sequence, events |-> events, records |-> records]
    BY <1>1 DEF State
  <2>3. State' = [pools |-> pools, slack |-> RebuiltSlack, promises |-> promises,
                  sequence |-> sequence, events |-> events, records |-> records]
    BY <1>1 DEF State
  <2> QED BY <1>4, <2>1, <2>2, <2>3
<1>6. Chain(batch', published') /\ Prior(batch', published', Len(batch') + 1) = published'
  BY <1>1, <1>2, NoRecords
<1>7. Later(promises', published'.promises)
  <2>1. published'.promises = promises'
    BY <1>1, <1>3, <1>5 DEF Filled
  <2>2. \A i \in PromiseId : promises'[i].version <= promises'[i].version
    <3>1. promises' \in [PromiseId -> PromiseRecord \union {Absent}]
      BY <1>1 DEF CoordInv, CoordTypes, TypeInv, TypeOK
    <3>2. \A r \in PromiseRecord \union {Absent} : r.version \in Nat
      BY CountsAreNatural DEF PromiseRecord, Absent
    <3> QED BY <3>1, <3>2
  <2> QED BY <2>1, <2>2 DEF Later
<1>8. /\ Sound(published') /\ Chain(log', EmptyState) /\ InOrder(log')
      /\ published' = Prior(log', EmptyState, nextRecord')
  BY <1>1, <1>3, <1>5 DEF RecoverInv, st
<1> HIDE DEF State
<1> QED BY <1>1, <1>5, <1>6, <1>7, <1>8 DEF RecoverInv

\* A new database.
LEMMA RecoverInit ==
  ASSUME CInit
  PROVE  RecoverInv
<1>1. /\ State = EmptyState /\ promises = published.promises
      /\ published = EmptyState /\ phase = "Idle" /\ batch = <<>> /\ log = <<>> /\ nextRecord = 1
  BY DEF CInit, Init, State, EmptyState
<1>2. /\ Chain(log, EmptyState) /\ Chain(batch, published)
      /\ Prior(batch, published, Len(batch) + 1) = published
  BY <1>1, NoRecords
<1>3. Prior(log, EmptyState, nextRecord) = EmptyState
  BY <1>1 DEF Prior
<1>4. InOrder(log)
  BY <1>1 DEF InOrder
<1>5. Later(promises, published.promises)
  <2>1. \A i \in PromiseId : promises[i] = Absent
    BY DEF CInit, Init
  <2>2. \A i \in PromiseId : promises[i].version <= promises[i].version
    BY <2>1 DEF Absent
  <2> QED BY <1>1, <2>2 DEF Later
<1>6. Sound(published)
  BY <1>1, EmptyIsSound
<1> HIDE DEF State, EmptyState
<1> QED BY <1>1, <1>2, <1>3, <1>4, <1>5, <1>6 DEF RecoverInv

\* A step of the coordinator, or none, keeps the chain.
LEMMA RecoverStep ==
  ASSUME NothingIsUndone, CoordInv, RecoverInv, [CNext]_cvars
  PROVE  RecoverInv'
<1>1. CASE UNCHANGED cvars
  <2>1. /\ pools' = pools /\ slack' = slack /\ promises' = promises /\ sequence' = sequence
        /\ events' = events /\ records' = records /\ published' = published
        /\ phase' = phase /\ batch' = batch /\ log' = log /\ nextRecord' = nextRecord
    BY <1>1 DEF cvars
  <2>2. State' = State
    BY <2>1 DEF State
  <2> HIDE DEF State
  <2> QED BY <2>1, <2>2 DEF RecoverInv, Filled
<1>2. ASSUME NEW request \in Request, NEW now \in Instant, PrepareNew(request, now)
      PROVE  RecoverInv'
  BY <1>2, PrepareNewFollows
<1>3. CASE (\E request \in Request : PrepareSeen(request)) \/ AnswerSeen \/ MakeDurable
  BY <1>3, BatchStepsFollow
<1>4. CASE Abandon BY <1>4, AbandonFollows
<1>5. CASE AppendBatch BY <1>5, AppendBatchFollows
<1>6. CASE Publish BY <1>6, PublishFollows
<1>7. CASE PersistFails BY <1>7, PersistFailsFollows
<1>8. CASE CrashProcess BY <1>8, CrashProcessFollows
<1>9. CASE LosePower BY <1>9, LosePowerFollows
<1>10. CASE InstallRecord BY <1>10, InstallRecordFollows
<1>11. CASE FinishRecovery BY <1>11, FinishRecoveryFollows
<1> QED BY <1>1, <1>2, <1>3, <1>4, <1>5, <1>6, <1>7, <1>8, <1>9, <1>10, <1>11 DEF CNext

\* Where NothingIsUndone (batches hold one command, or no two commands give a pool the same
\* curve): the log is a chain of sound states from the empty one, whatever a crash took of
\* it, the batch goes on from the published state, and recovery holds what the records
\* that were read lead to.
THEOREM LogIsAChain ==
  ASSUME NothingIsUndone
  PROVE  CSpec => [](CoordInv /\ RecoverInv)
<1>1. CInit => CoordInv /\ RecoverInv
  BY CoordInit, RecoverInit
<1>2. CoordInv /\ RecoverInv /\ [CNext]_cvars => CoordInv' /\ RecoverInv'
  BY NothingIsUndone, CoordStep, RecoverStep
<1> QED BY <1>1, <1>2, PTL DEF CSpec

-----------------------------------------------------------------------------
(* What follows of it.                                                      *)

\* Where NothingIsUndone: the published state, and the candidate while no batch is in
\* flight, is what the last record leads to: install_transition and
\* rebuild_slack_timelines reproduce what apply_once had computed, and a failed batch
\* leaves nothing behind. Without the hypothesis it is false: prepare_batch takes effects
\* against the state the batch began with, and a curve revised and revised back is lost.
THEOREM RecoveryReproducesExecution ==
  ASSUME NothingIsUndone
  PROVE  CSpec => []StateIsWhatTheLogSays
<1>1. CoordInv /\ RecoverInv => StateIsWhatTheLogSays
  <2> SUFFICES ASSUME CoordInv, RecoverInv, phase = "Idle"
               PROVE  /\ published = IF nextRecord = 1 THEN EmptyState ELSE log[nextRecord - 1].after
                      /\ State = published
    BY DEF StateIsWhatTheLogSays
  <2>1. batch = <<>>
    BY DEF CoordInv, PhaseInv
  <2>2. /\ published = Prior(log, EmptyState, nextRecord)
        /\ State = Prior(batch, published, Len(batch) + 1)
    BY DEF RecoverInv
  <2>3. State = published
    BY <2>1, <2>2, NoRecords
  <2> QED BY <2>2, <2>3 DEF Prior
<1> QED BY <1>1, NothingIsUndone, LogIsAChain, PTL

\* Events that are numbered pass the check of recovery.
LEMMA NumberedIsContiguous ==
  ASSUME NEW item \in DurableItem, sequence \in Int, Numbered(item.events, sequence, item.final)
  PROVE  SequenceIsContiguous(item)
<1> DEFINE n == Len(item.events)
           row == item.events
           seqs == [k \in 0 .. n |-> IF k = 0 THEN sequence ELSE row[k].seq]
<1>1. /\ row \in Seq(Notice) /\ n \in Nat /\ DOMAIN row = 1 .. n
      /\ \A k \in 1 .. n : row[k].seq \in Int
  <2>1. row \in Seq(Notice)
    BY DEF Numbered
  <2>2. n \in Nat /\ DOMAIN row = 1 .. n /\ \A k \in 1 .. n : row[k] \in Notice
    BY <2>1
  <2> QED BY <2>1, <2>2, NoticeTyped
<1>2. /\ \A k \in 1 .. n : k # 1 => row[k].seq \in {row[k - 1].seq, row[k - 1].seq + 1}
      /\ n # 0 => row[1].seq = sequence + 1
      /\ item.final = IF n = 0 THEN sequence ELSE row[n].seq
  <2>1. \A k \in DOMAIN row :
          row[k].seq = IF row[k].kind \in DeficitKinds
                       THEN (IF k = 1 THEN sequence ELSE row[k - 1].seq)
                       ELSE (IF k = 1 THEN sequence ELSE row[k - 1].seq) + 1
    BY DEF Numbered
  <2>2. row # <<>> => row[1].kind \notin DeficitKinds
    BY DEF Numbered
  <2>3. item.final = IF row = <<>> THEN sequence ELSE row[Len(row)].seq
    BY DEF Numbered
  <2>4. (n = 0 <=> row = <<>>) /\ (n # 0 => 1 \in DOMAIN row)
    BY <1>1
  <2> QED BY <1>1, <2>1, <2>2, <2>3, <2>4
<1>3. /\ seqs[0] = sequence /\ \A k \in 1 .. n : seqs[k] = row[k].seq
      /\ \A k \in 1 .. n : k # 1 => seqs[k - 1] = row[k - 1].seq
  <2>1. 0 \in 0 .. n /\ \A k \in 1 .. n : k \in 0 .. n /\ k # 0
    BY <1>1
  <2>2. \A k \in 1 .. n : k # 1 => k - 1 \in 0 .. n /\ k - 1 # 0
    BY <1>1
  <2> QED BY <2>1, <2>2
<1> HIDE DEF seqs
<1>4. ASSUME NEW k \in 1 .. n
      PROVE  IF k = 1 THEN seqs[k] = seqs[0] + 1 ELSE seqs[k] - seqs[k - 1] \in {0, 1}
  <2>1. CASE k = 1
    BY <1>1, <1>2, <1>3, <2>1
  <2>2. CASE k # 1
    <3> DEFINE x == row[k].seq
               y == row[k - 1].seq
    <3>1. k - 1 \in 1 .. n
      BY <1>1, <2>2
    <3>2. x \in Int /\ y \in Int /\ x \in {y, y + 1}
      BY <1>1, <1>2, <2>2, <3>1
    <3>3. seqs[k] = x /\ seqs[k - 1] = y
      BY <1>3, <2>2
    <3> HIDE DEF x, y
    <3>4. x - y \in {0, 1}
      BY <3>2
    <3> QED BY <2>2, <3>3, <3>4
  <2> QED BY <2>1, <2>2
<1>5. seqs[n] = item.final
  <2>1. CASE n = 0
    BY <1>2, <1>3, <2>1
  <2>2. CASE n # 0
    <3>1. n \in 1 .. n
      BY <1>1, <2>2
    <3> QED BY <1>2, <1>3, <2>2, <3>1
  <2> QED BY <2>1, <2>2
<1>6. SequenceIsContiguous(item) =
        ((\A k \in 1 .. n : IF k = 1 THEN seqs[k] = seqs[0] + 1
                            ELSE seqs[k] - seqs[k - 1] \in {0, 1})
         /\ seqs[n] = item.final)
  BY DEF SequenceIsContiguous, seqs
<1> QED BY <1>4, <1>5, <1>6

\* The next record can be installed in the state the ones before it led to.
LEMMA NextIsInstallable ==
  ASSUME CoordInv, RecoverInv, phase = "Recovering", nextRecord <= Len(log)
  PROVE  Installable(Item)
<1>1. /\ log \in Seq(DurableItem) /\ nextRecord \in DOMAIN log
      /\ Item \in DurableItem /\ Item = log[nextRecord]
  <2>1. log \in Seq(DurableItem)
    BY DEF CoordInv, CoordTypes
  <2>2. nextRecord \in DOMAIN log
    BY <2>1 DEF CoordInv, CoordTypes
  <2> QED BY <2>1, <2>2 DEF Item
<1> DEFINE st == Prior(log, EmptyState, nextRecord)
           item == Item
           last == item.after
<1>2. /\ Follows(st, item) /\ Sound(last) /\ item.number = nextRecord
      /\ pools = st.pools /\ promises = st.promises /\ sequence = st.sequence
      /\ events = st.events /\ records = st.records
      /\ VersionsFollow(item.promises, item.final)
  BY <1>1 DEF RecoverInv, Chain, InOrder, Filled, CoordInv, LoggedVersions
<1> HIDE DEF st, item
<1>3. item \in DurableItem
  BY <1>1 DEF item
<1>4. /\ Installed(pools, item.pools) = last.pools
      /\ Installed(promises, item.promises) = last.promises
      /\ records[item.identity] = NoRecord
      /\ last.events = events \o item.events
      /\ Numbered(item.events, sequence, item.final)
  BY <1>2 DEF Follows
<1>5. /\ sequence \in Int /\ events \in Seq(Notice)
      /\ promises \in [PromiseId -> PromiseRecord \union {Absent}]
  BY CountsAreNatural DEF CoordInv, CoordTypes, TypeInv, TypeOK
<1>6. SequenceIsContiguous(item)
  BY <1>3, <1>4, <1>5, NumberedIsContiguous
<1>7. ASSUME NEW i \in DOMAIN item.promises
      PROVE  /\ item.promises[i].created <= item.promises[i].updated
             /\ item.promises[i].updated <= item.final
  <2>1. /\ item.promises \in Changes(PromiseId, PromiseRecord \union {Absent})
        /\ item.final \in Nat
    BY <1>3, CountsAreNatural DEF DurableItem
  <2>2. i \in PromiseId /\ last.promises[i] = item.promises[i]
    <3>1. \A V : \A value \in [PromiseId -> V], changed \in Changes(PromiseId, V) :
            /\ DOMAIN changed \subseteq PromiseId
            /\ \A x \in PromiseId : Installed(value, changed)[x] =
                                      IF x \in DOMAIN changed THEN changed[x] ELSE value[x]
      BY InstalledTyped
    <3>2. /\ DOMAIN item.promises \subseteq PromiseId
          /\ \A x \in PromiseId : Installed(promises, item.promises)[x] =
               IF x \in DOMAIN item.promises THEN item.promises[x] ELSE promises[x]
      BY <1>5, <2>1, <3>1
    <3> QED BY <1>4, <3>2
  <2>3. CASE item.promises[i].state = "Absent"
    <3>1. PICK T \in SUBSET PromiseId : item.promises \in [T -> PromiseRecord \union {Absent}]
      BY <2>1 DEF Changes
    <3>2. item.promises[i] \in PromiseRecord \union {Absent}
      BY <3>1
    <3>3. item.promises[i] = Absent
      BY <2>3, <3>2 DEF PromiseRecord
    <3>4. item.promises[i].created = 0 /\ item.promises[i].updated = 0
      BY <3>3 DEF Absent
    <3> QED BY <2>1, <3>4
  <2>4. CASE item.promises[i].state # "Absent"
    <3>1. last.promises[i].created <= last.promises[i].updated
      BY <1>2, <2>2, <2>4 DEF Sound, Founded
    <3>2. item.promises[i].updated <= item.final
      BY <1>2, <2>4 DEF VersionsFollow
    <3> QED BY <2>2, <3>1, <3>2
  <2> QED BY <2>3, <2>4
<1> DEFINE exists == {p \in Pool : Installed(pools, item.pools)[p] # NoCurve}
<1>8. exists = Present(last)
  BY <1>4 DEF Present
<1>9. \A i \in PromiseId : Installed(promises, item.promises)[i].state # "Absent" =>
        PoolsOf(Installed(promises, item.promises)[i].bundle) \subseteq exists
  BY <1>2, <1>4, <1>8 DEF Sound, Founded
<1>10. ASSUME NEW k \in DOMAIN item.events
       PROVE  Describes(item.events[k], last)
  <2>1. item.events \in Seq(Notice)
    BY <1>3 DEF DurableItem
  <2> DEFINE whole == events \o item.events
             j == Len(events) + k
  <2>2. /\ whole \in Seq(Notice) /\ Len(whole) = Len(events) + Len(item.events)
        /\ \A m \in 1 .. Len(events) + Len(item.events) :
             whole[m] = IF m <= Len(events) THEN events[m] ELSE item.events[m - Len(events)]
    BY <1>5, <2>1, ConcatProperties
  <2>3. /\ j \in 1 .. Len(events) + Len(item.events) /\ ~(j <= Len(events))
        /\ j - Len(events) = k
    BY <1>5, <2>1
  <2> HIDE DEF whole, j
  <2>4. j \in DOMAIN whole /\ whole[j] = item.events[k]
    BY <2>2, <2>3
  <2>5. last.events = whole
    BY <1>4 DEF whole
  <2> QED BY <1>2, <2>4, <2>5 DEF Sound, HistoryRefers
<1>11. ASSUME NEW k \in DOMAIN item.events
       PROVE  LET event == item.events[k] IN
              /\ event.kind \in PromiseKinds =>
                   Installed(promises, item.promises)[event.subject].state # "Absent"
              /\ event.kind \notin PromiseKinds => event.subject \in exists
              /\ event.kind \in DeficitKinds => \A i \in event.affected :
                   Installed(promises, item.promises)[i].state # "Absent"
  <2> DEFINE event == item.events[k]
  <2>1. Describes(event, last)
    BY <1>10
  <2>2. event \in Notice
    BY <1>3 DEF DurableItem
  <2> HIDE DEF event, last
  <2>3. event.kind \in PromiseKinds =>
          Installed(promises, item.promises)[event.subject].state # "Absent"
    BY <1>4, <2>1 DEF Describes
  <2>4. event.kind \notin PromiseKinds => event.subject \in exists
    <3>1. event.kind \notin PromiseKinds => event.subject \in Pool
      BY <2>2 DEF Notice, PromiseNotice, PoolNotice, DeficitNotice
    <3>2. event.kind \notin PromiseKinds => last.pools[event.subject] # NoCurve
      BY <2>1 DEF Describes
    <3> QED BY <1>4, <3>1, <3>2 DEF last
  <2>5. event.kind \in DeficitKinds => \A i \in event.affected :
          Installed(promises, item.promises)[i].state # "Absent"
    <3>1. event.kind \in DeficitKinds => event.kind \notin PromiseKinds
      BY DEF DeficitKinds, PromiseKinds
    <3> QED BY <1>4, <2>1, <3>1 DEF Describes
  <2> QED BY <2>3, <2>4, <2>5 DEF event
<1>12. Installable(item)
  BY <1>2, <1>4, <1>6, <1>7, <1>9, <1>11 DEF Installable
<1> QED BY <1>12 DEF item

\* Where NothingIsUndone: whatever a crash left in the log, every record that is there can
\* be installed (it has the number, the events and the references to entities that
\* install_transition insists on, and its identity is new), and the index rebuilt at the
\* end fits its type. The code does not enforce the hypothesis: it says nothing of clients
\* that revise a pool and revise it back in one batch.
THEOREM RecoverySucceeds ==
  ASSUME NothingIsUndone
  PROVE  CSpec => []RecoveryNeverFails
<1>1. CoordInv /\ RecoverInv => RecoveryNeverFails
  <2> SUFFICES ASSUME CoordInv, RecoverInv, phase = "Recovering"
               PROVE  IF nextRecord <= Len(log) THEN Installable(Item)
                      ELSE \A p \in Pool : Representable(RebuiltSlack[p])
    BY DEF RecoveryNeverFails
  <2>1. CASE nextRecord <= Len(log)
    BY <2>1, NextIsInstallable
  <2>2. CASE ~(nextRecord <= Len(log))
    <3> DEFINE st == Prior(log, EmptyState, nextRecord)
    <3>1. st \in EngineState /\ Sound(st) /\ Filled(st)
      BY ReplayedState DEF RecoverInv
    <3> HIDE DEF st
    <3>2. RebuiltSlack = st.slack
      BY <3>1, RebuildsIndex DEF Sound, Filled
    <3> HIDE DEF RebuiltSlack
    <3>3. \A p \in Pool : Representable(RebuiltSlack[p])
      BY <3>1, <3>2 DEF Sound, IndexedState
    <3> QED BY <2>2, <3>3
  <2> QED BY <2>1, <2>2
<1> QED BY <1>1, NothingIsUndone, LogIsAChain, PTL

\* The events of a state are numbered in order, up to its sequence number.
LEMMA NumberedIsOrdered ==
  ASSUME NEW row, NEW y, Numbered(row, 0, y)
  PROVE  /\ \A k \in DOMAIN row : row[k].seq <= y
         /\ \A k \in DOMAIN row : k > 1 => row[k - 1].seq <= row[k].seq
<1> DEFINE n == Len(row)
<1>1. /\ row \in Seq(Notice) /\ n \in Nat /\ DOMAIN row = 1 .. n
      /\ \A k \in 1 .. n : row[k].seq \in Int
  <2>1. row \in Seq(Notice)
    BY DEF Numbered
  <2>2. n \in Nat /\ DOMAIN row = 1 .. n /\ \A k \in 1 .. n : row[k] \in Notice
    BY <2>1
  <2> QED BY <2>1, <2>2, NoticeTyped
<1>2. \A k \in 1 .. n : k # 1 => row[k].seq \in {row[k - 1].seq, row[k - 1].seq + 1}
  BY <1>1 DEF Numbered
<1>3. n # 0 => row[n].seq = y
  <2>1. y = IF row = <<>> THEN 0 ELSE row[Len(row)].seq
    BY DEF Numbered
  <2>2. n = 0 <=> row = <<>>
    BY <1>1
  <2> QED BY <2>1, <2>2
<1> HIDE DEF n
<1>4. ASSUME NEW k \in 1 .. n, k # 1 PROVE row[k - 1].seq <= row[k].seq
  <2> DEFINE x == row[k].seq
             w == row[k - 1].seq
  <2>1. x \in Int /\ w \in Int /\ x \in {w, w + 1}
    BY <1>1, <1>2, <1>4
  <2> HIDE DEF x, w
  <2>2. w <= x
    BY <2>1
  <2> QED BY <2>2 DEF x, w
<1>5. ASSUME NEW k \in 1 .. n, ~(row[k].seq <= y) PROVE FALSE
  <2> DEFINE S == {d \in Nat : n - d \in 1 .. n /\ ~(row[n - d].seq <= y)}
  <2>1. n - k \in S
    <3>1. n - k \in Nat /\ n - (n - k) = k
      BY <1>1
    <3> QED BY <1>5, <3>1
  <2>2. PICK d \in S : \A e \in S : d <= e
    <3>1. S \in SUBSET Nat /\ S # {}
      BY <2>1
    <3> HIDE DEF S
    <3> QED BY <3>1, LeastNatural
  <2>3. d \in Nat /\ n - d \in 1 .. n /\ ~(row[n - d].seq <= y)
    OBVIOUS
  <2>4. n - d # n
    <3>1. n # 0 => row[n].seq <= y
      BY <1>1, <1>3
    <3> QED BY <1>1, <2>3, <3>1
  <2> DEFINE m == n - d + 1
             e == d - 1
  <2>5. /\ m \in 1 .. n /\ m # 1 /\ m - 1 = n - d
        /\ e \in Nat /\ n - e = m /\ ~(d <= e)
    BY <1>1, <2>3, <2>4
  <2> HIDE DEF m, e
  <2>6. row[m - 1].seq <= row[m].seq
    BY <1>4, <2>5
  <2>7. ~(row[m].seq <= y)
    <3> DEFINE x == row[m].seq
               w == row[n - d].seq
    <3>1. x \in Int /\ w \in Int /\ w <= x /\ ~(w <= y) /\ y \in Int
      <4>1. y \in Int
        BY <1>1, <1>3, <2>5
      <4> QED BY <1>1, <2>3, <2>5, <2>6, <4>1
    <3> HIDE DEF x, w
    <3>2. ~(x <= y)
      BY <3>1
    <3> QED BY <3>2 DEF x
  <2>8. e \in S
    BY <2>5, <2>7
  <2> HIDE DEF S
  <2> QED BY <2>2, <2>5, <2>8
<1>6. \A k \in DOMAIN row : k > 1 => k # 1 /\ k \in 1 .. n
  BY <1>1
<1> QED BY <1>1, <1>4, <1>5, <1>6

\* A sound state passes the checks of restore_snapshot_unindexed.
LEMMA SoundIsRestorable ==
  ASSUME NEW st \in EngineState, Sound(st), VersionsFollow(st.promises, st.sequence)
  PROVE  Restorable(st)
<1> DEFINE live == {p \in Pool : st.pools[p] # NoCurve}
           held == {i \in PromiseId : st.promises[i].state # "Absent"}
           seqs == [k \in DOMAIN st.events |-> st.events[k].seq]
           kept == {i \in Identity : st.records[i] # NoRecord}
<1>1. ASSUME NEW i \in held
      PROVE  /\ 0 < st.promises[i].created
             /\ st.promises[i].created <= st.promises[i].updated
             /\ st.promises[i].updated <= st.sequence
             /\ PoolsOf(st.promises[i].bundle) \subseteq live
  <2>1. st.promises \in [PromiseId -> PromiseRecord \union {Absent}]
    BY DEF EngineState, PromiseTable
  <2>2. st.promises[i] \in PromiseRecord
    BY <2>1 DEF Absent
  <2>3. 0 < st.promises[i].created
    <3>1. st.promises[i].created \in 1 .. MaxSequence
      BY <2>2 DEF PromiseRecord
    <3> QED BY <3>1
  <2>4. st.promises[i].updated <= st.sequence
    BY <2>1 DEF VersionsFollow
  <2>5. /\ st.promises[i].created <= st.promises[i].updated
        /\ PoolsOf(st.promises[i].bundle) \subseteq live
    BY DEF Sound, Founded, Present
  <2> QED BY <2>3, <2>4, <2>5
<1>2. ASSUME NEW k \in DOMAIN seqs
      PROVE  /\ seqs[k] <= st.sequence
             /\ k > 1 => seqs[k - 1] <= seqs[k]
             /\ Describes(st.events[k], st)
  <2>1. Numbered(st.events, 0, st.sequence) /\ \A j \in DOMAIN st.events : Describes(st.events[j], st)
    BY DEF Sound, HistoryRefers
  <2>2. /\ \A j \in DOMAIN st.events : st.events[j].seq <= st.sequence
        /\ \A j \in DOMAIN st.events : j > 1 => st.events[j - 1].seq <= st.events[j].seq
    BY <2>1, NumberedIsOrdered
  <2>3. k \in DOMAIN st.events /\ seqs[k] = st.events[k].seq
    OBVIOUS
  <2>4. k > 1 => seqs[k - 1] = st.events[k - 1].seq
    <3>1. st.events \in Seq(Notice)
      BY DEF EngineState
    <3>2. DOMAIN st.events = 1 .. Len(st.events) /\ Len(st.events) \in Nat
      BY <3>1
    <3>3. k > 1 => k - 1 \in DOMAIN st.events
      BY <2>3, <3>2
    <3> QED BY <3>3
  <2> HIDE DEF seqs
  <2> QED BY <2>1, <2>2, <2>3, <2>4
<1>3. \A i \in kept : RefersTo(st.records[i].hash, st.records[i].response, st)
  BY DEF Sound, ResponsesRefer, ResponseRefers
<1> QED BY <1>1, <1>2, <1>3 DEF Restorable

\* Where NothingIsUndone: while no batch is in flight a snapshot of the published state
\* passes those checks of restore_snapshot_unindexed that Restorable models (promises are
\* dated within the sequence, events are numbered in order and describe what is or was
\* there, and every cached response is about an entity that is), and the index rebuilt
\* from it is the one in use. It says nothing of what the conflict and deficit lists of
\* cached responses name.
THEOREM SnapshotsCanBeRestored ==
  ASSUME NothingIsUndone
  PROVE  CSpec => []SnapshotRestores
<1>1. CoordInv /\ RecoverInv => SnapshotRestores
  <2> SUFFICES ASSUME CoordInv, RecoverInv, phase = "Idle"
               PROVE  Restorable(published) /\ RebuiltSlack = published.slack
    BY DEF SnapshotRestores
  <2>1. /\ published \in EngineState /\ Sound(published)
        /\ VersionsFollow(published.promises, published.sequence)
    BY DEF CoordInv, CoordTypes, RecoverInv
  <2>2. Restorable(published)
    BY <2>1, SoundIsRestorable
  <2>3. pools = published.pools /\ promises = published.promises
    <3>1. batch = <<>>
      BY DEF CoordInv, PhaseInv
    <3>2. State = published
      BY <3>1, NoRecords DEF RecoverInv
    <3> QED BY <3>2 DEF State
  <2>4. RebuiltSlack = published.slack
    BY <2>1, <2>3, RebuildsIndex DEF Sound
  <2> QED BY <2>2, <2>4
<1> QED BY <1>1, NothingIsUndone, LogIsAChain, PTL
=============================================================================
