---------------------------- MODULE Coordinator ----------------------------
(***************************************************************************)
(* The durable coordinator (storage::Database) over the engine and a       *)
(* write-ahead log: prepare a batch on a candidate state, append it, make  *)
(* it durable, publish it, answer.  A crash keeps a prefix of the log, and *)
(* recovery installs the effects in it record by record.                   *)
(*                                                                         *)
(* The variables of PromiseEngine are the candidate state: it is what a    *)
(* batch is prepared on and what recovery fills.  While the database is    *)
(* idle it is the published state.                                         *)
(***************************************************************************)
EXTENDS PromiseEngine

CONSTANTS
  Request,      \* what clients may send: records [identity, op]
  MaxBatch,     \* the longest batch
  MaxRecord,    \* the last record sequence of the log (u64::MAX in the code)
  Deployments,  \* the databases considered: records [durability, crashes]
  NoRecord      \* the idempotency record of a command never seen

ASSUME CoordinatorConstants ==
  /\ MaxBatch \in Nat
  /\ MaxRecord \in Nat
  /\ Deployments \subseteq [durability : {"None", "Flush", "Sync"},
                            crashes : SUBSET {"Process", "Power"}]

Identity == {r.identity : r \in Request}

\* CommandOperation
Operation ==
  [name : {"CreateResourcePool"}, pool : Pool, curve : Curve]
    \union [name : {"ReviseCapacity"}, pool : Pool, curve : Curve, mode : {"Strict", "Force"}]
    \union [name : {"Hold"}, promise : PromiseId, bundle : Bundle, deadline : Instant]
    \union [name : {"HoldOneOf"}, promise : PromiseId, choice : Choice, deadline : Instant]
    \union [name : {"HoldFirstSlot"}, promise : PromiseId, query : SlotQuery, deadline : Instant]
    \union [name : {"Commit", "Release"}, promise : PromiseId, version : Version]
    \union [name : {"Replace"}, promise : PromiseId, version : Version, bundle : Bundle,
            target : ReplacementState]
    \union [name : {"ProcessExpirations"}]

\* The kinds of responses: results, and the errors of commands.
ResponseTag ==
  HoldTags \union
  {"ResourcePoolCreated", "CapacityRevised", "HoldCommitted", "PromiseReleased",
   "PromiseReplaced", "ExpirationsProcessed", "Unavailable", "CapacityRevisionCreatesDeficit",
   "ResourcePoolAlreadyExists", "ResourcePoolNotFound", "PromiseAlreadyExists",
   "PromiseNotFound", "HoldExpired", "VersionConflict", "InvalidPromiseState",
   "InvalidExpiration", "InvalidSearchRange", "InvalidStep", "SequenceOverflow",
   "IndexOverflow", "QuantityOverflow", "TimestampOverflow", "IdempotencyConflict"}

\* What an idempotency record keeps of a response.
Response == [tag : ResponseTag, value : Int]

ASSUME RequestsAreCommands ==
  /\ \A r \in Request : r.op \in Operation
  /\ NoRecord \notin Response \union [hash : Operation, response : Response]

VARIABLES
  deployment, \* Database::durability, and the crashes that happen to it; fixed
  records,    \* candidate idempotency records: identity |-> [hash, response]
  published,  \* the state readers see
  phase,      \* where apply_batch or recovery stands
  batch,      \* the durable items prepared so far
  answers,    \* the responses prepared so far: <<identity, response>>
  log,        \* the complete records in the log
  synced,     \* how many of them are known to be on stable storage
  torn,       \* whether a partial record follows them
  nextRecord, \* next_record_sequence; MaxRecord + 1 stands for None
  poisoned,   \* Database::poisoned
  told        \* history: the results clients were answered

engine == <<pools, slack, promises, sequence, events, reply, forced>>
store == <<log, synced, torn>>
cvars == <<deployment, pools, slack, promises, sequence, events, reply, forced, records, published,
           phase, batch, answers, log, synced, torn, nextRecord, poisoned, told>>

-----------------------------------------------------------------------------
\* EngineState: what a batch clones and publishes.
State == [pools |-> pools, slack |-> slack, promises |-> promises,
          sequence |-> sequence, events |-> events, records |-> records]

EmptyState ==
  [pools |-> [p \in Pool |-> NoCurve], slack |-> [p \in Pool |-> [t \in Time |-> 0]],
   promises |-> [i \in PromiseId |-> Absent], sequence |-> 0, events |-> <<>>,
   records |-> [i \in Identity |-> NoRecord]]

NoReply == [tag |-> "None", value |-> 0, at |-> 0]

\* The candidate is thrown away for another state.
Resume(state) ==
  /\ pools' = state.pools
  /\ slack' = state.slack
  /\ promises' = state.promises
  /\ sequence' = state.sequence
  /\ events' = state.events
  /\ records' = state.records
  /\ reply' = NoReply
  /\ forced' = {}

CInit ==
  /\ Init
  /\ deployment \in Deployments
  /\ records = [i \in Identity |-> NoRecord]
  /\ published = EmptyState
  /\ phase = "Idle"
  /\ batch = <<>>
  /\ answers = <<>>
  /\ log = <<>>
  /\ synced = 0
  /\ torn = FALSE
  /\ nextRecord = 1
  /\ poisoned = FALSE
  /\ told = {}

-----------------------------------------------------------------------------
(* prepare_batch: one command after the other on the candidate.             *)

\* apply_once
ApplyOnce(op, now) ==
  \/ op.name = "CreateResourcePool" /\ CreateResourcePool(op.pool, op.curve, now)
  \/ op.name = "ReviseCapacity" /\ ReviseCapacity(op.pool, op.curve, op.mode, now)
  \/ op.name = "Hold" /\ Hold(op.promise, op.bundle, op.deadline, now)
  \/ op.name = "HoldOneOf" /\ HoldOneOf(op.promise, op.choice, op.deadline, now)
  \/ op.name = "HoldFirstSlot" /\ HoldFirstSlot(op.promise, op.query, op.deadline, now)
  \/ op.name = "Commit" /\ Commit(op.promise, op.version, now)
  \/ op.name = "Release" /\ Release(op.promise, op.version, now)
  \/ op.name = "Replace" /\ Replace(op.promise, op.version, op.bundle, op.target, now)
  \/ op.name = "ProcessExpirations" /\ ProcessExpirations(now)

\* Mutant of CanPrepare: writing goes on after an indeterminate outcome.
CanPrepareWhenPoisoned == phase \in {"Idle", "Preparing"} /\ Len(answers) < MaxBatch
CanPrepare ==
  /\ phase \in {"Idle", "Preparing"}
  /\ ~poisoned
  /\ Len(answers) < MaxBatch

\* The after-values of the entities that differ from those in base.
Changed(value, base) ==
  LET ids == {x \in DOMAIN value : value[x] # base[x]} IN [x \in ids |-> value[x]]

\* The effects of a command are taken against the state the batch began with.
Base == published

\* A command seen for the first time.
PrepareNew(request, now) ==
  /\ CanPrepare
  /\ records[request.identity] = NoRecord
  /\ ApplyOnce(request.op, now)
  /\ LET response == [tag |-> reply'.tag, value |-> reply'.value] IN
     /\ records' = [records EXCEPT ![request.identity] =
                      [hash |-> request.op, response |-> response]]
     /\ answers' = Append(answers, <<request.identity, response>>)
     /\ batch' = Append(batch,
          [number |-> 0, identity |-> request.identity, hash |-> request.op,
           response |-> response,
           pools |-> Changed(pools', Base.pools),
           promises |-> Changed(promises', Base.promises),
           events |-> SubSeq(events', Len(events) + 1, Len(events')),
           final |-> sequence',
           \* not in the record: the state it leads to
           after |-> State'])
  /\ phase' = "Preparing"
  /\ UNCHANGED <<deployment, published, log, synced, torn, nextRecord, poisoned, told>>

\* An exact retry is answered from its record; a different operation under the
\* same identity is a conflict.  Neither touches the state.
PrepareSeen(request) ==
  LET record == records[request.identity]
      response == IF record.hash = request.op THEN record.response
                  ELSE [tag |-> "IdempotencyConflict", value |-> 0]
  IN
  /\ CanPrepare
  /\ record # NoRecord
  /\ answers' = Append(answers, <<request.identity, response>>)
  /\ phase' = "Preparing"
  /\ UNCHANGED <<deployment, engine, records, published, batch, log, synced, torn,
                 nextRecord, poisoned, told>>

-----------------------------------------------------------------------------
(* The rest of apply_batch.                                                 *)

\* What the answers of a batch tell of the results of commands.
Results == {answer \in {answers[k] : k \in DOMAIN answers} :
              answer[2].tag # "IdempotencyConflict"}

EndBatch ==
  /\ phase' = "Idle"
  /\ batch' = <<>>
  /\ answers' = <<>>

\* A batch of retries and conflicts is answered without I/O.
AnswerSeen ==
  /\ phase = "Preparing"
  /\ batch = <<>>
  /\ told' = told \union Results
  /\ EndBatch
  /\ UNCHANGED <<deployment, engine, records, published, log, synced, torn,
                 nextRecord, poisoned>>

\* The batch fails before any I/O: an item cannot be encoded within the limits,
\* or the record sequence has run out.  The candidate is dropped.
Abandon ==
  /\ phase = "Preparing"
  /\ batch # <<>>
  /\ Resume(published)
  /\ EndBatch
  /\ UNCHANGED <<deployment, published, log, synced, torn, nextRecord, poisoned, told>>

\* Mutant of HasRecordSequences: the record after the last one.
OneRecordTooMany == nextRecord + Len(batch) - 2 <= MaxRecord
HasRecordSequences == nextRecord + Len(batch) - 1 <= MaxRecord

\* Mutant of Framed: all records of a group have one number.
FramedAlike == [k \in DOMAIN batch |-> [batch[k] EXCEPT !.number = nextRecord]]
\* The records of a group get their numbers when the group is appended.
Framed == [k \in DOMAIN batch |-> [batch[k] EXCEPT !.number = nextRecord + k - 1]]

\* WalBackend::append of the whole group.
AppendBatch ==
  /\ phase = "Preparing"
  /\ batch # <<>>
  /\ HasRecordSequences
  /\ log' = log \o Framed
  /\ phase' = IF deployment.durability = "None" THEN "Persisted" ELSE "Appended"
  /\ UNCHANGED <<deployment, engine, records, published, batch, answers, synced, torn,
                 nextRecord, poisoned, told>>

\* Mutant of MakeDurable: nothing is synchronized.
OnlyFlush ==
  /\ phase = "Appended"
  /\ phase' = "Persisted"
  /\ UNCHANGED <<deployment, engine, records, published, batch, answers, store,
                 nextRecord, poisoned, told>>

\* FileWal::flush does nothing more, FileWal::sync reaches stable storage.
MakeDurable ==
  /\ phase = "Appended"
  /\ synced' = IF deployment.durability = "Sync" THEN Len(log) ELSE synced
  /\ phase' = "Persisted"
  /\ UNCHANGED <<deployment, engine, records, published, batch, answers, log, torn,
                 nextRecord, poisoned, told>>

\* publish_batch, and the answer to the clients.
Publish ==
  /\ phase = "Persisted"
  /\ published' = State
  /\ nextRecord' = nextRecord + Len(batch)
  /\ told' = told \union Results
  /\ EndBatch
  /\ UNCHANGED <<deployment, engine, records, log, synced, torn, poisoned>>

\* What an append that did not complete leaves in the log.
PartialAppend ==
  \E n \in 0 .. Len(batch) :
    /\ log' = log \o SubSeq(Framed, 1, n)
    /\ torn' \in (IF n < Len(batch) THEN BOOLEAN ELSE {FALSE})

\* Mutant of AfterFailure: the candidate is published in spite of the error.
PublishedAnyway == State
\* The state readers go on seeing when the log could not be written.
AfterFailure == published

\* An error of append, flush or sync: the outcome is indeterminate, nothing is
\* published, and the database refuses to write from now on.
PersistFails ==
  /\ \/ phase = "Preparing" /\ batch # <<>> /\ HasRecordSequences /\ PartialAppend
     \/ phase = "Appended" /\ UNCHANGED <<log, torn>>
  /\ poisoned' = TRUE
  /\ published' = AfterFailure
  /\ Resume(AfterFailure)
  /\ EndBatch
  /\ UNCHANGED <<deployment, synced, nextRecord, told>>

-----------------------------------------------------------------------------
(* Crashes and recovery.                                                    *)

Stop ==
  /\ phase' = "Recovering"
  /\ Resume(EmptyState)
  /\ published' = EmptyState
  /\ batch' = <<>>
  /\ answers' = <<>>
  /\ nextRecord' = 1
  /\ poisoned' = FALSE
  /\ UNCHANGED <<deployment, told>>

\* The process ends, possibly in the middle of an append; what the operating
\* system was handed survives.
CrashProcess ==
  /\ "Process" \in deployment.crashes
  /\ \/ UNCHANGED store
     \/ /\ phase = "Preparing" /\ batch # <<>> /\ HasRecordSequences
        /\ PartialAppend
        /\ UNCHANGED synced
  /\ Stop

\* The machine stops: any prefix that contains the synchronized records survives.
LosePower ==
  /\ "Power" \in deployment.crashes
  /\ \E n \in synced .. Len(log) :
       /\ log' = SubSeq(log, 1, n)
       /\ torn' \in BOOLEAN
       /\ synced' = n
  /\ Stop

\* Recovery has read nextRecord - 1 records; phase "Recovering".
Item == log[nextRecord]

\* The checks of RecordReader and install_transition on the next record.
SequenceIsContiguous(item) ==
  LET seqs == [k \in 0 .. Len(item.events) |->
                 IF k = 0 THEN sequence ELSE item.events[k].seq] IN
  /\ \A k \in 1 .. Len(item.events) :
       IF k = 1 THEN seqs[k] = seqs[0] + 1 ELSE seqs[k] - seqs[k - 1] \in {0, 1}
  /\ seqs[Len(item.events)] = item.final

Installed(value, changed) ==
  [x \in DOMAIN value |-> IF x \in DOMAIN changed THEN changed[x] ELSE value[x]]

Installable(item) ==
  LET ps == Installed(promises, item.promises)
      exists == {p \in Pool : Installed(pools, item.pools)[p] # NoCurve}
  IN
  /\ item.number = nextRecord
  /\ records[item.identity] = NoRecord
  /\ SequenceIsContiguous(item)
  /\ \A i \in DOMAIN item.promises :
       /\ item.promises[i].created <= item.promises[i].updated
       /\ item.promises[i].updated <= item.final
  /\ \A i \in PromiseId : ps[i].state # "Absent" => PoolsOf(ps[i].bundle) \subseteq exists
  /\ \A k \in DOMAIN item.events :
       LET event == item.events[k] IN
       /\ event.kind \in PromiseKinds => ps[event.subject].state # "Absent"
       /\ event.kind \notin PromiseKinds => event.subject \in exists
       /\ event.kind \in DeficitKinds => \A i \in event.affected : ps[i].state # "Absent"

\* One round of EngineRecovery::feed: install_transition, never apply_once.
InstallRecord ==
  /\ phase = "Recovering"
  /\ nextRecord <= Len(log)
  /\ Installable(Item)
  /\ pools' = Installed(pools, Item.pools)
  /\ promises' = Installed(promises, Item.promises)
  /\ sequence' = Item.final
  /\ events' = events \o Item.events
  /\ records' = [records EXCEPT ![Item.identity] =
                   [hash |-> Item.hash, response |-> Item.response]]
  /\ nextRecord' = nextRecord + 1
  /\ UNCHANGED <<deployment, slack, reply, forced, published, phase, batch, answers,
                 log, synced, torn, poisoned, told>>

\* Mutant of RebuiltSlack: promises that were committed are forgotten.
SlackOfHolds ==
  [p \in Pool |-> [t \in Time |->
     IF pools[p] = NoCurve THEN 0
     ELSE pools[p][t] - Total([i \in PromiseId |-> IF promises[i].state = "Held"
                                 THEN Load(promises[i], p, t) ELSE 0])]]

\* rebuild_slack_timelines
RebuiltSlack ==
  [p \in Pool |-> [t \in Time |->
     IF pools[p] = NoCurve THEN 0 ELSE pools[p][t] - Usage(promises, p, t)]]

\* EngineRecovery::finish.  A partial record at the end is cut off before, and
\* only then is the file synchronized.
FinishRecovery ==
  /\ phase = "Recovering"
  /\ nextRecord > Len(log)
  /\ \A p \in Pool : Representable(RebuiltSlack[p])
  /\ slack' = RebuiltSlack
  /\ published' = [State EXCEPT !.slack = RebuiltSlack]
  /\ synced' = IF torn THEN Len(log) ELSE synced
  /\ torn' = FALSE
  /\ phase' = "Idle"
  /\ UNCHANGED <<deployment, pools, promises, sequence, events, reply, forced,
                 records, batch, answers, log, nextRecord, poisoned, told>>

-----------------------------------------------------------------------------
(* Snapshots hold the authoritative state, all but the index, and are       *)
(* checked when they are restored.                                          *)

\* response_references_valid, of the response kept for the operation op: the entity it is
\* about. The promises and pools named in the conflict and deficit lists of a response
\* (conflict_references_valid, deficit_references_valid) are left out, as the lists are.
RefersTo(op, response, snapshot) ==
  LET promise == snapshot.promises[op.promise] IN
  /\ response.tag = "ResourcePoolCreated" => snapshot.pools[op.pool] # NoCurve
  /\ response.tag = "CapacityRevised" => response.value <= snapshot.sequence
  /\ response.tag \in HoldTags => promise.state # "Absent"
  /\ response.tag \in {"HoldCommitted", "PromiseReleased", "PromiseReplaced"} =>
       promise.state # "Absent" /\ response.value <= promise.version

\* Mutant of Describes: an event must name the present version of its promise.
DescribesNow(event, snapshot) ==
  IF event.kind \in PromiseKinds THEN snapshot.promises[event.subject].version = event.version
  ELSE snapshot.pools[event.subject] # NoCurve

\* An event names entities of the snapshot, promises as they are or were.
Describes(event, snapshot) ==
  IF event.kind \in PromiseKinds
  THEN LET promise == snapshot.promises[event.subject] IN
       promise.state # "Absent" /\ event.version <= promise.version
  ELSE /\ snapshot.pools[event.subject] # NoCurve
       /\ event.kind \in DeficitKinds =>
            \A i \in event.affected : snapshot.promises[i].state # "Absent"

\* The checks of restore_snapshot_unindexed on what capture_snapshot took.
Restorable(snapshot) ==
  LET live == {p \in Pool : snapshot.pools[p] # NoCurve}
      held == {i \in PromiseId : snapshot.promises[i].state # "Absent"}
      seqs == [k \in DOMAIN snapshot.events |-> snapshot.events[k].seq]
      kept == {i \in Identity : snapshot.records[i] # NoRecord}
  IN
  /\ \A i \in held :
       LET promise == snapshot.promises[i] IN
       /\ 0 < promise.created /\ promise.created <= promise.updated
       /\ promise.updated <= snapshot.sequence
       /\ PoolsOf(promise.bundle) \subseteq live
  /\ \A k \in DOMAIN seqs :
       /\ seqs[k] <= snapshot.sequence
       /\ k > 1 => seqs[k - 1] <= seqs[k]
       /\ Describes(snapshot.events[k], snapshot)
  /\ \A i \in kept : RefersTo(snapshot.records[i].hash, snapshot.records[i].response, snapshot)

-----------------------------------------------------------------------------
CNext ==
  \/ \E request \in Request :
       \/ \E now \in Instant : PrepareNew(request, now)
       \/ PrepareSeen(request)
  \/ AnswerSeen
  \/ Abandon
  \/ AppendBatch
  \/ MakeDurable
  \/ Publish
  \/ PersistFails
  \/ CrashProcess
  \/ LosePower
  \/ InstallRecord
  \/ FinishRecovery

CSpec == CInit /\ [][CNext]_cvars

-----------------------------------------------------------------------------
(* Properties.                                                              *)

\* The type of the coordinator's own state; phase "Recovering" is a database
\* that is being opened.
CTypeOK ==
  /\ TypeOK
  /\ phase \in {"Idle", "Preparing", "Appended", "Persisted", "Recovering"}
  /\ Len(batch) <= Len(answers) /\ Len(answers) <= MaxBatch
  /\ Len(log) <= MaxRecord
  /\ synced \in 0 .. Len(log)
  /\ nextRecord \in 1 .. MaxRecord + 1
  /\ torn \in BOOLEAN /\ poisoned \in BOOLEAN

\* Whenever no batch is in flight, the engine is in the state the last record
\* it knows of led to: recovery by effects (install_transition, then
\* rebuild_slack_timelines) reproduces what execution had computed, index and
\* idempotency records included, and a failed batch leaves nothing behind.
StateIsWhatTheLogSays ==
  phase = "Idle" =>
    /\ published = IF nextRecord = 1 THEN EmptyState ELSE log[nextRecord - 1].after
    /\ State = published

\* Whatever a crash left in the log, the database opens again: the log has the
\* record sequences, identities, event sequences and references recovery
\* insists on, and the rebuilt timelines can be represented.
RecoveryNeverFails ==
  phase = "Recovering" =>
    IF nextRecord <= Len(log) THEN Installable(Item)
    ELSE \A p \in Pool : Representable(RebuiltSlack[p])

\* Whenever no batch is in flight, a snapshot of the published state passes the checks of
\* restore_snapshot_unindexed modelled here (promises are dated within the sequence, and
\* every event and the entity every cached response is about are still there; not what
\* its conflict and deficit lists name), and the index rebuilt from it is the one in use.
SnapshotRestores ==
  phase = "Idle" => Restorable(published) /\ RebuiltSlack = published.slack

\* Persist before publish: readers see no command whose record is not in the
\* log, and with Durability::Sync none that a loss of power could take back.
ServesOnlyPersisted ==
  \A i \in Identity : published.records[i] # NoRecord =>
    \E k \in 1 .. (IF deployment.durability = "Sync" THEN synced ELSE Len(log)) :
      log[k].identity = i /\ log[k].response = published.records[i].response

\* The result of a command is the response in the first record of its identity.
LogResults ==
  [i \in Identity |->
     IF \E k \in DOMAIN log : log[k].identity = i
     THEN log[CHOOSE k \in DOMAIN log :
                log[k].identity = i /\ \A j \in 1 .. k - 1 : log[j].identity # i].response
     ELSE NoRecord]

Service == INSTANCE ExactlyOnce WITH NoResult <- NoRecord, results <- LogResults

\* The coordinator implements the service: a command is executed once, and an
\* answer given survives every crash and is the answer to every retry.
ImplementsExactlyOnce == Service!Spec

\* A client that retries a command is never given two different results.
RetriesAnswerAlike == Service!AnswersAgree
=============================================================================
