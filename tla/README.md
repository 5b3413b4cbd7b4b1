# PromiseDB: TLA+ models and proofs

PromiseDB (`src/`, Rust) is a deterministic reservation database. Clients hold
capacity of *resource pools* over intervals of time, commit, release or replace
what they hold, and operators revise the capacity. This directory models the
state machine that decides those commands, the coordinator that makes them durable,
the directory of files that keeps them, the framing and the codecs of what is in
those files, and the index admission reads, checks all of them with TLC, and proves with
TLAPS the main invariants of the state machine, of its index, of the coordinator, of the
directory and of the framing: under hypotheses on batches and failures that section 5 names,
that the coordinator implements the exactly-once service, that recovery reproduces its state,
that the directory opens and implements a durable log; and without them that reading a
damaged log gives back what was written or fails, and that the blocked index answers every
query as capacity less claims does.

Paths are relative to the repository: `engine.rs` is `src/src/engine.rs`,
`database.rs` is `src/src/storage/database.rs`, and so on.

## 1. Inventory

| Part | State | Operations | Interacts with |
|---|---|---|---|
| Engine (`engine.rs`) | pools, slack timelines, promises, sequence, events, idempotency records | the nine commands of `apply_once`; `prepare_batch`, `install_transition`, `rebuild_slack_timelines`; queries | everything below |
| Promise lifecycle (`domain/promise.rs`) | state, deadline, bundle, version, creation and update sequence | `commit`, `release`, `replace`, `expire` | called by the engine |
| Claims, bundles, curves, choices, searches (`domain/*`) | immutable values | construction, normalization, materialization at an anchor | arguments of commands |
| Slack timeline (`index/slack_timeline.rs`) | one index per pool, derived from curve and active promises | build, `slack_at`, `apply_delta`, `deficit_intervals` | read and replaced by the engine |
| Events (`event.rs`) | append-only audit log | emitted by commands; `watch_events` reads | part of the engine state |
| Idempotency (`idempotency.rs`, `command.rs`) | record per (client, key): hash and response | lookup before execution, install on success | `prepare_batch`, recovery |
| Coordinator (`storage/database.rs`, `backend.rs`) | engine, log, durability mode, next record number, poison flag | `apply_batch`: prepare, encode, append, flush or sync, publish | engine, log |
| Recovery (`storage/recovery.rs`) | engine being filled, position in the log | `feed`, `finish` | file store, engine |
| File store (`storage/file/*`) | segments, snapshots, lock, manifest | `open`, append, rotate, `create_snapshot`, compaction | coordinator |
| Framing and codecs (`storage/record.rs`, `codec.rs`, `transition/*`, `snapshot/*`) | none | encode and decode, checksum, torn tail | coordinator, recovery |

A call goes one way: a client calls `Database::apply_batch`, which has the
engine prepare the commands on a clone of its state, writes the resulting
transitions to the log, and installs the clone. Nothing runs concurrently inside
the process (`&mut self` all the way), so the hard interleavings are those of
commands of several clients over one state, and of every step with failures:

* commands arrive in any order, with stale versions, repeated, and with
  timestamps that go forward and backward; each command first expires holds, and
  can fail half way through that;
* capacity can fall below what was promised (forced revision), and every later
  command has to work on pools in deficit;
* derived state (slack) is updated piecewise by eight handlers, and has to be what
  a rebuild would give;
* an append, flush or sync can fail in the middle of a batch, the process can end or
  the machine lose power between any two steps, clients retry what was never
  answered, and the log has to be accepted by recovery's own checks.

What makes each part correct:

* engine: no overcommitment that was not forced, no deficit made worse except by a
  revision, exact admission, expirations on time, atomic commands, an index
  that equals its rebuild, searches that return the first fit;
* promises: versions advance by one, final states are final, sequences increase;
* events: the log tells the history of the promise table, and the deficit events
  of a revision tell how the deficits changed;
* coordinator, idempotency and recovery: what is served is persisted, what was
  answered is never lost or answered differently, recovery reproduces the state
  and never refuses a log the program wrote;
* timeline: a blocked structure with lazy deltas that behaves as a function of time;
* file store: after any crash the directory opens with the acknowledged records, and
  every call ends;
* framing: a file that was torn, cut or damaged gives back what was written or is
  refused, and a tail is cut off only where nothing was acknowledged;
* codecs: what one piece of code writes another reads back as the same value, for
  every variant, and nothing else is accepted; the hash of a retried command is equal
  exactly if its operation is.

`PROJECT.json` lists every hazard found with the line where it bites and the
properties that watch it.

## 2. Modules

| Module | What it is |
|---|---|
| `PromiseEngine` | the engine: one action per command, with all of its errors, expirations and events |
| `Sums` | sums of the entries of a sequence |
| `LeastElements` | what the proofs share: least elements, finite sets and their order, sums |
| `PromiseEngineProofs` | theorems about `PromiseEngine` for all values of its constants |
| `Bundles` | claims and bundles, their placement at an anchor, and the demand they add up to |
| `BundlesProofs` | theorems about `Bundles`, and about `PromiseEngine` with the demand it computes |
| `MCPromiseEngine` | bundles (through `Bundles`), curves and searches for TLC |
| `Coordinator` | extends `PromiseEngine` with the log, batches, failures, crashes and recovery |
| `CoordinatorProofs` | theorems about `Coordinator` (its log, persistence, the refinement of `ExactlyOnce`), and about that service |
| `RecoveryProofs` | theorems about `Coordinator`: recovery and snapshots |
| `FileStore` | the database directory: segments, snapshots, compaction, open, and what a crash leaves |
| `DurableLog` | abstract specification: what a directory promises of the log in it |
| `FileStoreProofs` | theorems about `FileStore`: types and what a snapshot leaves, whatever fails; what open accepts and recovers; the refinement of `DurableLog` |
| `MCFileStore` | the databases considered, for TLC |
| `WalRecords` | the records of a log file: framing, appending, the incremental reader, repair |
| `WalRecordsProofs` | theorems about `WalRecords`: what reading and repairing a damaged log can give |
| `MCWalRecords` | payloads for TLC |
| `Codec` | command payloads and the canonical form that is hashed |
| `TransitionCodec` | payloads of prepared transitions (extends `Codec`) |
| `SnapshotCodec` | snapshot files: header, budgets, checksum (extends `TransitionCodec`) |
| `Payloads` | a payload on its way from writer to reader, and retries against what was read |
| `MCPayloads` | commands, transitions and snapshots of every variant for TLC |
| `CapacityCurve` | how curves are declared, normalized and read |
| `SlackTimeline` | the blocked slack index of one pool |
| `SlackTimelineProofs` | theorems about `SlackTimeline` and `CapacityCurve` |
| `MCSlackTimeline` | claims and curves for TLC |
| `ExactlyOnce` | abstract specification: what clients of a durable database are promised |
| `MCCoordinator` | requests for TLC |

### PromiseEngine

Variables are the fields of `EngineState`: `pools`, `slack`, `promises`,
`sequence`, `events`; plus `reply` (the response returned) and the history
variable `forced` (pools revised in Force mode). An action such as
`Commit(i, version, now)` is the whole handler: `process_expirations`, each early
return in the order of the code, the transition, the index update, the event, the
response. The disjuncts of a handler are mutually exclusive.

What is abstracted:

* **Time** is a row of cells `0 .. Horizon-1`. A curve or a slack timeline is a
  function on cells. A point of a timeline is a cell where its value changes.
* **A bundle** is its demand per pool and cell (`Demand`) and the cells where one of
  its claims starts or ends (`Boundary`): these are what admission reads of it.
  A relative bundle is the function from anchors to bundles it materializes
  to, or `Unplaceable` when the arithmetic overflows. `MCPromiseEngine` computes all
  three with `Bundles`: `Materialize` moves every claim by the anchor or
  fails, and `DemandAt` is the running sum of the normalized events. There the
  horizon is the last representable moment, so anchors near it overflow.
* **Admission** is modelled as the code does it, not as what it means: slack is
  sampled where a window starts (`WindowStarts`), and the floor of a replacement
  is sampled there too.
* **Expirations** are one step (`ExpiredPromises`, `RestoredSlack`, `ExpiryEvents`)
  with the order, the numbering and the early stop of the loop: the k-th
  due hold gets the k-th number, and those beyond `MaxSequence` stay held.
* **Widths**: `Slack` is the i64 range scaled to `MaxQuantity`, `MaxDemand` the u64
  range, `MaxSequence` the largest sequence number. Overflow of each is an error
  path of the code and of the model. A version cannot overflow first: it never
  exceeds the sequence (proved, `VersionsFollowSequence`).
* A response keeps its kind and one number. The conflict lists of an
  `Unavailable` response and the deficit lists of a `CapacityRevised` one are left out; the
  deficits of a revision are in its events.

### Coordinator

The variables of `PromiseEngine` are the candidate a batch is prepared on;
`published` is what readers see. `apply_batch` is cut where a failure or crash
can separate it: `PrepareNew`/`PrepareSeen` per command, `AppendBatch`, `MakeDurable`,
`Publish`, and `AnswerSeen`, `Abandon`, `PersistFails` for its early ends. A record
holds the difference of the candidate to `published` (`Changed`), as
`prepare_batch` takes it. `CrashProcess` may fall into an append; `LosePower`
keeps any prefix of the log that contains what was synchronized.
`InstallRecord` repeats the checks of `install_transition`; a record that fails
them has no step, and `RecoveryNeverFails` says that this does not arise.
`FinishRecovery` rebuilds the index. The operating system and the disk are the two
definitions marked external. `Restorable` repeats the checks that
`restore_snapshot_unindexed` makes of a captured state: entities, the references of
events, and the entities cached responses are about (`RefersTo`; not the promises and pools
in their conflict and deficit lists).

`deployment` is the field `Database::durability` together with the crashes that happen
to the database; it is chosen at the start and never changes.

`Coordinator` maps to `ExactlyOnce` by taking as the result of an identity the
response in the first record of that identity in the log (`LogResults`).

Abstracted: the BLAKE3 hash of an operation is the operation itself; an item that
cannot be encoded is the action `Abandon` with the exhausted record sequence;
`StaleRevision` cannot arise, since preparation and publication happen in one
exclusive borrow.

### FileStore

Names in a directory and contents of a file survive separately. A directory
(`wal`, `shots`) is the set of entries that are linked and the set on stable storage,
which `SyncDirectory` makes equal; a segment has its complete records, how many of
them are synchronized, and whether a partial record follows. `phase` is the next
step of the running call. Calls are cut at every system call after which a
failure leaves a different directory: `CreateTemp`, `LinkSegment`, `SyncSegment` (shared
by create, append and `create_snapshot`), `Write`, `Persist`, `Publish`, `WriteSnapshot`,
`InstallSnapshot`, `SyncSnapshot`, each removal of compaction, and the
steps of `open`. Errors are `AppendFails` (poisons), `SnapshotFails` (does not), `OpenFails`.
A process ends by `Close`, `CrashProcess` (the page cache stays; a write may be cut
off) or `LosePower`: of a file any prefix survives that contains the synchronized
records, perhaps with a partial record after it; of a directory any subset of the
changes since its synchronization.

`CanOpen` and `RecoveredLog` are what `open` checks and recovers: the latest snapshot, the
segments after it, contiguous and whole but for the last one's tail. The module maps to
`DurableLog` by `entries <- RecoveredLog`, `acknowledged <- visible` and
`unsettled <- call = "Append" \/ poisoned`: only on behalf of an append that runs or has
failed may the log change. `Proceed` is the disjunction of all steps of a running call.

Abstracted: a record is its payload and the state of the engine is the sequence of
records applied (`Coordinator` says what applying them does); segments are measured
in records; the two removals of temporary files are one step each with their
synchronization, since what a crash between them leaves is removed again by the next
`open`. Assumed of the file system: a rename is atomic, a synchronized file
keeps its contents, an appended file survives as a prefix, and the entry of the
database directory in its parent is durable (`create` does not synchronize the parent).
`MaxRecord` stands for `u64::MAX`: a snapshot of the last record has no successor
segment, and the runs get there.

### SlackTimeline

`blocks` is the vector of blocks, each with its points, its two extremes and the delta
not yet added to its points; `curve` and `claims` are what the index is derived from.
`Admit` takes a claim window by window, as `evaluate_pool_on_timeline` does; `Consume`
takes it in one call of `apply_delta`; `Restore` gives it back in one call; `Rebuild` is a
revision, a creation or the rebuild of recovery. `ApplyDelta` follows the code: the
boundaries at the end and the start, with the splits they cause, the change of whole and
partial blocks, and the loop that joins neighbours (`Absorb` is what happens to one block;
the first points it gives up before it fits, or stays, are counted by a least number).
Binary searches are written as counts of the blocks and points not later than a time. `claims`
says how many claims of each kind are active.

`IndexIsExact` is the interface to `PromiseEngine`, where slack is a function of time.

What is stored is not always normal, although what is read is: when the first block
becomes zero and disappears, the second may start with a zero point, which a later
lazy update turns into a repetition. `effective_points` hides both.

### WalRecords

The file is a sequence of cells: one per header field, per byte of payload and padding,
and one for the checksum. `Framed` is the layout, `HeaderFault` and `BodyFault` are the
checks of `parse_header` and `read_next` in their order, `HeaderRead`, `BodyRead` and
`ReadNext` tell a record, the end, a partial tail and corruption apart. `Open`,
`ReadChunk` (a read may return less than asked for), `ReadHeader`, `ReadBody` and
`ReadFails` are recovery of the last segment, with `Repair` and `Refuse` as `open` does
them. `Submit` is an append with synchronization: `Accepted` and `Encoded` before any I/O,
`Inspected` (`inspect_batch` reads the buffer back), then the group or part of it.
`LosePower`, `Damage` and the end of the process are external.

Abstracted: a field is one cell, so damage changes a field and never half of one; an
alignment of 3 cells stands for 8 bytes; the checksum is the list of the numbers it is
computed from, so that there are no collisions. Two consistently damaged
length fields that point past the end of the file would look like a partial tail, as the
header has no checksum of its own; the model damages one cell at a time.

### Codec, TransitionCodec, SnapshotCodec, Payloads

A payload is a sequence of tokens with their widths. Each writer and each reader of the
code has layouts of its own here (`PutBundle` and `GetBundle`, `WritePromise` and
`ReadPromise`, and so on, combined from `Fields`, `List`, `OneOf`...), and so has the hasher
(`HashFields`); the interpreters `Put` and `Get` follow them. The constructors that validate
what is read (`ValidPromise`, `ValidEvent`, ...), the budgets of snapshots
(`WithinLimits` on writing, the limits of `Get` on reading), the header and checksum of
a snapshot, and the rejection of trailing bytes are as in the code. `Payloads` writes one
value, may cut, extend or (snapshots) change it, decodes it as recovery does, and sends
operations again under the key of the record it has read.

`Put` and `Get` are recursive over layouts, so these modules are checked and not proved.

Abstracted: a cut falls between tokens; `i64` and `u64` are one kind of number and lengths
stay below 2^32; curves are written in normal form, which `CapacityCurve` gives them, and
are not normalized again; a refusal has no reason; BLAKE3 is the canonical form itself.

## 3. Runs

| Run | Shows | Bounds |
|---|---|---|
| `one_pool` | `TypeOK`, `HoldsExpireInOrder`, `AuditTrailMatchesState`, `LifecycleIsVersioned`, `NoUnforcedDeficit`, `SlackIsRepresentable`, `AdmissionAgreesWithOracle`, `DeficitsNeverDeepen`, `HoldsNeverWorsenDeficits`, `RevisionNoticesRebuildDeficits` | 1 pool of 2 cells, claims of `MAX_QUANTITY` over either or both cells, 3 curves, 2 promises, 3 instants, sequences up to the limit |
| `two_pools` | `IndexMatchesPromises`, `UsageIsWhatClaimsCover`, `SlotHoldsTakeEarliestFit`, `ChoicesTakeFirstFit` | 2 pools, bundles on one or both, 2 promises, 3 instants, 3 cells, grids with and without skipped anchors, anchors too early and too late to place the bundle, malformed ranges, overlapping and adjacent claims, an overflowing bundle |
| `coordinator` | `CTypeOK`, `RecoveryNeverFails`, `StateIsWhatTheLogSays`, `SnapshotRestores`, `ServesOnlyPersisted`, `ImplementsExactlyOnce` | Sync with power losses or Flush with process crashes, every kind of command, batches of 2, 3 records |
| `store` | `FTypeOK`, `AlwaysOpens`, `ServesTheLog`, `SnapshotsCompact`, `ImplementsDurableLog`, `EveryCallReturns` | I/O errors in append, snapshot and open; Sync with power losses or Flush with process crashes and restarts |
| `framing` | `RTypeOK`, `ReturnsWhatWasWritten`, `KeepsWhatWasAcknowledged`, `RefusesOnlyDamage` | payloads without and with padding, of zeros, and over the limit; groups of 2, 3 records; torn appends, power losses with and without zeros, one damaged cell, short and failing reads |
| `codec` | `DecodesWhatWasEncoded`, `RefusesWhatWasNotWritten`, `RetriesMatchTheirCommand` | every variant of operation, result, error, event and promise state; every cut, one byte more, every field of a snapshot changed; all operations retried against all transitions |
| `timeline` | `TTypeOK`, `CurveIsAsDeclared`, `IndexIsExact`, `BoundsAreExact`, `DeficitsAreExact`, `UpdatesMatchRebuild`, `RestoreNeverFails` | 6 moments, claims of every interval, up to 3 at once, blocks of at most 2 points, a slack type of 4 values, 4 curves and 2 refused ones |
| `replace_floor` | finding 1 | as `one_pool` |
| `batch_undo` | finding 2 | a creation and two revisions |
| `reopen_unsynced` | finding 3 | both kinds of crash |
| `rotate_failure` | finding 4 | an error in the rotation of a snapshot, clean restarts |
| `snapshot_budget` | finding 5 | limits with longer strings than collections, as by default |

Why the bounds suffice. Two promises compete for capacity, expire in one pass in
both orders, and run the sequence out between them; a third adds no new kind
of conflict. Holds last one instant, so three instants are the least in which two holds
have different deadlines, and in which a command after the first deadline is not after
the last: at instant 3 holds with the deadlines 2 and 3 expire in one command, also in
the order opposite to their identities and cut short between them by the sequence, and
at instant 2 a command takes the room of the hold it has just expired. Two cells are the least in which a claim spans a boundary of the
timeline, three those in which a grid can skip one. `MaxSequence` of 4 to 6
lets a promise live through hold, replace, commit and release and still reaches
exhaustion in the middle of expirations. Three records allow a batch of
two after one that was answered, and both orders of loss. Every bound is a
constant of the module, set in the `.cfg` file.

`one_pool` and `two_pools` compare states without `reply` (`VIEW WithoutReply`), the response
to the last command: no command reads it. Action properties, which read it, are checked on
every step, new state or not; of the invariants only `TypeOK` reads it, for its timestamp.

`store` has two payloads, three records, batches of two and segments of two: enough for
a segment sealed by an append and one sealed by a snapshot, for two snapshots of which
the older is removed, and for the log to be exhausted. `store` and `coordinator` divide
the failures the way the findings force: a restart that keeps the page cache, followed
by a loss of power, breaks both (finding 3), and so does an error in the middle of a
snapshot's rotation (finding 4). Power losses therefore come with Sync and without
other restarts, other restarts with Flush.

`framing` reaches files of three records that are read back in up to three pieces each, a
damaged cell in every field of every one of them, tails of every length, and tails cut
off and written again. `codec` begins in 532 states, one per value to encode.

The timeline run reaches indexes of several blocks with pending deltas on inner blocks, deltas
that do not fit their type, and claims that do not fit the slack.

Deadlock is checked in every run; none of them stops.

`StateIsWhatTheLogSays` is false for a batch that changes a value and changes it
back (finding 2); the requests of `coordinator` contain no such pair, and the run
shows that there is no other way to break it.

### Findings

1. **`replace_floor`** (`engine.rs:1998`). The deficit floor of a replacement is
   sampled at the start of each window, and the windows are cut by the timeline
   from which the old bundle was already removed. A replacement that widens a
   claim from a cell in deficit over its neighbour puts the neighbour into
   deficit. `docs/semantics.md:43` rules this out. What does hold is
   `DeficitsNeverDeepen`: no cell falls below the lowest slack the pool had.
2. **`batch_undo`** (`engine.rs:798`). Effects are differences to the state the
   batch began with, so a command that restores the former curve of a pool, after
   another command of the same batch changed it, leaves no trace in its
   record, and recovery ends in the middle state.
3. **`reopen_unsynced`** (`file/mod.rs:715`). `open` serves complete records the
   previous process never synchronized and does not synchronize them. A
   retry answered from such a record can be answered differently after a later
   loss of power, under `Durability::Sync`. Names have the same fate
   (`file/mod.rs:763`): `open` takes a snapshot whose name was not synchronized and
   removes the segments it covers. With `restarts = {"Close", "Power"}` under Sync and
   failures in `"Snapshot"` only, `AlwaysOpens` fails: a loss of power takes the
   snapshot after the log is gone.

4. **`rotate_failure`** (`file/mod.rs:809`). `create_snapshot` rotates the log and does not
   poison when that fails. If the new segment is linked already, the old one
   stays active, the next record is written there, and the directory never opens
   again. Retrying the snapshot before the next write heals it.
5. **`snapshot_budget`** (`transition/reader.rs:173`). A reader takes the length of a
   string through `count`, which refuses more than the limits on collections allow;
   the writer of a snapshot holds strings against `max_string_bytes` only. With the
   default limits (`snapshot/model.rs:67`: 16 MiB of string, 4,000,000 items) a name
   between the two is written into a snapshot that cannot be read, after the log was
   removed. A record of the log may have 64 MiB, so such a name gets that far. In the
   same way the lists inside cached responses are limited on reading only.

Two further limits of the file store show in the model when the bounds of `store`
are widened, and are no contradiction of what the documents promise:

* a rotation synchronizes the new segment and not the one it seals (`file/mod.rs:507`). With
  `durability |-> "Flush"` and `restarts |-> {"Power"}` a loss of power does not take the last
  writes only: `AlwaysOpens` fails, since the log has a gap and open refuses all of it;
* with `"Create"` among `Failures`, a crash inside `create` (`file/mod.rs:590`, announced
  as atomic) leaves a directory that neither `create` nor `open` accepts.

## 4. Fairness

`FileStore` assumes `WF_fvars(Proceed)`: a call that has begun goes on, with its next
step or with an error. Calls are synchronous functions on the caller's thread that wait
for nobody, so this asks of the operating system only that it schedules the thread and
answers system calls. It asks neither that clients call anything, nor that I/O
succeeds, nor that crashes end: `EveryCallReturns` says that a call returns or its
process ends. What it excludes is a loop of `open` or of compaction that does not come
to an end, and a step that neither goes on nor fails, as the creation of a segment
whose temporary file is in the way.

Every other specification is `Init /\ [][Next]_vars`. That a command is eventually
answered depends on clients that retry, not on this code.

## 5. Proofs

Each theorem holds for every value of the constants that satisfies the named
assumptions. Where it states a property of a run, the run checks that property on a
small instance.

### The state machine (`PromiseEngineProofs`)

| Theorem | Property |
|---|---|
| `TypeCorrect` | `TypeOK` |
| `IndexCorrect` | `IndexMatchesPromises` |
| `UnforcedPoolsHaveNoDeficit` | `NoUnforcedDeficit` |
| `AdmissionIsExact` | `AdmissionAgreesWithOracle` |
| `DeficitsDoNotDeepen` | `DeficitsNeverDeepen` |
| `HoldsDoNotWorsenDeficits` | `HoldsNeverWorsenDeficits` |
| `SlackStaysRepresentable` | `SlackIsRepresentable` |
| `LifecycleVersioned` | `LifecycleIsVersioned` |
| `ExpirationsAreOrdered` | `HoldsExpireInOrder` |
| `ChoicesAreFirstFit` | `ChoicesTakeFirstFit` |
| `SlotHoldsAreEarliestFit` | `SlotHoldsTakeEarliestFit` |
| `AuditTrailIsHistory` | `AuditTrailMatchesState` |
| `NoticesRebuildDeficits` | `RevisionNoticesRebuildDeficits` |

Assumptions, all named in `PromiseEngine` and evaluated by TLC in each run:
`CountsAreNatural` (the parameters are numbers), `CurvesBoundCapacity` (a curve stays
within `MAX_QUANTITY`, which `CapacityCurve` checks), `DemandChangesAtBoundaries`
(demand is constant between claim boundaries, which is how it is computed)
and `CandidatesAreBundles` (alternatives and anchors are bundles or
`Unplaceable`).

The argument:

1. *Arithmetic.* `Total` is a sum over promise identities, a recursive function. Without
   induction rules over operators, induction is done by least counterexamples:
   `LeastNatural` (in `LeastElements`) gets least elements from the well-foundedness of strict
   inclusion on finite sets, and `SumAdds`, `SumChanges`, `SumNonnegative` follow there.
2. *Expirations.* `ExpirationsAreNumbered`: ranks of due holds are positive,
   distinct in effect, and the last one used is the number of holds that expire.
   `RanksIncrease`: ranks follow deadlines and identities. `CutShortAtTheLast`: if a due
   hold stays, the last number was used. No effect touches what stays
   (`EffectSparesDue`), so that every command keeps `HoldsExpireInOrder`.
3. *Effects.* `NextHasEffect` reduces every step of the nine handlers to one of
   seven effects (expirations only, pool created, capacity revised, promise held,
   committed, released, replaced), with the events and the reply of each, so that
   later arguments are by effect and not by handler.
4. *Types.* `TypeInv` adds to `TypeOK` that a version never exceeds the sequence
   of its last change, nor that the global sequence. `TypeOK` alone is not
   inductive: the next version would not have to be in range.
5. *Index.* `IndexInv` adds that slack is capacity minus usage in live pools and
   that active promises claim live pools only. Without the second part
   creating a pool could meet claims on it.
6. *Deficits.* `FitsEverywhere`: what fits at the sampled cells fits in every
   cell a bundle uses, since neither demand nor slack changes in between. For a
   hold this gives exact admission; for a replacement, whose floor may
   change in between, it gives only that each cell stays above the slack
   of *some* cell (`ReplacedIsCovered`), which is why `DeficitsNeverDeepen` is
   proved and the stronger statement of the documentation is finding 1.
7. *Events.* What one command appends to the log is numbered without a gap from the
   sequence it found to the one it leaves (`Numbered`; deficits share the number of
   the revision they follow), and tells of each promise it changed exactly once
   (`Told`). Such extracts can be joined (`NumberedConcat`). `AuditInv` is inductive:
   the whole log is such an extract from 0 on, and the records of a promise are its
   versions from 1 on, in order. The two reported properties follow, the second from
   the intervals of deficits before and after a revision (`DeficitsTold`): they are maximal
   and disjoint, so the notices of both kinds together tell every cell once. That the
   promises a notice names make its deficit (`AffectedMakeDeficit`) needs `IndexInv`:
   the deficit is read from the timeline, the promises from the table.
8. *First fit.* `AdmissionDecides` states exact admission for any promises and the slack that
   belongs to them, so that it also holds after the expirations of the command
   (`ExpiredAdmissionDecides`). `OrderedSearch` says which candidate a search stops at, and
   `AnchorsAreGrid` that the anchors of a slot search are the times of its grid, from the
   first to the last, in their order.

### Bundles (`BundlesProofs`)

| Theorem | Property |
|---|---|
| `DemandIsWhatClaimsCover` | the running sum of normalized events is what the claims cover |
| `UsageIsCovered` | `UsageIsWhatClaimsCover` |
| `BundlesMeetAssumptions` | what `DemandChangesAtBoundaries` assumes holds for the demand of `Bundles` |

`UsageIsCovered` is about `PromiseEngine` with the bundles of `MCPromiseEngine`, for any horizon,
pools and bundles. Assumption, evaluated by TLC in every run over that module:
`BundlesAreClaims` (a bundle is a sequence of claims that `Bundle::new` accepts, and
`Demand` and `Boundary` are what `Bundles` computes of it).

A claim takes at a moment what it took before and what its events change (`TakesChanges`);
sums over claims keep this (`CoveredGrows`); the running sum and the sum of what claims
take therefore have the same recurrence, and no least moment at which they differ.
`BundlesMeetAssumptions` removes an assumption from the theorems of the state machine: for
the bundles of the code, demand *is* constant between boundaries.

### The slack timeline (`SlackTimelineProofs`)

| Theorem | Property |
|---|---|
| `InvariantHolds` | the inductive invariant `TInv` |
| `TypeCorrect` | `TTypeOK` |
| `AnswersAreExact` | `IndexIsExact` |
| `ExtremesAreExact` | `BoundsAreExact` |
| `DeficitsAnswered` | `DeficitsAreExact` |
| `RebuildsMatch` | `UpdatesMatchRebuild` |
| `RestoringCannotFail` | `RestoreNeverFails` |
| `DeclarationsHold` | `CurveIsAsDeclared` |

Assumption of the module, evaluated by TLC: `TimelineConstants` (bounds are numbers, a block
has room for a point, claims and segments span an interval, claims have a quantity). The theorems
hold for any block size, slack type, claims and curves, and do not depend on
`MaxClaims`.

None of the properties is inductive. `TInv` says that the blocks are *kept* (`Kept`: none is
empty or too large; their points ascend, within and between blocks; extremes are those
of the points; stored slack, lazy deltas and effective slack all fit the slack type), that the
curve is in normal form and is what was declared (`CurveOK`, `AsDeclared`), and that at every
time `slack_at` answers what curve and claims leave (`ExactFor`).

The argument:

1. *What points say.* `Shows(P, t, v)`: among the points of `P`, the last one not later than `t`
   has slack `v`, or `v` is zero and there is none. `slack_at` answers what the effective points of all blocks
   show (`SlackAtShows`), and `slack_bound` the extremes of it, since a whole block
   contributes what its points have.
2. *What may be forgotten.* `Says(Q, P)`: `Q` is a part of `P`, and what it leaves out it shows
   already. Discarding repetitions, joining blocks and giving up first points say what was
   said (`Firm`), so that the whole of `normalize_and_rebalance` does (`NormalizeIs`).
3. *An update.* `ensure_boundary` adds a point that repeats what was shown; splitting moves points and
   changes none; then every point within the interval is raised, lazily or not
   (`ApplyIs`). The checks at the beginning of `apply_delta` (`FitsIs`) are what keeps values within
   their type, with the lazy delta added to the points where it would not fit. `Admit` is a
   sequence of such updates, over windows that partition the claim (`AdmittedIs`).
4. *Rebuilding.* Sorting and joining segments keeps what they declare (`DeclaredIs`). The scan
   over events carries capacity less usage, and usage changes by what starts and ends
   (`RebuiltIs`, `UsageOfClaim`).
5. *Points from values.* Points without repetitions are where the shown slack changes
   (`EffectivePointsIs`), so two kept timelines that answer alike have equal effective points
   (`SamePoints`): updates match rebuilds, and the deficits are the longest stretches.

### The coordinator (`CoordinatorProofs`)

| Theorem | Property | Hypothesis |
|---|---|---|
| `CoordInvariant` | the inductive invariant `CoordInv` | |
| `CoordinatorTyped` | `CTypeOK` | |
| `PersistBeforePublish` | `ServesOnlyPersisted` | `SyncedRestarts` |
| `CoordinatorIsExactlyOnce` | `ImplementsExactlyOnce` | `PowerIsSynced` |
| `RetriesAgree` | `RetriesAnswerAlike` | `PowerIsSynced` |

Assumptions of the module, evaluated by TLC: `CoordinatorConstants` (bounds are numbers) and
`RequestsAreCommands` (a request is a command with parameters the engine is checked for, and
`NoRecord` is neither a response nor a record).

Hypotheses, which concern the failures a database meets and not the code:

* `SyncedRestarts`: a database with `Durability::Sync` is not restarted while the page
  cache survives. `open` publishes what it finds and does not synchronize it, so without
  the hypothesis `ServesOnlyPersisted` is false under Sync;
* `PowerIsSynced`: a loss of power meets only databases that synchronize (one that only
  flushes does lose answers), and none that is restarted otherwise. Without the second
  part `RetriesAnswerAlike` is false: finding 3.

The run `coordinator` satisfies both.

Why an invariant stronger than the properties is needed: a record is found by its identity,
so the table of idempotency records must say exactly what the log says. `CoordInv` is the
conjunction of

* `CoordTypes` and `LoggedVersions`: types, and versions within sequence numbers also in the log,
  in the batch and in the published state, which become the candidate when it is dropped
  or recovered;
* `Once(log)`: no identity has two records;
* `PhaseInv`: where the coordinator stands in the log. `Keeps`: the published table is that of the
  first `nextRecord - 1` records and nothing else. `BatchExtendsTable`: the candidate's
  is that and the batch's. `AnswersAreRecorded`: answers are read from the candidate's table. After
  the append, the end of the log is the batch with its numbers.

For the refinement, `SyncInv` adds that under Sync everything below `nextRecord` is synchronized
and `ToldInv` that every answer given is in a record no failure to come can remove. Each step
is then `Execute` (records appended), `Tell`, `Lose` (of records no answer was read from) or a
stutter of `ExactlyOnce`, under the mapping in which the result of an identity is that of its
record.

The last step is taken in the abstract specification: `AnswersAgreeInvariant` says that the
service never gives two answers for one identity, from the invariant that what clients
were told is still a result, and `RetriesAgree` carries it over to the coordinator that
implements the service.

### Recovery and snapshots (`RecoveryProofs`)

| Theorem | Property |
|---|---|
| `LogIsAChain` | the inductive invariant `CoordInv /\ RecoverInv` |
| `RecoveryReproducesExecution` | `StateIsWhatTheLogSays` |
| `RecoverySucceeds` | `RecoveryNeverFails` |
| `SnapshotsCanBeRestored` | `SnapshotRestores` |

All four under `NothingIsUndone`: batches have one command, or no two commands of
clients give one pool the same curve. Without it the first two are false (finding 2):
the effects of a record are differences to the state the batch began with, so a batch that
restores a curve it had changed writes a record that does not. The code does not enforce
the hypothesis, so `RecoverySucceeds` and `SnapshotsCanBeRestored` say nothing of clients
that revise a pool and revise it back in one batch. `SnapshotsCanBeRestored` is about the
checks that `Restorable` models: of a cached response the entity it is about, not the
promises and pools its conflict and deficit lists name (`engine.rs:289`). No hypothesis is needed for
promises: their versions advance, so that no batch restores one (`Later`). The requests of
the run `coordinator` satisfy the hypothesis, those of `batch_undo` do not.

The invariant `RecoverInv` says that the log is a *chain*: record `k` leads from the state
after record `k - 1` to the state after it (`Follows`: what its effects, installed, make of
the one is the other; its events continue that log without a gap; its identity is new), and
each of these states is *sound*. A batch is a chain from the published state, and the
candidate is at the end of it. During recovery the candidate holds what the records
read so far lead to (`Filled`), its index excepted, which is rebuilt at the end.

`Sound` collects what the checks of recovery and restoration rely on: the index is the one a
rebuild computes and fits its type; promises are on pools that exist; events are numbered
without a gap and name what exists; cached responses name what exists, of the kind of their
command; curves come from commands that were executed.

The argument: `EffectFounds`, `EffectDescribes` and `ResponseIsAbout` show soundness effect by
effect, and `ResponseStays` that later effects keep it; `ExecutionFollows` that a command's record leads
from one state to the next (here `NothingIsUndone` is used, in `NothingReverts`); `ChainsJoin` and
`ChainIsCut` that appending a batch, in whole or in part, and losing the end of the log leave a
chain; `InstallRecordFollows` that `install_transition` goes one link along it; `RebuildsIndex`
that the rebuilt index is the one of the sound state. `NumberedIsContiguous` and
`SoundIsRestorable` then give the checks of `install_transition` and of
`restore_snapshot_unindexed` one by one.

### The file store (`FileStoreProofs`)

| Theorem | Property | Hypothesis |
|---|---|---|
| `StoreInvariant` | the inductive invariant `StoreInv` | |
| `StoreTyped` | `FTypeOK` | |
| `SnapshotsAreCompact` | `SnapshotsCompact` | |
| `FilesTellTheLog` | the inductive invariant `StoreInv /\ FileInv` | `TrustedDeployments` |
| `DirectoryAlwaysOpens` | `AlwaysOpens` | `TrustedDeployments` |
| `ServesWhatItRecovers` | `ServesTheLog` | `TrustedDeployments` |
| `DirectoryImplementsDurableLog` | `ImplementsDurableLog` | `TrustedDeployments` |

Assumption of the module, evaluated by TLC: `FileStoreConstants` (bounds are numbers,
and at least one record can be numbered). The theorems hold for any payloads, any length of batches, segments and log, and any
set of failures that satisfies the hypothesis.

`TrustedDeployments` is about the failures a database meets, and a real one can meet the
others: each part of it leaves out one case in which `AlwaysOpens` or `ImplementsDurableLog` is false:

* a loss of power meets only databases that synchronize: a rotation does not synchronize the
  segment it seals (end of section 3);
* and none that is restarted otherwise: `open` relies on names that the process before it did
  not synchronize (finding 3);
* no I/O error falls between the link of a new segment and its use in `create_snapshot`
  (`"Rotation"`, finding 4);
* `create` is not interrupted (`"Create"`, end of section 3).

Errors of append, snapshot and open, torn writes, crashes of a process between any two
steps under Flush, and losses of power between any two steps under Sync remain. The run
`store` satisfies the hypothesis.

`StoreInv` needs no hypothesis. `FTypeOK` alone is not inductive: that a rotation names its
segment within the record sequence depends on what is in the active segment, and that depends
on what `open` accepted. `StoreInv` therefore says what is known in each phase of a call:
a database being created holds nothing (`UnusedInv`), linked snapshots have as
many records as their names say (`SnapshotsHold`), the phases of each call (`CallInv`), the
active segment ends where the published state does (`ActiveInv`), a segment that is being created is
new (`FreshInv`), what `open` accepted stays acceptable while it repairs (`OpeningInv`), and
what each loop of the compaction has removed (`CompactingInv`).

`FileInv` says what a failure leaves. The invariant has to speak of files and names that *can* be
lost at any later moment, since `LosePower` is enabled in every state. An entry is *firm* if no
failure to come can remove it; the *anchors* are the snapshots recovery may begin at, from the
last firm one (the *base*) to the last linked one. `Shape` says that the files tell the log: each anchor
is that log's beginning and is followed by a firm segment, the segments after the base
follow on each other, each has the records of the log its name says, and only a
segment without records, at the end, may disappear. Beside `DiskInv`, which says this of
the directory and of what `open` recovers, the parts are

* `VisibleInv`: what was published is a prefix of the log;
* `ServeInv`: a serving database that is not poisoned has written what it published and
  what it is about to publish, and its active segment is firm and last;
* `SnapInv`, `OpenInv`: what a snapshot and an open have achieved in each phase;
* `PowerInv`: records that are not synchronized are at the end of the log and unpublished
  (`SyncedInv`); entries removed after the base are gone for good, so that no old segment
  can come back (`DurableInv`).

The argument: `ShapeOpens` shows that such a directory is accepted and that the log is what
`open` recovers from it. One lemma for each kind of change says that it keeps the shape: a base that
moves on (`ShapeMoves`), a snapshot installed (`ShapeInstalls`), a segment linked
(`ShapeLinks`), records written (`ShapeGrows`) or lost (`ShapeShrinks`). One lemma for
each action (`WriteImplements`, `InstallSnapshotImplements`, `LosePowerImplements`, ...) then
shows both that `FileInv` holds after it and that it is a step of `DurableLog` or
leaves log, published state and the obligation to keep it as they were; `EveryStep` joins them.

### Record framing (`WalRecordsProofs`)

| Theorem | Property |
|---|---|
| `WalInvariant` | the inductive invariant `WalInv` |
| `WalTypeInvariant` | `RTypeOK` |
| `ReturnsInvariant` | `ReturnsWhatWasWritten` |
| `KeepsInvariant` | `KeepsWhatWasAcknowledged` |
| `RefusesInvariant` | `RefusesOnlyDamage` |
| `AcceptedGroupReadsBack` | what `inspect_batch` reads back is the group that was encoded |

Assumptions of the module, evaluated by TLC: `WalConstants` (the limits of a file are valid,
there is a record sequence and a group) and `WalData` (payloads are sequences of numbers,
times are numbers). The theorems hold for any payloads, any number of records and groups,
and any set of `Faults`. What they take for granted is in the model and not in an
assumption: checksums do not collide, damage is to one field, and it is not repeated
before a recovery succeeds.

None of the properties is inductive. `WalInv` is the conjunction of

* `WalTyped` and `Numbered`: what was written is numbered from one and fits the format, what was
  read is a beginning of it;
* `Standing`: the reader stands at the boundary between two records as they were *written*, all
  cells before it are as they were written, and a header it holds is the one at its
  place and passed every check;
* `AtRest`: nothing is half read outside a recovery, and a log that is ready holds exactly what
  was written;
* `Survives`: the acknowledged records are on stable storage; each cell of the file is the one
  that was written, or the one damaged cell, or a zero behind the acknowledged
  records.

The argument:

1. *The format.* Groups are encoded one record after another (`EncodedInStages`, `EncodedConcat`), so
   each record has a `Boundary`, boundaries grow by the size of a record, and every cell belongs to
   one record (`BoundaryStep`, `BoundaryGrows`, `CellHasRecord`). A cell that stands for several numbers
   is the checksum of a record and stands for all cells before it (`ChecksumEndsRecord`).
2. *What is accepted was written.* A checksum in the file is the one that was written:
   neither damage nor zeros make one (`ChecksumIsOriginal`). A body that is accepted ends on
   a checksum over the header that is held, with the sequence that is expected: it is
   that of the next record, all of whose cells it covers (`AcceptedIsWritten`).
3. *What is cut off was not acknowledged.* A file that ends inside a header ends behind the
   acknowledged records, as these are on stable storage (`NoHeaderIsCut`). A file that
   seems to end inside a body could do so because its length field is damaged; but
   then the payload length, in another field, does not go with it, and the header is not
   accepted (`NoBodyIsCut`).
4. *What is refused was damaged.* Where nothing happened to the file but a cut, the header and
   the body of the next record pass every check (`FrameIsAccepted`, `IntactHeader`,
   `IntactBody`).

One lemma for each action then shows that it keeps `WalInv`.

### Model-checked only

* `EveryCallReturns`: liveness under fairness.
* `Codec` and what extends it: that a reader inverts a writer for every
  payload is induction over the data, and both are recursive operators over their layouts.

## 6. Not modelled

* The direct path `Engine::apply` (no log), which differs from `apply_once` by the
  idempotency lookup only; the read-only queries.
* In the engine: conflict lists of `Unavailable` and deficit lists of `CapacityRevised`, and so
  the checks of `restore_snapshot_unindexed` on what these lists name; names and units of pools, event
  timestamps (the codecs have them all).
* The operating system lock, segment headers, and the manifest's identity and limits.
* The clock and the demonstration binary.

## 7. Plan

Done: every module of section 2, and the proofs of section 5.
Next, in order:

1. The conflicts of an `Unavailable` response, what restoring a snapshot checks of them
   and of the deficits of a revision, and the queries `list_at_risk` and
   `explain_unavailable`, as operators of `PromiseEngine`.
