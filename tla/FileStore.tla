------------------------------- MODULE FileStore -------------------------------
(***************************************************************************)
(* A database directory (storage::file): log segments that rotate,         *)
(* snapshots that replace them, and open, which recovers from what a       *)
(* failure left.  Names in a directory and contents of a file reach stable *)
(* storage separately, each by its own synchronization; every step below   *)
(* is what lies between two points where a failure makes a difference.     *)
(*                                                                         *)
(* A record is its payload; a state of the engine is the sequence of the   *)
(* records applied to it.                                                  *)
(***************************************************************************)
EXTENDS Integers, Sequences, FiniteSets, SequencesExt, FiniteSetsExt

CONSTANTS
  Value,          \* what a record may hold
  MaxRecord,      \* the last record sequence (u64::MAX in the code)
  MaxBatch,       \* the longest group of records
  SegmentTarget,  \* how many records a segment holds before it is rotated
  Deployments,    \* the databases considered: records [durability, restarts]
  Failures        \* which calls may fail with an I/O error

ASSUME FileStoreConstants ==
  /\ MaxRecord \in Nat \ {0} /\ MaxBatch \in Nat /\ SegmentTarget \in Nat
  /\ Deployments \subseteq [durability : {"Flush", "Sync"},
                            restarts : SUBSET {"Close", "Process", "Power"}]
  /\ Failures \subseteq {"Append", "Snapshot", "Rotation", "Open", "Create"}

VARIABLES
  deployment,\* Database::durability, and how its process ends: by "Close", a crash
             \* ("Process") or a loss of "Power"; fixed
  root,      \* the database directory: "Absent", "Directory", "Manifest" (in place)
  wal,       \* entries of wal/: those linked, and those on stable storage
  segments,  \* contents by name: complete records, how many are synced, torn tail
  shots,     \* entries of snapshots/, likewise
  contents,  \* contents of snapshots: the state each holds
  phase,     \* the next step of the running call, "Idle", or "Down" without process
  call,      \* the running call
  active,    \* the active segment, by its first record sequence
  batch,     \* the records being appended
  poisoned,  \* Database::poisoned
  visible    \* the published state; while Down, the one published last

disk == <<root, wal, segments, shots, contents>>
fvars == <<deployment, root, wal, segments, shots, contents, phase, call, active, batch, poisoned,
           visible>>

-----------------------------------------------------------------------------
\* Files are named by the first record they may hold, snapshots by the last one.
Name == 1..MaxRecord
Watermark == 0..MaxRecord

Segment(n) == <<"segment", n>>
TempSegment(n) == <<"temp", n>>
Snapshot(w) == <<"snapshot", w>>
TempSnapshot == <<"temp", 0>>

NoEntries == [linked |-> {}, durable |-> {}]

\* A directory after entries were linked and unlinked, and after a synchronization.
Link(dir, e) == [dir EXCEPT !.linked = @ \cup {e}]
Unlink(dir, removed) == [dir EXCEPT !.linked = @ \ removed]
SyncDirectory(dir) == [dir EXCEPT !.durable = dir.linked]

EmptySegment == [records |-> <<>>, synced |-> 0, torn |-> FALSE]

-----------------------------------------------------------------------------
(***************************************************************************)
(* What open makes of the directory.                                       *)
(***************************************************************************)
Latest == {w \in Watermark : Snapshot(w) \in shots.linked}

\* The watermark the latest snapshot is filed under; without one, that of the empty
\* state.
Anchor == Max({0} \cup Latest)

Exhausted == Anchor = MaxRecord

\* The first segment of interest: the one after the snapshot.  When there is no
\* record after the snapshot all segments count, and none is read.
Minimum == LET anchor == Anchor IN IF anchor = MaxRecord THEN 1 ELSE anchor + 1

Linked == {n \in Name : Segment(n) \in wal.linked}
Suffix == LET minimum == Minimum IN {n \in Linked : n >= minimum}
Obsolete == Linked \ Suffix

\* The record sequence after the records of a segment.
After(n) == n + Len(segments[n].records)

\* The segment that follows a sealed one begins where its records end.
Contiguous(names) ==
  \A n \in names \ {Max(names)} :
    ~segments[n].torn /\ After(n) = Min({s \in names : s > n})

\* The checks of open on the segments of interest.
Accepted(anchor, suffix) ==
  /\ suffix # {}
  /\ anchor = MaxRecord \/ (Min(suffix) = anchor + 1 /\ Contiguous(suffix))

CanOpen == root = "Manifest" /\ Accepted(Anchor, Suffix)

\* The state that open recovers: the snapshot and every record after it.
RecoveredLog ==
  LET anchor == Anchor
      suffix == Suffix
      next == Max({After(n) : n \in suffix})
      Record(i) ==
        LET n == CHOOSE n \in suffix : n <= i /\ i < After(n) IN segments[n].records[i - n + 1]
  IN  contents[anchor] \o
        IF root = "Manifest" /\ anchor < MaxRecord /\ Accepted(anchor, suffix)
        THEN [k \in 1..next - 1 - anchor |-> Record(anchor + k)]
        ELSE <<>>

-----------------------------------------------------------------------------
FInit ==
  /\ deployment \in Deployments
  /\ root = "Absent" /\ wal = NoEntries /\ shots = NoEntries
  /\ segments = [n \in Name |-> EmptySegment]
  /\ contents = [w \in Watermark |-> <<>>]
  /\ phase = "Down" /\ call = "None"
  /\ active = 1 /\ batch = <<>> /\ poisoned = FALSE /\ visible = <<>>

\* The call goes on with step p, and changes nothing else of the process.
Continue(p) == phase' = p /\ UNCHANGED <<deployment, call, active, batch, poisoned, visible>>

\* The call ends.
Return ==
  /\ phase' = "Idle" /\ call' = "None" /\ batch' = <<>>
  /\ UNCHANGED <<deployment, active, visible>>

\* The process ends, whatever it was doing.
End ==
  /\ phase' = "Down" /\ call' = "None" /\ batch' = <<>> /\ active' = 1 /\ poisoned' = FALSE
  /\ UNCHANGED <<deployment, visible>>

-----------------------------------------------------------------------------
(***************************************************************************)
(* Database::create, and the creation of a segment, which rotation shares. *)
(***************************************************************************)
Create ==
  /\ phase = "Down" /\ root = "Absent"
  /\ root' = "Directory" /\ phase' = "WriteManifest" /\ call' = "Create"
  /\ UNCHANGED <<deployment, wal, segments, shots, contents, active, batch, poisoned, visible>>

WriteManifest ==
  /\ phase = "WriteManifest"
  /\ root' = "Manifest" /\ Continue("CreateTemp")
  /\ UNCHANGED <<wal, segments, shots, contents>>

\* The first record sequence of a new segment.
NextRecord == Len(visible) + 1

\* create_new refuses a temporary file that an earlier attempt left.
CreateTemp ==
  /\ phase = "CreateTemp" /\ TempSegment(NextRecord) \notin wal.linked
  /\ wal' = Link(wal, TempSegment(NextRecord))
  /\ Continue("LinkSegment")
  /\ UNCHANGED <<root, segments, shots, contents>>

\* The temporary file holds the synchronized header.
LinkSegment ==
  /\ phase = "LinkSegment"
  /\ wal' = Link(Unlink(wal, {TempSegment(NextRecord)}), Segment(NextRecord))
  /\ segments' = [segments EXCEPT ![NextRecord] = EmptySegment]
  /\ Continue("SyncSegment")
  /\ UNCHANGED <<root, shots, contents>>

\* Mutant of AfterRotation: append looks again whether it has to rotate.
RotatedAgain == [Create |-> "Idle", Append |-> "CreateTemp", Snapshot |-> "WriteSnapshot"]
AfterRotation == [Create |-> "Idle", Append |-> "Write", Snapshot |-> "WriteSnapshot"]

SyncSegment ==
  /\ phase = "SyncSegment"
  /\ wal' = SyncDirectory(wal)
  /\ active' = NextRecord
  /\ phase' = AfterRotation[call]
  /\ call' = IF call = "Create" THEN "None" ELSE call
  /\ UNCHANGED <<deployment, root, segments, shots, contents, batch, poisoned, visible>>

-----------------------------------------------------------------------------
(***************************************************************************)
(* Database::apply_batch on a SegmentedWal: append, persist, publish.      *)
(***************************************************************************)
Batches == UNION {[1..k -> Value] : k \in 1..MaxBatch}

\* The active segment has records, and would pass its target with b.
MustRotate(b) ==
  LET held == Len(segments[active].records) IN held > 0 /\ held + Len(b) > SegmentTarget

StartAppend ==
  /\ phase = "Idle" /\ ~poisoned
  /\ \E b \in Batches :
       /\ Len(visible) + Len(b) <= MaxRecord
       /\ batch' = b
       /\ phase' = IF MustRotate(b) THEN "CreateTemp" ELSE "Write"
  /\ call' = "Append"
  /\ UNCHANGED <<deployment, disk, active, poisoned, visible>>

\* The first k records of the batch are in the file, and perhaps part of the next.
Written(k, torn) ==
  segments' = [segments EXCEPT ![active].records = @ \o SubSeq(batch, 1, k), ![active].torn = torn]

Write ==
  /\ phase = "Write"
  /\ Written(Len(batch), FALSE)
  /\ Continue("Persist")
  /\ UNCHANGED <<root, wal, shots, contents>>

\* Mutant of Persist: Sync only flushes.
PersistFlushed ==
  /\ phase = "Persist"
  /\ Continue("Publish")
  /\ UNCHANGED disk

\* Flushing a file hands nothing over that write_all did not.
Persist ==
  /\ phase = "Persist"
  /\ segments' = IF deployment.durability = "Sync"
                 THEN [segments EXCEPT ![active].synced = Len(segments[active].records)]
                 ELSE segments
  /\ Continue("Publish")
  /\ UNCHANGED <<root, wal, shots, contents>>

Publish ==
  /\ phase = "Publish"
  /\ visible' = visible \o batch
  /\ phase' = "Idle" /\ call' = "None" /\ batch' = <<>>
  /\ UNCHANGED <<deployment, disk, active, poisoned>>

\* What a write that is cut off leaves: the file as it was, or part of the batch.
PartialWrite ==
  IF phase = "Write"
  THEN \E k \in 0..Len(batch) - 1, torn \in BOOLEAN : Written(k, torn)
  ELSE UNCHANGED segments

\* Mutant of AppendFails: the coordinator is not poisoned.
AppendFailsUnnoticed ==
  /\ call = "Append" /\ phase \in {"Write", "Persist"} /\ "Append" \in Failures
  /\ PartialWrite
  /\ Return
  /\ UNCHANGED <<root, wal, shots, contents, poisoned>>

\* Any error in append or persist poisons the coordinator.
AppendFails ==
  /\ call = "Append" /\ phase \in {"CreateTemp", "LinkSegment", "SyncSegment", "Write", "Persist"}
  /\ "Append" \in Failures \/ (phase = "CreateTemp" /\ TempSegment(NextRecord) \in wal.linked)
  /\ PartialWrite
  /\ poisoned' = TRUE /\ Return
  /\ UNCHANGED <<root, wal, shots, contents>>

-----------------------------------------------------------------------------
(***************************************************************************)
(* Database::create_snapshot: rotate, install, remove what is covered.     *)
(***************************************************************************)
\* Mutant of HasSuccessor: create_snapshot rotates after the last record, too.
AlwaysHasSuccessor == TRUE
HasSuccessor == NextRecord <= MaxRecord

StartSnapshot ==
  /\ phase = "Idle" /\ ~poisoned
  /\ call' = "Snapshot"
  /\ phase' = IF HasSuccessor /\ segments[active].records # <<>>
              THEN "CreateTemp" ELSE "WriteSnapshot"
  /\ UNCHANGED <<deployment, disk, active, batch, poisoned, visible>>

\* The directory after the temporary snapshot was removed: synchronized if there was one.
WithoutTemp(dir) ==
  IF TempSnapshot \in dir.linked THEN SyncDirectory(Unlink(dir, {TempSnapshot})) ELSE dir

WriteSnapshot ==
  /\ phase = "WriteSnapshot"
  /\ shots' = Link(WithoutTemp(shots), TempSnapshot)
  /\ Continue("InstallSnapshot")
  /\ UNCHANGED <<root, wal, segments, contents>>

InstallSnapshot ==
  /\ phase = "InstallSnapshot"
  /\ shots' = Link(Unlink(shots, {TempSnapshot}), Snapshot(Len(visible)))
  /\ contents' = [contents EXCEPT ![Len(visible)] = visible]
  /\ Continue("SyncSnapshot")
  /\ UNCHANGED <<root, wal, segments>>

\* Mutant of SyncSnapshot: compaction starts before the snapshot's name is durable.
SnapshotNotSynced ==
  /\ phase = "SyncSnapshot"
  /\ Continue("RemoveCovered")
  /\ UNCHANGED disk

SyncSnapshot ==
  /\ phase = "SyncSnapshot"
  /\ shots' = SyncDirectory(shots)
  /\ Continue("RemoveCovered")
  /\ UNCHANGED <<root, wal, segments, contents>>

\* The entries a snapshot makes superfluous: all but the active segment and itself.
\* Mutant of Covered: temporary files of failed rotations are left.
CoveredSegments == {Segment(n) : n \in Linked \ {active}}
Covered == wal.linked \ {Segment(active)}
Older == shots.linked \ {Snapshot(Len(visible))}

RemoveCovered ==
  /\ phase = "RemoveCovered" /\ Covered # {}
  /\ \E e \in Covered : wal' = Unlink(wal, {e})
  /\ Continue(phase)
  /\ UNCHANGED <<root, segments, shots, contents>>

SyncCompacted ==
  /\ phase = "RemoveCovered" /\ Covered = {}
  /\ wal' = SyncDirectory(wal)
  /\ Continue("RemoveOlder")
  /\ UNCHANGED <<root, segments, shots, contents>>

RemoveOlder ==
  /\ phase = "RemoveOlder" /\ Older # {}
  /\ \E e \in Older : shots' = Unlink(shots, {e})
  /\ Continue(phase)
  /\ UNCHANGED <<root, wal, segments, contents>>

SyncCleanup ==
  /\ phase = "RemoveOlder" /\ Older = {}
  /\ shots' = SyncDirectory(shots)
  /\ Continue("Compacted")
  /\ UNCHANGED <<root, wal, segments, contents>>

ReturnOutcome ==
  /\ phase = "Compacted"
  /\ Return
  /\ UNCHANGED <<disk, poisoned>>

\* No error of create_snapshot poisons the coordinator, wherever it arises.  In its
\* rotation the new segment may already be linked while the old one stays active.
SnapshotFails ==
  /\ call = "Snapshot" /\ phase # "Compacted"
  /\ \/ "Snapshot" \in Failures /\ phase # "SyncSegment"
     \/ "Rotation" \in Failures /\ phase = "SyncSegment"
     \/ phase = "CreateTemp" /\ TempSegment(NextRecord) \in wal.linked
  /\ Return
  /\ UNCHANGED <<disk, poisoned>>

-----------------------------------------------------------------------------
(***************************************************************************)
(* Database::open.                                                         *)
(***************************************************************************)
Temps == {TempSegment(n) : n \in Name} \cap wal.linked

\* Temporary files go first; the directory is synchronized if there were any.
Open ==
  /\ phase = "Down" /\ root = "Manifest"
  /\ wal' = IF Temps = {} THEN wal ELSE SyncDirectory(Unlink(wal, Temps))
  /\ shots' = WithoutTemp(shots)
  /\ phase' = "Recover" /\ call' = "Open"
  /\ UNCHANGED <<deployment, root, segments, contents, active, batch, poisoned, visible>>

\* A partial tail of the last segment is cut off and the file synchronized.
\* Mutant of Repaired: open leaves the partial tail in place.
LeftTorn(s) == s
Repaired(s) ==
  IF s.torn THEN [s EXCEPT !.torn = FALSE, !.synced = Len(s.records)] ELSE s

Recover ==
  /\ phase = "Recover" /\ CanOpen
  /\ segments' = IF Exhausted THEN segments ELSE [segments EXCEPT ![Max(Suffix)] = Repaired(@)]
  /\ Continue("RemoveObsolete")
  /\ UNCHANGED <<root, wal, shots, contents>>

RemoveObsolete ==
  /\ phase = "RemoveObsolete" /\ Obsolete # {}
  /\ \E n \in Obsolete : wal' = Unlink(wal, {Segment(n)})
  /\ phase' = IF Cardinality(Obsolete) = 1 THEN "SyncTrimmed" ELSE phase
  /\ UNCHANGED <<deployment, root, segments, shots, contents, call, active, batch, poisoned,
                 visible>>

SyncTrimmed ==
  /\ phase = "SyncTrimmed"
  /\ wal' = SyncDirectory(wal)
  /\ Continue("RemoveObsolete")
  /\ UNCHANGED <<root, segments, shots, contents>>

FinishOpen ==
  /\ phase = "RemoveObsolete" /\ Obsolete = {}
  /\ active' = Max(Suffix)
  /\ visible' = RecoveredLog
  /\ phase' = "Idle" /\ call' = "None"
  /\ UNCHANGED <<deployment, disk, batch, poisoned>>

\* open fails where recovery refuses what it finds, or with an I/O error.
OpenFails ==
  /\ call = "Open"
  /\ "Open" \in Failures \/ (phase = "Recover" /\ ~CanOpen)
  /\ End
  /\ UNCHANGED disk

-----------------------------------------------------------------------------
(***************************************************************************)
(* The end of a process, by its own will, a crash, or a loss of power.     *)
(***************************************************************************)
MayEnd == call = "Create" => "Create" \in Failures

\* The database is dropped between two calls.
Close ==
  /\ "Close" \in deployment.restarts /\ phase = "Idle"
  /\ End
  /\ UNCHANGED disk

\* The operating system keeps what it was handed, synchronized or not.
CrashProcess ==
  /\ "Process" \in deployment.restarts /\ MayEnd /\ phase # "Down"
  /\ PartialWrite
  /\ End
  /\ UNCHANGED <<root, wal, shots, contents>>

\* What stable storage may hold of a file: at least the synchronized records.
Survivors(s) ==
  {r \in {[records |-> SubSeq(s.records, 1, k), synced |-> k, torn |-> t] :
            k \in s.synced..Len(s.records), t \in BOOLEAN} :
     r.torn => s.torn \/ r.synced < Len(s.records)}

\* What it may hold of a directory: each change since the synchronization, or not.
Remnants(dir) ==
  {[linked |-> kept, durable |-> kept] :
     kept \in {(dir.linked \cap dir.durable) \cup d :
                 d \in SUBSET SymDiff(dir.linked, dir.durable)}}

Dirty == {n \in Name : segments[n].torn \/ segments[n].synced < Len(segments[n].records)}

LosePower ==
  /\ "Power" \in deployment.restarts /\ MayEnd
  /\ \E cut \in [Dirty -> UNION {Survivors(segments[n]) : n \in Dirty}] :
       /\ \A n \in Dirty : cut[n] \in Survivors(segments[n])
       /\ segments' = [n \in Name |-> IF n \in Dirty THEN cut[n] ELSE segments[n]]
  /\ wal' \in Remnants(wal)
  /\ shots' \in Remnants(shots)
  /\ End
  /\ UNCHANGED <<root, contents>>

FNext ==
  \/ Create \/ WriteManifest \/ CreateTemp \/ LinkSegment \/ SyncSegment
  \/ StartAppend \/ Write \/ Persist \/ Publish \/ AppendFails
  \/ StartSnapshot \/ WriteSnapshot \/ InstallSnapshot \/ SyncSnapshot
  \/ RemoveCovered \/ SyncCompacted \/ RemoveOlder \/ SyncCleanup
  \/ ReturnOutcome \/ SnapshotFails
  \/ Open \/ Recover \/ RemoveObsolete \/ SyncTrimmed \/ FinishOpen \/ OpenFails
  \/ Close \/ CrashProcess \/ LosePower

\* A step of a call that is running: the thread that made it goes on.
Proceed ==
  \/ WriteManifest \/ CreateTemp \/ LinkSegment \/ SyncSegment
  \/ Write \/ Persist \/ Publish \/ AppendFails
  \/ WriteSnapshot \/ InstallSnapshot \/ SyncSnapshot
  \/ RemoveCovered \/ SyncCompacted \/ RemoveOlder \/ SyncCleanup
  \/ ReturnOutcome \/ SnapshotFails
  \/ Recover \/ RemoveObsolete \/ SyncTrimmed \/ FinishOpen \/ OpenFails

FSpec == FInit /\ [][FNext]_fvars /\ WF_fvars(Proceed)

-----------------------------------------------------------------------------
(***************************************************************************)
(* Properties                                                              *)
(***************************************************************************)
Log == UNION {[1..k -> Value] : k \in 0..MaxRecord}
WalEntry == {Segment(n) : n \in Name} \cup {TempSegment(n) : n \in Name}
ShotEntry == {Snapshot(w) : w \in Watermark} \cup {TempSnapshot}
SegmentFile == [records : Log, synced : Watermark, torn : BOOLEAN]
Directory(E) == [linked : SUBSET E, durable : SUBSET E]
Step == {"Down", "Idle", "WriteManifest", "CreateTemp", "LinkSegment", "SyncSegment",
         "Write", "Persist", "Publish", "WriteSnapshot", "InstallSnapshot", "SyncSnapshot",
         "RemoveCovered", "RemoveOlder", "Compacted", "Recover", "RemoveObsolete", "SyncTrimmed"}

\* Every variable has its type; in particular no file is named for a record beyond
\* the last sequence number, also when create_snapshot runs with none left, and no
\* segment claims more synchronized records than it holds.
FTypeOK ==
  /\ root \in {"Absent", "Directory", "Manifest"}
  /\ wal \in Directory(WalEntry) /\ shots \in Directory(ShotEntry)
  /\ segments \in [Name -> SegmentFile]
  /\ \A n \in Name : After(n) <= MaxRecord + 1
                     /\ segments[n].synced <= Len(segments[n].records)
  /\ contents \in [Watermark -> Log]
  /\ phase \in Step /\ call \in {"None", "Create", "Append", "Snapshot", "Open"}
  /\ active \in Name /\ batch \in Log /\ poisoned \in BOOLEAN /\ visible \in Log

\* However the last process ended, open accepts the directory (ADR 0013: a crash
\* leaves either the old log or a complete snapshot with the exact suffix): a
\* snapshot never outlives the segments after it, and sealed segments are whole.
AlwaysOpens == phase = "Down" /\ root = "Manifest" => CanOpen

\* Between calls of a database that is not poisoned, opening its directory afresh
\* would give exactly the state it serves: SegmentedWal and engine never diverge.
ServesTheLog == phase = "Idle" /\ ~poisoned => CanOpen /\ visible = RecoveredLog

\* When create_snapshot returns its outcome, the snapshot and the active segment are
\* all there is, on stable storage too, whatever earlier calls and crashes left over.
SnapshotsCompact ==
  phase = "Compacted" =>
    /\ wal.linked = {Segment(active)} /\ wal.durable = wal.linked
    /\ shots.linked = {Snapshot(Len(visible))} /\ shots.durable = shots.linked

\* Every call returns, unless its process ends first: create, append, create_snapshot
\* and open always have a next step or an error to return (a temporary file that is in
\* the way, a directory that is refused), and their loops over entries come to an end.
EveryCallReturns == phase \notin {"Idle", "Down"} ~> phase \in {"Idle", "Down"}

\* The directory implements a durable log: what was published, by a writer or by
\* open, stays a prefix of what recovery finds, and nothing but an append changes
\* what that is: no step of create_snapshot, of its clean-up, of open, and no end of
\* a process among them.
Durable == INSTANCE DurableLog WITH
  entries <- RecoveredLog, acknowledged <- visible,
  unsettled <- call = "Append" \/ poisoned
ImplementsDurableLog == Durable!Spec
================================================================================
