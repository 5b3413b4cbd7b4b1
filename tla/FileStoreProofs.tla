-------------------------- MODULE FileStoreProofs --------------------------
(***************************************************************************)
(* Theorems about FileStore.  Whatever fails and however its processes     *)
(* end: types, and what create_snapshot leaves in the directory.  In the   *)
(* deployments that the findings of README leave: open accepts what a      *)
(* failure leaves and recovers what was published, and the directory       *)
(* implements DurableLog.                                                  *)
(***************************************************************************)
EXTENDS FileStore, LeastElements, SequenceTheorems

-----------------------------------------------------------------------------
(* Greatest and least elements, and logs.                                   *)

\* A set of numbers below a bound has a greatest element, which Max chooses.
LEMMA MaxIs ==
  ASSUME NEW S, S # {}, NEW bound \in Nat, \A x \in S : x \in Nat /\ x <= bound
  PROVE  Max(S) \in S /\ \A y \in S : y <= Max(S)
<1> DEFINE T == {bound - x : x \in S}
<1>1. T \in SUBSET Nat /\ T # {}
  OBVIOUS
<1> HIDE DEF T
<1>2. PICK m \in T : \A k \in T : m <= k
  BY <1>1, LeastNatural
<1>3. PICK x \in S : m = bound - x
  BY DEF T
<1>4. \A y \in S : x >= y
  <2> SUFFICES ASSUME NEW y \in S PROVE x >= y
    OBVIOUS
  <2>1. bound - y \in T
    BY DEF T
  <2> QED BY <2>1, <1>2, <1>3
<1>5. Max(S) \in S /\ \A y \in S : Max(S) >= y
  <2>1. \E z \in S : \A y \in S : z >= y
    BY <1>4
  <2> QED BY <2>1 DEF Max
<1> QED BY <1>5

\* A set of natural numbers has a least element, which Min chooses.
LEMMA MinIs ==
  ASSUME NEW S \in SUBSET Nat, S # {}
  PROVE  Min(S) \in S /\ \A y \in S : Min(S) <= y
BY LeastNatural DEF Min

\* Names of files are numbers within bounds.
LEMMA NamesAre ==
  /\ MaxRecord \in Nat /\ 0 <= MaxRecord
  /\ Name \subseteq Nat /\ \A n \in Name : 1 <= n /\ n <= MaxRecord
  /\ Watermark \subseteq Nat /\ \A w \in Watermark : 0 <= w /\ w <= MaxRecord
  /\ 1 \in Name /\ 0 \in Watermark
BY FileStoreConstants DEF Name, Watermark

\* A log is a sequence of values that the record sequence can number.
LEMMA LogIsSeq ==
  \A l : l \in Log <=> l \in Seq(Value) /\ Len(l) <= MaxRecord
<1>1. MaxRecord \in Nat
  BY FileStoreConstants
<1>2. ASSUME NEW l \in Log PROVE l \in Seq(Value) /\ Len(l) <= MaxRecord
  <2>1. PICK k \in 0 .. MaxRecord : l \in [1 .. k -> Value]
    BY DEF Log
  <2> QED BY <2>1, <1>1
<1>3. ASSUME NEW l \in Seq(Value), Len(l) <= MaxRecord PROVE l \in Log
  <2>1. l \in [1 .. Len(l) -> Value] /\ Len(l) \in Nat
    BY LenProperties
  <2>2. Len(l) \in 0 .. MaxRecord
    BY <1>1, <1>3, <2>1
  <2> QED BY <2>1, <2>2 DEF Log
<1> QED BY <1>2, <1>3

-----------------------------------------------------------------------------
(* Entries of directories.                                                  *)

\* Different files have different names.
LEMMA EntriesDiffer ==
  /\ \A m, n : Segment(m) = Segment(n) => m = n
  /\ \A m, n : Snapshot(m) = Snapshot(n) => m = n
  /\ \A m, n : Segment(m) # TempSegment(n)
  /\ \A n : n \in Nat => Snapshot(n) # TempSnapshot
BY DEF Segment, TempSegment, Snapshot, TempSnapshot

\* What links, removals and synchronization make of a directory.
LEMMA DirectorySteps ==
  ASSUME NEW E, NEW dir \in Directory(E), NEW removed, NEW e \in E
  PROVE  /\ Link(dir, e) \in Directory(E)
         /\ Link(dir, e).linked = dir.linked \cup {e} /\ Link(dir, e).durable = dir.durable
         /\ Unlink(dir, removed) \in Directory(E)
         /\ Unlink(dir, removed).linked = dir.linked \ removed
         /\ Unlink(dir, removed).durable = dir.durable
BY DEF Directory, Link, Unlink

\* What a synchronization makes of a directory.
LEMMA DirectorySynced ==
  ASSUME NEW E, NEW dir \in Directory(E)
  PROVE  /\ SyncDirectory(dir) \in Directory(E)
         /\ SyncDirectory(dir).linked = dir.linked /\ SyncDirectory(dir).durable = dir.linked
BY DEF Directory, SyncDirectory

\* The snapshots, before one is written and when the database is opened.
LEMMA TempRemoved ==
  ASSUME NEW dir \in Directory(ShotEntry)
  PROVE  /\ WithoutTemp(dir) \in Directory(ShotEntry)
         /\ WithoutTemp(dir).linked = dir.linked \ {TempSnapshot}
         /\ \/ WithoutTemp(dir).durable = WithoutTemp(dir).linked
            \/ WithoutTemp(dir).durable = dir.durable /\ WithoutTemp(dir).linked = dir.linked
<1> DEFINE rest == Unlink(dir, {TempSnapshot})
<1>1. TempSnapshot \in ShotEntry
  BY DEF ShotEntry
<1>2. rest \in Directory(ShotEntry) /\ rest.linked = dir.linked \ {TempSnapshot}
  BY <1>1, DirectorySteps
<1>3. /\ SyncDirectory(rest) \in Directory(ShotEntry)
      /\ SyncDirectory(rest).linked = rest.linked /\ SyncDirectory(rest).durable = rest.linked
  BY <1>2, DirectorySynced
<1> HIDE DEF rest
<1> QED BY <1>2, <1>3 DEF WithoutTemp, rest

\* What a loss of power may leave of a directory.
LEMMA RemnantsAre ==
  ASSUME NEW E, NEW dir \in Directory(E), NEW left \in Remnants(dir)
  PROVE  /\ left \in Directory(E) /\ left.durable = left.linked
         /\ dir.linked \cap dir.durable \subseteq left.linked
         /\ left.linked \subseteq dir.linked \cup dir.durable
<1>1. PICK d \in SUBSET SymDiff(dir.linked, dir.durable) :
        left = [linked |-> (dir.linked \cap dir.durable) \cup d,
                durable |-> (dir.linked \cap dir.durable) \cup d]
  BY DEF Remnants
<1>2. d \subseteq dir.linked \cup dir.durable
  BY DEF SymDiff
<1>3. dir.linked \subseteq E /\ dir.durable \subseteq E
  BY DEF Directory
<1> QED BY <1>1, <1>2, <1>3 DEF Directory

\* What a loss of power may leave of a segment.
LEMMA SurvivorsAre ==
  ASSUME NEW s, s.records \in Log, s.synced \in 0 .. Len(s.records), s.torn \in BOOLEAN,
         NEW r \in Survivors(s)
  PROVE  /\ r.records \in Log /\ r.torn \in BOOLEAN
         /\ r.synced = Len(r.records) /\ s.synced <= r.synced /\ r.synced <= Len(s.records)
         /\ r.records = SubSeq(s.records, 1, r.synced)
         /\ r.torn => s.torn \/ r.synced < Len(s.records)
<1>1. PICK k \in s.synced .. Len(s.records), t \in BOOLEAN :
        /\ r = [records |-> SubSeq(s.records, 1, k), synced |-> k, torn |-> t]
        /\ r.torn => s.torn \/ r.synced < Len(s.records)
  BY DEF Survivors
<1>2. s.records \in Seq(Value) /\ Len(s.records) <= MaxRecord /\ Len(s.records) \in Nat
  BY LogIsSeq
<1>3. k \in Nat /\ k <= Len(s.records)
  BY <1>2
<1>4. SubSeq(s.records, 1, k) \in Seq(Value) /\ Len(SubSeq(s.records, 1, k)) = k
  <2>1. \A i \in 1 .. k : s.records[i] \in Value
    BY <1>2, <1>3
  <2> QED BY <2>1, <1>3, SubSeqProperties
<1>5. SubSeq(s.records, 1, k) \in Log
  <2> DEFINE part == SubSeq(s.records, 1, k)
  <2>1. Len(part) <= MaxRecord
    BY <1>2, <1>3, <1>4, FileStoreConstants
  <2>2. part \in Seq(Value)
    BY <1>4
  <2> HIDE DEF part
  <2>3. part \in Log
    BY <2>1, <2>2, LogIsSeq
  <2> QED BY <2>3 DEF part
<1> QED BY <1>1, <1>3, <1>4, <1>5

-----------------------------------------------------------------------------
(* What open finds.                                                         *)

\* The file of a segment.
LEMMA SegmentIs ==
  ASSUME FTypeOK, NEW n \in Name
  PROVE  /\ segments[n].records \in Log /\ segments[n].records \in Seq(Value)
         /\ Len(segments[n].records) \in Nat
         /\ segments[n].synced \in Nat /\ segments[n].synced <= Len(segments[n].records)
         /\ segments[n].torn \in BOOLEAN
         /\ After(n) \in Nat /\ n <= After(n) /\ After(n) <= MaxRecord + 1
         /\ After(n) = n + Len(segments[n].records) /\ n \in Nat
<1>1. segments[n] \in SegmentFile
  BY DEF FTypeOK
<1>2. segments[n].records \in Log /\ segments[n].synced \in Nat /\ segments[n].torn \in BOOLEAN
  BY <1>1, NamesAre DEF SegmentFile
<1>3. segments[n].records \in Seq(Value) /\ Len(segments[n].records) \in Nat
  BY <1>2, LogIsSeq
<1>4. segments[n].synced <= Len(segments[n].records) /\ After(n) <= MaxRecord + 1
  BY DEF FTypeOK
<1>5. n \in Nat
  BY NamesAre
<1> QED BY <1>2, <1>3, <1>4, <1>5 DEF After

\* The anchor is the latest snapshot, or the empty state.
LEMMA AnchorIs ==
  /\ Anchor \in Watermark
  /\ Anchor = 0 \/ Anchor \in Latest
  /\ \A w \in Latest : w <= Anchor
<1>1. MaxRecord \in Nat
  BY FileStoreConstants
<1> DEFINE marks == {0} \cup Latest
<1>2. /\ marks # {}
      /\ \A w \in marks : w \in Nat /\ w <= MaxRecord
  BY <1>1 DEF Latest, Watermark
<1> HIDE DEF marks
<1>3. Max(marks) \in marks /\ \A w \in marks : w <= Max(marks)
  BY <1>1, <1>2, MaxIs
<1>4. Anchor = Max(marks)
  BY DEF Anchor, marks
<1>5. Latest \subseteq Watermark /\ 0 \in Watermark
  BY <1>1 DEF Latest, Watermark
<1> QED BY <1>3, <1>4, <1>5 DEF marks

\* Segments have a first and a last one.
LEMMA SegmentsEnd ==
  ASSUME NEW S \in SUBSET Name, S # {}
  PROVE  /\ Max(S) \in S /\ \A n \in S : n <= Max(S)
         /\ Min(S) \in S /\ \A n \in S : Min(S) <= n
<1>1. MaxRecord \in Nat /\ S \in SUBSET Nat /\ \A n \in S : n \in Nat /\ n <= MaxRecord
  BY FileStoreConstants DEF Name
<1>2. Max(S) \in S /\ \A n \in S : n <= Max(S)
  BY <1>1, MaxIs
<1>3. Min(S) \in S /\ \A n \in S : Min(S) <= n
  BY <1>1, MinIs
<1> QED BY <1>2, <1>3

\* The snapshots that are linked, or would be after a loss of power, hold as many
\* records as their names say.
SnapshotsHold ==
  /\ contents[0] = <<>>
  /\ \A w \in Watermark :
       Snapshot(w) \in shots.linked \cup shots.durable => Len(contents[w]) = w

\* The segments after the anchor, when open accepts them.
LEMMA AcceptedSuffix ==
  ASSUME FTypeOK, CanOpen, Anchor # MaxRecord
  PROVE  /\ Suffix \subseteq Name /\ Max(Suffix) \in Suffix /\ Min(Suffix) = Anchor + 1
         /\ \A n \in Suffix : /\ Anchor + 1 <= n /\ n <= Max(Suffix)
                              /\ After(n) \in Nat /\ n <= After(n)
         /\ \A n \in Suffix : n # Max(Suffix) =>
              /\ ~segments[n].torn /\ After(n) \in Suffix /\ n < After(n)
              /\ \A k \in Suffix : n < k => After(n) <= k
<1>1. Suffix \subseteq Name /\ Suffix # {} /\ Min(Suffix) = Anchor + 1 /\ Contiguous(Suffix)
  BY DEF CanOpen, Accepted, Suffix, Linked
<1>2. /\ Max(Suffix) \in Suffix /\ \A n \in Suffix : n <= Max(Suffix)
      /\ Min(Suffix) \in Suffix /\ \A n \in Suffix : Min(Suffix) <= n
  BY <1>1, SegmentsEnd
<1>3. ASSUME NEW n \in Suffix PROVE After(n) \in Nat /\ n <= After(n)
  BY <1>1, <1>3, SegmentIs
<1>4. ASSUME NEW n \in Suffix, n # Max(Suffix)
      PROVE  /\ ~segments[n].torn /\ After(n) \in Suffix /\ n < After(n)
             /\ \A k \in Suffix : n < k => After(n) <= k
  <2> DEFINE later == {s \in Suffix : s > n}
  <2>1. ~segments[n].torn /\ After(n) = Min(later)
    BY <1>1, <1>4 DEF Contiguous
  <2>2. n < Max(Suffix)
    <3>1. Name \subseteq Nat
      BY DEF Name
    <3>2. n \in Nat /\ Max(Suffix) \in Nat /\ n <= Max(Suffix)
      BY <3>1, <1>1, <1>2
    <3> QED BY <3>2, <1>4
  <2>3. later \in SUBSET Name /\ later # {}
    BY <1>1, <1>2, <2>2
  <2>4. Min(later) \in later /\ \A k \in later : Min(later) <= k
    BY <2>3, SegmentsEnd
  <2> QED BY <2>1, <2>4
<1> QED BY <1>1, <1>2, <1>3, <1>4

\* Every record after the anchor is in the last segment that begins before it.
LEMMA RecordIsSomewhere ==
  ASSUME FTypeOK, CanOpen, Anchor # MaxRecord,
         NEW i \in Nat, Anchor < i, i < After(Max(Suffix))
  PROVE  \E n \in Suffix : n <= i /\ i < After(n)
<1>1. /\ Suffix \subseteq Name /\ Max(Suffix) \in Suffix /\ Anchor + 1 \in Suffix
      /\ \A n \in Suffix : n # Max(Suffix) =>
           After(n) \in Suffix /\ n < After(n) /\ After(n) \in Nat
  <2>1. Min(Suffix) \in Suffix
    BY AcceptedSuffix, SegmentsEnd
  <2> QED BY <2>1, AcceptedSuffix
<1>2. Anchor \in Nat
  BY AnchorIs DEF Watermark
<1> DEFINE early == {n \in Suffix : n <= i}
<1>3. early \in SUBSET Name /\ early # {}
  BY <1>1, <1>2
<1>4. Max(early) \in early /\ \A n \in early : n <= Max(early)
  BY <1>3, SegmentsEnd
<1>5. CASE Max(early) = Max(Suffix)
  BY <1>4, <1>5
<1>6. CASE Max(early) # Max(Suffix)
  <2>1. After(Max(early)) \in Suffix /\ Max(early) < After(Max(early)) /\ After(Max(early)) \in Nat
    BY <1>1, <1>4, <1>6
  <2>2. Max(early) \in Nat
    BY <1>3, <1>4 DEF Name
  <2>3. After(Max(early)) \notin early
    BY <1>4, <2>1, <2>2
  <2> QED BY <1>4, <2>1, <2>3
<1> QED BY <1>5, <1>6

\* The records after the anchor end where the last segment ends.
LEMMA LastRecord ==
  ASSUME FTypeOK, CanOpen, Anchor # MaxRecord
  PROVE  Max({After(n) : n \in Suffix}) = After(Max(Suffix))
<1> DEFINE ends == {After(n) : n \in Suffix}
           last == Max(Suffix)
<1>1. /\ last \in Suffix /\ last \in Name
      /\ \A n \in Suffix : After(n) \in Nat /\ n <= last
      /\ \A n \in Suffix : n # last => After(n) \in Suffix
      /\ last <= After(last)
  BY AcceptedSuffix
<1>2. \A n \in Suffix : After(n) <= After(last)
  BY <1>1, FileStoreConstants DEF Name
<1> HIDE DEF last
<1>3. ends # {} /\ \A x \in ends : x \in Nat /\ x <= After(last)
  BY <1>1, <1>2
<1>4. After(last) \in Nat /\ After(last) \in ends
  BY <1>1
<1> HIDE DEF ends
<1>5. Max(ends) \in ends /\ \A y \in ends : y <= Max(ends)
  BY <1>3, <1>4, MaxIs
<1>6. Max(ends) = After(last)
  BY <1>3, <1>4, <1>5
<1> QED BY <1>6 DEF ends, last

\* What open recovers when there are records after the anchor: the snapshot, and then
\* each record from a segment that holds it.
LEMMA RecoveredRecords ==
  ASSUME FTypeOK, CanOpen, Anchor # MaxRecord, Len(contents[Anchor]) = Anchor
  PROVE  /\ RecoveredLog \in Seq(Value) /\ Len(RecoveredLog) = After(Max(Suffix)) - 1
         /\ Anchor <= Len(RecoveredLog) /\ Len(RecoveredLog) <= MaxRecord
         /\ \A i \in 1 .. Anchor : RecoveredLog[i] = contents[Anchor][i]
         /\ \A i \in Nat : Anchor < i /\ i <= Len(RecoveredLog) =>
              \E n \in Suffix : /\ n <= i /\ i < After(n)
                                /\ RecoveredLog[i] = segments[n].records[i - n + 1]
<1> DEFINE snapshot == contents[Anchor]
           last == Max(Suffix)
           next == Max({After(n) : n \in Suffix})
           Record(i) ==
             LET n == CHOOSE n \in Suffix : n <= i /\ i < After(n) IN segments[n].records[i - n + 1]
           rest == [k \in 1 .. next - 1 - Anchor |-> Record(Anchor + k)]
<1>1. /\ Anchor \in Watermark /\ Anchor \in Nat /\ Anchor <= MaxRecord /\ MaxRecord \in Nat
      /\ snapshot \in Seq(Value) /\ Len(snapshot) = Anchor
  <2>1. Anchor \in Watermark /\ Anchor \in Nat /\ Anchor <= MaxRecord /\ MaxRecord \in Nat
    BY AnchorIs, NamesAre
  <2>2. snapshot \in Seq(Value)
    BY <2>1, LogIsSeq DEF FTypeOK
  <2> QED BY <2>1, <2>2
<1>2. last \in Suffix /\ last \in Name /\ last \in Linked
  <2>1. Suffix \subseteq Name /\ Suffix \subseteq Linked /\ Suffix # {}
    BY DEF CanOpen, Accepted, Suffix, Linked
  <2> QED BY <2>1, SegmentsEnd
<1>3. RecoveredLog = snapshot \o rest
  <2>1. root = "Manifest" /\ Anchor < MaxRecord /\ Accepted(Anchor, Suffix)
    BY <1>1 DEF CanOpen
  <2> QED BY <2>1 DEF RecoveredLog
<1>4. /\ next = After(last) /\ After(last) \in Nat /\ Anchor + 1 <= After(last)
      /\ After(last) <= MaxRecord + 1
  <2>1. next = After(last)
    BY LastRecord
  <2>2. After(last) \in Nat /\ Anchor + 1 <= last /\ last <= After(last)
    BY <1>2, AcceptedSuffix
  <2>3. After(last) <= MaxRecord + 1
    BY <1>2 DEF FTypeOK
  <2>4. last \in Nat
    BY <1>2 DEF Name
  <2> HIDE DEF last, next
  <2> QED BY <2>1, <2>2, <2>3, <2>4, <1>1
<1> DEFINE item == [i \in Nat |-> Record(i)]
<1>5. ASSUME NEW i \in Nat, Anchor < i, i < After(last)
      PROVE  /\ item[i] \in Value
             /\ \E n \in Suffix : /\ n <= i /\ i < After(n)
                                  /\ item[i] = segments[n].records[i - n + 1]
  <2>1. \E n \in Suffix : n <= i /\ i < After(n)
    BY <1>5, RecordIsSomewhere
  <2> DEFINE n == CHOOSE n \in Suffix : n <= i /\ i < After(n)
  <2>2. n \in Suffix /\ n <= i /\ i < After(n)
    BY <2>1
  <2>3. item[i] = segments[n].records[i - n + 1]
    OBVIOUS
  <2> HIDE DEF n, item
  <2>4. n \in Name /\ n \in Nat
    BY <2>2 DEF Suffix, Linked, Name
  <2>5. segments[n].records \in Seq(Value)
    BY <2>4, SegmentIs
  <2>6. i - n + 1 \in 1 .. Len(segments[n].records)
    BY <2>2, <2>4, <2>5 DEF After
  <2>7. segments[n].records[i - n + 1] \in Value
    BY <2>5, <2>6
  <2> QED BY <2>2, <2>3, <2>7
<1>6. next - 1 - Anchor \in Nat
  BY <1>4, <1>1
<1>7. rest \in Seq(Value) /\ Len(rest) = next - 1 - Anchor
      /\ \A k \in 1 .. next - 1 - Anchor : rest[k] = item[Anchor + k]
  <2>1. ASSUME NEW k \in 1 .. next - 1 - Anchor
        PROVE  rest[k] = item[Anchor + k] /\ item[Anchor + k] \in Value
    <3>1. Anchor + k \in Nat /\ Anchor < Anchor + k /\ Anchor + k < After(last)
      <4> HIDE DEF last, next
      <4> QED BY <2>1, <1>4, <1>1
    <3>2. rest[k] = Record(Anchor + k) /\ item[Anchor + k] = Record(Anchor + k)
      BY <3>1, <2>1
    <3> HIDE DEF item, rest, last
    <3>3. item[Anchor + k] \in Value
      BY <3>1, <1>5
    <3> QED BY <3>2, <3>3
  <2>2. rest = [k \in 1 .. next - 1 - Anchor |-> item[Anchor + k]]
    BY <2>1
  <2> HIDE DEF rest, next, item
  <2> DEFINE m == next - 1 - Anchor
  <2>4. m \in Nat /\ rest \in [1 .. m -> Value]
    BY <1>6, <2>1, <2>2
  <2> HIDE DEF m
  <2>5. rest \in Seq(Value) /\ Len(rest) = m
    BY <2>4
  <2> QED BY <2>1, <2>5 DEF m
<1> HIDE DEF item, rest, next, last, snapshot
<1>8. /\ RecoveredLog \in Seq(Value) /\ Len(RecoveredLog) = Anchor + (next - 1 - Anchor)
      /\ \A i \in 1 .. Anchor : RecoveredLog[i] = snapshot[i]
      /\ \A k \in 1 .. next - 1 - Anchor : RecoveredLog[Anchor + k] = rest[k]
  <2>1. /\ snapshot \o rest \in Seq(Value) /\ Len(snapshot \o rest) = Len(snapshot) + Len(rest)
        /\ \A i \in 1 .. Len(snapshot) + Len(rest) :
             (snapshot \o rest)[i] = IF i <= Len(snapshot) THEN snapshot[i]
                                     ELSE rest[i - Len(snapshot)]
    <3>1. snapshot \in Seq(Value) /\ rest \in Seq(Value)
      BY <1>1, <1>7
    <3> QED BY <3>1, ConcatProperties
  <2>2. \A i \in 1 .. Anchor : RecoveredLog[i] = snapshot[i]
    BY <1>1, <1>3, <1>6, <1>7, <2>1
  <2>3. ASSUME NEW k \in 1 .. next - 1 - Anchor PROVE RecoveredLog[Anchor + k] = rest[k]
    <3> DEFINE i == Anchor + k
    <3>1. i \in 1 .. Len(snapshot) + Len(rest) /\ ~(i <= Len(snapshot)) /\ i - Len(snapshot) = k
      BY <1>1, <1>6, <1>7
    <3> HIDE DEF i
    <3>2. RecoveredLog[i] = rest[k]
      BY <2>1, <3>1, <1>3
    <3> QED BY <3>2 DEF i
  <2> QED BY <2>1, <2>2, <2>3, <1>1, <1>3, <1>7
<1>9. /\ Len(RecoveredLog) = After(last) - 1 /\ Anchor <= Len(RecoveredLog)
      /\ Len(RecoveredLog) <= MaxRecord
  BY <1>8, <1>6, <1>4, <1>1
<1>10. ASSUME NEW i \in Nat, Anchor < i, i <= Len(RecoveredLog)
       PROVE  \E n \in Suffix : /\ n <= i /\ i < After(n)
                                /\ RecoveredLog[i] = segments[n].records[i - n + 1]
  <2> DEFINE k == i - Anchor
  <2>1. k \in 1 .. next - 1 - Anchor /\ Anchor + k = i
    BY <1>10, <1>9, <1>4, <1>1
  <2> HIDE DEF k
  <2>2. RecoveredLog[i] = item[i]
    BY <2>1, <1>7, <1>8
  <2>3. i < After(last)
    BY <1>9, <1>4, <1>10
  <2> QED BY <2>2, <2>3, <1>5, <1>10
<1> QED BY <1>8, <1>9, <1>10 DEF last, snapshot

\* Opening a directory recovers a log, which the next record of the last segment
\* continues.
LEMMA RecoveredIsTyped ==
  ASSUME FTypeOK, SnapshotsHold, CanOpen
  PROVE  /\ RecoveredLog \in Log /\ Max(Suffix) \in Suffix /\ Max(Suffix) \in Name
         /\ Max(Suffix) \in Linked
         /\ Len(contents[Anchor]) = Anchor
         /\ Anchor = MaxRecord => RecoveredLog = contents[Anchor]
         /\ Len(RecoveredLog) < MaxRecord => After(Max(Suffix)) = Len(RecoveredLog) + 1
<1>1. /\ Anchor \in Watermark /\ Anchor \in Nat /\ MaxRecord \in Nat
      /\ contents[Anchor] \in Seq(Value) /\ Len(contents[Anchor]) = Anchor
  <2>1. Anchor \in Watermark /\ Anchor \in Nat /\ MaxRecord \in Nat
    BY AnchorIs, NamesAre
  <2>2. contents[Anchor] \in Seq(Value)
    BY <2>1, LogIsSeq DEF FTypeOK
  <2>3. Len(contents[Anchor]) = Anchor
    <3>1. CASE Anchor = 0
      BY <3>1 DEF SnapshotsHold
    <3>2. CASE Anchor \in Latest
      BY <3>2, <2>1 DEF SnapshotsHold, Latest
    <3> QED BY <3>1, <3>2, AnchorIs
  <2> QED BY <2>1, <2>2, <2>3
<1>2. Max(Suffix) \in Suffix /\ Max(Suffix) \in Name /\ Max(Suffix) \in Linked
  <2>1. Suffix \subseteq Name /\ Suffix \subseteq Linked /\ Suffix # {}
    BY DEF CanOpen, Accepted, Suffix, Linked
  <2> QED BY <2>1, SegmentsEnd
<1>3. CASE Anchor = MaxRecord
  <2>1. RecoveredLog = contents[Anchor] \o <<>>
    BY <1>3, <1>1 DEF RecoveredLog
  <2>2. RecoveredLog = contents[Anchor]
    BY <2>1, <1>1, ConcatEmptySeq
  <2>3. RecoveredLog \in Log /\ Len(RecoveredLog) = MaxRecord
    BY <2>2, <1>1, <1>3, LogIsSeq
  <2> QED BY <2>2, <2>3, <1>1, <1>2
<1>4. CASE Anchor # MaxRecord
  <2>1. /\ RecoveredLog \in Seq(Value) /\ Len(RecoveredLog) = After(Max(Suffix)) - 1
        /\ Len(RecoveredLog) <= MaxRecord
    BY <1>1, <1>4, RecoveredRecords
  <2>2. RecoveredLog \in Log
    BY <2>1, LogIsSeq
  <2>3. After(Max(Suffix)) \in Nat
    BY <1>2, SegmentIs
  <2>4. After(Max(Suffix)) = Len(RecoveredLog) + 1
    BY <2>1, <2>3
  <2> QED BY <2>2, <2>4, <1>1, <1>2, <1>4
<1> QED BY <1>3, <1>4

-----------------------------------------------------------------------------
(* The inductive invariant of the types.                                    *)

\* The database is being created, or its creation did not get as far as the manifest.
Unused == root # "Manifest" \/ call = "Create"

\* A database being created holds nothing.
UnusedInv ==
  /\ root # "Manifest" => wal = NoEntries /\ phase \in {"Down", "WriteManifest"}
  /\ Unused =>
       /\ visible = <<>> /\ active = 1 /\ ~poisoned
       /\ shots = NoEntries
       /\ Linked = IF phase = "SyncSegment" THEN {1} ELSE {}
       /\ \A w \in Watermark : contents[w] = <<>>
       /\ \A n \in Name : segments[n] = EmptySegment

CallPhases ==
  [None     |-> {"Down", "Idle"},
   Create   |-> {"WriteManifest", "CreateTemp", "LinkSegment", "SyncSegment"},
   Append   |-> {"CreateTemp", "LinkSegment", "SyncSegment", "Write", "Persist", "Publish"},
   Snapshot |-> {"CreateTemp", "LinkSegment", "SyncSegment", "WriteSnapshot", "InstallSnapshot",
                 "SyncSnapshot", "RemoveCovered", "RemoveOlder", "Compacted"},
   Open     |-> {"Recover", "RemoveObsolete", "SyncTrimmed"}]

\* Each call has steps of its own; there is room for what it appends or creates.
CallInv ==
  /\ phase \in CallPhases[call]
  /\ phase # "Idle" => ~poisoned
  /\ phase = "Down" => active = 1
  /\ phase \in {"CreateTemp", "LinkSegment", "SyncSegment"} => Len(visible) < MaxRecord
  /\ IF call = "Append" THEN Len(batch) > 0 /\ Len(visible) + Len(batch) <= MaxRecord
     ELSE batch = <<>>

\* A process that serves the database.
Serving == phase # "Down" /\ call \notin {"Create", "Open"}

\* The active segment is in place, and the next record goes to its end.
ActiveInv ==
  Serving =>
    /\ Segment(active) \in wal.linked
    /\ Len(visible) < MaxRecord /\ ~poisoned =>
         After(active) = Len(visible) + 1 + IF phase \in {"Persist", "Publish"} THEN Len(batch) ELSE 0

\* A segment that was linked is empty until it is active.
FreshInv ==
  phase = "SyncSegment" =>
    Segment(NextRecord) \in wal.linked /\ segments[NextRecord] = EmptySegment

\* What open accepted it accepts until it returns.
OpeningInv == phase \in {"RemoveObsolete", "SyncTrimmed"} => CanOpen

\* How far create_snapshot has come.
CompactingInv ==
  /\ phase \in {"SyncSnapshot", "RemoveCovered", "RemoveOlder", "Compacted"} =>
       Snapshot(Len(visible)) \in shots.linked
  /\ phase \in {"RemoveOlder", "Compacted"} =>
       wal.linked = {Segment(active)} /\ wal.durable = wal.linked
  /\ phase = "Compacted" =>
       shots.linked = {Snapshot(Len(visible))} /\ shots.durable = shots.linked

StoreInv ==
  /\ FTypeOK /\ UnusedInv /\ SnapshotsHold
  /\ CallInv /\ ActiveInv /\ FreshInv /\ OpeningInv /\ CompactingInv

\* The next record sequence, and the watermark of the published state.
LEMMA NextRecordIs ==
  ASSUME FTypeOK
  PROVE  /\ Len(visible) \in Nat /\ Len(visible) <= MaxRecord /\ Len(visible) \in Watermark
         /\ visible \in Seq(Value) /\ batch \in Seq(Value) /\ Len(batch) \in Nat
         /\ NextRecord = Len(visible) + 1 /\ NextRecord \in Nat
         /\ Len(visible) < MaxRecord => NextRecord \in Name
         /\ MaxRecord \in Nat /\ active \in Name
<1>1. visible \in Seq(Value) /\ Len(visible) <= MaxRecord /\ batch \in Seq(Value)
  BY LogIsSeq DEF FTypeOK
<1> QED BY <1>1, FileStoreConstants DEF NextRecord, Watermark, Name, FTypeOK

\* The step tells the call.
LEMMA CallIs ==
  ASSUME FTypeOK, CallInv
  PROVE  /\ phase \in {"Down", "Idle"} => call = "None"
         /\ phase = "WriteManifest" => call = "Create"
         /\ phase \in {"CreateTemp", "LinkSegment", "SyncSegment"} =>
              call \in {"Create", "Append", "Snapshot"}
         /\ phase \in {"Write", "Persist", "Publish"} => call = "Append"
         /\ phase \in {"WriteSnapshot", "InstallSnapshot", "SyncSnapshot", "RemoveCovered",
                       "RemoveOlder", "Compacted"} => call = "Snapshot"
         /\ phase \in {"Recover", "RemoveObsolete", "SyncTrimmed"} => call = "Open"
         /\ call = "None" => phase \in {"Down", "Idle"}
         /\ call = "Open" => phase \in {"Recover", "RemoveObsolete", "SyncTrimmed"}
BY DEF FTypeOK, CallInv, CallPhases

\* A segment begins without records.
LEMMA EmptySegmentIs ==
  /\ <<>> \in Log
  /\ EmptySegment.records \in Log /\ EmptySegment.records = <<>>
  /\ EmptySegment.synced = 0 /\ EmptySegment.torn \in BOOLEAN /\ ~EmptySegment.torn
  /\ Len(EmptySegment.records) = 0
  /\ EmptySegment \in SegmentFile
<1> DEFINE empty == <<>>
<1>1. empty \in Seq(Value) /\ Len(empty) = 0
  BY EmptySeq
<1>2. /\ EmptySegment.records = empty
      /\ EmptySegment.synced = 0 /\ EmptySegment.torn \in BOOLEAN /\ ~EmptySegment.torn
  BY DEF EmptySegment
<1> HIDE DEF empty
<1>3. empty \in Log
  <2>1. Len(empty) <= MaxRecord
    BY <1>1, NamesAre
  <2> QED BY <1>1, <2>1, LogIsSeq
<1>4. EmptySegment \in SegmentFile
  BY <1>3, NamesAre DEF EmptySegment, SegmentFile, empty
<1> QED BY <1>1, <1>2, <1>3, <1>4 DEF empty

\* The initial state.
LEMMA StoreStarts ==
  FInit => StoreInv
<1> SUFFICES ASSUME FInit PROVE StoreInv
  OBVIOUS
<1>1. MaxRecord \in Nat /\ MaxRecord > 0
  BY FileStoreConstants
<1>2. <<>> \in Log
  BY EmptySegmentIs
<1>3. \A n \in Name : segments[n].records = <<>> /\ After(n) = n /\ n \in Nat /\ n <= MaxRecord
  BY <1>1 DEF FInit, EmptySegment, After, Name
<1>4. FTypeOK
  <2>1. wal \in Directory(WalEntry) /\ shots \in Directory(ShotEntry)
    BY DEF FInit, NoEntries, Directory
  <2>2. segments \in [Name -> SegmentFile] /\ EmptySegment.synced <= Len(EmptySegment.records)
    BY EmptySegmentIs DEF FInit
  <2>3. \A n \in Name : After(n) <= MaxRecord + 1 /\ segments[n].synced <= Len(segments[n].records)
    <3> SUFFICES ASSUME NEW n \in Name
                 PROVE  After(n) <= MaxRecord + 1 /\ segments[n].synced <= Len(segments[n].records)
      OBVIOUS
    <3>1. segments[n] = EmptySegment
      BY DEF FInit
    <3>2. After(n) <= MaxRecord + 1
      BY <1>3, NamesAre
    <3> QED BY <3>1, <3>2, <2>2
  <2>4. contents \in [Watermark -> Log]
    BY <1>2 DEF FInit
  <2>5. active \in Name
    BY <1>1 DEF FInit, Name
  <2> QED BY <1>2, <2>1, <2>2, <2>3, <2>4, <2>5 DEF FInit, FTypeOK, Step
<1>5. UnusedInv /\ SnapshotsHold
  BY <1>1 DEF FInit, UnusedInv, SnapshotsHold, Unused, NoEntries, Linked, Watermark
<1>6. CallInv /\ ActiveInv /\ FreshInv /\ OpeningInv /\ CompactingInv
  BY DEF FInit, CallInv, ActiveInv, FreshInv, OpeningInv, CompactingInv, CallPhases, Serving
<1> QED BY <1>4, <1>5, <1>6 DEF StoreInv

-----------------------------------------------------------------------------
(* Each step keeps the invariant.                                           *)

\* Creation begins with nothing.
LEMMA CreateKeeps ==
  ASSUME StoreInv, Create
  PROVE  StoreInv'
<1> USE DEF StoreInv
<1>1. FTypeOK'
  BY DEF Create, FTypeOK, Step, After
<1>2. UnusedInv'
  BY DEF Create, UnusedInv, Unused, Linked
<1>3. SnapshotsHold' /\ CallInv'
  BY DEF Create, SnapshotsHold, CallInv, CallPhases
<1>4. ActiveInv' /\ FreshInv' /\ OpeningInv' /\ CompactingInv'
  BY DEF Create, ActiveInv, FreshInv, OpeningInv, CompactingInv, Serving
<1> QED BY <1>1, <1>2, <1>3, <1>4

\* The manifest is written to an empty database.
LEMMA WriteManifestKeeps ==
  ASSUME StoreInv, WriteManifest
  PROVE  StoreInv'
<1> USE DEF StoreInv
<1>1. FTypeOK'
  BY DEF WriteManifest, Continue, FTypeOK, Step, After
<1>2. call = "Create" /\ Unused
  BY DEF WriteManifest, CallInv, CallPhases, FTypeOK, Unused
<1>3. UnusedInv'
  BY <1>2 DEF WriteManifest, Continue, UnusedInv, Unused, Linked
<1>4. SnapshotsHold'
  BY DEF WriteManifest, Continue, SnapshotsHold
<1>5. CallInv'
  <2>1. Len(visible) < MaxRecord
    BY <1>2, FileStoreConstants, EmptySegmentIs DEF UnusedInv
  <2> QED BY <1>2, <2>1 DEF WriteManifest, Continue, CallInv, CallPhases
<1>6. ActiveInv' /\ FreshInv' /\ OpeningInv' /\ CompactingInv'
  BY <1>2 DEF WriteManifest, Continue, ActiveInv, FreshInv, OpeningInv, CompactingInv, Serving
<1> QED BY <1>1, <1>3, <1>4, <1>5, <1>6

\* There is a next record to name the temporary segment for.
LEMMA CreateTempKeeps ==
  ASSUME StoreInv, CreateTemp
  PROVE  StoreInv'
<1> USE DEF StoreInv
<1> DEFINE temp == TempSegment(NextRecord)
<1>1. call \in {"Create", "Append", "Snapshot"} /\ Len(visible) < MaxRecord
  BY DEF CreateTemp, CallInv, CallPhases, FTypeOK
<1>2. NextRecord \in Name /\ temp \in WalEntry
  BY <1>1, NextRecordIs DEF WalEntry
<1>3. wal' \in Directory(WalEntry) /\ wal'.linked = wal.linked \cup {temp}
  <2>1. wal \in Directory(WalEntry) /\ wal' = Link(wal, temp)
    BY DEF CreateTemp, FTypeOK
  <2> HIDE DEF temp
  <2> QED BY <1>2, <2>1, DirectorySteps
<1>4. FTypeOK'
  BY <1>3 DEF CreateTemp, Continue, FTypeOK, Step, After
<1>5. UnusedInv'
  <2>1. Linked' = Linked
    BY <1>3, EntriesDiffer DEF Linked
  <2> QED BY <2>1 DEF CreateTemp, Continue, UnusedInv, Unused
<1>6. SnapshotsHold' /\ CallInv'
  BY <1>1 DEF CreateTemp, Continue, SnapshotsHold, CallInv, CallPhases
<1>7. ActiveInv'
  BY <1>3 DEF CreateTemp, Continue, ActiveInv, Serving, After
<1>8. FreshInv' /\ OpeningInv' /\ CompactingInv'
  BY DEF CreateTemp, Continue, FreshInv, OpeningInv, CompactingInv
<1> QED BY <1>4, <1>5, <1>6, <1>7, <1>8

\* One segment is replaced.
LEMMA SegmentReplaced ==
  ASSUME FTypeOK, NEW m \in Name, NEW s \in SegmentFile,
         m + Len(s.records) <= MaxRecord + 1, s.synced <= Len(s.records),
         segments' = [segments EXCEPT ![m] = s]
  PROVE  /\ segments' \in [Name -> SegmentFile] /\ segments'[m] = s
         /\ After(m)' = m + Len(s.records)
         /\ \A n \in Name : n # m => segments'[n] = segments[n] /\ After(n)' = After(n)
         /\ \A n \in Name : After(n)' <= MaxRecord + 1
                            /\ segments'[n].synced <= Len(segments'[n].records)
<1>1. segments \in [Name -> SegmentFile]
  BY DEF FTypeOK
<1>2. /\ segments' \in [Name -> SegmentFile] /\ segments'[m] = s
      /\ \A n \in Name : n # m => segments'[n] = segments[n]
  BY <1>1
<1>3. /\ After(m)' = m + Len(s.records)
      /\ \A n \in Name : n # m => After(n)' = After(n)
  BY <1>2 DEF After
<1>4. ASSUME NEW n \in Name
      PROVE  After(n)' <= MaxRecord + 1 /\ segments'[n].synced <= Len(segments'[n].records)
  <2>1. CASE n = m
    BY <2>1, <1>2, <1>3
  <2>2. CASE n # m
    BY <2>2, <1>2, <1>3, SegmentIs
  <2> QED BY <2>1, <2>2
<1> QED BY <1>2, <1>3, <1>4

\* The segment is linked and empty; so was the active one, if it has that name.
LEMMA LinkSegmentKeeps ==
  ASSUME StoreInv, LinkSegment
  PROVE  StoreInv'
<1> USE DEF StoreInv
<1> DEFINE temp == TempSegment(NextRecord)
           entry == Segment(NextRecord)
<1>1. call \in {"Create", "Append", "Snapshot"} /\ Len(visible) < MaxRecord
  BY DEF LinkSegment, CallInv, CallPhases, FTypeOK
<1>2. NextRecord \in Name /\ entry \in WalEntry /\ NextRecord = Len(visible) + 1
  BY <1>1, NextRecordIs DEF WalEntry
<1>3. /\ wal' \in Directory(WalEntry)
      /\ wal'.linked = (wal.linked \ {temp}) \cup {entry}
  <2>1. wal \in Directory(WalEntry) /\ wal' = Link(Unlink(wal, {temp}), entry)
    BY DEF LinkSegment, FTypeOK
  <2> DEFINE rest == Unlink(wal, {temp})
  <2> HIDE DEF temp, entry
  <2>2. rest \in Directory(WalEntry) /\ rest.linked = wal.linked \ {temp}
    BY <1>2, <2>1, DirectorySteps
  <2>3. wal' = Link(rest, entry)
    BY <2>1
  <2> HIDE DEF rest
  <2> QED BY <1>2, <2>2, <2>3, DirectorySteps
<1>4. /\ segments' \in [Name -> SegmentFile] /\ segments'[NextRecord] = EmptySegment
      /\ \A n \in Name : After(n)' = IF n = NextRecord THEN n ELSE After(n)
      /\ \A n \in Name : n # NextRecord => segments'[n] = segments[n]
      /\ \A n \in Name : After(n)' <= MaxRecord + 1
                         /\ segments'[n].synced <= Len(segments'[n].records)
  <2> DEFINE s == EmptySegment
  <2>1. PICK m \in Name : m = NextRecord
    BY <1>2
  <2>2. segments' = [segments EXCEPT ![m] = s]
    BY <2>1 DEF LinkSegment
  <2>3. m \in Nat /\ m <= MaxRecord /\ MaxRecord \in Nat
    BY NamesAre
  <2>4. s \in SegmentFile /\ Len(s.records) = 0 /\ s.synced <= Len(s.records)
    BY EmptySegmentIs
  <2> HIDE DEF s
  <2>5. m + Len(s.records) <= MaxRecord + 1 /\ m + Len(s.records) = m
    BY <2>3, <2>4
  <2>6. /\ segments' \in [Name -> SegmentFile] /\ segments'[m] = s
        /\ After(m)' = m
        /\ \A n \in Name : n # m => segments'[n] = segments[n] /\ After(n)' = After(n)
        /\ \A n \in Name : After(n)' <= MaxRecord + 1
                           /\ segments'[n].synced <= Len(segments'[n].records)
    BY <2>2, <2>4, <2>5, SegmentReplaced
  <2> QED BY <2>1, <2>6 DEF s
<1>5. /\ UNCHANGED <<root, shots, contents, call, active, batch, poisoned, visible>>
      /\ phase = "LinkSegment" /\ phase' = "SyncSegment" /\ NextRecord' = NextRecord
  BY DEF LinkSegment, Continue, NextRecord
<1>6. FTypeOK'
  BY <1>3, <1>4, <1>5 DEF FTypeOK, Step
<1>7. UnusedInv' /\ SnapshotsHold'
  <2>1. \A n \in Name : segments[n] = EmptySegment => segments'[n] = EmptySegment
    BY <1>4
  <2>2. ASSUME Unused PROVE Linked' = {1}
    <3>1. Linked = {} /\ visible = <<>>
      BY <1>5, <2>2 DEF UnusedInv
    <3>2. NextRecord = 1
      BY <3>1 DEF NextRecord
    <3>3. \A n \in Name : Segment(n) \in wal'.linked <=> n = 1
      BY <1>2, <1>3, <3>1, <3>2, EntriesDiffer DEF Linked
    <3> QED BY <3>3, NamesAre DEF Linked
  <2> QED BY <1>5, <2>1, <2>2 DEF UnusedInv, Unused, SnapshotsHold
<1>8. CallInv'
  BY <1>1, <1>5 DEF CallInv, CallPhases
<1>9. ActiveInv'
  <2>1. active \in Name
    BY DEF FTypeOK
  <2>2. Serving' => Serving
    BY <1>5 DEF Serving
  <2>3. Segment(active) \in wal.linked => Segment(active) \in wal'.linked
    BY <1>3, EntriesDiffer
  <2>4. After(active)' = IF active = NextRecord THEN NextRecord ELSE After(active)
    <3>1. PICK a \in Name : a = active
      BY <2>1
    <3>2. active' = a
      BY <1>5, <3>1
    <3>3. After(active)' = After(a)'
      BY <3>2 DEF After
    <3> QED BY <3>1, <3>3, <1>4
  <2> QED BY <1>2, <1>5, <2>1, <2>2, <2>3, <2>4, NextRecordIs DEF ActiveInv
<1>10. FreshInv' /\ OpeningInv' /\ CompactingInv'
  BY <1>3, <1>4, <1>5 DEF FreshInv, OpeningInv, CompactingInv
<1> QED BY <1>6, <1>7, <1>8, <1>9, <1>10

\* The new segment becomes the active one, and the call goes on.
LEMMA SyncSegmentKeeps ==
  ASSUME StoreInv, SyncSegment
  PROVE  StoreInv'
<1> USE DEF StoreInv
<1>1. /\ phase = "SyncSegment" /\ Len(visible) < MaxRecord
      /\ \/ call = "Create" /\ call' = "None" /\ phase' = "Idle"
         \/ call = "Append" /\ call' = "Append" /\ phase' = "Write"
         \/ call = "Snapshot" /\ call' = "Snapshot" /\ phase' = "WriteSnapshot"
      /\ UNCHANGED <<root, segments, shots, contents, batch, poisoned, visible>>
      /\ NextRecord' = NextRecord /\ active' = NextRecord
  BY DEF SyncSegment, AfterRotation, CallInv, CallPhases, FTypeOK, NextRecord
<1>2. NextRecord \in Name /\ NextRecord = Len(visible) + 1
  BY <1>1, NextRecordIs
<1>3. wal' \in Directory(WalEntry) /\ wal'.linked = wal.linked
  <2>1. wal \in Directory(WalEntry) /\ wal' = SyncDirectory(wal)
    BY DEF SyncSegment, FTypeOK
  <2> QED BY <2>1, DirectorySynced
<1>4. FTypeOK'
  BY <1>1, <1>2, <1>3 DEF FTypeOK, Step, After
<1>5. UnusedInv'
  BY <1>1 DEF UnusedInv, Unused
<1>6. SnapshotsHold' /\ CallInv'
  BY <1>1 DEF SnapshotsHold, CallInv, CallPhases
<1>7. ActiveInv'
  <2>1. Segment(NextRecord) \in wal.linked /\ segments[NextRecord] = EmptySegment
    BY <1>1 DEF FreshInv
  <2>2. After(active)' = NextRecord
    <3>1. After(active)' = NextRecord + Len(EmptySegment.records)
      BY <1>1, <2>1 DEF After
    <3> QED BY <3>1, <1>2, EmptySegmentIs, NextRecordIs
  <2>3. (Segment(active) \in wal.linked)'
    BY <1>1, <1>3, <2>1
  <2>4. phase' \notin {"Persist", "Publish"} /\ Len(visible)' = Len(visible)
    BY <1>1
  <2> QED BY <1>2, <2>2, <2>3, <2>4, NextRecordIs DEF ActiveInv
<1>8. FreshInv' /\ OpeningInv' /\ CompactingInv'
  BY <1>1 DEF FreshInv, OpeningInv, CompactingInv
<1> QED BY <1>4, <1>5, <1>6, <1>7, <1>8

\* A batch that fits the record sequence.
LEMMA StartAppendKeeps ==
  ASSUME StoreInv, StartAppend
  PROVE  StoreInv'
<1> USE DEF StoreInv
<1>1. PICK b \in Batches :
        /\ Len(visible) + Len(b) <= MaxRecord
        /\ batch' = b
        /\ phase' = IF MustRotate(b) THEN "CreateTemp" ELSE "Write"
  BY DEF StartAppend
<1>2. b \in Seq(Value) /\ Len(b) \in Nat /\ Len(b) > 0
  <2>1. PICK k \in 1 .. MaxBatch : b \in [1 .. k -> Value]
    BY DEF Batches
  <2> QED BY <2>1, FileStoreConstants
<1>3. /\ Len(visible) \in Nat /\ Len(visible) < MaxRecord
      /\ Len(b) <= MaxRecord
  BY <1>1, <1>2, NextRecordIs
<1>4. b \in Log
  BY <1>2, <1>3, LogIsSeq
<1>5. /\ phase = "Idle" /\ ~poisoned /\ call' = "Append" /\ phase' \in {"CreateTemp", "Write"}
      /\ UNCHANGED <<root, wal, segments, shots, contents, active, poisoned, visible>>
  BY <1>1 DEF StartAppend, disk
<1>6. FTypeOK'
  BY <1>1, <1>4, <1>5 DEF FTypeOK, Step, After
<1>7. call = "None" /\ ~Unused /\ Serving
  BY <1>5 DEF CallInv, CallPhases, FTypeOK, Unused, UnusedInv, Serving
<1>8. UnusedInv' /\ SnapshotsHold'
  BY <1>5, <1>7 DEF UnusedInv, Unused, SnapshotsHold
<1>9. CallInv'
  BY <1>1, <1>2, <1>3, <1>5 DEF CallInv, CallPhases
<1>10. ActiveInv' /\ FreshInv' /\ OpeningInv' /\ CompactingInv'
  BY <1>5, <1>7 DEF ActiveInv, After, FreshInv, OpeningInv, CompactingInv
<1> QED BY <1>6, <1>8, <1>9, <1>10

\* Publishing counts the batch.
LEMMA PublishKeeps ==
  ASSUME StoreInv, Publish
  PROVE  StoreInv'
<1> USE DEF StoreInv
<1>1. /\ phase = "Publish" /\ phase' = "Idle" /\ call' = "None" /\ batch' = <<>>
      /\ visible' = visible \o batch
      /\ UNCHANGED <<root, wal, segments, shots, contents, active, poisoned>>
  BY DEF Publish, disk
<1>2. /\ call = "Append" /\ ~Unused /\ Serving /\ Len(batch) > 0
      /\ Len(visible) + Len(batch) <= MaxRecord
  <2>1. call = "Append"
    BY <1>1, CallIs
  <2> QED BY <1>1, <2>1 DEF CallInv, Unused, UnusedInv, Serving
<1>3. visible' \in Seq(Value) /\ Len(visible') = Len(visible) + Len(batch)
  BY <1>1, NextRecordIs, ConcatProperties
<1>4. visible' \in Log
  BY <1>2, <1>3, LogIsSeq
<1>5. FTypeOK'
  BY <1>1, <1>4, EmptySegmentIs DEF FTypeOK, Step, After
<1>6. UnusedInv' /\ SnapshotsHold' /\ CallInv'
  BY <1>1, <1>2 DEF UnusedInv, Unused, SnapshotsHold, CallInv, CallPhases
<1>7. ActiveInv'
  <2>1. ~poisoned /\ Len(visible) < MaxRecord
    BY <1>1, <1>2, NextRecordIs DEF CallInv
  <2>2. Segment(active) \in wal.linked /\ After(active) = Len(visible) + 1 + Len(batch)
    BY <1>1, <1>2, <2>1 DEF ActiveInv
  <2>3. After(active)' = After(active)
    BY <1>1 DEF After
  <2> QED BY <1>1, <1>3, <2>2, <2>3, NextRecordIs DEF ActiveInv
<1>8. FreshInv' /\ OpeningInv' /\ CompactingInv'
  BY <1>1 DEF FreshInv, OpeningInv, CompactingInv
<1> QED BY <1>5, <1>6, <1>7, <1>8

\* The first k records of the batch are in the active segment.
LEMMA WrittenIs ==
  ASSUME StoreInv, phase = "Write", NEW k \in 0 .. Len(batch), NEW t \in BOOLEAN, Written(k, t)
  PROVE  /\ segments' \in [Name -> SegmentFile]
         /\ segments'[active].records = segments[active].records \o SubSeq(batch, 1, k)
         /\ segments'[active].synced = segments[active].synced
         /\ segments'[active].torn = t
         /\ SubSeq(batch, 1, k) \in Seq(Value) /\ Len(SubSeq(batch, 1, k)) = k
         /\ \A n \in Name : After(n)' = IF n = active THEN Len(visible) + 1 + k ELSE After(n)
         /\ \A n \in Name : n # active => segments'[n] = segments[n]
         /\ \A n \in Name : After(n)' <= MaxRecord + 1
                            /\ segments'[n].synced <= Len(segments'[n].records)
<1> USE DEF StoreInv
<1>1. PICK m \in Name : m = active
  BY DEF FTypeOK
<1> DEFINE old == segments[m]
           part == SubSeq(batch, 1, k)
           new == [old EXCEPT !.records = old.records \o part, !.torn = t]
<1>2. /\ batch \in Seq(Value) /\ k \in Nat /\ k <= Len(batch) /\ Len(batch) \in Nat
      /\ Len(visible) + Len(batch) <= MaxRecord /\ Len(visible) < MaxRecord
      /\ Len(visible) \in Nat /\ MaxRecord \in Nat
      /\ After(m) = Len(visible) + 1
  <2>1. call = "Append"
    BY CallIs
  <2>2. Len(batch) > 0 /\ Len(visible) + Len(batch) <= MaxRecord /\ ~poisoned
    BY <2>1 DEF CallInv
  <2>3. Len(visible) < MaxRecord
    BY <2>2, NextRecordIs
  <2>4. After(active) = Len(visible) + 1 + 0
    BY <2>1, <2>2, <2>3 DEF ActiveInv, Serving
  <2> QED BY <2>2, <2>3, <2>4, <1>1, NextRecordIs
<1>3. part \in Seq(Value) /\ Len(part) = k
  <2>1. \A i \in 1 .. k : batch[i] \in Value
    BY <1>2
  <2> QED BY <2>1, <1>2, SubSeqProperties
<1>4. /\ old \in SegmentFile /\ old.records \in Seq(Value) /\ Len(old.records) \in Nat
      /\ old.synced \in Watermark /\ old.synced \in Nat
      /\ old.synced <= Len(old.records) /\ m + Len(old.records) = Len(visible) + 1 /\ m \in Nat
      /\ 1 <= m
  <2>1. old \in SegmentFile /\ old.synced \in Watermark
    BY DEF FTypeOK, SegmentFile
  <2> QED BY <2>1, <1>2, SegmentIs, NamesAre
<1> HIDE DEF part
<1>5. /\ old.records \o part \in Seq(Value) /\ Len(old.records \o part) = Len(old.records) + k
  BY <1>3, <1>4, ConcatProperties
<1>6. Len(old.records) + k <= MaxRecord
  <2> HIDE DEF old
  <2> QED BY <1>2, <1>4
<1>7. old.records \o part \in Log
  BY <1>5, <1>6, LogIsSeq
<1>8. new \in SegmentFile /\ new.records = old.records \o part /\ new.synced = old.synced
      /\ new.torn = t
  BY <1>4, <1>7 DEF SegmentFile
<1>9. segments' = [segments EXCEPT ![m] = new]
  <2>1. segments' = [segments EXCEPT ![m].records = @ \o part, ![m].torn = t]
    BY <1>1 DEF Written, part
  <2>2. segments \in [Name -> SegmentFile]
    BY DEF FTypeOK
  <2> QED BY <2>1, <2>2
<1> HIDE DEF new
<1>10. m + Len(new.records) = Len(visible) + 1 + k /\ Len(visible) + 1 + k <= MaxRecord + 1
       /\ new.synced <= Len(new.records)
  <2> DEFINE a == Len(old.records)
             v == Len(visible)
  <2>1. /\ Len(new.records) = a + k /\ new.synced = old.synced
        /\ a \in Nat /\ v \in Nat /\ k \in Nat /\ m \in Nat /\ m + a = v + 1
        /\ old.synced <= a /\ old.synced \in Nat
    BY <1>2, <1>4, <1>5, <1>8
  <2>2. v + k <= MaxRecord
    BY <1>2
  <2> HIDE DEF a, v, old
  <2>3. m + (a + k) = v + 1 + k /\ v + 1 + k <= MaxRecord + 1 /\ old.synced <= a + k
    BY <2>1, <2>2, <1>2
  <2> QED BY <2>1, <2>3 DEF v
<1>11. /\ segments' \in [Name -> SegmentFile] /\ segments'[m] = new
       /\ After(m)' = m + Len(new.records)
       /\ \A n \in Name : n # m => segments'[n] = segments[n] /\ After(n)' = After(n)
       /\ \A n \in Name : After(n)' <= MaxRecord + 1
                          /\ segments'[n].synced <= Len(segments'[n].records)
  BY <1>8, <1>9, <1>10, SegmentReplaced
<1> QED BY <1>1, <1>3, <1>8, <1>10, <1>11 DEF part

\* The batch reaches the end of the active segment, where the published records end.
LEMMA WriteKeeps ==
  ASSUME StoreInv, Write
  PROVE  StoreInv'
<1> USE DEF StoreInv
<1>1. /\ phase = "Write" /\ phase' = "Persist" /\ Written(Len(batch), FALSE)
      /\ UNCHANGED <<root, wal, shots, contents, call, active, batch, poisoned, visible>>
  BY DEF Write, Continue
<1>2. call = "Append" /\ ~Unused
  <2>1. call = "Append"
    BY <1>1, CallIs
  <2> QED BY <1>1, <2>1 DEF Unused, UnusedInv
<1>3. /\ segments' \in [Name -> SegmentFile]
      /\ \A n \in Name : After(n)' = IF n = active THEN Len(visible) + 1 + Len(batch) ELSE After(n)
      /\ \A n \in Name : After(n)' <= MaxRecord + 1
                         /\ segments'[n].synced <= Len(segments'[n].records)
  <2>1. Len(batch) \in 0 .. Len(batch)
    BY NextRecordIs
  <2> QED BY <1>1, <2>1, WrittenIs
<1>4. FTypeOK'
  BY <1>1, <1>3 DEF FTypeOK, Step
<1>5. UnusedInv' /\ SnapshotsHold' /\ CallInv'
  BY <1>1, <1>2 DEF UnusedInv, Unused, SnapshotsHold, CallInv, CallPhases
<1>6. ActiveInv'
  <2>1. PICK a \in Name : a = active
    BY DEF FTypeOK
  <2>2. After(active)' = After(a)'
    BY <1>1, <2>1 DEF After
  <2>3. After(active)' = Len(visible) + 1 + Len(batch)
    BY <2>1, <2>2, <1>3
  <2>4. Segment(active) \in wal.linked
    BY <1>1, <1>2 DEF ActiveInv, Serving
  <2> QED BY <1>1, <2>3, <2>4 DEF ActiveInv
<1>7. FreshInv' /\ OpeningInv' /\ CompactingInv'
  BY <1>1 DEF FreshInv, OpeningInv, CompactingInv
<1> QED BY <1>4, <1>5, <1>6, <1>7

\* Synchronization changes no record.
LEMMA PersistedIs ==
  ASSUME StoreInv, Persist
  PROVE  /\ segments' \in [Name -> SegmentFile]
         /\ \A n \in Name : /\ segments'[n].records = segments[n].records
                            /\ segments'[n].torn = segments[n].torn
                            /\ After(n)' = After(n) /\ After(n)' <= MaxRecord + 1
                            /\ segments'[n].synced <= Len(segments'[n].records)
                            /\ n # active => segments'[n] = segments[n]
         /\ deployment.durability = "Sync" =>
              segments'[active].synced = Len(segments[active].records)
<1> USE DEF StoreInv
<1>1. segments \in [Name -> SegmentFile] /\ active \in Name
  BY DEF FTypeOK
<1>2. CASE deployment.durability # "Sync"
  <2>1. segments' = segments
    BY <1>2 DEF Persist
  <2> QED BY <1>1, <1>2, <2>1, SegmentIs DEF After
<1>3. CASE deployment.durability = "Sync"
  <2>1. PICK m \in Name : m = active
    BY <1>1
  <2> DEFINE old == segments[m]
             size == Len(old.records)
             new == [old EXCEPT !.synced = size]
  <2>2. old \in SegmentFile /\ size \in Nat /\ size <= MaxRecord
    BY <1>1, SegmentIs, LogIsSeq
  <2>3. new \in SegmentFile /\ new.records = old.records /\ new.torn = old.torn /\ new.synced = size
    <3>1. size \in Watermark
      BY <2>2, NamesAre DEF Watermark
    <3> HIDE DEF size
    <3> QED BY <2>2, <3>1 DEF SegmentFile
  <2>4. segments' = [segments EXCEPT ![m] = new]
    <3>1. segments' = [segments EXCEPT ![m].synced = size]
      BY <1>3, <2>1 DEF Persist
    <3> HIDE DEF size
    <3> QED BY <1>1, <3>1
  <2>5. m + Len(new.records) <= MaxRecord + 1 /\ new.synced <= Len(new.records)
    BY <2>2, <2>3, SegmentIs
  <2> HIDE DEF new
  <2>6. /\ segments' \in [Name -> SegmentFile] /\ segments'[m] = new
        /\ After(m)' = m + Len(new.records)
        /\ \A n \in Name : n # m => segments'[n] = segments[n] /\ After(n)' = After(n)
        /\ \A n \in Name : After(n)' <= MaxRecord + 1
                           /\ segments'[n].synced <= Len(segments'[n].records)
    BY <2>3, <2>4, <2>5, SegmentReplaced
  <2>7. After(m)' = After(m)
    BY <2>3, <2>6 DEF After
  <2> QED BY <2>1, <2>3, <2>6, <2>7
<1> QED BY <1>2, <1>3

\* A synchronization changes the contents of no file.
LEMMA PersistKeeps ==
  ASSUME StoreInv, Persist
  PROVE  StoreInv'
<1> USE DEF StoreInv
<1>1. /\ phase = "Persist" /\ phase' = "Publish"
      /\ UNCHANGED <<root, wal, shots, contents, call, active, batch, poisoned, visible>>
  BY DEF Persist, Continue
<1>2. call = "Append" /\ ~Unused
  <2>1. call = "Append"
    BY <1>1, CallIs
  <2> QED BY <1>1, <2>1 DEF Unused, UnusedInv
<1>3. /\ segments' \in [Name -> SegmentFile]
      /\ \A n \in Name : /\ After(n)' = After(n) /\ After(n)' <= MaxRecord + 1
                         /\ segments'[n].synced <= Len(segments'[n].records)
  BY PersistedIs
<1>4. FTypeOK'
  BY <1>1, <1>3 DEF FTypeOK, Step
<1>5. UnusedInv' /\ SnapshotsHold' /\ CallInv'
  BY <1>1, <1>2 DEF UnusedInv, Unused, SnapshotsHold, CallInv, CallPhases
<1>6. ActiveInv'
  <2>1. PICK a \in Name : a = active
    BY DEF FTypeOK
  <2>2. After(active)' = After(a)'
    BY <1>1, <2>1 DEF After
  <2> QED BY <1>1, <1>2, <1>3, <2>1, <2>2 DEF ActiveInv, Serving
<1>7. FreshInv' /\ OpeningInv' /\ CompactingInv'
  BY <1>1 DEF FreshInv, OpeningInv, CompactingInv
<1> QED BY <1>4, <1>5, <1>6, <1>7

\* A write that is cut off leaves a typed segment.
LEMMA PartialWriteIs ==
  ASSUME StoreInv, PartialWrite
  PROVE  /\ segments' \in [Name -> SegmentFile]
         /\ \A n \in Name : After(n)' <= MaxRecord + 1
                            /\ segments'[n].synced <= Len(segments'[n].records)
         /\ phase # "Write" => segments' = segments
<1> USE DEF StoreInv
<1>1. CASE phase = "Write"
  <2>1. PICK k \in 0..Len(batch) - 1, t \in BOOLEAN : Written(k, t)
    BY <1>1 DEF PartialWrite
  <2>2. k \in 0 .. Len(batch)
    BY NextRecordIs
  <2> QED BY <1>1, <2>1, <2>2, WrittenIs
<1>2. CASE phase # "Write"
  <2>1. segments' = segments
    BY <1>2 DEF PartialWrite
  <2> QED BY <1>2, <2>1 DEF FTypeOK, After
<1> QED BY <1>1, <1>2

\* A poisoned database appends nothing more.
LEMMA AppendFailsKeeps ==
  ASSUME StoreInv, AppendFails
  PROVE  StoreInv'
<1> USE DEF StoreInv
<1>1. /\ call = "Append" /\ PartialWrite /\ poisoned' = TRUE
      /\ phase' = "Idle" /\ call' = "None" /\ batch' = <<>>
      /\ UNCHANGED <<root, wal, shots, contents, active, visible>>
  BY DEF AppendFails, Return
<1>2. ~Unused /\ phase # "Down"
  BY <1>1, CallIs DEF Unused, UnusedInv
<1>3. FTypeOK'
  BY <1>1, PartialWriteIs, EmptySegmentIs DEF FTypeOK, Step
<1>4. UnusedInv' /\ SnapshotsHold' /\ CallInv'
  BY <1>1, <1>2 DEF UnusedInv, Unused, SnapshotsHold, CallInv, CallPhases
<1>5. ActiveInv' /\ FreshInv' /\ OpeningInv' /\ CompactingInv'
  BY <1>1, <1>2 DEF ActiveInv, Serving, FreshInv, OpeningInv, CompactingInv
<1> QED BY <1>3, <1>4, <1>5

\* The snapshot begins with a rotation, or has its active segment already.
LEMMA StartSnapshotKeeps ==
  ASSUME StoreInv, StartSnapshot
  PROVE  StoreInv'
<1> USE DEF StoreInv
<1>1. /\ phase = "Idle" /\ ~poisoned /\ call' = "Snapshot"
      /\ phase' \in {"CreateTemp", "WriteSnapshot"}
      /\ phase' = "CreateTemp" => NextRecord <= MaxRecord
      /\ UNCHANGED <<root, wal, segments, shots, contents, active, batch, poisoned, visible>>
  BY DEF StartSnapshot, disk, HasSuccessor
<1>2. call = "None" /\ ~Unused /\ Serving
  <2>1. call = "None"
    BY <1>1, CallIs
  <2> QED BY <1>1, <2>1 DEF Unused, UnusedInv, Serving
<1>3. FTypeOK'
  BY <1>1 DEF FTypeOK, Step, After
<1>4. UnusedInv' /\ SnapshotsHold'
  BY <1>1, <1>2 DEF UnusedInv, Unused, SnapshotsHold
<1>5. CallInv'
  <2>1. phase' = "CreateTemp" => Len(visible) < MaxRecord
    BY <1>1, NextRecordIs
  <2> QED BY <1>1, <1>2, <2>1 DEF CallInv, CallPhases
<1>6. ActiveInv' /\ FreshInv' /\ OpeningInv' /\ CompactingInv'
  BY <1>1, <1>2 DEF ActiveInv, Serving, After, FreshInv, OpeningInv, CompactingInv
<1> QED BY <1>3, <1>4, <1>5, <1>6

\* Whatever an end of the process leaves in the files, if they are typed.
LEMMA Ended ==
  ASSUME StoreInv, End, root' = root, contents' = contents,
         segments' \in [Name -> SegmentFile],
         \A n \in Name : After(n)' <= MaxRecord + 1
                         /\ segments'[n].synced <= Len(segments'[n].records),
         wal' \in Directory(WalEntry), shots' \in Directory(ShotEntry),
         shots'.linked \cup shots'.durable \subseteq shots.linked \cup shots.durable,
         root # "Manifest" => wal' = NoEntries /\ shots' = NoEntries /\ segments' = segments
  PROVE  StoreInv'
<1> USE DEF StoreInv
<1>1. /\ phase' = "Down" /\ call' = "None" /\ batch' = <<>> /\ active' = 1 /\ ~poisoned'
      /\ poisoned' \in BOOLEAN /\ visible' = visible
  BY DEF End
<1>2. FTypeOK'
  BY <1>1, EmptySegmentIs, NamesAre DEF FTypeOK, Step
<1>3. UnusedInv'
  BY <1>1, EntriesDiffer DEF UnusedInv, Unused, Linked, NoEntries
<1>4. SnapshotsHold' /\ CallInv'
  BY <1>1 DEF SnapshotsHold, CallInv, CallPhases
<1>5. ActiveInv' /\ FreshInv' /\ OpeningInv' /\ CompactingInv'
  BY <1>1 DEF ActiveInv, Serving, FreshInv, OpeningInv, CompactingInv
<1> QED BY <1>2, <1>3, <1>4, <1>5

\* The end of a process that leaves the directories alone.
LEMMA EndedOnly ==
  ASSUME StoreInv, End, UNCHANGED <<root, wal, shots, contents>>,
         segments' \in [Name -> SegmentFile],
         \A n \in Name : After(n)' <= MaxRecord + 1
                         /\ segments'[n].synced <= Len(segments'[n].records),
         root # "Manifest" => segments' = segments
  PROVE  StoreInv'
<1> USE DEF StoreInv
<1>1. wal' \in Directory(WalEntry) /\ shots' \in Directory(ShotEntry)
  BY DEF FTypeOK
<1>2. root # "Manifest" => wal' = NoEntries /\ shots' = NoEntries
  BY DEF UnusedInv, Unused
<1> QED BY <1>1, <1>2, Ended

\* A process may end between two steps.
LEMMA QuietEndKeeps ==
  ASSUME StoreInv, End, UNCHANGED disk
  PROVE  StoreInv'
<1>1. /\ segments' \in [Name -> SegmentFile]
      /\ \A n \in Name : After(n)' <= MaxRecord + 1
                         /\ segments'[n].synced <= Len(segments'[n].records)
  BY DEF StoreInv, FTypeOK, disk, After
<1> QED BY <1>1, EndedOnly DEF disk

\* A crash leaves the files as the last write left them, in part or not.
LEMMA CrashKeeps ==
  ASSUME StoreInv, CrashProcess
  PROVE  StoreInv'
<1>1. root # "Manifest" => phase # "Write"
  BY DEF StoreInv, UnusedInv
<1> QED BY <1>1, PartialWriteIs, EndedOnly DEF CrashProcess

\* A segment after a loss of power: what was synchronized, and perhaps more.
LEMMA LostSegments ==
  ASSUME FTypeOK, LosePower, NEW n \in Name
  PROVE  /\ segments'[n] \in SegmentFile
         /\ segments'[n].synced = Len(segments'[n].records)
         /\ Len(segments'[n].records) \in Nat
         /\ segments[n].synced <= Len(segments'[n].records)
         /\ Len(segments'[n].records) <= Len(segments[n].records)
         /\ segments'[n].records = SubSeq(segments[n].records, 1, Len(segments'[n].records))
         /\ segments'[n].torn =>
              segments[n].torn \/ Len(segments'[n].records) < Len(segments[n].records)
         /\ segments[n].synced = Len(segments[n].records) =>
              segments'[n].records = segments[n].records
<1>1. PICK cut \in [Dirty -> UNION {Survivors(segments[m]) : m \in Dirty}] :
        /\ \A m \in Dirty : cut[m] \in Survivors(segments[m])
        /\ segments' = [m \in Name |-> IF m \in Dirty THEN cut[m] ELSE segments[m]]
  BY DEF LosePower
<1>2. /\ segments[n].records \in Log /\ segments[n].records \in Seq(Value)
      /\ Len(segments[n].records) \in Nat
      /\ segments[n].synced \in Nat /\ segments[n].synced <= Len(segments[n].records)
      /\ segments[n].torn \in BOOLEAN /\ segments[n] \in SegmentFile
  BY SegmentIs DEF FTypeOK
<1>3. SubSeq(segments[n].records, 1, Len(segments[n].records)) = segments[n].records
  BY <1>2, SubSeqFull
<1>4. CASE n \in Dirty
  <2> DEFINE s == segments[n]
             r == segments'[n]
  <2>1. r \in Survivors(s)
    BY <1>1, <1>4
  <2>2. s.synced \in 0 .. Len(s.records)
    BY <1>2
  <2>3. /\ r.records \in Log /\ r.torn \in BOOLEAN
        /\ r.synced = Len(r.records) /\ s.synced <= r.synced /\ r.synced <= Len(s.records)
        /\ r.records = SubSeq(s.records, 1, r.synced)
        /\ r.torn => s.torn \/ r.synced < Len(s.records)
    BY <1>2, <2>1, <2>2, SurvivorsAre
  <2>4. Len(r.records) \in Nat /\ Len(r.records) <= MaxRecord
    <3> HIDE DEF r, s
    <3>1. r.records \in Seq(Value) /\ Len(r.records) <= MaxRecord
      BY <2>3, LogIsSeq
    <3> QED BY <3>1
  <2>5. r \in SegmentFile
    <3>1. r.synced \in Watermark
      BY <2>3, <2>4, NamesAre DEF Watermark
    <3>2. r \in [records : {r.records}, synced : {r.synced}, torn : {r.torn}]
      BY <2>1 DEF Survivors
    <3> QED BY <2>3, <3>1, <3>2 DEF SegmentFile
  <2>6. s.synced = Len(s.records) => r.records = s.records
    <3> SUFFICES ASSUME s.synced = Len(s.records) PROVE r.records = s.records
      OBVIOUS
    <3>1. r.synced = Len(s.records)
      BY <1>2, <2>3, <2>4
    <3> QED BY <2>3, <3>1, <1>3
  <2> QED BY <2>3, <2>4, <2>5, <2>6
<1>5. CASE n \notin Dirty
  <2>1. segments'[n] = segments[n]
    BY <1>1, <1>5
  <2>2. ~(segments[n].synced < Len(segments[n].records))
    BY <1>5 DEF Dirty
  <2>3. segments[n].synced = Len(segments[n].records)
    BY <1>2, <2>2
  <2> QED BY <1>2, <1>3, <2>1, <2>3
<1> QED BY <1>4, <1>5

\* What a loss of power leaves of a file is a beginning of it, and no name appears that
\* was on neither side of the synchronization.
LEMMA LosePowerKeeps ==
  ASSUME StoreInv, LosePower
  PROVE  StoreInv'
<1> USE DEF StoreInv
<1>1. segments' \in [Name -> SegmentFile]
  <2>1. DOMAIN segments' = Name /\ segments' = [n \in Name |-> segments'[n]]
    BY DEF LosePower
  <2>2. \A n \in Name : segments'[n] \in SegmentFile
    BY LostSegments
  <2> QED BY <2>1, <2>2
<1>2. ASSUME NEW n \in Name
      PROVE  After(n)' <= MaxRecord + 1 /\ segments'[n].synced <= Len(segments'[n].records)
  <2>1. /\ segments'[n].synced = Len(segments'[n].records) /\ Len(segments'[n].records) \in Nat
        /\ Len(segments'[n].records) <= Len(segments[n].records)
    BY LostSegments
  <2>2. /\ Len(segments[n].records) \in Nat /\ n \in Nat
        /\ n + Len(segments[n].records) <= MaxRecord + 1
    BY SegmentIs
  <2>3. After(n)' = n + Len(segments'[n].records)
    BY DEF After
  <2> QED BY <2>1, <2>2, <2>3, NamesAre
<1>3. /\ wal' \in Directory(WalEntry) /\ shots' \in Directory(ShotEntry)
      /\ wal'.durable = wal'.linked /\ shots'.durable = shots'.linked
      /\ wal'.linked \subseteq wal.linked \cup wal.durable
      /\ shots'.linked \subseteq shots.linked \cup shots.durable
  <2>1. wal \in Directory(WalEntry) /\ shots \in Directory(ShotEntry)
    BY DEF FTypeOK
  <2>2. wal' \in Remnants(wal) /\ shots' \in Remnants(shots)
    BY DEF LosePower
  <2> QED BY <2>1, <2>2, RemnantsAre
<1>4. root # "Manifest" => wal' = NoEntries /\ shots' = NoEntries /\ segments' = segments
  <2> SUFFICES ASSUME root # "Manifest"
               PROVE  wal' = NoEntries /\ shots' = NoEntries /\ segments' = segments
    OBVIOUS
  <2>1. /\ wal = NoEntries /\ shots = NoEntries
        /\ \A n \in Name : segments[n] = EmptySegment
    BY DEF UnusedInv, Unused
  <2>2. \A d : d \in Remnants(NoEntries) => d = NoEntries
    BY DEF Remnants, NoEntries, SymDiff
  <2>3. Dirty = {}
    BY <2>1, EmptySegmentIs DEF Dirty
  <2>4. segments' = [n \in Name |-> segments[n]]
    BY <2>3 DEF LosePower
  <2>5. segments' = segments
    BY <2>4 DEF FTypeOK
  <2> QED BY <2>1, <2>2, <2>5 DEF LosePower
<1> QED BY <1>1, <1>2, <1>3, <1>4, Ended DEF LosePower

\* A snapshot that is being written has no name yet that recovery looks for.
LEMMA WriteSnapshotKeeps ==
  ASSUME StoreInv, WriteSnapshot
  PROVE  StoreInv'
<1> USE DEF StoreInv
<1>1. /\ phase = "WriteSnapshot" /\ phase' = "InstallSnapshot"
      /\ shots' = Link(WithoutTemp(shots), TempSnapshot)
      /\ UNCHANGED <<root, wal, segments, contents, call, active, batch, poisoned, visible>>
  BY DEF WriteSnapshot, Continue
<1>2. call = "Snapshot" /\ ~Unused
  <2>1. call = "Snapshot"
    BY <1>1, CallIs
  <2> QED BY <1>1, <2>1 DEF Unused, UnusedInv
<1>3. /\ shots' \in Directory(ShotEntry)
      /\ shots'.linked \cup shots'.durable \subseteq shots.linked \cup shots.durable \cup {TempSnapshot}
  <2> DEFINE rest == WithoutTemp(shots)
  <2>1. /\ rest \in Directory(ShotEntry)
        /\ rest.linked \subseteq shots.linked
        /\ rest.durable \subseteq shots.linked \cup shots.durable
    BY TempRemoved DEF FTypeOK
  <2>2. TempSnapshot \in ShotEntry /\ shots' = Link(rest, TempSnapshot)
    BY <1>1 DEF ShotEntry
  <2> HIDE DEF rest
  <2> QED BY <2>1, <2>2, DirectorySteps
<1>4. FTypeOK'
  BY <1>1, <1>3 DEF FTypeOK, Step, After
<1>5. UnusedInv' /\ CallInv'
  BY <1>1, <1>2 DEF UnusedInv, Unused, CallInv, CallPhases
<1>6. SnapshotsHold'
  BY <1>1, <1>3, EntriesDiffer, NamesAre DEF SnapshotsHold
<1>7. ActiveInv' /\ FreshInv' /\ OpeningInv' /\ CompactingInv'
  BY <1>1, <1>2 DEF ActiveInv, Serving, After, FreshInv, OpeningInv, CompactingInv
<1> QED BY <1>4, <1>5, <1>6, <1>7

\* The snapshot holds the published state, of as many records as its name says.
LEMMA InstallSnapshotKeeps ==
  ASSUME StoreInv, InstallSnapshot
  PROVE  StoreInv'
<1> USE DEF StoreInv
<1> DEFINE w == Len(visible)
           entry == Snapshot(w)
<1>1. /\ phase = "InstallSnapshot" /\ phase' = "SyncSnapshot"
      /\ shots' = Link(Unlink(shots, {TempSnapshot}), entry)
      /\ contents' = [contents EXCEPT ![w] = visible]
      /\ UNCHANGED <<root, wal, segments, call, active, batch, poisoned, visible>>
  BY DEF InstallSnapshot, Continue
<1>2. call = "Snapshot" /\ ~Unused
  <2>1. call = "Snapshot"
    BY <1>1, CallIs
  <2> QED BY <1>1, <2>1 DEF Unused, UnusedInv
<1>3. w \in Watermark /\ w \in Nat /\ visible \in Seq(Value) /\ visible \in Log
  BY NextRecordIs DEF FTypeOK
<1>4. /\ shots' \in Directory(ShotEntry)
      /\ shots'.linked = (shots.linked \ {TempSnapshot}) \cup {entry}
      /\ shots'.durable = shots.durable
  <2> DEFINE rest == Unlink(shots, {TempSnapshot})
  <2>1. entry \in ShotEntry /\ shots' = Link(rest, entry)
    BY <1>1, <1>3 DEF ShotEntry
  <2>2. /\ rest \in Directory(ShotEntry) /\ rest.linked = shots.linked \ {TempSnapshot}
        /\ rest.durable = shots.durable
    BY <2>1, DirectorySteps DEF FTypeOK
  <2> HIDE DEF rest, entry
  <2> QED BY <2>1, <2>2, DirectorySteps
<1>5. /\ contents' \in [Watermark -> Log] /\ contents'[w] = visible
      /\ \A v \in Watermark : v # w => contents'[v] = contents[v]
  BY <1>1, <1>3 DEF FTypeOK
<1>6. FTypeOK'
  BY <1>1, <1>4, <1>5 DEF FTypeOK, Step, After
<1>7. UnusedInv' /\ CallInv'
  BY <1>1, <1>2 DEF UnusedInv, Unused, CallInv, CallPhases
<1>8. SnapshotsHold'
  <2>1. contents'[0] = <<>>
    <3>1. CASE w = 0
      BY <3>1, <1>3, <1>5, EmptySeq
    <3>2. CASE w # 0
      BY <3>2, <1>5, NamesAre DEF SnapshotsHold
    <3> QED BY <3>1, <3>2
  <2>2. ASSUME NEW v \in Watermark, Snapshot(v) \in shots'.linked \cup shots'.durable
        PROVE  Len(contents'[v]) = v
    <3>1. CASE v = w
      BY <3>1, <1>5
    <3>2. CASE v # w
      <4>1. Snapshot(v) \in shots.linked \cup shots.durable
        BY <2>2, <3>2, <1>4, EntriesDiffer
      <4> QED BY <3>2, <4>1, <1>5 DEF SnapshotsHold
    <3> QED BY <3>1, <3>2
  <2> QED BY <2>1, <2>2 DEF SnapshotsHold
<1>9. ActiveInv' /\ FreshInv' /\ OpeningInv' /\ CompactingInv'
  BY <1>1, <1>2, <1>4 DEF ActiveInv, Serving, After, FreshInv, OpeningInv, CompactingInv
<1> QED BY <1>6, <1>7, <1>8, <1>9

\* Steps of create_snapshot that change directories only.
LEMMA CompactingKeeps ==
  ASSUME StoreInv,
         phase \in {"SyncSnapshot", "RemoveCovered", "RemoveOlder"},
         phase' \in {"RemoveCovered", "RemoveOlder", "Compacted"},
         UNCHANGED <<root, segments, contents, call, active, batch, poisoned, visible>>,
         wal' \in Directory(WalEntry), shots' \in Directory(ShotEntry),
         Segment(active) \in wal'.linked,
         shots'.linked \cup shots'.durable \subseteq shots.linked \cup shots.durable,
         CompactingInv'
  PROVE  StoreInv'
<1> USE DEF StoreInv
<1>1. call = "Snapshot" /\ ~Unused
  <2>1. call = "Snapshot"
    BY CallIs
  <2> QED BY <2>1 DEF Unused, UnusedInv
<1>2. FTypeOK'
  BY DEF FTypeOK, Step, After
<1>3. UnusedInv' /\ CallInv' /\ SnapshotsHold'
  BY <1>1 DEF UnusedInv, Unused, CallInv, CallPhases, SnapshotsHold
<1>4. ActiveInv' /\ FreshInv' /\ OpeningInv'
  BY <1>1 DEF ActiveInv, Serving, After, FreshInv, OpeningInv
<1> QED BY <1>2, <1>3, <1>4

\* Each step of the clean-up brings the directory closer to what compaction leaves.
LEMMA CleanUpKeeps ==
  ASSUME StoreInv, SyncSnapshot \/ RemoveCovered \/ SyncCompacted \/ RemoveOlder \/ SyncCleanup
  PROVE  StoreInv'
<1> USE DEF StoreInv
<1>1. wal \in Directory(WalEntry) /\ shots \in Directory(ShotEntry)
  BY DEF FTypeOK
<1>2. phase \in {"SyncSnapshot", "RemoveCovered", "RemoveOlder"} /\ call = "Snapshot"
  <2>1. phase \in {"SyncSnapshot", "RemoveCovered", "RemoveOlder"}
    BY DEF SyncSnapshot, RemoveCovered, SyncCompacted, RemoveOlder, SyncCleanup
  <2> QED BY <2>1, CallIs
<1>3. Segment(active) \in wal.linked /\ Snapshot(Len(visible)) \in shots.linked
  BY <1>2 DEF ActiveInv, Serving, CompactingInv
<1>4. CASE SyncSnapshot
  <2>1. shots' = SyncDirectory(shots) /\ wal' = wal /\ phase' = "RemoveCovered"
    BY <1>4 DEF SyncSnapshot, Continue
  <2>2. shots' \in Directory(ShotEntry) /\ shots'.linked = shots.linked /\ shots'.durable = shots.linked
    BY <1>1, <2>1, DirectorySynced
  <2>3. CompactingInv'
    BY <1>3, <1>4, <2>1, <2>2 DEF CompactingInv, SyncSnapshot, Continue
  <2> QED BY <1>1, <1>2, <1>3, <1>4, <2>1, <2>2, <2>3, CompactingKeeps DEF SyncSnapshot, Continue
<1>5. CASE RemoveCovered
  <2>1. PICK e \in Covered : wal' = Unlink(wal, {e})
    BY <1>5 DEF RemoveCovered
  <2>2. wal' \in Directory(WalEntry) /\ wal'.linked = wal.linked \ {e}
    <3>1. e \in WalEntry
      BY <1>1, <2>1 DEF Covered, Directory
    <3> QED BY <1>1, <2>1, <3>1, DirectorySteps
  <2>3. Segment(active) \in wal'.linked
    BY <1>3, <2>1, <2>2 DEF Covered
  <2>4. phase' = "RemoveCovered" /\ shots' = shots
    BY <1>5 DEF RemoveCovered, Continue
  <2>5. CompactingInv'
    BY <1>3, <1>5, <2>4 DEF CompactingInv, RemoveCovered, Continue
  <2> QED BY <1>1, <1>2, <1>5, <2>2, <2>3, <2>4, <2>5, CompactingKeeps DEF RemoveCovered, Continue
<1>6. CASE SyncCompacted
  <2>1. wal' = SyncDirectory(wal) /\ shots' = shots /\ phase' = "RemoveOlder" /\ Covered = {}
    BY <1>6 DEF SyncCompacted, Continue
  <2>2. wal' \in Directory(WalEntry) /\ wal'.linked = wal.linked /\ wal'.durable = wal.linked
    BY <1>1, <2>1, DirectorySynced
  <2>3. wal.linked = {Segment(active)}
    BY <1>3, <2>1 DEF Covered
  <2>4. CompactingInv'
    BY <1>3, <1>6, <2>1, <2>2, <2>3 DEF CompactingInv, SyncCompacted, Continue
  <2> QED BY <1>1, <1>2, <1>3, <1>6, <2>1, <2>2, <2>4, CompactingKeeps DEF SyncCompacted, Continue
<1>7. CASE RemoveOlder
  <2>1. PICK e \in Older : shots' = Unlink(shots, {e})
    BY <1>7 DEF RemoveOlder
  <2>2. /\ shots' \in Directory(ShotEntry) /\ shots'.linked = shots.linked \ {e}
        /\ shots'.durable = shots.durable
    <3>1. e \in ShotEntry
      BY <1>1, <2>1 DEF Older, Directory
    <3> QED BY <1>1, <2>1, <3>1, DirectorySteps
  <2>3. Snapshot(Len(visible)) \in shots'.linked
    BY <1>3, <2>1, <2>2 DEF Older
  <2>4. phase = "RemoveOlder" /\ phase' = "RemoveOlder" /\ wal' = wal
    BY <1>7 DEF RemoveOlder, Continue
  <2>5. CompactingInv'
    BY <1>7, <2>3, <2>4 DEF CompactingInv, RemoveOlder, Continue
  <2> QED BY <1>1, <1>2, <1>3, <1>7, <2>2, <2>4, <2>5, CompactingKeeps DEF RemoveOlder, Continue
<1>8. CASE SyncCleanup
  <2>1. /\ shots' = SyncDirectory(shots) /\ wal' = wal /\ phase' = "Compacted" /\ Older = {}
        /\ phase = "RemoveOlder"
    BY <1>8 DEF SyncCleanup, Continue
  <2>2. shots' \in Directory(ShotEntry) /\ shots'.linked = shots.linked /\ shots'.durable = shots.linked
    BY <1>1, <2>1, DirectorySynced
  <2>3. shots.linked = {Snapshot(Len(visible))}
    BY <1>3, <2>1 DEF Older
  <2>4. CompactingInv'
    BY <1>3, <1>8, <2>1, <2>2, <2>3 DEF CompactingInv, SyncCleanup, Continue
  <2> QED BY <1>1, <1>2, <1>3, <1>8, <2>1, <2>2, <2>4, CompactingKeeps DEF SyncCleanup, Continue
<1> QED BY <1>4, <1>5, <1>6, <1>7, <1>8

\* create_snapshot returns, or fails without a trace in the process.
LEMMA SnapshotReturns ==
  ASSUME StoreInv, ReturnOutcome \/ SnapshotFails
  PROVE  StoreInv'
<1> USE DEF StoreInv
<1>1. /\ phase' = "Idle" /\ call' = "None" /\ batch' = <<>>
      /\ UNCHANGED <<root, wal, segments, shots, contents, active, poisoned, visible>>
  BY DEF ReturnOutcome, SnapshotFails, Return, disk
<1>2. call = "Snapshot" /\ ~Unused /\ phase # "Down" /\ phase \notin {"Persist", "Publish"}
  <2>1. call = "Snapshot"
    BY CallIs DEF ReturnOutcome, SnapshotFails
  <2> QED BY <2>1, CallIs DEF Unused, UnusedInv
<1>3. FTypeOK'
  BY <1>1, EmptySegmentIs DEF FTypeOK, Step, After
<1>4. UnusedInv' /\ SnapshotsHold' /\ CallInv'
  BY <1>1, <1>2 DEF UnusedInv, Unused, SnapshotsHold, CallInv, CallPhases
<1>5. ActiveInv' /\ FreshInv' /\ OpeningInv' /\ CompactingInv'
  BY <1>1, <1>2 DEF ActiveInv, Serving, After, FreshInv, OpeningInv, CompactingInv
<1> QED BY <1>3, <1>4, <1>5

\* Opening removes temporary files first.
LEMMA TempsRemoved ==
  ASSUME FTypeOK, Open
  PROVE  /\ wal' \in Directory(WalEntry) /\ shots' \in Directory(ShotEntry)
         /\ wal'.linked \subseteq wal.linked /\ Linked' = Linked
         /\ \/ wal'.durable = wal'.linked
            \/ wal'.linked = wal.linked /\ wal'.durable = wal.durable
         /\ shots'.linked = shots.linked \ {TempSnapshot}
         /\ \/ shots'.durable = shots'.linked
            \/ shots'.linked = shots.linked /\ shots'.durable = shots.durable
<1>1. wal \in Directory(WalEntry) /\ shots \in Directory(ShotEntry)
  BY DEF FTypeOK
<1>2. /\ shots' \in Directory(ShotEntry)
      /\ shots'.linked = shots.linked \ {TempSnapshot}
      /\ \/ shots'.durable = shots'.linked
         \/ shots'.linked = shots.linked /\ shots'.durable = shots.durable
  BY <1>1, TempRemoved DEF Open
<1>3. CASE Temps = {}
  <2>1. wal' = wal
    BY <1>3 DEF Open
  <2> QED BY <1>1, <1>2, <2>1 DEF Linked
<1>4. CASE Temps # {}
  <2> DEFINE rest == Unlink(wal, Temps)
  <2>1. wal' = SyncDirectory(rest)
    BY <1>4 DEF Open
  <2>2. PICK e : e \in WalEntry
    BY <1>4 DEF Temps, WalEntry
  <2>3. rest \in Directory(WalEntry) /\ rest.linked = wal.linked \ Temps
    BY <1>1, <2>2, DirectorySteps
  <2> HIDE DEF rest
  <2>4. /\ wal' \in Directory(WalEntry) /\ wal'.linked = wal.linked \ Temps
        /\ wal'.durable = wal'.linked
    BY <2>1, <2>3, DirectorySynced
  <2>5. \A n : Segment(n) \notin Temps
    BY EntriesDiffer DEF Temps
  <2>6. Linked' = Linked
    BY <2>4, <2>5 DEF Linked
  <2> QED BY <1>2, <2>4, <2>6
<1> QED BY <1>3, <1>4

\* Removing temporary files takes no segment and no snapshot away.
LEMMA OpenKeeps ==
  ASSUME StoreInv, Open
  PROVE  StoreInv'
<1> USE DEF StoreInv
<1>1. /\ phase = "Down" /\ root = "Manifest" /\ phase' = "Recover" /\ call' = "Open"
      /\ UNCHANGED <<root, segments, contents, active, batch, poisoned, visible>>
  BY DEF Open
<1>2. call = "None" /\ ~Unused
  <2>1. call = "None"
    BY <1>1, CallIs
  <2> QED BY <1>1, <2>1 DEF Unused
<1>3. /\ wal' \in Directory(WalEntry) /\ shots' \in Directory(ShotEntry)
      /\ shots'.linked \cup shots'.durable \subseteq shots.linked \cup shots.durable
  BY TempsRemoved
<1>4. FTypeOK'
  BY <1>1, <1>3 DEF FTypeOK, Step, After
<1>5. UnusedInv' /\ SnapshotsHold' /\ CallInv'
  BY <1>1, <1>2, <1>3 DEF UnusedInv, Unused, SnapshotsHold, CallInv, CallPhases
<1>6. ActiveInv' /\ FreshInv' /\ OpeningInv' /\ CompactingInv'
  BY <1>1 DEF ActiveInv, Serving, FreshInv, OpeningInv, CompactingInv
<1> QED BY <1>4, <1>5, <1>6

\* Open accepts what it accepted, when the segments after the anchor stay as they are.
LEMMA StaysAccepted ==
  ASSUME CanOpen, root' = root, Anchor' = Anchor, Suffix' = Suffix,
         \A n \in Suffix : After(n)' = After(n) /\ (segments'[n].torn => segments[n].torn)
  PROVE  CanOpen'
<1>1. Accepted(Anchor, Suffix) /\ root' = "Manifest"
  BY DEF CanOpen
<1>2. Contiguous(Suffix) => Contiguous(Suffix)'
  <2> SUFFICES ASSUME Contiguous(Suffix) PROVE Contiguous(Suffix)'
    OBVIOUS
  <2>1. \A n \in Suffix \ {Max(Suffix)} :
          ~segments[n].torn /\ After(n) = Min({s \in Suffix : s > n})
    BY DEF Contiguous
  <2>2. \A n \in Suffix \ {Max(Suffix)} :
          ~segments'[n].torn /\ After(n)' = Min({s \in Suffix : s > n})
    BY <2>1
  <2> QED BY <2>2 DEF Contiguous
<1> QED BY <1>1, <1>2 DEF CanOpen, Accepted

\* Cutting a partial tail off leaves the records.
LEMMA RepairedIs ==
  ASSUME FTypeOK, Recover
  PROVE  /\ segments' \in [Name -> SegmentFile]
         /\ \A n \in Name : /\ segments'[n].records = segments[n].records
                            /\ segments'[n].torn => segments[n].torn
                            /\ After(n)' = After(n)
                            /\ segments'[n].synced <= Len(segments'[n].records)
                            /\ segments'[n].synced >= segments[n].synced
                            /\ (segments[n].synced = Len(segments[n].records) =>
                                  segments'[n].synced = Len(segments'[n].records))
         /\ ~Exhausted => ~segments'[Max(Suffix)].torn
         /\ Max(Suffix) \in Suffix /\ Max(Suffix) \in Name
<1>1. segments \in [Name -> SegmentFile]
  BY DEF FTypeOK
<1>2. Suffix \in SUBSET Name /\ Suffix # {} /\ Max(Suffix) \in Suffix
  <2>1. Suffix \in SUBSET Name /\ Suffix # {}
    BY DEF Recover, CanOpen, Accepted, Suffix, Linked
  <2> QED BY <2>1, SegmentsEnd
<1>3. PICK m \in Name : m = Max(Suffix)
  BY <1>2
<1>4. \A n \in Name : /\ segments[n].synced \in Nat /\ Len(segments[n].records) \in Nat
                      /\ segments[n].synced <= Len(segments[n].records)
  BY SegmentIs
<1>5. CASE Exhausted
  <2>1. segments' = segments
    BY <1>5 DEF Recover
  <2> QED BY <1>1, <1>2, <1>4, <1>5, <2>1 DEF After
<1>6. CASE ~Exhausted
  <2> DEFINE new == Repaired(segments[m])
             size == Len(segments[m].records)
  <2>1. segments' = [segments EXCEPT ![m] = new]
    <3>1. segments' = [segments EXCEPT ![m] = Repaired(@)]
      BY <1>3, <1>6 DEF Recover
    <3> QED BY <1>1, <3>1
  <2>2. segments[m] \in SegmentFile /\ size \in Watermark
    <3>1. size \in Nat /\ size <= MaxRecord
      BY SegmentIs, LogIsSeq
    <3> QED BY <1>1, <3>1, NamesAre DEF Watermark
  <2>3. /\ new \in SegmentFile /\ new.records = segments[m].records /\ ~new.torn
        /\ new.synced = size \/ new.synced = segments[m].synced
    <3> HIDE DEF size
    <3>1. size = Len(segments[m].records)
      BY DEF size
    <3> QED BY <2>2, <3>1 DEF Repaired, SegmentFile
  <2>4. new.synced <= Len(new.records) /\ m + Len(new.records) <= MaxRecord + 1
    BY <1>4, <2>3, SegmentIs
  <2> HIDE DEF new
  <2>5. /\ segments' \in [Name -> SegmentFile] /\ segments'[m] = new
        /\ After(m)' = m + Len(new.records)
        /\ \A n \in Name : n # m => segments'[n] = segments[n] /\ After(n)' = After(n)
        /\ \A n \in Name : After(n)' <= MaxRecord + 1
                           /\ segments'[n].synced <= Len(segments'[n].records)
    BY <2>1, <2>3, <2>4, SegmentReplaced
  <2>6. After(m)' = After(m)
    BY <2>3, <2>5 DEF After
  <2>7. new.synced >= segments[m].synced
    BY <1>4, <2>3
  <2>8. segments[m].synced = Len(segments[m].records) => new.synced = Len(new.records)
    BY <2>3
  <2> QED BY <1>2, <1>3, <1>4, <2>3, <2>5, <2>6, <2>7, <2>8
<1> QED BY <1>5, <1>6

\* Cutting the tail of the last segment keeps the directory acceptable.
LEMMA RecoverKeeps ==
  ASSUME StoreInv, Recover
  PROVE  StoreInv'
<1> USE DEF StoreInv
<1>1. /\ phase = "Recover" /\ phase' = "RemoveObsolete"
      /\ UNCHANGED <<root, wal, shots, contents, call, active, batch, poisoned, visible>>
  BY DEF Recover, Continue
<1>2. call = "Open" /\ ~Unused
  <2>1. call = "Open"
    BY <1>1, CallIs
  <2> QED BY <1>1, <2>1 DEF Unused, UnusedInv
<1>3. FTypeOK'
  <2>1. /\ segments' \in [Name -> SegmentFile]
        /\ \A n \in Name : After(n)' = After(n) /\ segments'[n].synced <= Len(segments'[n].records)
    BY RepairedIs
  <2>2. \A n \in Name : After(n)' <= MaxRecord + 1
    BY <2>1, SegmentIs
  <2> QED BY <1>1, <2>1, <2>2 DEF FTypeOK, Step
<1>4. UnusedInv' /\ SnapshotsHold' /\ CallInv'
  BY <1>1, <1>2 DEF UnusedInv, Unused, SnapshotsHold, CallInv, CallPhases
<1>5. OpeningInv'
  <2>1. CanOpen
    BY DEF Recover
  <2>2. Anchor' = Anchor /\ Suffix' = Suffix
    BY <1>1 DEF Anchor, Suffix, Latest, Linked, Minimum
  <2>3. Suffix \subseteq Name
    BY DEF Suffix, Linked
  <2>4. \A n \in Suffix : After(n)' = After(n) /\ (segments'[n].torn => segments[n].torn)
    BY <2>3, RepairedIs
  <2> QED BY <1>1, <2>1, <2>2, <2>4, StaysAccepted DEF OpeningInv
<1>6. ActiveInv' /\ FreshInv' /\ CompactingInv'
  BY <1>1, <1>2 DEF ActiveInv, Serving, FreshInv, CompactingInv
<1> QED BY <1>3, <1>4, <1>5, <1>6

\* Removing segments before the anchor changes nothing that open reads.
LEMMA TrimmedIs ==
  ASSUME FTypeOK, RemoveObsolete \/ SyncTrimmed
  PROVE  /\ phase \in {"RemoveObsolete", "SyncTrimmed"}
         /\ phase' \in {"RemoveObsolete", "SyncTrimmed"}
         /\ UNCHANGED <<deployment, root, segments, shots, contents, call, active, batch, poisoned,
                        visible>>
         /\ wal' \in Directory(WalEntry)
         /\ wal'.linked \subseteq wal.linked
         /\ \A n \in Name : n >= Minimum => (n \in Linked' <=> n \in Linked)
         /\ wal'.durable = wal.durable \/ wal'.durable = wal'.linked
         /\ Anchor' = Anchor /\ Suffix' = Suffix
<1>1. /\ phase \in {"RemoveObsolete", "SyncTrimmed"}
      /\ phase' \in {"RemoveObsolete", "SyncTrimmed"}
      /\ UNCHANGED <<deployment, root, segments, shots, contents, call, active, batch, poisoned,
                     visible>>
  BY DEF RemoveObsolete, SyncTrimmed, Continue
<1>2. wal \in Directory(WalEntry)
  BY DEF FTypeOK
<1>3. /\ wal' \in Directory(WalEntry) /\ wal'.linked \subseteq wal.linked
      /\ \A n \in Name : n >= Minimum => (n \in Linked' <=> n \in Linked)
      /\ wal'.durable = wal.durable \/ wal'.durable = wal'.linked
  <2>1. CASE RemoveObsolete
    <3>1. PICK m \in Obsolete : wal' = Unlink(wal, {Segment(m)})
      BY <2>1 DEF RemoveObsolete
    <3>2. m \in Linked /\ m \notin Suffix /\ Segment(m) \in WalEntry
      BY <3>1 DEF Obsolete, Linked, WalEntry
    <3>3. /\ wal' \in Directory(WalEntry) /\ wal'.linked = wal.linked \ {Segment(m)}
          /\ wal'.durable = wal.durable
      BY <1>2, <3>1, <3>2, DirectorySteps
    <3>4. ASSUME NEW n \in Name, n >= Minimum PROVE n \in Linked' <=> n \in Linked
      <4>1. n # m
        BY <3>2, <3>4 DEF Suffix
      <4> QED BY <3>3, <4>1, EntriesDiffer DEF Linked
    <3> QED BY <3>3, <3>4
  <2>2. CASE SyncTrimmed
    <3>1. wal' = SyncDirectory(wal)
      BY <2>2 DEF SyncTrimmed
    <3>2. wal' \in Directory(WalEntry) /\ wal'.linked = wal.linked /\ wal'.durable = wal.linked
      BY <1>2, <3>1, DirectorySynced
    <3> QED BY <3>2 DEF Linked
  <2> QED BY <2>1, <2>2
<1>4. Anchor' = Anchor
  BY <1>1 DEF Anchor, Latest
<1>5. Minimum' = Minimum
  BY <1>4 DEF Minimum
<1>6. Suffix' = Suffix
  <2>1. Linked \subseteq Name /\ Linked' \subseteq Name
    BY DEF Linked
  <2> QED BY <1>3, <1>5, <2>1 DEF Suffix
<1> QED BY <1>1, <1>3, <1>4, <1>6

\* Removing segments before the anchor keeps the directory acceptable.
LEMMA TrimmingKeeps ==
  ASSUME StoreInv, RemoveObsolete \/ SyncTrimmed
  PROVE  StoreInv'
<1> USE DEF StoreInv
<1>1. /\ phase \in {"RemoveObsolete", "SyncTrimmed"}
      /\ phase' \in {"RemoveObsolete", "SyncTrimmed"}
      /\ UNCHANGED <<deployment, root, segments, shots, contents, call, active, batch, poisoned,
                     visible>>
      /\ wal' \in Directory(WalEntry)
      /\ Anchor' = Anchor /\ Suffix' = Suffix
  BY TrimmedIs
<1>2. call = "Open" /\ ~Unused
  <2>1. call = "Open"
    BY <1>1, CallIs
  <2> QED BY <1>1, <2>1 DEF Unused, UnusedInv
<1>3. FTypeOK'
  BY <1>1 DEF FTypeOK, Step, After
<1>4. UnusedInv' /\ SnapshotsHold' /\ CallInv'
  BY <1>1, <1>2 DEF UnusedInv, Unused, SnapshotsHold, CallInv, CallPhases
<1>5. OpeningInv'
  <2>1. CanOpen
    BY <1>1 DEF OpeningInv
  <2>2. \A n \in Suffix : After(n)' = After(n) /\ (segments'[n].torn => segments[n].torn)
    BY <1>1 DEF After
  <2> QED BY <1>1, <2>1, <2>2, StaysAccepted DEF OpeningInv
<1>6. ActiveInv' /\ FreshInv' /\ CompactingInv'
  BY <1>1, <1>2 DEF ActiveInv, Serving, FreshInv, CompactingInv
<1> QED BY <1>3, <1>4, <1>5, <1>6

\* Open serves what it recovered.
LEMMA FinishOpenKeeps ==
  ASSUME StoreInv, FinishOpen
  PROVE  StoreInv'
<1> USE DEF StoreInv
<1>1. /\ phase = "RemoveObsolete" /\ phase' = "Idle" /\ call' = "None"
      /\ active' = Max(Suffix) /\ visible' = RecoveredLog
      /\ UNCHANGED <<root, wal, segments, shots, contents, batch, poisoned>>
  BY DEF FinishOpen, disk
<1>2. call = "Open" /\ ~Unused /\ CanOpen /\ batch = <<>>
  <2>1. call = "Open" /\ CanOpen
    BY <1>1, CallIs DEF OpeningInv
  <2> QED BY <1>1, <2>1 DEF Unused, UnusedInv, CallInv
<1>3. /\ RecoveredLog \in Log /\ Max(Suffix) \in Name /\ Max(Suffix) \in Linked
      /\ Len(RecoveredLog) < MaxRecord => After(Max(Suffix)) = Len(RecoveredLog) + 1
  BY <1>2, RecoveredIsTyped
<1>4. FTypeOK'
  BY <1>1, <1>3 DEF FTypeOK, Step, After
<1>5. UnusedInv' /\ SnapshotsHold' /\ CallInv'
  BY <1>1, <1>2 DEF UnusedInv, Unused, SnapshotsHold, CallInv, CallPhases
<1>6. ActiveInv'
  <2>1. PICK m \in Name : m = Max(Suffix)
    BY <1>3
  <2>2. After(active)' = After(m)
    BY <1>1, <2>1 DEF After
  <2>3. PICK l \in Log : l = RecoveredLog
    BY <1>3
  <2>4. Len(l) \in Nat
    BY LogIsSeq
  <2> QED BY <1>1, <1>3, <2>1, <2>2, <2>3, <2>4 DEF ActiveInv, Linked
<1>7. FreshInv' /\ OpeningInv' /\ CompactingInv'
  BY <1>1 DEF FreshInv, OpeningInv, CompactingInv
<1> QED BY <1>4, <1>5, <1>6, <1>7

-----------------------------------------------------------------------------
(* The theorems.                                                            *)

\* Every step preserves the invariant.
LEMMA StoreStays ==
  ASSUME StoreInv, [FNext]_fvars
  PROVE  StoreInv'
<1>1. CASE UNCHANGED fvars
  <2> USE DEF StoreInv
  <2>1. /\ deployment' = deployment /\ root' = root /\ wal' = wal /\ segments' = segments
        /\ shots' = shots /\ contents' = contents /\ phase' = phase /\ call' = call
        /\ active' = active /\ batch' = batch /\ poisoned' = poisoned /\ visible' = visible
    BY <1>1 DEF fvars
  <2>2. FTypeOK'
    BY <2>1 DEF FTypeOK, After
  <2>3. UnusedInv' /\ SnapshotsHold' /\ CallInv'
    BY <2>1 DEF UnusedInv, Unused, SnapshotsHold, CallInv, Linked
  <2>4. ActiveInv' /\ FreshInv' /\ CompactingInv'
    <3>1. ActiveInv'
      BY <2>1 DEF ActiveInv, Serving, After
    <3>2. FreshInv'
      BY <2>1 DEF FreshInv, NextRecord, Linked
    <3>3. CompactingInv'
      BY <2>1 DEF CompactingInv
    <3> QED BY <3>1, <3>2, <3>3
  <2>5. OpeningInv'
    <3>1. Anchor' = Anchor /\ Suffix' = Suffix /\ Linked' = Linked
      BY <2>1 DEF Anchor, Latest, Suffix, Minimum, Linked
    <3>2. \A n \in Suffix : After(n)' = After(n) /\ segments'[n].torn = segments[n].torn
      BY <2>1 DEF After
    <3>3. CanOpen => CanOpen'
      BY <2>1, <3>1, <3>2, StaysAccepted
    <3> QED BY <2>1, <3>1, <3>3 DEF OpeningInv
  <2> QED BY <2>2, <2>3, <2>4, <2>5
<1>2. CASE Create
  BY <1>2, CreateKeeps
<1>3. CASE WriteManifest
  BY <1>3, WriteManifestKeeps
<1>4. CASE CreateTemp
  BY <1>4, CreateTempKeeps
<1>5. CASE LinkSegment
  BY <1>5, LinkSegmentKeeps
<1>6. CASE SyncSegment
  BY <1>6, SyncSegmentKeeps
<1>7. CASE StartAppend
  BY <1>7, StartAppendKeeps
<1>8. CASE Write
  BY <1>8, WriteKeeps
<1>9. CASE Persist
  BY <1>9, PersistKeeps
<1>10. CASE Publish
  BY <1>10, PublishKeeps
<1>11. CASE AppendFails
  BY <1>11, AppendFailsKeeps
<1>12. CASE StartSnapshot
  BY <1>12, StartSnapshotKeeps
<1>13. CASE WriteSnapshot
  BY <1>13, WriteSnapshotKeeps
<1>14. CASE InstallSnapshot
  BY <1>14, InstallSnapshotKeeps
<1>15. CASE SyncSnapshot \/ RemoveCovered \/ SyncCompacted \/ RemoveOlder \/ SyncCleanup
  BY <1>15, CleanUpKeeps
<1>16. CASE ReturnOutcome \/ SnapshotFails
  BY <1>16, SnapshotReturns
<1>17. CASE Open
  BY <1>17, OpenKeeps
<1>18. CASE Recover
  BY <1>18, RecoverKeeps
<1>19. CASE RemoveObsolete \/ SyncTrimmed
  BY <1>19, TrimmingKeeps
<1>20. CASE FinishOpen
  BY <1>20, FinishOpenKeeps
<1>21. CASE OpenFails \/ Close
  BY <1>21, QuietEndKeeps DEF OpenFails, Close
<1>22. CASE CrashProcess
  BY <1>22, CrashKeeps
<1>23. CASE LosePower
  BY <1>23, LosePowerKeeps
<1> QED
  BY <1>1, <1>2, <1>3, <1>4, <1>5, <1>6, <1>7, <1>8, <1>9, <1>10, <1>11, <1>12, <1>13, <1>14,
     <1>15, <1>16, <1>17, <1>18, <1>19, <1>20, <1>21, <1>22, <1>23 DEF FNext

\* The inductive invariant, whatever fails and however processes end: the files of a
\* database have the records their names say, the published state continues at the end
\* of the active segment, and what open accepted stays acceptable until it returns.
THEOREM StoreInvariant == FSpec => []StoreInv
<1>1. FInit => StoreInv
  BY StoreStarts
<1>2. StoreInv /\ [FNext]_fvars => StoreInv'
  BY StoreStays
<1> QED BY <1>1, <1>2, PTL DEF FSpec

\* Every variable has its type: no segment and no snapshot is named for a record beyond
\* the last record sequence, create_snapshot does not rotate when none is left, and what
\* open recovers is a log that the record sequence can number.
THEOREM StoreTyped == FSpec => []FTypeOK
<1>1. StoreInv => FTypeOK
  BY DEF StoreInv
<1> QED BY <1>1, StoreInvariant, PTL

\* When create_snapshot returns its outcome, its snapshot and the active segment are all
\* the directory holds, linked and on stable storage, whatever earlier calls left.
THEOREM SnapshotsAreCompact == FSpec => []SnapshotsCompact
<1>1. StoreInv => SnapshotsCompact
  BY DEF StoreInv, CompactingInv, SnapshotsCompact
<1> QED BY <1>1, StoreInvariant, PTL

-----------------------------------------------------------------------------
(***************************************************************************)
(* What the files of a directory say, as a relation between them and the   *)
(* log that recovery finds, now or after a failure.                        *)
(***************************************************************************)

\* The records of the segment named n are those of the log from n on.
Agrees(n, records, l) ==
  /\ n + Len(records) <= Len(l) + 1
  /\ \A i \in 1 .. Len(records) : records[i] = l[n + i - 1]

\* A directory with the segments names tells the log l, and goes on telling it when a
\* failure takes snapshots but the one of base, and segments but the firm ones.  Recovery
\* begins at one of the anchors; after it the segments follow on each other up to the
\* end of the log.  Only a segment without records, at the end, may disappear.
Shape(base, anchors, names, firm, segs, shot, l) ==
  /\ l \in Log
  /\ base \in anchors /\ \A w \in anchors : w \in Watermark /\ base <= w /\ w <= Len(l)
  /\ \A w \in anchors : shot[w] = SubSeq(l, 1, w) /\ (w = MaxRecord \/ w + 1 \in firm)
  /\ firm # {} /\ firm \subseteq names
  /\ \A n \in names : n > base =>
       /\ Agrees(n, segs[n].records, l)
       /\ \/ n + Len(segs[n].records) = Len(l) + 1
          \/ segs[n].records # <<>> /\ n + Len(segs[n].records) \in names
       /\ \A k \in names :
            k > n => ~segs[n].torn /\ segs[n].records # <<>> /\ n + Len(segs[n].records) <= k
       /\ n \notin firm => n = Len(l) + 1

\* Contents of segments.
Files(segs) == \A n \in Name : segs[n].records \in Seq(Value)

\* The numbers in a shape.
LEMMA ShapeNumbers ==
  ASSUME NEW base, NEW anchors, NEW names \in SUBSET Name, NEW firm, NEW segs, NEW shot, NEW l,
         Files(segs), Shape(base, anchors, names, firm, segs, shot, l)
  PROVE  /\ l \in Seq(Value) /\ Len(l) \in Nat /\ Len(l) <= MaxRecord /\ MaxRecord \in Nat
         /\ base \in Nat /\ base <= Len(l)
         /\ \A w \in anchors : w \in Nat /\ w <= MaxRecord
         /\ \A n \in names : /\ n \in Name /\ n \in Nat /\ n <= MaxRecord /\ 1 <= n
                             /\ segs[n].records \in Seq(Value) /\ Len(segs[n].records) \in Nat
                             /\ segs[n].records = <<>> <=> Len(segs[n].records) = 0
<1>1. l \in Seq(Value) /\ Len(l) <= MaxRecord /\ Len(l) \in Nat
  BY LogIsSeq DEF Shape
<1>2. base \in Watermark /\ base <= Len(l) /\ \A w \in anchors : w \in Watermark
  BY DEF Shape
<1>3. ASSUME NEW n \in names
      PROVE  /\ segs[n].records \in Seq(Value) /\ Len(segs[n].records) \in Nat
             /\ segs[n].records = <<>> <=> Len(segs[n].records) = 0
  <2>1. segs[n].records \in Seq(Value)
    BY DEF Files
  <2> QED BY <2>1, EmptySeq
<1> QED BY <1>1, <1>2, <1>3, NamesAre

-----------------------------------------------------------------------------
(* Prefixes.                                                                *)

\* A prefix has the elements of the log it begins.
LEMMA PrefixIs ==
  ASSUME NEW s \in Seq(Value), NEW t \in Seq(Value)
  PROVE  IsPrefix(s, t) <=> Len(s) <= Len(t) /\ \A i \in 1 .. Len(s) : s[i] = t[i]
<1>1. Len(s) \in Nat /\ Len(t) \in Nat
  OBVIOUS
<1> SUFFICES ASSUME Len(s) <= Len(t)
             PROVE  SubSeq(s, 1, Len(s)) = SubSeq(t, 1, Len(s)) <=>
                      \A i \in 1 .. Len(s) : s[i] = t[i]
  BY DEF IsPrefix
<1> DEFINE start == SubSeq(t, 1, Len(s))
<1>2. SubSeq(s, 1, Len(s)) = s
  BY SubSeqFull
<1>3. \A i \in 1 .. Len(s) : t[i] \in Value
  BY <1>1
<1>4. start \in Seq(Value) /\ Len(start) = Len(s) /\ \A i \in 1 .. Len(s) : start[i] = t[i]
  BY <1>1, <1>3, SubSeqProperties
<1> HIDE DEF start
<1>5. s = start <=> \A i \in 1 .. Len(s) : s[i] = start[i]
  BY <1>4, SeqEqual
<1> QED BY <1>2, <1>4, <1>5 DEF start

\* The beginning of a log.
LEMMA CutIs ==
  ASSUME NEW l \in Log, NEW k \in Nat, k <= Len(l)
  PROVE  /\ SubSeq(l, 1, k) \in Log /\ SubSeq(l, 1, k) \in Seq(Value) /\ Len(SubSeq(l, 1, k)) = k
         /\ \A i \in 1 .. k : SubSeq(l, 1, k)[i] = l[i]
         /\ IsPrefix(SubSeq(l, 1, k), l)
         /\ k = Len(l) => SubSeq(l, 1, k) = l
<1>1. l \in Seq(Value) /\ Len(l) \in Nat /\ Len(l) <= MaxRecord /\ MaxRecord \in Nat
  BY LogIsSeq, NamesAre
<1> DEFINE cut == SubSeq(l, 1, k)
<1>2. \A i \in 1 .. k : l[i] \in Value
  BY <1>1
<1>3. cut \in Seq(Value) /\ Len(cut) = k /\ \A i \in 1 .. k : cut[i] = l[i]
  BY <1>1, <1>2, SubSeqProperties
<1>4. k = Len(l) => cut = l
  BY <1>1, SubSeqFull
<1> HIDE DEF cut
<1>5. cut \in Log
  BY <1>1, <1>3, LogIsSeq
<1>6. IsPrefix(cut, l)
  BY <1>1, <1>3, PrefixIs
<1> QED BY <1>3, <1>4, <1>5, <1>6 DEF cut

\* A log and what is added to it.
LEMMA ExtendedIs ==
  ASSUME NEW l \in Seq(Value), NEW more \in Seq(Value)
  PROVE  /\ l \o more \in Seq(Value) /\ Len(l \o more) = Len(l) + Len(more)
         /\ Len(l) \in Nat /\ Len(more) \in Nat
         /\ \A i \in 1 .. Len(l) : (l \o more)[i] = l[i]
         /\ \A i \in 1 .. Len(more) : (l \o more)[Len(l) + i] = more[i]
         /\ IsPrefix(l, l \o more)
         /\ Len(more) > 0 => l # l \o more
<1>1. Len(l) \in Nat /\ Len(more) \in Nat
  OBVIOUS
<1> DEFINE all == l \o more
<1>2. /\ all \in Seq(Value) /\ Len(all) = Len(l) + Len(more)
      /\ \A i \in 1 .. Len(l) + Len(more) : all[i] = IF i <= Len(l) THEN l[i] ELSE more[i - Len(l)]
  BY ConcatProperties
<1> HIDE DEF all
<1>3. \A i \in 1 .. Len(l) : all[i] = l[i]
  BY <1>1, <1>2
<1>4. ASSUME NEW i \in 1 .. Len(more) PROVE all[Len(l) + i] = more[i]
  <2> DEFINE j == Len(l) + i
  <2>1. j \in 1 .. Len(l) + Len(more) /\ ~(j <= Len(l)) /\ j - Len(l) = i
    BY <1>1
  <2> HIDE DEF j
  <2>2. all[j] = more[i]
    BY <1>2, <2>1
  <2> QED BY <2>2 DEF j
<1>5. IsPrefix(l, all)
  BY <1>1, <1>2, <1>3, PrefixIs
<1>6. Len(more) > 0 => l # all
  BY <1>1, <1>2
<1> QED BY <1>1, <1>2, <1>3, <1>4, <1>5, <1>6 DEF all

-----------------------------------------------------------------------------
(* What open makes of a shape.                                              *)

\* Open accepts the directory and recovers the log, when it begins at an anchor.
LEMMA ShapeOpens ==
  ASSUME StoreInv, root = "Manifest",
         NEW base, NEW anchors, NEW firm, NEW l, Anchor \in anchors,
         Shape(base, anchors, Linked, firm, segments, contents, l)
  PROVE  CanOpen /\ RecoveredLog = l
<1>1. FTypeOK /\ SnapshotsHold
  BY DEF StoreInv
<1>2. Files(segments) /\ Linked \subseteq Name
  BY <1>1, SegmentIs DEF Files, Linked
<1>3. /\ l \in Seq(Value) /\ Len(l) \in Nat /\ Len(l) <= MaxRecord /\ MaxRecord \in Nat
      /\ base \in Nat /\ base <= Len(l)
      /\ \A n \in Linked : /\ n \in Name /\ n \in Nat /\ n <= MaxRecord /\ 1 <= n
                           /\ segments[n].records \in Seq(Value)
                           /\ Len(segments[n].records) \in Nat
                           /\ segments[n].records = <<>> <=> Len(segments[n].records) = 0
  BY <1>2, ShapeNumbers
<1>4. /\ Anchor \in Watermark /\ Anchor \in Nat /\ Anchor <= MaxRecord
      /\ base <= Anchor /\ Anchor <= Len(l)
      /\ contents[Anchor] = SubSeq(l, 1, Anchor)
      /\ Anchor = MaxRecord \/ Anchor + 1 \in Linked
  BY AnchorIs, NamesAre DEF Shape
<1>5. Linked # {}
  BY DEF Shape
<1>6. l \in Log
  BY DEF Shape
<1>7. CASE Anchor = MaxRecord
  <2>1. Suffix = Linked
    BY <1>7, <1>3 DEF Suffix, Minimum
  <2>2. CanOpen
    BY <1>5, <1>7, <2>1 DEF CanOpen, Accepted
  <2>3. RecoveredLog = contents[Anchor]
    BY <1>1, <1>7, <2>2, RecoveredIsTyped
  <2>4. Anchor = Len(l)
    BY <1>3, <1>4, <1>7
  <2>5. SubSeq(l, 1, Anchor) = l
    BY <1>4, <1>6, <2>4, CutIs
  <2> QED BY <1>4, <2>2, <2>3, <2>5
<1>8. CASE Anchor # MaxRecord
  <2>1. Suffix = {n \in Linked : n > Anchor} /\ Anchor + 1 \in Suffix
    BY <1>3, <1>4, <1>8 DEF Suffix, Minimum
  <2>2. ASSUME NEW n \in Suffix
        PROVE  /\ n \in Linked /\ n \in Nat /\ n > base
               /\ After(n) = n + Len(segments[n].records) /\ After(n) \in Nat
               /\ Agrees(n, segments[n].records, l)
               /\ \/ After(n) = Len(l) + 1
                  \/ After(n) \in Suffix /\ After(n) > n
               /\ \A k \in Linked : k > n => ~segments[n].torn /\ n < After(n) /\ After(n) <= k
    <3>1. n \in Linked /\ n \in Nat /\ n > base /\ n > Anchor
      BY <1>3, <1>4, <2>1, <2>2
    <3>2. After(n) = n + Len(segments[n].records) /\ After(n) \in Nat
      BY <1>3, <3>1 DEF After
    <3>3. segments[n].records # <<>> => After(n) > n
      BY <1>3, <3>1, <3>2
    <3>4. /\ Agrees(n, segments[n].records, l)
          /\ \/ After(n) = Len(l) + 1
             \/ segments[n].records # <<>> /\ After(n) \in Linked
          /\ \A k \in Linked :
               k > n => ~segments[n].torn /\ segments[n].records # <<>> /\ After(n) <= k
      BY <3>1, <3>2 DEF Shape
    <3>5. After(n) \in Linked /\ After(n) > n => After(n) \in Suffix
      BY <2>1, <3>1, <3>2, <1>4
    <3> QED BY <3>1, <3>2, <3>3, <3>4, <3>5
  <2>3. Suffix \in SUBSET Name /\ Suffix \subseteq Linked
    BY <1>2, <2>1
  <2>4. /\ Max(Suffix) \in Suffix /\ \A n \in Suffix : n <= Max(Suffix)
        /\ Min(Suffix) = Anchor + 1
    <3>1. /\ Max(Suffix) \in Suffix /\ \A n \in Suffix : n <= Max(Suffix)
          /\ Min(Suffix) \in Suffix /\ \A n \in Suffix : Min(Suffix) <= n
      BY <2>1, <2>3, SegmentsEnd
    <3>2. \A n \in Suffix : n \in Nat /\ n >= Anchor + 1
      BY <2>1, <2>2, <1>4
    <3>3. Min(Suffix) <= Anchor + 1 /\ Min(Suffix) >= Anchor + 1 /\ Min(Suffix) \in Nat
      BY <3>1, <3>2, <2>1
    <3>4. Min(Suffix) = Anchor + 1
      BY <3>3, <1>4
    <3> QED BY <3>1, <3>4
  <2>5. Contiguous(Suffix)
    <3> SUFFICES ASSUME NEW n \in Suffix, n # Max(Suffix)
                 PROVE  ~segments[n].torn /\ After(n) = Min({s \in Suffix : s > n})
      BY DEF Contiguous
    <3> DEFINE later == {s \in Suffix : s > n}
    <3>1. n < Max(Suffix) /\ Max(Suffix) \in Linked
      BY <2>2, <2>3, <2>4
    <3>2. later \in SUBSET Name /\ later # {}
      BY <2>3, <2>4, <3>1
    <3>3. Min(later) \in later /\ \A k \in later : Min(later) <= k
      BY <3>2, SegmentsEnd
    <3>4. ~segments[n].torn /\ n < After(n) /\ \A k \in later : After(n) <= k
      BY <2>2, <2>3, <3>1
    <3>5. After(n) \in later
      <4>1. CASE After(n) \in Suffix /\ After(n) > n
        BY <4>1
      <4>2. CASE After(n) = Len(l) + 1
        <5>1. PICK k \in later : TRUE
          BY <3>2
        <5>2. /\ k \in Suffix /\ k \in Linked /\ k \in Nat /\ After(n) <= k
              /\ k + Len(segments[k].records) <= Len(l) + 1 /\ Len(segments[k].records) \in Nat
          BY <5>1, <3>4, <2>2, <2>3, <1>3 DEF Agrees
        <5>3. Len(l) + 1 \in Nat /\ After(n) = Len(l) + 1
          BY <4>2, <1>3
        <5>4. k = After(n)
          BY <5>2, <5>3
        <5> QED BY <5>1, <5>4
      <4> QED BY <4>1, <4>2, <2>2
    <3>6. After(n) \in Nat /\ Min(later) \in Nat
      BY <2>2, <3>3
    <3>7. After(n) = Min(later)
      BY <3>3, <3>4, <3>5, <3>6
    <3> QED BY <3>4, <3>7
  <2>6. CanOpen
    BY <2>1, <2>4, <2>5 DEF CanOpen, Accepted
  <2>7. /\ RecoveredLog \in Seq(Value) /\ Len(RecoveredLog) = After(Max(Suffix)) - 1
        /\ \A i \in 1 .. Anchor : RecoveredLog[i] = contents[Anchor][i]
        /\ \A i \in Nat : Anchor < i /\ i <= Len(RecoveredLog) =>
             \E n \in Suffix : /\ n <= i /\ i < After(n)
                               /\ RecoveredLog[i] = segments[n].records[i - n + 1]
    <3>1. Len(contents[Anchor]) = Anchor
      BY <1>1, <2>6, RecoveredIsTyped
    <3> QED BY <1>1, <1>8, <2>6, <3>1, RecoveredRecords
  <2>8. After(Max(Suffix)) = Len(l) + 1
    BY <2>2, <2>4
  <2>9. Len(RecoveredLog) = Len(l)
    BY <2>7, <2>8, <1>3
  <2>10. ASSUME NEW i \in 1 .. Len(RecoveredLog) PROVE RecoveredLog[i] = l[i]
    <3>1. CASE i <= Anchor
      <4>1. i \in 1 .. Anchor
        BY <3>1, <1>4, <2>9, <1>3
      <4>2. SubSeq(l, 1, Anchor)[i] = l[i]
        BY <4>1, <1>4, <1>6, CutIs
      <4> QED BY <4>1, <4>2, <2>7, <1>4
    <3>2. CASE i > Anchor
      <4>1. i \in Nat /\ i <= Len(RecoveredLog)
        BY <2>9, <1>3
      <4>2. PICK n \in Suffix : /\ n <= i /\ i < After(n)
                                /\ RecoveredLog[i] = segments[n].records[i - n + 1]
        BY <4>1, <3>2, <2>7
      <4> DEFINE j == i - n + 1
      <4>3. /\ n \in Nat /\ After(n) = n + Len(segments[n].records)
            /\ Agrees(n, segments[n].records, l)
        BY <2>2, <4>2
      <4>4. n \in Linked /\ Len(segments[n].records) \in Nat
        BY <2>3, <4>2, <1>3
      <4>5. j \in 1 .. Len(segments[n].records) /\ n + j - 1 = i
        BY <4>1, <4>2, <4>3, <4>4
      <4> HIDE DEF j
      <4>6. segments[n].records[j] = l[n + j - 1]
        BY <4>3, <4>5 DEF Agrees
      <4>7. segments[n].records[j] = l[i]
        BY <4>5, <4>6
      <4> QED BY <4>2, <4>7 DEF j
    <3> QED BY <3>1, <3>2, <1>4, <1>3, <2>9
  <2>11. RecoveredLog = l
    BY <2>7, <2>9, <2>10, <1>3, SeqEqual
  <2> QED BY <2>6, <2>11
<1> QED BY <1>7, <1>8

-----------------------------------------------------------------------------
(* What becomes of a shape.                                                 *)

\* Entries come and go: the shape remains while the base moves on to another anchor, firm
\* segments after it stay firm, and none after it appears.
LEMMA ShapeMoves ==
  ASSUME NEW base, NEW anchors, NEW names \in SUBSET Name, NEW firm, NEW segs, NEW shot, NEW l,
         Files(segs), Shape(base, anchors, names, firm, segs, shot, l),
         NEW base2 \in anchors, NEW anchors2, base2 \in anchors2, anchors2 \subseteq anchors,
         \A w \in anchors2 : base2 <= w,
         NEW names2 \in SUBSET Name, NEW firm2, firm2 # {}, firm2 \subseteq names2,
         \A n \in Name : n > base2 => /\ n \in firm => n \in firm2
                                      /\ n \in names2 => n \in names
  PROVE  Shape(base2, anchors2, names2, firm2, segs, shot, l)
<1>1. /\ l \in Seq(Value) /\ Len(l) \in Nat /\ Len(l) <= MaxRecord /\ MaxRecord \in Nat
      /\ base \in Nat /\ base <= Len(l)
      /\ \A w \in anchors : w \in Nat /\ w <= MaxRecord
      /\ \A n \in names : /\ n \in Name /\ n \in Nat /\ n <= MaxRecord /\ 1 <= n
                          /\ segs[n].records \in Seq(Value) /\ Len(segs[n].records) \in Nat
                          /\ segs[n].records = <<>> <=> Len(segs[n].records) = 0
  BY ShapeNumbers
<1>2. base2 \in Nat /\ base <= base2
  BY <1>1 DEF Shape
<1>3. ASSUME NEW w \in anchors2
      PROVE  /\ w \in Watermark /\ base2 <= w /\ w <= Len(l) /\ shot[w] = SubSeq(l, 1, w)
             /\ w = MaxRecord \/ w + 1 \in firm2
  <2>1. /\ w \in Watermark /\ base2 <= w /\ w <= Len(l) /\ shot[w] = SubSeq(l, 1, w)
        /\ w = MaxRecord \/ w + 1 \in firm
    BY DEF Shape
  <2>2. w \in Nat /\ (w + 1 \in firm => w + 1 \in Name /\ w + 1 > base2)
    <3>1. w \in Nat /\ w + 1 > base2
      BY <1>1, <1>2, <2>1
    <3>2. firm \subseteq Name
      BY DEF Shape
    <3> QED BY <3>1, <3>2
  <2> QED BY <2>1, <2>2
<1>4. ASSUME NEW n \in names2, n > base2
      PROVE  /\ Agrees(n, segs[n].records, l)
             /\ \/ n + Len(segs[n].records) = Len(l) + 1
                \/ segs[n].records # <<>> /\ n + Len(segs[n].records) \in names2
             /\ \A k \in names2 :
                  k > n => ~segs[n].torn /\ segs[n].records # <<>> /\ n + Len(segs[n].records) <= k
             /\ n \notin firm2 => n = Len(l) + 1
  <2>1. n \in names /\ n \in Nat /\ n > base /\ n \in Name
    BY <1>1, <1>2, <1>4
  <2>2. /\ Agrees(n, segs[n].records, l)
        /\ \/ n + Len(segs[n].records) = Len(l) + 1
           \/ segs[n].records # <<>> /\ n + Len(segs[n].records) \in names
        /\ \A k \in names :
             k > n => ~segs[n].torn /\ segs[n].records # <<>> /\ n + Len(segs[n].records) <= k
        /\ n \notin firm => n = Len(l) + 1
    BY <2>1 DEF Shape
  <2>3. \A k \in names2 : k > n => k \in names
    <3> TAKE k \in names2
    <3>1. k \in Name /\ k \in Nat
      BY NamesAre
    <3>2. k > n => k > base2
      BY <3>1, <2>1, <1>2, <1>4
    <3> QED BY <3>1, <3>2
  <2>4. CASE n + Len(segs[n].records) = Len(l) + 1
    BY <2>2, <2>3, <2>4, <2>1, <1>4
  <2>5. CASE segs[n].records # <<>> /\ n + Len(segs[n].records) \in names
    <3> DEFINE after == n + Len(segs[n].records)
    <3>1. after \in Name /\ after \in Nat /\ after > base2 /\ after > n
      BY <1>1, <1>2, <1>4, <2>1, <2>5
    <3>2. after \in firm \/ after = Len(l) + 1
      <4>1. after \in names /\ after > base
        BY <3>1, <2>5, <1>1, <1>2
      <4> HIDE DEF after
      <4> QED BY <4>1 DEF Shape
    <3>3. after \in names2 \/ after = Len(l) + 1
      BY <3>1, <3>2
    <3> QED BY <3>3, <2>2, <2>3, <2>5, <2>1, <1>4
  <2> QED BY <2>2, <2>4, <2>5
<1>5. l \in Log
  BY DEF Shape
<1> QED BY <1>3, <1>4, <1>5 DEF Shape

\* Segments whose records stay, and that are no more torn than before.
LEMMA ShapeStays ==
  ASSUME NEW base, NEW anchors, NEW names \in SUBSET Name, NEW firm, NEW segs, NEW shot, NEW l,
         Shape(base, anchors, names, firm, segs, shot, l),
         NEW segs2,
         \A n \in Name : segs2[n].records = segs[n].records /\ (segs2[n].torn => segs[n].torn)
  PROVE  Shape(base, anchors, names, firm, segs2, shot, l)
<1>1. \A n \in names : segs2[n].records = segs[n].records /\ (segs2[n].torn => segs[n].torn)
  OBVIOUS
<1> QED BY <1>1 DEF Shape

\* A snapshot of the whole log is one more anchor.
LEMMA ShapeInstalls ==
  ASSUME NEW base, NEW anchors, NEW names \in SUBSET Name, NEW firm, NEW segs, NEW shot, NEW l,
         Files(segs), Shape(base, anchors, names, firm, segs, shot, l),
         NEW shot2, shot2[Len(l)] = l,
         \A w \in Watermark : w # Len(l) => shot2[w] = shot[w],
         Len(l) = MaxRecord \/ Len(l) + 1 \in firm
  PROVE  Shape(base, anchors \cup {Len(l)}, names, firm, segs, shot2, l)
<1>1. /\ l \in Seq(Value) /\ Len(l) \in Nat /\ Len(l) <= MaxRecord /\ MaxRecord \in Nat
      /\ base \in Nat /\ base <= Len(l)
  BY ShapeNumbers
<1>2. SubSeq(l, 1, Len(l)) = l /\ Len(l) \in Watermark
  BY <1>1, SubSeqFull DEF Watermark
<1>3. ASSUME NEW w \in anchors \cup {Len(l)}
      PROVE  /\ w \in Watermark /\ base <= w /\ w <= Len(l) /\ shot2[w] = SubSeq(l, 1, w)
             /\ w = MaxRecord \/ w + 1 \in firm
  <2>1. CASE w = Len(l)
    BY <2>1, <1>1, <1>2
  <2>2. CASE w # Len(l)
    BY <2>2 DEF Shape
  <2> QED BY <2>1, <2>2
<1> QED BY <1>3 DEF Shape

\* A new segment for the next record, when all those before it are whole and have records.
LEMMA ShapeLinks ==
  ASSUME NEW base, NEW anchors, NEW names \in SUBSET Name, NEW firm, NEW segs, NEW shot, NEW l,
         Files(segs), Shape(base, anchors, names, firm, segs, shot, l),
         Len(l) + 1 \notin names, Len(l) + 1 \in Name,
         \A n \in names : n > base => ~segs[n].torn /\ segs[n].records # <<>>,
         NEW segs2, segs2[Len(l) + 1] = EmptySegment,
         \A n \in Name : n # Len(l) + 1 => segs2[n] = segs[n],
         NEW firm2, firm \subseteq firm2, firm2 \subseteq names \cup {Len(l) + 1}
  PROVE  Shape(base, anchors, names \cup {Len(l) + 1}, firm2, segs2, shot, l)
<1> DEFINE N == Len(l) + 1
<1>1. /\ l \in Seq(Value) /\ Len(l) \in Nat /\ Len(l) <= MaxRecord /\ MaxRecord \in Nat
      /\ base \in Nat /\ base <= Len(l)
      /\ \A w \in anchors : w \in Nat /\ w <= MaxRecord
      /\ \A n \in names : /\ n \in Name /\ n \in Nat /\ n <= MaxRecord /\ 1 <= n
                          /\ segs[n].records \in Seq(Value) /\ Len(segs[n].records) \in Nat
                          /\ segs[n].records = <<>> <=> Len(segs[n].records) = 0
  BY ShapeNumbers
<1>2. /\ l \in Log /\ base \in anchors /\ firm # {} /\ firm \subseteq names
      /\ \A w \in anchors : w \in Watermark /\ base <= w /\ w <= Len(l)
      /\ \A w \in anchors : shot[w] = SubSeq(l, 1, w) /\ (w = MaxRecord \/ w + 1 \in firm)
  BY DEF Shape
<1>3. ASSUME NEW n \in names \cup {N}, n > base
      PROVE  /\ Agrees(n, segs2[n].records, l)
             /\ \/ n + Len(segs2[n].records) = Len(l) + 1
                \/ segs2[n].records # <<>> /\ n + Len(segs2[n].records) \in names \cup {N}
             /\ \A k \in names \cup {N} :
                  k > n => /\ ~segs2[n].torn /\ segs2[n].records # <<>>
                           /\ n + Len(segs2[n].records) <= k
             /\ n \notin firm2 => n = Len(l) + 1
  <2>1. CASE n \in names
    <3>1. segs2[n] = segs[n] /\ n \in Nat
      BY <2>1, <1>1
    <3>2. /\ Agrees(n, segs[n].records, l)
          /\ \/ n + Len(segs[n].records) = Len(l) + 1
             \/ segs[n].records # <<>> /\ n + Len(segs[n].records) \in names
          /\ \A k \in names :
               k > n => ~segs[n].torn /\ segs[n].records # <<>> /\ n + Len(segs[n].records) <= k
          /\ n \notin firm => n = Len(l) + 1
      BY <1>3, <2>1 DEF Shape
    <3>3. ~segs[n].torn /\ segs[n].records # <<>> /\ n + Len(segs[n].records) <= N
      BY <1>3, <2>1, <3>2 DEF Agrees
    <3>4. n \notin firm2 => n \notin firm
      OBVIOUS
    <3> HIDE DEF N
    <3> QED BY <3>1, <3>2, <3>3, <3>4
  <2>2. CASE n = N
    <3>1. segs2[n].records = <<>> /\ Len(segs2[n].records) = 0 /\ ~segs2[n].torn
      BY <2>2, EmptySegmentIs
    <3>2. n \in Nat /\ n = Len(l) + 1
      BY <2>2, <1>1
    <3>3. Agrees(n, segs2[n].records, l) /\ n + Len(segs2[n].records) = Len(l) + 1
      BY <3>1, <3>2, <1>1 DEF Agrees
    <3>4. \A k \in names : ~(k > n)
      <4> SUFFICES ASSUME NEW k \in names, k > n PROVE FALSE
        OBVIOUS
      <4>1. k > base /\ k \in Nat
        BY <1>1, <3>2
      <4>2. k + Len(segs[k].records) <= Len(l) + 1 /\ Len(segs[k].records) \in Nat
        BY <4>1, <1>1 DEF Shape, Agrees
      <4> QED BY <4>1, <4>2, <3>2, <1>1
    <3>5. \A k \in names \cup {N} : ~(k > n)
      BY <3>4, <3>2, <2>2
    <3> QED BY <3>2, <3>3, <3>5
  <2> QED BY <2>1, <2>2
<1>4. firm2 # {} /\ \A w \in anchors : w = MaxRecord \/ w + 1 \in firm2
  BY <1>2
<1> HIDE DEF N
<1>5. Shape(base, anchors, names \cup {N}, firm2, segs2, shot, l)
  BY <1>2, <1>3, <1>4 DEF Shape, N
<1> QED BY <1>5 DEF N

\* Logs that begin alike.
LEMMA SameBeginning ==
  ASSUME NEW l \in Log, NEW l2 \in Log, NEW w \in Nat, w <= Len(l), w <= Len(l2),
         \A i \in 1 .. w : l2[i] = l[i]
  PROVE  SubSeq(l2, 1, w) = SubSeq(l, 1, w)
<1> DEFINE s == SubSeq(l, 1, w)
           t == SubSeq(l2, 1, w)
<1>1. s \in Seq(Value) /\ Len(s) = w /\ \A i \in 1 .. w : s[i] = l[i]
  BY CutIs
<1>2. t \in Seq(Value) /\ Len(t) = w /\ \A i \in 1 .. w : t[i] = l2[i]
  BY CutIs
<1> HIDE DEF s, t
<1>3. s = t
  BY <1>1, <1>2, SeqEqual
<1> QED BY <1>3 DEF s, t

\* Records of a beginning.
LEMMA AgreesWith ==
  ASSUME NEW n \in Nat, 1 <= n, NEW r \in Seq(Value), NEW l, NEW l2, NEW w \in Nat,
         Agrees(n, r, l), Len(l) \in Nat, Len(l2) \in Nat,
         n + Len(r) <= w + 1, w <= Len(l2), \A i \in 1 .. w : l2[i] = l[i]
  PROVE  Agrees(n, r, l2)
<1>1. Len(r) \in Nat
  OBVIOUS
<1>2. ASSUME NEW i \in 1 .. Len(r) PROVE r[i] = l2[n + i - 1]
  <2> DEFINE j == n + i - 1
  <2>1. j \in 1 .. w
    BY <1>1
  <2>2. r[i] = l[j]
    BY DEF Agrees
  <2> HIDE DEF j
  <2>3. r[i] = l2[j]
    BY <2>1, <2>2
  <2> QED BY <2>3 DEF j
<1> QED BY <1>1, <1>2 DEF Agrees

\* Records at the end of the last segment are records at the end of the log.
LEMMA ShapeGrows ==
  ASSUME NEW base, NEW anchors, NEW names \in SUBSET Name, NEW firm, NEW segs, NEW shot, NEW l,
         Files(segs), Shape(base, anchors, names, firm, segs, shot, l),
         NEW a \in firm, a > base, a + Len(segs[a].records) = Len(l) + 1,
         \A k \in names : k <= a,
         NEW more \in Seq(Value), Len(l) + Len(more) <= MaxRecord,
         NEW segs2, segs2[a].records = segs[a].records \o more,
         \A n \in Name : n # a => segs2[n] = segs[n]
  PROVE  Shape(base, anchors, names, firm, segs2, shot, l \o more)
<1>1. /\ l \in Seq(Value) /\ Len(l) \in Nat /\ Len(l) <= MaxRecord /\ MaxRecord \in Nat
      /\ base \in Nat /\ base <= Len(l)
      /\ \A w \in anchors : w \in Nat /\ w <= MaxRecord
      /\ \A n \in names : /\ n \in Name /\ n \in Nat /\ n <= MaxRecord /\ 1 <= n
                          /\ segs[n].records \in Seq(Value) /\ Len(segs[n].records) \in Nat
                          /\ segs[n].records = <<>> <=> Len(segs[n].records) = 0
  <2>1. names \in SUBSET Name /\ Files(segs) /\ Shape(base, anchors, names, firm, segs, shot, l)
    OBVIOUS
  <2> QED BY ONLY <2>1, ShapeNumbers
<1>2. /\ l \in Log /\ base \in anchors /\ firm # {} /\ firm \subseteq names
      /\ \A w \in anchors : w \in Watermark /\ base <= w /\ w <= Len(l)
      /\ \A w \in anchors : shot[w] = SubSeq(l, 1, w) /\ (w = MaxRecord \/ w + 1 \in firm)
  BY DEF Shape
<1> DEFINE all == l \o more
           r == segs[a].records
           r2 == segs2[a].records
<1>3. /\ all \in Seq(Value) /\ Len(all) = Len(l) + Len(more) /\ Len(more) \in Nat
      /\ \A i \in 1 .. Len(l) : all[i] = l[i]
      /\ \A i \in 1 .. Len(more) : all[Len(l) + i] = more[i]
  BY <1>1, ExtendedIs
<1>4. a \in names /\ a \in Name /\ a \in Nat /\ 1 <= a /\ r \in Seq(Value) /\ Len(r) \in Nat
  BY <1>1, <1>2
<1>5. /\ r2 \in Seq(Value) /\ Len(r2) = Len(r) + Len(more)
      /\ \A i \in 1 .. Len(r) : r2[i] = r[i]
      /\ \A i \in 1 .. Len(more) : r2[Len(r) + i] = more[i]
  BY <1>4, ExtendedIs
<1>6. a + Len(r) = Len(l) + 1
  OBVIOUS
<1> HIDE DEF all, r, r2
<1>7. /\ a \in Nat /\ Len(r) \in Nat /\ Len(l) \in Nat /\ Len(more) \in Nat /\ 1 <= a
       /\ Len(r2) = Len(r) + Len(more) /\ Len(all) = Len(l) + Len(more) /\ a + Len(r) = Len(l) + 1
  BY <1>1, <1>3, <1>4, <1>5, <1>6
<1>8. a + Len(r2) = Len(all) + 1
  BY ONLY <1>7
<1>9. all \in Log
  BY <1>3, LogIsSeq
<1>10. ASSUME NEW w \in anchors
      PROVE  w <= Len(all) /\ shot[w] = SubSeq(all, 1, w)
  <2>1. w \in Nat /\ w <= Len(l) /\ w <= Len(all) /\ shot[w] = SubSeq(l, 1, w)
    BY <1>1, <1>2, <1>3
  <2>2. \A i \in 1 .. w : all[i] = l[i]
    BY <2>1, <1>1, <1>3
  <2>3. SubSeq(all, 1, w) = SubSeq(l, 1, w)
    BY <2>1, <2>2, <1>2, <1>9, SameBeginning
  <2> QED BY <2>1, <2>3
<1>11. ASSUME NEW n \in names, n > base
      PROVE  /\ Agrees(n, segs2[n].records, all)
             /\ \/ n + Len(segs2[n].records) = Len(all) + 1
                \/ segs2[n].records # <<>> /\ n + Len(segs2[n].records) \in names
             /\ \A k \in names :
                  k > n => ~segs2[n].torn /\ segs2[n].records # <<>> /\ n + Len(segs2[n].records) <= k
             /\ n \notin firm => n = Len(all) + 1
  <2>1. /\ Agrees(n, segs[n].records, l)
        /\ \/ n + Len(segs[n].records) = Len(l) + 1
           \/ segs[n].records # <<>> /\ n + Len(segs[n].records) \in names
        /\ \A k \in names :
             k > n => ~segs[n].torn /\ segs[n].records # <<>> /\ n + Len(segs[n].records) <= k
        /\ n \notin firm => n = Len(l) + 1
    BY <1>11 DEF Shape
  <2>2. /\ n \in Nat /\ 1 <= n /\ n <= a /\ segs[n].records \in Seq(Value)
        /\ Len(segs[n].records) \in Nat /\ n \in Name
    BY <1>1
  <2>3. n \in firm
    <3> SUFFICES ASSUME n \notin firm PROVE FALSE
      OBVIOUS
    <3>1. n = Len(l) + 1
      BY <2>1
    <3>2. n = a
      BY <3>1, <2>2, <1>4, <1>6, <1>1
    <3> QED BY <3>2
  <2>4. CASE n = a
    <3>1. Agrees(a, r2, all)
      <4>1. a + Len(r2) = Len(all) + 1
        BY <1>8
      <4>2. ASSUME NEW i \in 1 .. Len(r2) PROVE r2[i] = all[a + i - 1]
        <5>1. CASE i <= Len(r)
          <6> DEFINE j == a + i - 1
          <6>1. i \in 1 .. Len(r) /\ j \in 1 .. Len(l)
            BY <5>1, <1>1, <1>4, <1>5, <1>6
          <6>2. r[i] = l[j]
            BY <6>1, <2>1, <2>4 DEF Agrees, r
          <6> HIDE DEF j
          <6>3. r2[i] = all[j]
            BY <6>1, <6>2, <1>3, <1>5
          <6> QED BY <6>3 DEF j
        <5>2. CASE i > Len(r)
          <6> DEFINE j == i - Len(r)
          <6>1. j \in 1 .. Len(more) /\ Len(r) + j = i /\ Len(l) + j = a + i - 1
            <7>1. i \in 1 .. Len(r2) /\ i > Len(r)
              BY <5>2
            <7> QED BY ONLY <1>7, <7>1
          <6> HIDE DEF j
          <6>2. r2[Len(r) + j] = all[Len(l) + j]
            BY <6>1, <1>3, <1>5
          <6> QED BY <6>1, <6>2
        <5> QED BY <5>1, <5>2, <1>4, <1>5, <1>3
      <4> QED BY <4>1, <4>2, <1>1, <1>3 DEF Agrees
    <3>2. a + Len(r2) = Len(all) + 1
      BY <1>8
    <3>3. \A k \in names : ~(k > a)
      BY <1>1, <1>4
    <3> QED BY <3>1, <3>2, <3>3, <2>3, <2>4 DEF r2
  <2>5. CASE n # a
    <3>1. segs2[n] = segs[n] /\ n < a
      BY <2>2, <2>5, <1>4
    <3>2. ~segs[n].torn /\ segs[n].records # <<>> /\ n + Len(segs[n].records) <= a
      BY <2>1, <3>1, <1>4
    <3>3. n + Len(segs[n].records) \in names
      <4>1. CASE n + Len(segs[n].records) = Len(l) + 1
        <5>1. n + Len(segs[n].records) = a
          BY <4>1, <3>2, <1>1, <1>4, <1>6
        <5> QED BY <5>1, <1>4
      <4> QED BY <4>1, <2>1
    <3>4. Agrees(n, segs[n].records, all)
      <4> DEFINE w == Len(l)
      <4>1. n + Len(segs[n].records) <= w + 1
        BY <2>1 DEF Agrees
      <4>2. w \in Nat /\ w <= Len(all) /\ Len(all) \in Nat /\ \A i \in 1 .. w : all[i] = l[i]
        BY <1>1, <1>3
      <4> QED BY <4>1, <4>2, <2>1, <2>2, AgreesWith
    <3> QED BY <2>1, <2>3, <3>1, <3>2, <3>3, <3>4
  <2> QED BY <2>4, <2>5
<1>12. Shape(base, anchors, names, firm, segs2, shot, all)
  BY <1>2, <1>9, <1>10, <1>11 DEF Shape
<1> QED BY <1>12 DEF all

\* A cut in the last segment cuts the log.
LEMMA ShapeShrinks ==
  ASSUME NEW base, NEW names \in SUBSET Name, NEW segs, NEW shot, NEW l,
         Files(segs), Shape(base, {base}, names, names, segs, shot, l),
         NEW m \in names, m > base, \A k \in names : k <= m,
         NEW kept \in Nat, kept <= Len(segs[m].records),
         NEW segs2, segs2[m].records = SubSeq(segs[m].records, 1, kept),
         \A n \in names : n > base /\ n # m =>
           segs2[n].records = segs[n].records /\ (segs2[n].torn => segs[n].torn)
  PROVE  /\ Len(l) + 1 = m + Len(segs[m].records)
         /\ m + kept - 1 \in Nat /\ m + kept - 1 <= Len(l)
         /\ Shape(base, {base}, names, names, segs2, shot, SubSeq(l, 1, m + kept - 1))
<1>1. /\ l \in Seq(Value) /\ Len(l) \in Nat /\ Len(l) <= MaxRecord /\ MaxRecord \in Nat
      /\ base \in Nat /\ base <= Len(l)
      /\ \A n \in names : /\ n \in Name /\ n \in Nat /\ n <= MaxRecord /\ 1 <= n
                          /\ segs[n].records \in Seq(Value) /\ Len(segs[n].records) \in Nat
                          /\ segs[n].records = <<>> <=> Len(segs[n].records) = 0
  BY ShapeNumbers
<1>2. /\ l \in Log /\ names # {} /\ base \in Watermark
      /\ shot[base] = SubSeq(l, 1, base) /\ (base = MaxRecord \/ base + 1 \in names)
  BY DEF Shape
<1> DEFINE r == segs[m].records
           last == m + kept - 1
           cut == SubSeq(l, 1, last)
<1>3. /\ Agrees(m, r, l) /\ r \in Seq(Value) /\ Len(r) \in Nat /\ m \in Nat /\ 1 <= m
      /\ m + Len(r) = Len(l) + 1
  <2>1. /\ Agrees(m, r, l) /\ r \in Seq(Value) /\ Len(r) \in Nat /\ m \in Nat /\ 1 <= m
        /\ \/ m + Len(r) = Len(l) + 1
           \/ r # <<>> /\ m + Len(r) \in names
    BY <1>1 DEF Shape
  <2>2. r # <<>> => ~(m + Len(r) <= m)
    BY <1>1
  <2> QED BY <2>1, <2>2
<1>4. kept <= Len(r)
  OBVIOUS
<1>5. last \in Nat /\ last <= Len(l) /\ base <= last
  BY <1>1, <1>3, <1>4
<1>6. /\ cut \in Log /\ cut \in Seq(Value) /\ Len(cut) = last
      /\ \A i \in 1 .. last : cut[i] = l[i]
  BY <1>2, <1>5, CutIs
<1>7. /\ SubSeq(r, 1, kept) \in Seq(Value) /\ Len(SubSeq(r, 1, kept)) = kept
      /\ \A i \in 1 .. kept : SubSeq(r, 1, kept)[i] = r[i]
  <2>1. \A i \in 1 .. kept : r[i] \in Value
    BY <1>3, <1>4
  <2> QED BY <2>1, SubSeqProperties
<1> DEFINE r2 == SubSeq(r, 1, kept)
<1>8. segs2[m].records = r2 /\ last + 1 = m + kept
  BY <1>3
<1> HIDE DEF r2, r, cut, last
<1>9. SubSeq(cut, 1, base) = shot[base]
  <2>1. \A i \in 1 .. base : cut[i] = l[i]
    BY <1>1, <1>5, <1>6
  <2> QED BY <2>1, <1>1, <1>2, <1>5, <1>6, SameBeginning
<1>10. ASSUME NEW n \in names, n > base
       PROVE  /\ Agrees(n, segs2[n].records, cut)
              /\ \/ n + Len(segs2[n].records) = Len(cut) + 1
                 \/ segs2[n].records # <<>> /\ n + Len(segs2[n].records) \in names
              /\ \A k \in names :
                   k > n => ~segs2[n].torn /\ segs2[n].records # <<>> /\ n + Len(segs2[n].records) <= k
  <2>1. /\ Agrees(n, segs[n].records, l)
        /\ \/ n + Len(segs[n].records) = Len(l) + 1
           \/ segs[n].records # <<>> /\ n + Len(segs[n].records) \in names
        /\ \A k \in names :
             k > n => ~segs[n].torn /\ segs[n].records # <<>> /\ n + Len(segs[n].records) <= k
    BY <1>10 DEF Shape
  <2>2. /\ n \in Nat /\ 1 <= n /\ n <= m /\ segs[n].records \in Seq(Value)
        /\ Len(segs[n].records) \in Nat
    BY <1>1
  <2>3. CASE n = m
    <3>1. Agrees(m, r2, cut)
      <4>1. m + Len(r2) = Len(cut) + 1
        BY <1>6, <1>7, <1>8 DEF r2
      <4>2. ASSUME NEW i \in 1 .. Len(r2) PROVE r2[i] = cut[m + i - 1]
        <5> DEFINE j == m + i - 1
        <5>1. i \in 1 .. Len(r) /\ i \in 1 .. kept /\ j \in 1 .. last
          BY <1>3, <1>4, <1>5, <1>7, <1>8 DEF r2
        <5>2. r[i] = l[j]
          BY <5>1, <1>3 DEF Agrees
        <5> HIDE DEF j
        <5>3. r2[i] = cut[j]
          BY <5>1, <5>2, <1>6, <1>7 DEF r2
        <5> QED BY <5>3 DEF j
      <4> QED BY <4>1, <4>2, <1>5, <1>6, <1>3 DEF Agrees
    <3>2. m + Len(r2) = Len(cut) + 1
      BY <1>6, <1>7, <1>8 DEF r2
    <3>3. \A k \in names : ~(k > m)
      BY <1>1, <1>3
    <3> QED BY <3>1, <3>2, <3>3, <2>3, <1>8
  <2>4. CASE n # m
    <3>1. segs2[n].records = segs[n].records /\ (segs2[n].torn => segs[n].torn) /\ n < m
      BY <2>2, <2>4, <1>3, <1>10
    <3>2. ~segs[n].torn /\ segs[n].records # <<>> /\ n + Len(segs[n].records) <= m
      BY <2>1, <3>1
    <3>3. n + Len(segs[n].records) \in names
      <4>1. CASE n + Len(segs[n].records) = Len(l) + 1
        <5>1. n + Len(segs[n].records) = m
          BY <4>1, <3>2, <1>1, <1>3
        <5> QED BY <5>1
      <4> QED BY <4>1, <2>1
    <3>4. Agrees(n, segs[n].records, cut)
      <4>1. n + Len(segs[n].records) <= last + 1
        BY <3>2, <1>8, <1>3, <2>2
      <4>2. /\ last \in Nat /\ Len(l) \in Nat /\ Len(cut) \in Nat /\ last <= Len(cut)
            /\ \A i \in 1 .. last : cut[i] = l[i]
        BY <1>1, <1>5, <1>6
      <4> QED BY <4>1, <4>2, <2>1, <2>2, AgreesWith
    <3> QED BY <2>1, <3>1, <3>2, <3>3, <3>4
  <2> QED BY <2>3, <2>4
<1>11. Shape(base, {base}, names, names, segs2, shot, cut)
  <2>1. \A w \in {base} : /\ w \in Watermark /\ base <= w /\ w <= Len(cut)
                          /\ shot[w] = SubSeq(cut, 1, w) /\ (w = MaxRecord \/ w + 1 \in names)
    BY <1>1, <1>2, <1>5, <1>6, <1>9
  <2> QED BY <2>1, <1>2, <1>6, <1>10 DEF Shape
<1> QED BY <1>3, <1>5, <1>11 DEF r, cut, last

-----------------------------------------------------------------------------
(***************************************************************************)
(* The inductive invariant.                                                *)
(***************************************************************************)
Powered == "Power" \in deployment.restarts

\* The entries of a directory that no failure to come can take away.
Firm(dir) == IF Powered THEN dir.linked \cap dir.durable ELSE dir.linked

FirmSegments == {n \in Name : Segment(n) \in Firm(wal)}
FirmShots == {w \in Watermark : Snapshot(w) \in Firm(shots)}

\* Where recovery may begin, now or after a failure; the base is the first such place.
Base == Max({0} \cup FirmShots)
Anchors == {Base} \cup {w \in Latest : w > Base}

\* The files of a database tell the log that open would recover.
Tells(l) == Shape(Base, Anchors, Linked, FirmSegments, segments, contents, l)
DiskInv == ~Unused => Tells(RecoveredLog)

\* What was published is a prefix of it.
VisibleInv == ~Unused => IsPrefix(visible, RecoveredLog)

Rotating == phase \in {"CreateTemp", "LinkSegment", "SyncSegment"}

\* A database that serves, and is not poisoned, has written what it published and the
\* batch it is about to publish.  Its active segment is firm, and the last but for the
\* one that a rotation has linked.
ServeInv ==
  Serving /\ ~poisoned =>
    /\ RecoveredLog = IF phase \in {"Persist", "Publish"} THEN visible \o batch ELSE visible
    /\ active \in FirmSegments
    /\ Len(visible) < MaxRecord =>
         /\ active > Base /\ ~segments[active].torn
         /\ \A k \in Linked : k > active => k = NextRecord /\ phase = "SyncSegment"
         /\ Rotating => segments[active].records # <<>>

\* What create_snapshot has achieved: the log was rotated, there is a snapshot, which may
\* be recovered from, and no failure can take it any more.
SnapInv ==
  /\ call = "Snapshot" /\ ~Rotating /\ Len(visible) < MaxRecord => active = NextRecord
  /\ phase = "SyncSnapshot" => Len(visible) \in Anchors
  /\ phase \in {"RemoveCovered", "RemoveOlder", "Compacted"} => Base = Len(visible)

\* What open has repaired.
OpenInv ==
  phase \in {"RemoveObsolete", "SyncTrimmed"} => \A n \in Linked : n > Base => ~segments[n].torn

\* Records that are not synchronized are at the end of the log, and were not published.
SyncedInv ==
  \A n \in Linked : n > Base /\ segments[n].synced # Len(segments[n].records) =>
    /\ phase = "Persist" \/ poisoned
    /\ n + segments[n].synced > Len(visible)
    /\ \A k \in Linked : k <= n

\* Entries after the base that were removed are gone for good, and those that open finds
\* are there to stay.
DurableInv ==
  /\ \A n \in Name : n > Base /\ Segment(n) \in wal.durable => n \in Linked
  /\ \A w \in Watermark : w > Base /\ Snapshot(w) \in shots.durable => w \in Latest
  /\ phase = "Down" \/ call = "Open" =>
       wal.linked \subseteq wal.durable /\ shots.linked \subseteq shots.durable

PowerInv == Powered /\ ~Unused => SyncedInv /\ DurableInv

FileInv ==
  /\ deployment \in Deployments
  /\ DiskInv /\ VisibleInv /\ ServeInv /\ SnapInv /\ OpenInv /\ PowerInv

\* A loss of power meets databases that synchronize, and that are not restarted otherwise;
\* no rotation of create_snapshot fails between the link of the new segment and its use,
\* and the creation of a database is not interrupted. The code can meet what this leaves
\* out, and there the theorems that assume it need not hold.
TrustedDeployments ==
  /\ \A d \in Deployments :
       "Power" \in d.restarts => d.durability = "Sync" /\ d.restarts = {"Power"}
  /\ "Rotation" \notin Failures /\ "Create" \notin Failures

\* A step of the directory is one of the abstract log, or none.
Unsettled == call = "Append" \/ poisoned
Implements ==
  Durable!Next \/ (RecoveredLog' = RecoveredLog /\ visible' = visible /\ Unsettled' = Unsettled)

-----------------------------------------------------------------------------
(* Firm entries and anchors.                                                *)

\* The base is an anchor, and so is what open would begin at.
FirmFacts ==
  /\ FirmSegments \subseteq Linked /\ Linked \subseteq Name /\ Linked \in SUBSET Name
  /\ FirmShots \subseteq Latest /\ Latest \subseteq Watermark
  /\ Base \in Watermark /\ Base \in Nat /\ (Base = 0 \/ Base \in FirmShots)
  /\ \A w \in FirmShots : w <= Base
  /\ Base <= Anchor /\ Anchor \in Anchors /\ Base \in Anchors
  /\ \A w \in Anchors : w \in Watermark /\ Base <= w /\ (w = Base \/ w \in Latest)
  /\ ~Powered => FirmSegments = Linked /\ FirmShots = Latest /\ Base = Anchor

LEMMA FirmIs == FTypeOK => FirmFacts
<1> SUFFICES ASSUME FTypeOK PROVE FirmFacts
  OBVIOUS
<1>1. /\ FirmSegments \subseteq Linked /\ Linked \subseteq Name
      /\ FirmShots \subseteq Latest /\ Latest \subseteq Watermark
      /\ ~Powered => FirmSegments = Linked /\ FirmShots = Latest
  BY DEF FirmSegments, Linked, FirmShots, Latest, Firm
<1> DEFINE marks == {0} \cup FirmShots
<1>2. marks # {} /\ MaxRecord \in Nat /\ \A w \in marks : w \in Nat /\ w <= MaxRecord
  BY <1>1, NamesAre
<1> HIDE DEF marks
<1>3. Max(marks) \in marks /\ \A w \in marks : w <= Max(marks)
  BY <1>2, MaxIs
<1>4. /\ Base \in Watermark /\ Base \in Nat /\ (Base = 0 \/ Base \in FirmShots)
      /\ \A w \in FirmShots : w <= Base
  <2>1. Base = Max(marks)
    BY DEF Base, marks
  <2> QED BY <1>1, <1>3, <2>1, NamesAre DEF marks
<1>5. Base <= Anchor /\ Anchor \in Nat
  BY <1>1, <1>4, AnchorIs, NamesAre
<1>6. Anchor \in Anchors /\ Base \in Anchors
  BY <1>4, <1>5, AnchorIs DEF Anchors
<1>7. \A w \in Anchors : w \in Watermark /\ Base <= w /\ (w = Base \/ w \in Latest)
  BY <1>1, <1>4, NamesAre DEF Anchors
<1>8. ~Powered => Base = Anchor
  BY <1>1 DEF Base, Anchor
<1> QED BY <1>1, <1>4, <1>5, <1>6, <1>7, <1>8 DEF FirmFacts

\* The same of the next state.
LEMMA FirmIsNext ==
  FTypeOK' =>
    /\ FirmSegments' \subseteq Linked' /\ Linked' \subseteq Name /\ Linked' \in SUBSET Name
    /\ FirmShots' \subseteq Latest' /\ Latest' \subseteq Watermark
    /\ Base' \in Watermark /\ Base' \in Nat /\ (Base' = 0 \/ Base' \in FirmShots')
    /\ \A w \in FirmShots' : w <= Base'
    /\ Base' <= Anchor' /\ Anchor' \in Anchors' /\ Base' \in Anchors'
    /\ \A w \in Anchors' : w \in Watermark /\ Base' <= w /\ (w = Base' \/ w \in Latest')
    /\ ~Powered' => FirmSegments' = Linked' /\ FirmShots' = Latest' /\ Base' = Anchor'
<1>1. (FTypeOK => FirmFacts)'
  BY FirmIs, PTL
<1> QED BY <1>1 DEF FirmFacts

\* A database whose files tell a log opens, and recovers it.
LEMMA Reads ==
  \A l : StoreInv /\ root = "Manifest" /\ Tells(l) => CanOpen /\ RecoveredLog = l
<1> TAKE l
<1> HAVE StoreInv /\ root = "Manifest" /\ Tells(l)
<1>1. Anchor \in Anchors
  BY FirmIs DEF StoreInv, FirmFacts
<1> QED BY <1>1, ShapeOpens DEF Tells

\* The same of the next state.
LEMMA ReadsNext ==
  \A l : StoreInv' /\ root' = "Manifest"
         /\ Shape(Base', Anchors', Linked', FirmSegments', segments', contents', l)
       => CanOpen' /\ RecoveredLog' = l
<1>1. (\A l : StoreInv /\ root = "Manifest" /\ Tells(l) => CanOpen /\ RecoveredLog = l)'
  BY Reads, PTL
<1> QED BY <1>1 DEF Tells

-----------------------------------------------------------------------------
(* Steps of the abstract log.                                               *)

\* The log and what is acknowledged of it stay.
LEMMA QuietStep ==
  ASSUME RecoveredLog \in Seq(Value), RecoveredLog' = RecoveredLog, visible' = visible
  PROVE  Implements
<1>1. IsPrefix(RecoveredLog, RecoveredLog)
  BY PrefixIs
<1>2. CASE Unsettled /\ ~Unsettled'
  <2>1. Unsettled /\ Unsettled' \in BOOLEAN
    BY <1>2 DEF Unsettled
  <2>2. Durable!Extend
    BY <1>1 DEF Durable!Extend, Durable!IsPrefix, IsPrefix
  <2>3. Durable!Change
    BY <2>1, <2>2 DEF Durable!Change, Unsettled
  <2> QED BY <2>3 DEF Implements, Durable!Next
<1>3. CASE ~Unsettled /\ Unsettled'
  <2>1. ~Unsettled /\ Unsettled' = TRUE
    BY <1>3 DEF Unsettled
  <2>2. Durable!Begin
    BY <2>1 DEF Durable!Begin, Unsettled
  <2> QED BY <2>2 DEF Implements, Durable!Next
<1>4. CASE Unsettled <=> Unsettled'
  <2>1. Unsettled' = Unsettled
    BY <1>4 DEF Unsettled
  <2> QED BY <2>1 DEF Implements
<1> QED BY <1>2, <1>3, <1>4

\* An append, or a failure during one, changes the log behind what was acknowledged.
LEMMA ChangingStep ==
  ASSUME Unsettled, visible' = visible,
         \/ IsPrefix(RecoveredLog, RecoveredLog')
         \/ IsPrefix(RecoveredLog', RecoveredLog) /\ IsPrefix(visible, RecoveredLog')
  PROVE  Implements
<1>1. Unsettled /\ Unsettled' \in BOOLEAN
  BY DEF Unsettled
<1>2. Durable!Extend \/ Durable!Lose
  BY DEF Durable!Extend, Durable!Lose, Durable!IsPrefix, IsPrefix
<1>3. Durable!Change
  BY <1>1, <1>2 DEF Durable!Change, Unsettled
<1> QED BY <1>3 DEF Implements, Durable!Next

\* Entries are published.
LEMMA PublishingStep ==
  ASSUME ~Unsettled', RecoveredLog' = RecoveredLog,
         IsPrefix(visible, visible'), visible # visible', IsPrefix(visible', RecoveredLog)
  PROVE  Implements
<1>1. Unsettled' = FALSE
  BY DEF Unsettled
<1>2. Durable!Acknowledge
  BY <1>1 DEF Durable!Acknowledge, Durable!IsStrictPrefix, Durable!IsPrefix, IsPrefix, Unsettled
<1> QED BY <1>2 DEF Implements, Durable!Next

-----------------------------------------------------------------------------
(* Before the database is used.                                             *)

\* There is nothing to recover from a database that is being created.
LEMMA UnusedReads ==
  StoreInv /\ Unused => RecoveredLog = <<>>
<1> SUFFICES ASSUME StoreInv, Unused PROVE RecoveredLog = <<>>
  OBVIOUS
<1>1. FTypeOK /\ SnapshotsHold /\ UnusedInv
  BY DEF StoreInv
<1>2. /\ shots = NoEntries /\ \A w \in Watermark : contents[w] = <<>>
      /\ \A n \in Name : segments[n] = EmptySegment
  BY <1>1 DEF UnusedInv
<1>3. Anchor = 0 /\ contents[Anchor] = <<>>
  <2>1. Latest = {}
    BY <1>2 DEF Latest, NoEntries
  <2> QED BY <2>1, <1>2, AnchorIs
<1>4. MaxRecord # 0 /\ MaxRecord \in Nat
  BY FileStoreConstants
<1>5. CASE ~CanOpen
  <2>1. RecoveredLog = contents[Anchor] \o <<>>
    BY <1>5 DEF RecoveredLog, CanOpen
  <2>2. <<>> \in Seq(Value)
    OBVIOUS
  <2> QED BY <1>3, <2>1, <2>2, ConcatEmptySeq
<1>6. CASE CanOpen
  <2> DEFINE first == Min(Suffix)
  <2>1. /\ Suffix \subseteq Name /\ first = 1 /\ first \in Suffix
        /\ \A n \in Suffix : n # Max(Suffix) => n < After(n)
    <3>1. Suffix \subseteq Name /\ Min(Suffix) = Anchor + 1 /\ Max(Suffix) \in Suffix
          /\ \A n \in Suffix : n # Max(Suffix) => n < After(n)
      BY <1>1, <1>3, <1>4, <1>6, AcceptedSuffix
    <3>2. Min(Suffix) \in Suffix
      BY <3>1, SegmentsEnd
    <3> QED BY <3>1, <3>2, <1>3
  <2> HIDE DEF first
  <2>2. After(1) = 1
    BY <1>2, <2>1, EmptySegmentIs DEF After
  <2>3. Max(Suffix) = 1
    BY <2>1, <2>2
  <2>4. RecoveredLog \in Seq(Value) /\ Len(RecoveredLog) = After(Max(Suffix)) - 1
    <3>1. Len(contents[Anchor]) = Anchor
      BY <1>3
    <3> QED BY <1>1, <1>3, <1>4, <1>6, <3>1, RecoveredRecords
  <2>5. Len(RecoveredLog) = 0
    BY <2>2, <2>3, <2>4
  <2> QED BY <2>4, <2>5, EmptySeq
<1> QED BY <1>5, <1>6

\* The same of the next state.
LEMMA UnusedReadsNext ==
  StoreInv' /\ Unused' => RecoveredLog' = <<>>
<1>1. (StoreInv /\ Unused => RecoveredLog = <<>>)'
  BY UnusedReads, PTL
<1> QED BY <1>1

\* Nothing is asked of the files of a database that is not there yet.
LEMMA UnusedKeeps ==
  ASSUME StoreInv', Unused', deployment' \in Deployments
  PROVE  FileInv'
<1>1. FTypeOK' /\ CallInv' /\ UnusedInv'
  BY DEF StoreInv
<1>2. phase' = "Down" \/ call' = "Create"
  BY <1>1 DEF Unused, UnusedInv, CallInv, CallPhases, FTypeOK
<1>3. /\ phase' \notin {"SyncSnapshot", "RemoveCovered", "RemoveOlder", "Compacted",
                        "RemoveObsolete", "SyncTrimmed"}
      /\ call' # "Snapshot"
  BY <1>1, <1>2 DEF CallInv, CallPhases, FTypeOK
<1> QED BY <1>2, <1>3 DEF FileInv, DiskInv, VisibleInv, ServeInv, Serving, SnapInv, OpenInv, PowerInv

\* The steps of Database::create but the last.
LEMMA CreationStep ==
  ASSUME StoreInv, StoreInv', FileInv, Unused, Unused',
         visible' = visible, deployment' = deployment
  PROVE  FileInv' /\ Implements
<1>1. RecoveredLog = <<>> /\ RecoveredLog' = <<>>
  BY UnusedReads, UnusedReadsNext
<1>2. RecoveredLog \in Seq(Value)
  BY <1>1
<1>3. deployment' \in Deployments
  BY DEF FileInv
<1> QED BY <1>1, <1>2, <1>3, UnusedKeeps, QuietStep

-----------------------------------------------------------------------------
(* A database in use.                                                       *)

\* What is known of it.
LEMMA LogIs ==
  ASSUME StoreInv, FileInv, ~Unused
  PROVE  /\ root = "Manifest" /\ call # "Create" /\ FTypeOK /\ CallInv
         /\ Tells(RecoveredLog) /\ CanOpen /\ Files(segments)
         /\ RecoveredLog \in Log /\ RecoveredLog \in Seq(Value)
         /\ Len(RecoveredLog) \in Nat /\ Len(RecoveredLog) <= MaxRecord
         /\ visible \in Seq(Value) /\ Len(visible) \in Nat /\ Len(visible) <= Len(RecoveredLog)
         /\ Base \in Nat /\ Base <= Len(RecoveredLog) /\ Anchor \in Nat
         /\ Anchor <= Len(RecoveredLog)
<1>1. root = "Manifest" /\ call # "Create" /\ FTypeOK /\ CallInv
  BY DEF Unused, StoreInv
<1>2. Tells(RecoveredLog)
  BY DEF FileInv, DiskInv
<1>3. CanOpen
  BY <1>1, <1>2, Reads
<1>4. Files(segments)
  BY <1>1, SegmentIs DEF Files
<1>5. RecoveredLog \in Log
  BY <1>2 DEF Tells, Shape
<1>6. /\ RecoveredLog \in Seq(Value) /\ Len(RecoveredLog) \in Nat
      /\ Len(RecoveredLog) <= MaxRecord
  BY <1>5, LogIsSeq
<1>7. /\ Base \in Nat /\ Base <= Len(RecoveredLog) /\ Anchor \in Nat
      /\ Anchor <= Len(RecoveredLog)
  <2>1. Base \in Anchors /\ Anchor \in Anchors /\ Base \in Nat
    BY <1>1, FirmIs DEF FirmFacts
  <2> QED BY <2>1, <1>2, AnchorIs, NamesAre DEF Tells, Shape
<1>8. visible \in Seq(Value) /\ Len(visible) \in Nat
  BY <1>1, NextRecordIs
<1>9. IsPrefix(visible, RecoveredLog)
  BY DEF FileInv, VisibleInv
<1>10. Len(visible) <= Len(RecoveredLog)
  BY <1>6, <1>8, <1>9, PrefixIs
<1> QED BY <1>1, <1>2, <1>3, <1>4, <1>5, <1>6, <1>7, <1>8, <1>10

\* Steps that leave the snapshots, or the segments, where they are.
LEMMA SameShots ==
  ASSUME deployment' = deployment, shots' = shots
  PROVE  /\ Latest' = Latest /\ FirmShots' = FirmShots
         /\ Base' = Base /\ Anchors' = Anchors /\ Anchor' = Anchor
<1>1. Latest' = Latest /\ FirmShots' = FirmShots
  BY DEF Latest, FirmShots, Firm, Powered
<1>2. Base' = Base
  BY <1>1 DEF Base
<1> QED BY <1>1, <1>2 DEF Anchors, Anchor

\* The same of the log.
LEMMA SameNames ==
  ASSUME deployment' = deployment, wal' = wal
  PROVE  Linked' = Linked /\ FirmSegments' = FirmSegments
BY DEF Linked, FirmSegments, Firm, Powered

\* A step after which the files tell a log.
LEMMA TellsNext ==
  ASSUME StoreInv', root' = "Manifest", NEW l,
         Shape(Base', Anchors', Linked', FirmSegments', segments', contents', l)
  PROVE  RecoveredLog' = l /\ DiskInv'
<1>1. RecoveredLog' = l
  BY ReadsNext
<1> QED BY <1>1 DEF DiskInv, Tells

\* A step that changes no file.
LEMMA SameFiles ==
  ASSUME StoreInv, StoreInv', FileInv, ~Unused, UNCHANGED <<deployment, disk>>
  PROVE  /\ RecoveredLog' = RecoveredLog /\ DiskInv' /\ Powered' = Powered
         /\ Base' = Base /\ Anchors' = Anchors /\ Linked' = Linked /\ Latest' = Latest
         /\ FirmSegments' = FirmSegments
         /\ root' = "Manifest" /\ wal' = wal /\ segments' = segments /\ shots' = shots
         /\ deployment' \in Deployments
<1>1. /\ root' = root /\ wal' = wal /\ segments' = segments /\ shots' = shots
      /\ contents' = contents /\ deployment' = deployment
  BY DEF disk
<1>2. Tells(RecoveredLog) /\ root = "Manifest"
  BY LogIs
<1>3. /\ Latest' = Latest /\ Base' = Base /\ Anchors' = Anchors
      /\ Linked' = Linked /\ FirmSegments' = FirmSegments
  BY <1>1, SameShots, SameNames
<1>4. RecoveredLog' = RecoveredLog /\ DiskInv'
  BY <1>1, <1>2, <1>3, TellsNext DEF Tells
<1>5. Powered' = Powered /\ deployment' \in Deployments
  BY <1>1 DEF Powered, FileInv
<1> QED BY <1>1, <1>2, <1>3, <1>4, <1>5

\* Such a step, when it forgets nothing of an append.
LEMMA SamePower ==
  ASSUME StoreInv, StoreInv', FileInv, ~Unused, UNCHANGED <<deployment, disk>>,
         phase = "Persist" \/ poisoned =>
           (phase' = "Persist" \/ poisoned') /\ visible' = visible,
         Powered /\ (phase' = "Down" \/ call' = "Open") => phase = "Down" \/ call = "Open"
  PROVE  PowerInv'
<1> SUFFICES ASSUME Powered' PROVE SyncedInv' /\ DurableInv'
  BY DEF PowerInv
<1>1. /\ Powered' = Powered /\ Base' = Base /\ Linked' = Linked /\ Latest' = Latest
      /\ wal' = wal /\ segments' = segments /\ shots' = shots
  BY SameFiles
<1>2. SyncedInv /\ DurableInv
  BY <1>1 DEF FileInv, PowerInv
<1>3. SyncedInv'
  <2> SUFFICES ASSUME NEW n \in Linked, n > Base,
                      segments[n].synced # Len(segments[n].records)
               PROVE  /\ phase' = "Persist" \/ poisoned'
                      /\ n + segments[n].synced > Len(visible')
                      /\ \A k \in Linked : k <= n
    BY <1>1 DEF SyncedInv
  <2>1. /\ phase = "Persist" \/ poisoned
        /\ n + segments[n].synced > Len(visible)
        /\ \A k \in Linked : k <= n
    BY <1>2 DEF SyncedInv
  <2> QED BY <2>1
<1>4. DurableInv'
  BY <1>1, <1>2 DEF DurableInv
<1> QED BY <1>3, <1>4

\* The process ends, and the files stay: not by a failure of power.
LEMMA EndStep ==
  ASSUME StoreInv, StoreInv', FileInv, ~Unused, UNCHANGED <<deployment, disk>>, End,
         Powered => call = "Open"
  PROVE  FileInv' /\ Implements
<1>1. /\ RecoveredLog' = RecoveredLog /\ DiskInv' /\ root' = "Manifest"
      /\ deployment' \in Deployments
  BY SameFiles
<1>2. phase' = "Down" /\ call' = "None" /\ visible' = visible
  BY DEF End
<1>3. PowerInv'
  <2>1. CASE Powered
    <3>1. phase # "Persist" /\ ~poisoned
      <4>1. call = "Open" /\ FTypeOK /\ CallInv
        BY <2>1, LogIs
      <4> QED BY <4>1, CallIs DEF CallInv
    <3> QED BY <3>1, <2>1, SamePower
  <2>2. CASE ~Powered
    BY <2>2, SameFiles DEF PowerInv
  <2> QED BY <2>1, <2>2
<1>4. VisibleInv' /\ ServeInv' /\ SnapInv' /\ OpenInv'
  BY <1>1, <1>2 DEF VisibleInv, FileInv, ServeInv, Serving, SnapInv, OpenInv
<1>5. RecoveredLog \in Seq(Value)
  BY LogIs
<1> QED BY <1>1, <1>2, <1>3, <1>4, <1>5, QuietStep DEF FileInv

\* A database that serves is in use.
LEMMA ServingIs ==
  ASSUME StoreInv, FileInv, Serving
  PROVE  /\ ~Unused /\ call \in {"None", "Append", "Snapshot"}
         /\ FTypeOK /\ CallInv /\ ActiveInv
         /\ Len(visible) < MaxRecord /\ ~poisoned /\ phase \notin {"Persist", "Publish"} =>
              After(active) = NextRecord
<1>1. FTypeOK /\ CallInv /\ ActiveInv /\ UnusedInv
  BY DEF StoreInv
<1>2. phase # "Down" /\ call # "Create" /\ call # "Open"
  BY DEF Serving
<1>3. root = "Manifest"
  BY <1>1, <1>2, CallIs DEF UnusedInv
<1>4. call \in {"None", "Append", "Snapshot"}
  BY <1>1, <1>2 DEF FTypeOK
<1>5. ASSUME Len(visible) < MaxRecord, ~poisoned, phase \notin {"Persist", "Publish"}
      PROVE  After(active) = NextRecord
  <2>1. After(active) = Len(visible) + 1 + 0
    BY <1>1, <1>5 DEF ActiveInv
  <2> QED BY <2>1, <1>1, NextRecordIs
<1> QED BY <1>1, <1>2, <1>3, <1>4, <1>5 DEF Unused

\* An append begins.
LEMMA StartAppendImplements ==
  ASSUME StoreInv, StoreInv', FileInv, StartAppend
  PROVE  FileInv' /\ Implements
<1>1. /\ phase = "Idle" /\ ~poisoned /\ phase' \in {"CreateTemp", "Write"} /\ call' = "Append"
      /\ active' = active /\ visible' = visible /\ poisoned' = poisoned
      /\ UNCHANGED <<deployment, disk>>
      /\ phase' = "CreateTemp" => Len(segments[active].records) > 0
  BY DEF StartAppend, MustRotate
<1>2. call = "None"
  BY <1>1, CallIs DEF StoreInv
<1>3. Serving
  BY <1>1, <1>2 DEF Serving
<1>4. ~Unused
  BY <1>3, ServingIs
<1>5. /\ RecoveredLog' = RecoveredLog /\ DiskInv' /\ deployment' \in Deployments
      /\ Base' = Base /\ Linked' = Linked /\ FirmSegments' = FirmSegments /\ segments' = segments
  BY <1>1, <1>4, SameFiles
<1>6. PowerInv'
  BY <1>1, <1>4, SamePower
<1>7. ServeInv'
  <2>1. /\ RecoveredLog = visible /\ active \in FirmSegments
        /\ Len(visible) < MaxRecord =>
             /\ active > Base /\ ~segments[active].torn
             /\ \A k \in Linked : ~(k > active)
    BY <1>1, <1>3 DEF FileInv, ServeInv
  <2>2. Rotating' => segments[active].records # <<>>
    BY <1>1 DEF Rotating
  <2> QED BY <1>1, <1>5, <2>1, <2>2 DEF ServeInv
<1>8. VisibleInv' /\ SnapInv' /\ OpenInv'
  BY <1>1, <1>4, <1>5 DEF FileInv, VisibleInv, SnapInv, OpenInv
<1>9. RecoveredLog \in Seq(Value)
  BY <1>4, LogIs
<1> QED BY <1>1, <1>5, <1>6, <1>7, <1>8, <1>9, QuietStep DEF FileInv

\* What was written is published.
LEMMA PublishImplements ==
  ASSUME StoreInv, StoreInv', FileInv, Publish
  PROVE  FileInv' /\ Implements
<1>1. /\ phase = "Publish" /\ phase' = "Idle" /\ call' = "None"
      /\ active' = active /\ visible' = visible \o batch /\ poisoned' = poisoned
      /\ UNCHANGED <<deployment, disk>>
  BY DEF Publish
<1>2. FTypeOK /\ CallInv /\ call = "Append" /\ ~poisoned
  <2>1. FTypeOK /\ CallInv
    BY DEF StoreInv
  <2> QED BY <1>1, <2>1, CallIs DEF CallInv
<1>3. Serving
  BY <1>1, <1>2 DEF Serving
<1>4. ~Unused
  BY <1>3, ServingIs
<1>5. /\ RecoveredLog' = RecoveredLog /\ DiskInv' /\ deployment' \in Deployments
      /\ Base' = Base /\ Linked' = Linked /\ FirmSegments' = FirmSegments /\ segments' = segments
  BY <1>1, <1>4, SameFiles
<1>6. PowerInv'
  BY <1>1, <1>2, <1>4, SamePower
<1>7. /\ visible \in Seq(Value) /\ batch \in Seq(Value) /\ Len(batch) \in Nat /\ Len(batch) > 0
      /\ Len(visible) \in Nat
  BY <1>2, NextRecordIs DEF CallInv
<1>8. /\ RecoveredLog = visible' /\ active \in FirmSegments
      /\ Len(visible) < MaxRecord =>
           /\ active > Base /\ ~segments[active].torn
           /\ \A k \in Linked : ~(k > active)
  BY <1>1, <1>2, <1>3 DEF FileInv, ServeInv
<1>9. ServeInv'
  <2>1. Len(visible') < MaxRecord => Len(visible) < MaxRecord
    <3>1. Len(visible') = Len(visible) + Len(batch) /\ MaxRecord \in Nat
      BY <1>1, <1>7, ExtendedIs, NamesAre
    <3> QED BY <3>1, <1>7
  <2>2. ~Rotating' /\ phase' \notin {"Persist", "Publish"}
    BY <1>1 DEF Rotating
  <2> QED BY <1>1, <1>5, <1>8, <2>1, <2>2 DEF ServeInv
<1>10. RecoveredLog \in Seq(Value) /\ IsPrefix(RecoveredLog, RecoveredLog)
  <2>1. RecoveredLog \in Seq(Value)
    BY <1>4, LogIs
  <2> QED BY <2>1, PrefixIs
<1>11. VisibleInv' /\ SnapInv' /\ OpenInv'
  BY <1>1, <1>5, <1>8, <1>10 DEF VisibleInv, SnapInv, OpenInv
<1>12. Implements
  <2>1. IsPrefix(visible, visible') /\ visible # visible'
    BY <1>1, <1>7, ExtendedIs
  <2>2. ~Unsettled'
    BY <1>1, <1>2 DEF Unsettled
  <2> QED BY <1>5, <1>8, <1>10, <2>1, <2>2, PublishingStep
<1> QED BY <1>5, <1>6, <1>9, <1>11, <1>12 DEF FileInv

\* create_snapshot begins, and rotates the log unless the active segment is empty.
LEMMA StartSnapshotImplements ==
  ASSUME StoreInv, StoreInv', FileInv, StartSnapshot
  PROVE  FileInv' /\ Implements
<1>1. /\ phase = "Idle" /\ ~poisoned /\ phase' \in {"CreateTemp", "WriteSnapshot"}
      /\ call' = "Snapshot"
      /\ active' = active /\ visible' = visible /\ poisoned' = poisoned
      /\ UNCHANGED <<deployment, disk>>
      /\ phase' = "CreateTemp" => segments[active].records # <<>>
      /\ phase' = "WriteSnapshot" => ~HasSuccessor \/ segments[active].records = <<>>
  BY DEF StartSnapshot
<1>2. call = "None"
  BY <1>1, CallIs DEF StoreInv
<1>3. Serving
  BY <1>1, <1>2 DEF Serving
<1>4. ~Unused /\ FTypeOK /\ (Len(visible) < MaxRecord => After(active) = NextRecord)
  BY <1>1, <1>3, ServingIs
<1>5. /\ RecoveredLog' = RecoveredLog /\ DiskInv' /\ deployment' \in Deployments
      /\ Base' = Base /\ Linked' = Linked /\ FirmSegments' = FirmSegments /\ segments' = segments
  BY <1>1, <1>4, SameFiles
<1>6. PowerInv'
  BY <1>1, <1>4, SamePower
<1>7. ServeInv'
  <2>1. /\ RecoveredLog = visible /\ active \in FirmSegments
        /\ Len(visible) < MaxRecord =>
             /\ active > Base /\ ~segments[active].torn
             /\ \A k \in Linked : ~(k > active)
    BY <1>1, <1>3 DEF FileInv, ServeInv
  <2>2. Rotating' => segments[active].records # <<>>
    BY <1>1 DEF Rotating
  <2> QED BY <1>1, <1>5, <2>1, <2>2 DEF ServeInv
<1>8. SnapInv'
  <2> SUFFICES ASSUME ~Rotating', Len(visible) < MaxRecord PROVE active = NextRecord'
    BY <1>1 DEF SnapInv
  <2>1. phase' = "WriteSnapshot"
    BY <1>1 DEF Rotating
  <2>2. Len(visible) \in Nat /\ MaxRecord \in Nat /\ NextRecord = Len(visible) + 1
        /\ active \in Name
    BY <1>4, NextRecordIs
  <2>3. HasSuccessor
    BY <2>2 DEF HasSuccessor
  <2>4. segments[active].records = <<>>
    BY <1>1, <2>1, <2>3
  <2>5. After(active) = active
    BY <2>2, <2>4, NamesAre DEF After
  <2> QED BY <1>1, <1>4, <2>5 DEF NextRecord
<1>9. VisibleInv' /\ OpenInv'
  BY <1>1, <1>4, <1>5 DEF FileInv, VisibleInv, OpenInv
<1>10. RecoveredLog \in Seq(Value)
  BY <1>4, LogIs
<1> QED BY <1>1, <1>5, <1>6, <1>7, <1>8, <1>9, <1>10, QuietStep DEF FileInv

\* create_snapshot returns its outcome, or an error.
LEMMA SnapshotEndImplements ==
  ASSUME StoreInv, StoreInv', FileInv, TrustedDeployments, ReturnOutcome \/ SnapshotFails
  PROVE  FileInv' /\ Implements
<1>1. /\ phase' = "Idle" /\ call' = "None" /\ active' = active /\ visible' = visible
      /\ poisoned' = poisoned /\ UNCHANGED <<deployment, disk>>
      /\ phase = "Compacted" \/ call = "Snapshot"
  BY DEF ReturnOutcome, SnapshotFails, Return
<1>2. phase # "SyncSegment"
  BY DEF ReturnOutcome, SnapshotFails, TrustedDeployments
<1>3. FTypeOK /\ CallInv /\ call = "Snapshot"
  <2>1. FTypeOK /\ CallInv
    BY DEF StoreInv
  <2> QED BY <1>1, <2>1, CallIs
<1>4. phase \notin {"Down", "Idle", "Persist", "Publish"} /\ ~poisoned
  BY <1>3, CallIs DEF CallInv
<1>5. Serving
  BY <1>3, <1>4 DEF Serving
<1>6. ~Unused
  BY <1>5, ServingIs
<1>7. /\ RecoveredLog' = RecoveredLog /\ DiskInv' /\ deployment' \in Deployments
      /\ Base' = Base /\ Linked' = Linked /\ FirmSegments' = FirmSegments /\ segments' = segments
  BY <1>1, <1>6, SameFiles
<1>8. PowerInv'
  BY <1>1, <1>4, <1>6, SamePower
<1>9. ServeInv'
  <2>1. /\ RecoveredLog = visible /\ active \in FirmSegments
        /\ Len(visible) < MaxRecord =>
             /\ active > Base /\ ~segments[active].torn
             /\ \A k \in Linked : ~(k > active)
    BY <1>2, <1>4, <1>5 DEF FileInv, ServeInv
  <2>2. ~Rotating' /\ phase' \notin {"Persist", "Publish"}
    BY <1>1 DEF Rotating
  <2> QED BY <1>1, <1>7, <2>1, <2>2 DEF ServeInv
<1>10. VisibleInv' /\ SnapInv' /\ OpenInv'
  BY <1>1, <1>6, <1>7 DEF FileInv, VisibleInv, SnapInv, OpenInv
<1>11. RecoveredLog \in Seq(Value)
  BY <1>6, LogIs
<1> QED BY <1>1, <1>7, <1>8, <1>9, <1>10, <1>11, QuietStep DEF FileInv

\* Open serves what it recovered.
LEMMA FinishOpenImplements ==
  ASSUME StoreInv, StoreInv', FileInv, FinishOpen
  PROVE  FileInv' /\ Implements
<1>1. /\ phase = "RemoveObsolete" /\ active' = Max(Suffix) /\ visible' = RecoveredLog
      /\ phase' = "Idle" /\ call' = "None" /\ poisoned' = poisoned
      /\ UNCHANGED <<deployment, disk>>
  BY DEF FinishOpen
<1>2. FTypeOK /\ CallInv /\ call = "Open" /\ ~poisoned /\ SnapshotsHold
  <2>1. FTypeOK /\ CallInv /\ SnapshotsHold
    BY DEF StoreInv
  <2> QED BY <1>1, <2>1, CallIs DEF CallInv
<1>3. ~Unused
  <2>1. UnusedInv
    BY DEF StoreInv
  <2> QED BY <1>1, <1>2, <2>1 DEF Unused, UnusedInv
<1>4. /\ RecoveredLog' = RecoveredLog /\ DiskInv' /\ deployment' \in Deployments
      /\ Base' = Base /\ Linked' = Linked /\ FirmSegments' = FirmSegments /\ segments' = segments
  BY <1>1, <1>3, SameFiles
<1>5. PowerInv'
  BY <1>1, <1>2, <1>3, SamePower
<1>6. /\ RecoveredLog \in Seq(Value) /\ Len(RecoveredLog) \in Nat /\ CanOpen
      /\ visible \in Seq(Value) /\ Anchor \in Nat /\ Anchor <= Len(RecoveredLog)
      /\ IsPrefix(visible, RecoveredLog) /\ IsPrefix(RecoveredLog, RecoveredLog)
  <2>1. /\ RecoveredLog \in Seq(Value) /\ Len(RecoveredLog) \in Nat /\ CanOpen
        /\ visible \in Seq(Value) /\ Anchor \in Nat /\ Anchor <= Len(RecoveredLog)
    BY <1>3, LogIs
  <2> QED BY <2>1, <1>3, PrefixIs DEF FileInv, VisibleInv
<1>7. FirmSegments = Linked
  <2>1. CASE Powered
    <3>1. wal.linked \subseteq wal.durable
      BY <2>1, <1>2, <1>3 DEF FileInv, PowerInv, DurableInv
    <3> QED BY <2>1, <3>1 DEF FirmSegments, Linked, Firm
  <2>2. CASE ~Powered
    BY <2>2, <1>2, FirmIs DEF FirmFacts
  <2> QED BY <2>1, <2>2
<1>8. ServeInv'
  <2>1. Max(Suffix) \in Suffix /\ Max(Suffix) \in Linked
    BY <1>2, <1>6, RecoveredIsTyped
  <2>2. ASSUME Len(RecoveredLog) < MaxRecord
        PROVE  /\ Max(Suffix) > Base /\ ~segments[Max(Suffix)].torn
               /\ \A k \in Linked : ~(k > Max(Suffix))
    <3>1. Minimum = Anchor + 1 /\ MaxRecord \in Nat
      BY <1>6, <2>2, NamesAre DEF Minimum
    <3>2. Base \in Nat /\ Base <= Anchor /\ Linked \in SUBSET Name /\ Linked \subseteq Nat
      BY <1>2, FirmIs, NamesAre DEF FirmFacts
    <3> DEFINE last == Max(Suffix)
    <3>3. last >= Anchor + 1 /\ last \in Nat
      BY <2>1, <3>1, <3>2 DEF Suffix
    <3>4. last > Base
      BY <3>2, <3>3, <1>6
    <3>5. ~segments[last].torn
      BY <1>1, <2>1, <3>4 DEF FileInv, OpenInv
    <3>6. \A k \in Suffix : k <= last
      <4>1. Suffix \in SUBSET Name /\ Suffix # {}
        BY <2>1, <3>2 DEF Suffix
      <4> QED BY <4>1, SegmentsEnd
    <3> HIDE DEF last
    <3>7. \A k \in Linked : ~(k > last)
      <4> SUFFICES ASSUME NEW k \in Linked, k > last PROVE FALSE
        OBVIOUS
      <4>1. k \in Nat /\ k >= Anchor + 1
        BY <1>6, <3>2, <3>3
      <4>2. k \in Suffix
        BY <3>1, <4>1 DEF Suffix
      <4> QED BY <3>3, <3>6, <4>1, <4>2
    <3> QED BY <3>4, <3>5, <3>7 DEF last
  <2>3. ~Rotating' /\ phase' \notin {"Persist", "Publish"}
    BY <1>1 DEF Rotating
  <2> QED BY <1>1, <1>4, <1>7, <2>1, <2>2, <2>3 DEF ServeInv
<1>9. VisibleInv' /\ SnapInv' /\ OpenInv'
  BY <1>1, <1>4, <1>6 DEF VisibleInv, SnapInv, OpenInv
<1>10. Implements
  <2>1. CASE visible = RecoveredLog
    BY <2>1, <1>1, <1>4, <1>6, QuietStep
  <2>2. CASE visible # RecoveredLog
    <3>1. ~Unsettled'
      BY <1>1, <1>2 DEF Unsettled
    <3> QED BY <2>2, <3>1, <1>1, <1>4, <1>6, PublishingStep
  <2> QED BY <2>1, <2>2
<1> QED BY <1>4, <1>5, <1>8, <1>9, <1>10 DEF FileInv

\* A database that loses power is not restarted otherwise, and synchronizes.
LEMMA PoweredIs ==
  ASSUME FileInv, TrustedDeployments, Powered
  PROVE  deployment.durability = "Sync" /\ deployment.restarts = {"Power"}
BY DEF FileInv, TrustedDeployments, Powered

\* Open fails, or the database is closed.
LEMMA QuietEndImplements ==
  ASSUME StoreInv, StoreInv', FileInv, TrustedDeployments, OpenFails \/ Close
  PROVE  FileInv' /\ Implements
<1>1. /\ UNCHANGED <<deployment, disk>> /\ End
      /\ call = "Open" \/ ("Close" \in deployment.restarts /\ phase = "Idle")
  BY DEF OpenFails, Close, End
<1>2. FTypeOK /\ CallInv /\ UnusedInv
  BY DEF StoreInv
<1>3. phase \notin {"Down", "WriteManifest"} /\ call # "Create"
  BY <1>1, <1>2, CallIs
<1>4. ~Unused
  BY <1>2, <1>3 DEF Unused, UnusedInv
<1>5. Powered => call = "Open"
  BY <1>1, PoweredIs
<1> QED BY <1>1, <1>4, <1>5, EndStep

-----------------------------------------------------------------------------
(* Writing.                                                                 *)

\* What reaches the active segment is added to the log.
LEMMA LogGrows ==
  ASSUME StoreInv, StoreInv', FileInv, phase = "Write",
         NEW k \in 0 .. Len(batch), NEW t \in BOOLEAN, Written(k, t),
         UNCHANGED <<deployment, root, wal, shots, contents>>
  PROVE  /\ RecoveredLog = visible /\ RecoveredLog' = visible \o SubSeq(batch, 1, k) /\ DiskInv'
         /\ Powered' = Powered /\ deployment' \in Deployments
         /\ Base' = Base /\ Anchors' = Anchors /\ Linked' = Linked /\ Latest' = Latest
         /\ FirmSegments' = FirmSegments
         /\ Serving /\ ~Unused /\ ~poisoned /\ call = "Append" /\ Len(visible) < MaxRecord
         /\ visible \in Seq(Value) /\ batch \in Seq(Value) /\ SubSeq(batch, 1, k) \in Seq(Value)
         /\ active \in FirmSegments /\ active > Base /\ \A n \in Linked : n <= active
         /\ IsPrefix(visible, RecoveredLog')
<1>1. /\ FTypeOK /\ CallInv /\ call = "Append" /\ ~poisoned
      /\ Len(batch) > 0 /\ Len(visible) + Len(batch) <= MaxRecord
  <2>1. FTypeOK /\ CallInv
    BY DEF StoreInv
  <2> QED BY <2>1, CallIs DEF CallInv
<1>2. Serving /\ ~Unused
  <2>1. Serving
    BY <1>1 DEF Serving
  <2> QED BY <2>1, ServingIs
<1>3. /\ Len(visible) \in Nat /\ visible \in Seq(Value) /\ batch \in Seq(Value)
      /\ Len(batch) \in Nat /\ NextRecord = Len(visible) + 1 /\ MaxRecord \in Nat
  BY <1>1, NextRecordIs
<1>4. Len(visible) < MaxRecord
  BY <1>1, <1>3
<1>5. /\ RecoveredLog = visible /\ active \in FirmSegments /\ active > Base
      /\ \A n \in Linked : ~(n > active)
  BY <1>1, <1>2, <1>4 DEF FileInv, ServeInv
<1>6. /\ FirmSegments \subseteq Linked /\ Linked \in SUBSET Name /\ Linked \subseteq Nat
      /\ Base \in Nat
  BY <1>1, FirmIs, NamesAre DEF FirmFacts
<1>7. active \in Nat /\ \A n \in Linked : n <= active
  BY <1>5, <1>6
<1>8. After(active) = NextRecord
  BY <1>1, <1>2, <1>4, ServingIs
<1> DEFINE more == SubSeq(batch, 1, k)
<1>9. /\ segments'[active].records = segments[active].records \o more
      /\ more \in Seq(Value) /\ Len(more) = k
      /\ \A n \in Name : n # active => segments'[n] = segments[n]
  BY WrittenIs
<1> HIDE DEF more
<1>10. /\ Latest' = Latest /\ Base' = Base /\ Anchors' = Anchors
       /\ Linked' = Linked /\ FirmSegments' = FirmSegments
       /\ Powered' = Powered /\ deployment' \in Deployments
  BY SameShots, SameNames DEF Powered, FileInv
<1>11. Shape(Base, Anchors, Linked, FirmSegments, segments', contents, visible \o more)
  <2>1. Tells(visible) /\ Files(segments)
    BY <1>2, <1>5, LogIs
  <2>2. active + Len(segments[active].records) = Len(visible) + 1
    BY <1>3, <1>8 DEF After
  <2>3. Len(visible) + Len(more) <= MaxRecord
    BY <1>1, <1>3, <1>9
  <2> QED BY <1>5, <1>6, <1>7, <1>9, <2>1, <2>2, <2>3, ShapeGrows DEF Tells
<1>12. RecoveredLog' = visible \o more /\ DiskInv'
  <2>1. root' = "Manifest" /\ contents' = contents
    BY <1>2 DEF Unused
  <2> QED BY <1>10, <1>11, <2>1, TellsNext
<1>13. IsPrefix(visible, RecoveredLog')
  BY <1>3, <1>9, <1>12, ExtendedIs
<1> QED BY <1>1, <1>2, <1>3, <1>4, <1>5, <1>7, <1>9, <1>10, <1>12, <1>13 DEF more

\* What was written is not synchronized yet, but nothing else is.
LEMMA WrittenPower ==
  ASSUME StoreInv, StoreInv', FileInv, phase = "Write",
         NEW k \in 0 .. Len(batch), NEW t \in BOOLEAN, Written(k, t),
         UNCHANGED <<deployment, root, wal, shots, contents>>, visible' = visible,
         phase' = "Persist" \/ poisoned', phase' # "Down", call' # "Open"
  PROVE  PowerInv'
<1> SUFFICES ASSUME Powered' PROVE SyncedInv' /\ DurableInv'
  BY DEF PowerInv
<1>1. /\ Powered' = Powered /\ Base' = Base /\ Linked' = Linked /\ Latest' = Latest
      /\ Serving /\ ~Unused /\ ~poisoned /\ Len(visible) < MaxRecord
      /\ active \in FirmSegments /\ active > Base /\ \A n \in Linked : n <= active
  BY LogGrows
<1>2. SyncedInv /\ DurableInv
  BY <1>1 DEF FileInv, PowerInv
<1>3. /\ FTypeOK /\ Linked \in SUBSET Name /\ active \in Name
      /\ After(active) = Len(visible) + 1 /\ Len(visible) \in Nat
  <2>1. FTypeOK /\ After(active) = NextRecord
    BY <1>1, ServingIs
  <2> QED BY <2>1, FirmIs, NextRecordIs DEF FirmFacts
<1>4. /\ segments'[active].synced = segments[active].synced
      /\ \A n \in Name : n # active => segments'[n] = segments[n]
  BY WrittenIs
<1>5. \A n \in Linked : n > Base => segments[n].synced = Len(segments[n].records)
  BY <1>1, <1>2 DEF SyncedInv
<1>6. SyncedInv'
  <2> SUFFICES ASSUME NEW n \in Linked, n > Base,
                      segments'[n].synced # Len(segments'[n].records)
               PROVE  /\ n + segments'[n].synced > Len(visible)
                      /\ \A m \in Linked : m <= n
    BY <1>1 DEF SyncedInv
  <2>1. n = active
    BY <1>3, <1>4, <1>5
  <2>2. active + segments[active].synced = Len(visible) + 1
    <3>1. active \in Linked
      BY <2>1
    <3> QED BY <3>1, <1>1, <1>3, <1>5 DEF After
  <2>3. n + segments'[n].synced = Len(visible) + 1
    BY <2>1, <2>2, <1>4
  <2> QED BY <2>1, <2>3, <1>1, <1>3
<1>7. DurableInv'
  BY <1>1, <1>2 DEF DurableInv
<1> QED BY <1>6, <1>7

\* The batch is written.
LEMMA WriteImplements ==
  ASSUME StoreInv, StoreInv', FileInv, Write
  PROVE  FileInv' /\ Implements
<1>1. /\ phase = "Write" /\ Written(Len(batch), FALSE) /\ phase' = "Persist" /\ call' = call
      /\ active' = active /\ batch' = batch /\ poisoned' = poisoned /\ visible' = visible
      /\ UNCHANGED <<deployment, root, wal, shots, contents>>
  BY DEF Write, Continue
<1>2. FTypeOK /\ Len(batch) \in 0 .. Len(batch) /\ SubSeq(batch, 1, Len(batch)) = batch
  <2>1. FTypeOK
    BY DEF StoreInv
  <2>2. batch \in Seq(Value) /\ Len(batch) \in Nat
    BY <2>1, NextRecordIs
  <2> QED BY <2>1, <2>2, SubSeqFull
<1>3. /\ RecoveredLog = visible /\ RecoveredLog' = visible \o batch /\ DiskInv'
      /\ deployment' \in Deployments
      /\ Base' = Base /\ Linked' = Linked /\ FirmSegments' = FirmSegments
      /\ call = "Append" /\ Len(visible) < MaxRecord /\ ~poisoned
      /\ active \in FirmSegments /\ active > Base /\ \A n \in Linked : n <= active
      /\ IsPrefix(visible, RecoveredLog')
  BY <1>1, <1>2, LogGrows
<1>4. ~segments'[active].torn
  BY <1>1, <1>2, WrittenIs
<1>5. PowerInv'
  BY <1>1, <1>2, <1>3, WrittenPower
<1>6. ServeInv'
  <2>1. Linked \subseteq Nat /\ active \in Nat
    BY <1>2, FirmIs, NamesAre DEF FTypeOK, FirmFacts
  <2>2. \A n \in Linked : ~(n > active)
    BY <2>1, <1>3
  <2>3. ~Rotating'
    BY <1>1 DEF Rotating
  <2> QED BY <1>1, <1>3, <1>4, <2>2, <2>3 DEF ServeInv
<1>7. VisibleInv' /\ SnapInv' /\ OpenInv'
  BY <1>1, <1>3 DEF VisibleInv, SnapInv, OpenInv
<1>8. Implements
  BY <1>1, <1>3, ChangingStep DEF Unsettled
<1> QED BY <1>3, <1>5, <1>6, <1>7, <1>8 DEF FileInv

\* An append that fails leaves part of the batch, or nothing.
LEMMA AppendFailsImplements ==
  ASSUME StoreInv, StoreInv', FileInv, AppendFails
  PROVE  FileInv' /\ Implements
<1>1. /\ call = "Append" /\ PartialWrite /\ poisoned' = TRUE
      /\ phase' = "Idle" /\ call' = "None" /\ active' = active /\ visible' = visible
      /\ UNCHANGED <<deployment, root, wal, shots, contents>>
  BY DEF AppendFails, Return
<1>2. FTypeOK /\ CallInv
  BY DEF StoreInv
<1>3. Serving /\ ~Unused
  <2>1. phase # "Down"
    BY <1>1, <1>2, CallIs
  <2>2. Serving
    BY <1>1, <2>1 DEF Serving
  <2> QED BY <2>2, ServingIs
<1>4. ServeInv' /\ SnapInv' /\ OpenInv'
  BY <1>1 DEF ServeInv, SnapInv, OpenInv
<1>5. CASE phase = "Write"
  <2>1. PICK k \in 0 .. Len(batch) - 1, t \in BOOLEAN : Written(k, t)
    BY <1>1, <1>5 DEF PartialWrite
  <2>2. k \in 0 .. Len(batch)
    <3>1. Len(batch) \in Nat
      BY <1>2, NextRecordIs
    <3> QED BY <3>1
  <2>3. /\ RecoveredLog = visible /\ DiskInv' /\ deployment' \in Deployments
        /\ IsPrefix(visible, RecoveredLog')
    BY <1>1, <1>5, <2>1, <2>2, LogGrows
  <2>4. PowerInv'
    BY <1>1, <1>5, <2>1, <2>2, WrittenPower
  <2>5. Implements
    BY <1>1, <2>3, ChangingStep DEF Unsettled
  <2>6. VisibleInv'
    BY <1>1, <2>3 DEF VisibleInv
  <2> QED BY <1>4, <2>3, <2>4, <2>5, <2>6 DEF FileInv
<1>6. CASE phase # "Write"
  <2>1. UNCHANGED <<deployment, disk>>
    BY <1>1, <1>6 DEF PartialWrite, disk
  <2>2. RecoveredLog' = RecoveredLog /\ DiskInv' /\ deployment' \in Deployments
    BY <1>3, <2>1, SameFiles
  <2>3. PowerInv'
    BY <1>1, <1>3, <2>1, SamePower
  <2>4. VisibleInv'
    BY <1>1, <1>3, <2>2 DEF VisibleInv, FileInv
  <2>5. RecoveredLog \in Seq(Value)
    BY <1>3, LogIs
  <2> QED BY <1>1, <1>4, <2>2, <2>3, <2>4, <2>5, QuietStep DEF FileInv
<1> QED BY <1>5, <1>6

\* A crash leaves part of the batch, or nothing; it does not come with losses of power.
LEMMA CrashImplements ==
  ASSUME StoreInv, StoreInv', FileInv, TrustedDeployments, CrashProcess
  PROVE  FileInv' /\ Implements
<1>1. /\ "Process" \in deployment.restarts /\ MayEnd /\ phase # "Down" /\ PartialWrite /\ End
      /\ UNCHANGED <<deployment, root, wal, shots, contents>>
  BY DEF CrashProcess, End
<1>2. ~Powered /\ call # "Create"
  BY <1>1, PoweredIs DEF MayEnd, TrustedDeployments
<1>3. FTypeOK /\ CallInv /\ UnusedInv
  BY DEF StoreInv
<1>4. ~Unused
  <2>1. phase # "WriteManifest"
    BY <1>2, <1>3, CallIs
  <2> QED BY <1>1, <1>2, <1>3, <2>1 DEF Unused, UnusedInv
<1>5. CASE phase = "Write"
  <2>1. PICK k \in 0 .. Len(batch) - 1, t \in BOOLEAN : Written(k, t)
    BY <1>1, <1>5 DEF PartialWrite
  <2>2. k \in 0 .. Len(batch)
    <3>1. Len(batch) \in Nat
      BY <1>3, NextRecordIs
    <3> QED BY <3>1
  <2>3. /\ RecoveredLog = visible /\ DiskInv' /\ deployment' \in Deployments
        /\ IsPrefix(visible, RecoveredLog') /\ call = "Append" /\ Powered' = Powered
    BY <1>1, <1>5, <2>1, <2>2, LogGrows
  <2>4. phase' = "Down" /\ call' = "None" /\ visible' = visible
    BY <1>1 DEF End
  <2>5. VisibleInv' /\ ServeInv' /\ SnapInv' /\ OpenInv' /\ PowerInv'
    BY <1>2, <2>3, <2>4 DEF VisibleInv, ServeInv, Serving, SnapInv, OpenInv, PowerInv
  <2>6. Implements
    BY <2>3, <2>4, ChangingStep DEF Unsettled
  <2> QED BY <2>3, <2>5, <2>6 DEF FileInv
<1>6. CASE phase # "Write"
  <2>1. UNCHANGED <<deployment, disk>>
    BY <1>1, <1>6 DEF PartialWrite, disk
  <2> QED BY <1>1, <1>2, <1>4, <2>1, EndStep
<1> QED BY <1>5, <1>6

-----------------------------------------------------------------------------
(* Steps that change the directory and not what it tells.                   *)

\* After such a step recovery finds the same log.
LEMMA KeepsLog ==
  ASSUME StoreInv, StoreInv', FileInv, ~Unused, UNCHANGED <<deployment, root, visible>>,
         Shape(Base', Anchors', Linked', FirmSegments', segments', contents', RecoveredLog)
  PROVE  /\ RecoveredLog' = RecoveredLog /\ DiskInv' /\ VisibleInv' /\ Implements
         /\ deployment' \in Deployments /\ Powered' = Powered /\ ~Unused
<1>1. root' = "Manifest"
  BY DEF Unused
<1>2. RecoveredLog' = RecoveredLog /\ DiskInv'
  BY <1>1, TellsNext
<1>3. RecoveredLog \in Seq(Value)
  BY LogIs
<1>4. VisibleInv'
  BY <1>2 DEF VisibleInv, FileInv
<1>5. deployment' \in Deployments /\ Powered' = Powered
  BY DEF FileInv, Powered
<1> QED BY <1>2, <1>3, <1>4, <1>5, QuietStep

\* What is synchronized stays so.
LEMMA SyncedStays ==
  ASSUME FileInv, ~Unused, Powered, phase # "Persist", ~poisoned,
         \A n \in Linked' : n > Base' =>
           \/ n \in Linked /\ n > Base /\ segments'[n] = segments[n]
           \/ segments'[n].synced = Len(segments'[n].records)
  PROVE  SyncedInv'
<1>1. \A n \in Linked : n > Base => segments[n].synced = Len(segments[n].records)
  BY DEF FileInv, PowerInv, SyncedInv
<1>2. \A n \in Linked' : n > Base' => segments'[n].synced = Len(segments'[n].records)
  BY <1>1
<1> QED BY <1>2 DEF SyncedInv

\* A database that rotates.
LEMMA RotatingIs ==
  ASSUME StoreInv, FileInv, Rotating, call # "Create"
  PROVE  /\ Serving /\ ~Unused /\ ~poisoned /\ FTypeOK /\ CallInv
         /\ call \in {"Append", "Snapshot"} /\ Len(visible) < MaxRecord
         /\ RecoveredLog = visible /\ After(active) = NextRecord
         /\ active \in FirmSegments /\ active > Base /\ ~segments[active].torn
         /\ segments[active].records # <<>>
         /\ active \in Nat /\ NextRecord \in Nat /\ NextRecord \in Name
         /\ NextRecord = Len(visible) + 1 /\ active < NextRecord
         /\ \A k \in Linked : k > active => k = NextRecord /\ phase = "SyncSegment"
<1>1. FTypeOK /\ CallInv
  BY DEF StoreInv
<1>2. /\ phase \notin {"Down", "Idle", "Persist", "Publish"} /\ ~poisoned
      /\ call \in {"Append", "Snapshot"} /\ Len(visible) < MaxRecord
  BY <1>1, CallIs DEF Rotating, CallInv
<1>3. Serving
  BY <1>2 DEF Serving
<1>4. ~Unused /\ After(active) = NextRecord
  BY <1>2, <1>3, ServingIs
<1>5. /\ RecoveredLog = visible /\ active \in FirmSegments /\ active > Base
      /\ ~segments[active].torn /\ segments[active].records # <<>>
      /\ \A k \in Linked : k > active => k = NextRecord /\ phase = "SyncSegment"
  BY <1>2, <1>3 DEF FileInv, ServeInv
<1>6. NextRecord = Len(visible) + 1 /\ NextRecord \in Name /\ active \in Name
  BY <1>1, <1>2, NextRecordIs
<1>7. active \in Nat /\ NextRecord \in Nat /\ active < NextRecord
  <2>1. Len(segments[active].records) \in Nat \ {0}
    BY <1>1, <1>5, <1>6, SegmentIs, EmptySeq
  <2>2. active \in Nat /\ NextRecord \in Nat
    BY <1>6, NamesAre
  <2> QED BY <1>4, <2>1, <2>2 DEF After
<1> QED BY <1>1, <1>2, <1>3, <1>4, <1>5, <1>6, <1>7

\* The temporary file of a rotation is no segment yet.
LEMMA CreateTempImplements ==
  ASSUME StoreInv, StoreInv', FileInv, CreateTemp
  PROVE  FileInv' /\ Implements
<1>1. /\ phase = "CreateTemp" /\ phase' = "LinkSegment" /\ call' = call /\ active' = active
      /\ batch' = batch /\ poisoned' = poisoned /\ visible' = visible /\ deployment' = deployment
      /\ root' = root /\ segments' = segments /\ shots' = shots /\ contents' = contents
      /\ wal' = Link(wal, TempSegment(NextRecord))
  BY DEF CreateTemp, Continue
<1>2. CASE Unused
  <2>1. Unused'
    BY <1>1, <1>2 DEF Unused
  <2> QED BY <1>1, <1>2, <2>1, CreationStep
<1>3. CASE ~Unused
  <2>1. call # "Create" /\ Rotating
    BY <1>1, <1>3 DEF Unused, Rotating
  <2>2. /\ Serving /\ ~poisoned /\ FTypeOK /\ NextRecord \in Name
        /\ RecoveredLog = visible /\ active \in FirmSegments /\ active > Base
        /\ ~segments[active].torn /\ segments[active].records # <<>>
        /\ \A k \in Linked : k > active => k = NextRecord /\ phase = "SyncSegment"
    BY <2>1, RotatingIs
  <2>3. /\ wal'.linked = wal.linked \cup {TempSegment(NextRecord)}
        /\ wal'.durable = wal.durable
    <3>1. wal \in Directory(WalEntry) /\ TempSegment(NextRecord) \in WalEntry
      BY <2>2 DEF FTypeOK, WalEntry
    <3> QED BY <3>1, <1>1, DirectorySteps
  <2>4. Linked' = Linked /\ FirmSegments' = FirmSegments
    BY <1>1, <2>3, EntriesDiffer DEF Linked, FirmSegments, Firm, Powered
  <2>5. Latest' = Latest /\ Base' = Base /\ Anchors' = Anchors
    BY <1>1, SameShots
  <2>6. Tells(RecoveredLog)
    BY <1>3, LogIs
  <2>7. /\ RecoveredLog' = RecoveredLog /\ DiskInv' /\ VisibleInv' /\ Implements
        /\ deployment' \in Deployments /\ Powered' = Powered
    BY <1>1, <1>3, <2>4, <2>5, <2>6, KeepsLog DEF Tells
  <2>8. ServeInv'
    BY <1>1, <2>2, <2>4, <2>5, <2>7 DEF ServeInv
  <2>9. SnapInv' /\ OpenInv'
    BY <1>1 DEF SnapInv, OpenInv, Rotating
  <2>10. PowerInv'
    <3> SUFFICES ASSUME Powered' PROVE SyncedInv' /\ DurableInv'
      BY DEF PowerInv
    <3>1. SyncedInv'
      BY <1>1, <1>3, <2>2, <2>4, <2>5, <2>7, SyncedStays
    <3>2. phase' # "Down" /\ call' # "Open"
      BY <1>1, <2>2 DEF Serving
    <3>3. DurableInv
      BY <1>3, <2>7 DEF FileInv, PowerInv
    <3> QED BY <1>1, <2>3, <2>4, <2>5, <3>1, <3>2, <3>3 DEF DurableInv
  <2> QED BY <2>7, <2>8, <2>9, <2>10 DEF FileInv
<1> QED BY <1>2, <1>3

\* The new segment is linked: a failure may still take it.
LEMMA LinkSegmentImplements ==
  ASSUME StoreInv, StoreInv', FileInv, LinkSegment
  PROVE  FileInv' /\ Implements
<1>1. /\ phase = "LinkSegment" /\ phase' = "SyncSegment" /\ call' = call /\ active' = active
      /\ batch' = batch /\ poisoned' = poisoned /\ visible' = visible /\ deployment' = deployment
      /\ root' = root /\ shots' = shots /\ contents' = contents
      /\ wal' = Link(Unlink(wal, {TempSegment(NextRecord)}), Segment(NextRecord))
      /\ segments' = [segments EXCEPT ![NextRecord] = EmptySegment]
  BY DEF LinkSegment, Continue
<1>2. CASE Unused
  <2>1. Unused'
    BY <1>1, <1>2 DEF Unused
  <2> QED BY <1>1, <1>2, <2>1, CreationStep
<1>3. CASE ~Unused
  <2>1. call # "Create" /\ Rotating
    BY <1>1, <1>3 DEF Unused, Rotating
  <2>2. /\ Serving /\ ~poisoned /\ FTypeOK /\ NextRecord \in Name /\ NextRecord = Len(visible) + 1
        /\ RecoveredLog = visible /\ active \in FirmSegments /\ active > Base
        /\ ~segments[active].torn /\ segments[active].records # <<>>
        /\ active \in Nat /\ NextRecord \in Nat /\ active < NextRecord
        /\ \A k \in Linked : ~(k > active)
    BY <1>1, <2>1, RotatingIs
  <2>3. /\ Linked \in SUBSET Name /\ Linked \subseteq Nat /\ Base \in Nat
        /\ FirmSegments \subseteq Linked
    BY <2>2, FirmIs, NamesAre DEF FirmFacts
  <2>4. NextRecord \notin Linked
    BY <2>2
  <2>5. /\ wal'.linked = (wal.linked \ {TempSegment(NextRecord)}) \cup {Segment(NextRecord)}
        /\ wal'.durable = wal.durable
    <3> DEFINE temp == TempSegment(NextRecord)
               entry == Segment(NextRecord)
               rest == Unlink(wal, {temp})
    <3>1. wal \in Directory(WalEntry) /\ entry \in WalEntry
      BY <2>2 DEF FTypeOK, WalEntry
    <3> HIDE DEF temp, entry
    <3>2. /\ rest \in Directory(WalEntry) /\ rest.linked = wal.linked \ {temp}
          /\ rest.durable = wal.durable
      BY <3>1, DirectorySteps
    <3>3. wal' = Link(rest, entry)
      BY <1>1 DEF temp, entry
    <3> HIDE DEF rest
    <3>4. wal'.linked = rest.linked \cup {entry} /\ wal'.durable = rest.durable
      BY <3>1, <3>2, <3>3, DirectorySteps
    <3> QED BY <3>2, <3>4 DEF temp, entry
  <2>6. Linked' = Linked \cup {NextRecord}
    BY <2>2, <2>5, EntriesDiffer DEF Linked
  <2>7. FirmSegments \subseteq FirmSegments' /\ FirmSegments' \subseteq Linked'
    <3>1. FTypeOK'
      BY DEF StoreInv
    <3>2. \A n \in FirmSegments : n \in FirmSegments'
      BY <1>1, <2>5, EntriesDiffer DEF FirmSegments, Firm, Powered
    <3> QED BY <3>1, <3>2, FirmIsNext
  <2>8. Latest' = Latest /\ Base' = Base /\ Anchors' = Anchors
    BY <1>1, SameShots
  <2>9. /\ segments'[NextRecord] = EmptySegment
        /\ \A n \in Name : n # NextRecord => segments'[n] = segments[n]
    BY <1>1, <2>2 DEF FTypeOK
  <2>10. Shape(Base, Anchors, Linked \cup {NextRecord}, FirmSegments', segments', contents, RecoveredLog)
    <3>1. Tells(RecoveredLog) /\ Files(segments)
      BY <1>3, LogIs
    <3>2. \A n \in Linked : n > Base => ~segments[n].torn /\ segments[n].records # <<>>
      <4> SUFFICES ASSUME NEW n \in Linked, n > Base
                   PROVE  ~segments[n].torn /\ segments[n].records # <<>>
        OBVIOUS
      <4>1. CASE n = active
        BY <4>1, <2>2
      <4>2. CASE n # active
        <5>1. active > n /\ active \in Linked
          BY <4>2, <2>2, <2>3
        <5> QED BY <5>1, <3>1 DEF Tells, Shape
      <4> QED BY <4>1, <4>2
    <3>3. NextRecord = Len(RecoveredLog) + 1
      BY <2>2
    <3> DEFINE l == RecoveredLog
    <3> HIDE DEF l
    <3>4. /\ Shape(Base, Anchors, Linked, FirmSegments, segments, contents, l)
          /\ Len(l) + 1 \notin Linked /\ Len(l) + 1 \in Name
          /\ segments'[Len(l) + 1] = EmptySegment
          /\ \A n \in Name : n # Len(l) + 1 => segments'[n] = segments[n]
          /\ FirmSegments' \subseteq Linked \cup {Len(l) + 1}
      BY <3>1, <3>3, <2>2, <2>4, <2>6, <2>7, <2>9 DEF l, Tells
    <3>5. Shape(Base, Anchors, Linked \cup {Len(l) + 1}, FirmSegments', segments', contents, l)
      BY <3>1, <3>2, <3>4, <2>3, <2>7, ShapeLinks
    <3> QED BY <3>3, <3>5 DEF l
  <2>11. /\ RecoveredLog' = RecoveredLog /\ DiskInv' /\ VisibleInv' /\ Implements
         /\ deployment' \in Deployments /\ Powered' = Powered
    BY <1>1, <1>3, <2>6, <2>8, <2>10, KeepsLog
  <2>12. ServeInv'
    <3>1. segments'[active] = segments[active]
      BY <2>2, <2>3, <2>9
    <3>2. active \in FirmSegments'
      BY <2>2, <2>7
    <3>3. \A k \in Linked' : k > active => k = NextRecord' /\ phase' = "SyncSegment"
      BY <1>1, <2>2, <2>6 DEF NextRecord
    <3> QED BY <1>1, <2>2, <2>8, <2>11, <3>1, <3>2, <3>3 DEF ServeInv
  <2>13. SnapInv' /\ OpenInv'
    BY <1>1 DEF SnapInv, OpenInv, Rotating
  <2>14. PowerInv'
    <3> SUFFICES ASSUME Powered' PROVE SyncedInv' /\ DurableInv'
      BY DEF PowerInv
    <3>1. SyncedInv'
      <4>1. EmptySegment.synced = Len(EmptySegment.records)
        BY EmptySegmentIs
      <4>2. \A n \in Linked' : \/ n \in Linked /\ segments'[n] = segments[n]
                               \/ segments'[n].synced = Len(segments'[n].records)
        BY <2>3, <2>6, <2>9, <4>1
      <4> QED BY <1>1, <1>3, <2>2, <2>8, <2>11, <4>2, SyncedStays
    <3>2. phase' # "Down" /\ call' # "Open"
      BY <1>1, <2>2 DEF Serving
    <3>3. DurableInv
      BY <1>3, <2>11 DEF FileInv, PowerInv
    <3> QED BY <1>1, <2>5, <2>6, <2>8, <3>1, <3>2, <3>3 DEF DurableInv
  <2> QED BY <2>11, <2>12, <2>13, <2>14 DEF FileInv
<1> QED BY <1>2, <1>3

\* Database::create returns: there is an empty database.
LEMMA CreatedImplements ==
  ASSUME StoreInv, StoreInv', FileInv, SyncSegment, call = "Create"
  PROVE  FileInv' /\ Implements
<1>1. /\ phase = "SyncSegment" /\ phase' = "Idle" /\ call' = "None" /\ active' = NextRecord
      /\ poisoned' = poisoned /\ visible' = visible /\ deployment' = deployment
      /\ root' = root /\ segments' = segments /\ shots' = shots /\ contents' = contents
      /\ wal' = SyncDirectory(wal)
  BY DEF SyncSegment, AfterRotation
<1>2. FTypeOK /\ FTypeOK' /\ UnusedInv
  BY DEF StoreInv
<1>3. Unused
  BY DEF Unused
<1>4. /\ root = "Manifest" /\ visible = <<>> /\ shots = NoEntries /\ Linked = {1}
      /\ \A w \in Watermark : contents[w] = <<>>
      /\ \A n \in Name : segments[n] = EmptySegment
  BY <1>1, <1>2, <1>3 DEF UnusedInv
<1>5. NextRecord = 1
  BY <1>4 DEF NextRecord
<1>6. wal'.linked = wal.linked /\ wal'.durable = wal.linked
  BY <1>1, <1>2, DirectorySynced DEF FTypeOK
<1>7. Linked' = {1} /\ FirmSegments' = {1}
  BY <1>4, <1>6 DEF Linked, FirmSegments, Firm
<1>8. Latest' = {} /\ FirmShots' = {}
  BY <1>1, <1>4 DEF Latest, FirmShots, Firm, NoEntries
<1>9. Base' = 0 /\ Anchors' = {0}
  <2>1. Base' = 0
    BY <1>2, <1>8, FirmIsNext
  <2> QED BY <1>8, <2>1 DEF Anchors
<1>10. /\ 1 \in Name /\ 0 \in Watermark /\ 1 \in Nat
       /\ segments[1].records = <<>> /\ ~segments[1].torn
       /\ segments[1].synced = Len(segments[1].records)
  BY <1>4, EmptySegmentIs, NamesAre
<1>11. Shape(0, {0}, {1}, {1}, segments, contents, <<>>)
  <2> DEFINE empty == <<>>
  <2>1. empty \in Log /\ empty \in Seq(Value) /\ Len(empty) = 0 /\ contents[0] = empty
    BY <1>4, <1>10, EmptySegmentIs
  <2>2. SubSeq(empty, 1, 0) = empty
    <3>1. SubSeq(empty, 1, Len(empty)) = empty
      BY <2>1, SubSeqFull
    <3> QED BY <2>1, <3>1
  <2>3. segments[1].records = empty
    BY <1>10
  <2> HIDE DEF empty
  <2>4. \A w \in {0} : /\ w \in Watermark /\ 0 <= w /\ w <= Len(empty)
                       /\ contents[w] = SubSeq(empty, 1, w) /\ (w = MaxRecord \/ w + 1 \in {1})
    <3>1. 0 + 1 \in {1} /\ 0 <= Len(empty)
      BY <2>1
    <3>2. contents[0] = SubSeq(empty, 1, 0)
      BY <2>1, <2>2
    <3> QED BY <1>10, <3>1, <3>2
  <2>5. Agrees(1, segments[1].records, empty)
    BY <2>1, <2>3 DEF Agrees
  <2>6. 1 + Len(segments[1].records) = Len(empty) + 1
    BY <2>1, <2>3
  <2>7. \A n \in {1} : n > 0 =>
          /\ Agrees(n, segments[n].records, empty)
          /\ \/ n + Len(segments[n].records) = Len(empty) + 1
             \/ segments[n].records # <<>> /\ n + Len(segments[n].records) \in {1}
          /\ \A k \in {1} : k > n => ~segments[n].torn /\ segments[n].records # <<>>
                                     /\ n + Len(segments[n].records) <= k
          /\ n \notin {1} => n = Len(empty) + 1
    BY <2>5, <2>6
  <2>8. Shape(0, {0}, {1}, {1}, segments, contents, empty)
    BY <2>1, <2>4, <2>7 DEF Shape
  <2> QED BY <2>8 DEF empty
<1>12. RecoveredLog' = <<>> /\ DiskInv' /\ RecoveredLog = <<>>
  <2>1. root' = "Manifest"
    BY <1>1, <1>4
  <2>2. Shape(Base', Anchors', Linked', FirmSegments', segments', contents', <<>>)
    BY <1>1, <1>7, <1>9, <1>11
  <2>3. RecoveredLog' = <<>> /\ DiskInv'
    BY <2>1, <2>2, TellsNext
  <2> QED BY <2>3, <1>3, UnusedReads
<1>13. RecoveredLog \in Seq(Value) /\ IsPrefix(visible', RecoveredLog')
  <2>1. RecoveredLog \in Seq(Value) /\ visible' = RecoveredLog /\ RecoveredLog' = RecoveredLog
    BY <1>1, <1>4, <1>12
  <2> QED BY <2>1, PrefixIs
<1>14. VisibleInv' /\ SnapInv' /\ OpenInv' /\ deployment' \in Deployments
  BY <1>1, <1>13 DEF VisibleInv, SnapInv, OpenInv, FileInv
<1>15. ServeInv'
  BY <1>1, <1>4, <1>5, <1>7, <1>9, <1>10, <1>12 DEF ServeInv, Rotating
<1>16. PowerInv'
  <2>1. SyncedInv'
    BY <1>1, <1>7, <1>10 DEF SyncedInv
  <2>2. \A n \in Name : Segment(n) \in wal'.durable => n \in Linked'
    BY <1>6 DEF Linked
  <2>3. \A w \in Watermark : Snapshot(w) \notin shots'.durable
    BY <1>1, <1>4 DEF NoEntries
  <2>4. DurableInv'
    BY <1>1, <2>2, <2>3 DEF DurableInv
  <2> QED BY <2>1, <2>4 DEF PowerInv
<1> QED BY <1>1, <1>4, <1>12, <1>13, <1>14, <1>15, <1>16, QuietStep DEF FileInv

\* A rotation is complete: no failure takes the new segment any more.
LEMMA SyncSegmentImplements ==
  ASSUME StoreInv, StoreInv', FileInv, SyncSegment
  PROVE  FileInv' /\ Implements
<1>1. CASE call = "Create"
  BY <1>1, CreatedImplements
<1>2. CASE call # "Create"
  <2>1. /\ phase = "SyncSegment" /\ active' = NextRecord /\ call' = call
        /\ poisoned' = poisoned /\ visible' = visible /\ deployment' = deployment
        /\ root' = root /\ segments' = segments /\ shots' = shots /\ contents' = contents
        /\ wal' = SyncDirectory(wal) /\ phase' = AfterRotation[call]
    BY <1>2 DEF SyncSegment
  <2>2. /\ Serving /\ ~Unused /\ ~poisoned /\ FTypeOK /\ CallInv
        /\ call \in {"Append", "Snapshot"} /\ RecoveredLog = visible
        /\ active > Base /\ NextRecord \in Name
        /\ active \in Nat /\ NextRecord \in Nat /\ active < NextRecord
        /\ \A k \in Linked : k > active => k = NextRecord
    BY <1>2, <2>1, RotatingIs DEF Rotating
  <2>3. phase' \in {"Write", "WriteSnapshot"} /\ NextRecord' = NextRecord
    BY <2>1, <2>2 DEF AfterRotation, NextRecord
  <2>4. /\ Linked \in SUBSET Name /\ Linked \subseteq Nat /\ Base \in Nat
        /\ FirmSegments \subseteq Linked
    BY <2>2, FirmIs, NamesAre DEF FirmFacts
  <2>5. NextRecord \in Linked /\ segments[NextRecord] = EmptySegment
    BY <2>1, <2>2 DEF StoreInv, FreshInv, Linked
  <2>6. wal'.linked = wal.linked /\ wal'.durable = wal.linked
    BY <2>1, <2>2, DirectorySynced DEF FTypeOK
  <2>7. Linked' = Linked /\ FirmSegments' = Linked
    BY <2>6 DEF Linked, FirmSegments, Firm
  <2>8. Latest' = Latest /\ Base' = Base /\ Anchors' = Anchors /\ Base \in Anchors
        /\ \A w \in Anchors : Base <= w
    BY <2>1, <2>2, SameShots, FirmIs DEF FirmFacts
  <2>9. Shape(Base, Anchors, Linked, Linked, segments, contents, RecoveredLog)
    <3>1. Tells(RecoveredLog) /\ Files(segments)
      BY <2>2, LogIs
    <3> DEFINE l == RecoveredLog
    <3>2. Shape(Base, Anchors, Linked, FirmSegments, segments, contents, l)
      BY <3>1 DEF Tells
    <3> HIDE DEF l
    <3>3. Shape(Base, Anchors, Linked, Linked, segments, contents, l)
      BY <3>2, <2>4, <2>5 DEF Shape
    <3> QED BY <3>3 DEF l
  <2>10. /\ RecoveredLog' = RecoveredLog /\ DiskInv' /\ VisibleInv' /\ Implements
         /\ deployment' \in Deployments /\ Powered' = Powered
    BY <2>1, <2>2, <2>7, <2>8, <2>9, KeepsLog
  <2>11. ServeInv'
    <3>1. ~segments'[NextRecord].torn
      BY <2>1, <2>5, EmptySegmentIs
    <3>2. NextRecord > Base /\ \A k \in Linked : ~(k > NextRecord)
      BY <2>2, <2>4
    <3> QED BY <2>1, <2>2, <2>3, <2>5, <2>7, <2>8, <2>10, <3>1, <3>2 DEF ServeInv, Rotating
  <2>12. SnapInv' /\ OpenInv'
    BY <2>1, <2>3 DEF SnapInv, OpenInv
  <2>13. PowerInv'
    <3> SUFFICES ASSUME Powered' PROVE SyncedInv' /\ DurableInv'
      BY DEF PowerInv
    <3>1. SyncedInv'
      BY <2>1, <2>2, <2>7, <2>8, <2>10, SyncedStays
    <3>2. phase' # "Down" /\ call' # "Open"
      BY <2>1, <2>2, <2>3 DEF Serving
    <3>3. DurableInv
      BY <2>2, <2>10 DEF FileInv, PowerInv
    <3>4. \A n \in Name : Segment(n) \in wal'.durable => n \in Linked'
      BY <2>6 DEF Linked
    <3> QED BY <2>1, <2>8, <3>1, <3>2, <3>3, <3>4 DEF DurableInv
  <2> QED BY <2>10, <2>11, <2>12, <2>13 DEF FileInv
<1> QED BY <1>1, <1>2

\* The batch reaches stable storage, in a database that synchronizes.
LEMMA PersistImplements ==
  ASSUME StoreInv, StoreInv', FileInv, TrustedDeployments, Persist
  PROVE  FileInv' /\ Implements
<1>1. /\ phase = "Persist" /\ phase' = "Publish" /\ call' = call /\ active' = active
      /\ batch' = batch /\ poisoned' = poisoned /\ visible' = visible /\ deployment' = deployment
      /\ root' = root /\ wal' = wal /\ shots' = shots /\ contents' = contents
  BY DEF Persist, Continue
<1>2. FTypeOK /\ CallInv /\ call = "Append" /\ ~poisoned /\ Len(visible) < MaxRecord
  <2>1. FTypeOK /\ CallInv
    BY DEF StoreInv
  <2>2. call = "Append" /\ ~poisoned /\ Len(batch) > 0 /\ Len(visible) + Len(batch) <= MaxRecord
    BY <1>1, <2>1, CallIs DEF CallInv
  <2> QED BY <2>1, <2>2, NextRecordIs
<1>3. Serving /\ ~Unused
  <2>1. Serving
    BY <1>1, <1>2 DEF Serving
  <2> QED BY <2>1, ServingIs
<1>4. /\ RecoveredLog = visible \o batch /\ active \in FirmSegments
      /\ active > Base /\ ~segments[active].torn
      /\ \A k \in Linked : ~(k > active)
  BY <1>1, <1>2, <1>3 DEF FileInv, ServeInv
<1>5. /\ Linked \in SUBSET Name /\ Linked \subseteq Nat
      /\ FirmSegments \subseteq Linked /\ active \in Linked /\ active \in Nat
  BY <1>2, <1>4, FirmIs, NamesAre DEF FirmFacts
<1>6. /\ \A n \in Name : segments'[n].records = segments[n].records
                         /\ segments'[n].torn = segments[n].torn
                         /\ (n # active => segments'[n] = segments[n])
      /\ deployment.durability = "Sync" =>
           segments'[active].synced = Len(segments[active].records)
  BY PersistedIs
<1>7. /\ Linked' = Linked /\ FirmSegments' = FirmSegments
      /\ Latest' = Latest /\ Base' = Base /\ Anchors' = Anchors
  BY <1>1, SameNames, SameShots
<1>8. /\ RecoveredLog' = RecoveredLog /\ DiskInv' /\ VisibleInv' /\ Implements
      /\ deployment' \in Deployments /\ Powered' = Powered
  <2> DEFINE l == RecoveredLog
  <2>1. Shape(Base, Anchors, Linked, FirmSegments, segments, contents, l)
    BY <1>3, LogIs DEF Tells
  <2> HIDE DEF l
  <2>2. Shape(Base, Anchors, Linked, FirmSegments, segments', contents, l)
    BY <1>5, <1>6, <2>1, ShapeStays
  <2> QED BY <1>1, <1>3, <1>7, <2>2, KeepsLog DEF l
<1>9. ServeInv'
  BY <1>1, <1>4, <1>5, <1>6, <1>7, <1>8 DEF ServeInv, Rotating
<1>10. SnapInv' /\ OpenInv'
  BY <1>1, <1>2 DEF SnapInv, OpenInv
<1>11. PowerInv'
  <2> SUFFICES ASSUME Powered' PROVE SyncedInv' /\ DurableInv'
    BY DEF PowerInv
  <2>1. SyncedInv /\ DurableInv
    BY <1>3, <1>8 DEF FileInv, PowerInv
  <2>2. deployment.durability = "Sync"
    BY <1>8, PoweredIs
  <2>3. \A n \in Linked : n > Base => segments'[n].synced = Len(segments'[n].records)
    <3> SUFFICES ASSUME NEW n \in Linked, n > Base,
                        segments'[n].synced # Len(segments'[n].records)
                 PROVE  FALSE
      OBVIOUS
    <3>1. n # active
      BY <1>5, <1>6, <2>2
    <3>2. segments[n].synced # Len(segments[n].records)
      BY <3>1, <1>5, <1>6
    <3>3. active <= n
      BY <1>5, <2>1, <3>2 DEF SyncedInv
    <3> QED BY <1>4, <1>5, <3>1, <3>3
  <2>4. SyncedInv'
    BY <1>7, <2>3 DEF SyncedInv
  <2> QED BY <1>1, <1>2, <1>7, <2>1, <2>4 DEF DurableInv
<1> QED BY <1>8, <1>9, <1>10, <1>11 DEF FileInv

-----------------------------------------------------------------------------
(* Snapshots and compaction.                                                *)

\* The base moves forward, to a place where recovery might begin before.
LEMMA BaseMoves ==
  ASSUME FTypeOK, FTypeOK', Latest' \subseteq Latest, FirmShots \subseteq FirmShots'
  PROVE  Base <= Base' /\ Base' \in Anchors /\ Anchors' \subseteq Anchors /\ Base' \in Nat
<1>1. /\ Base \in Watermark /\ Base \in Nat /\ (Base = 0 \/ Base \in FirmShots)
      /\ \A w \in FirmShots : w <= Base
      /\ Base \in Anchors
  BY FirmIs DEF FirmFacts
<1>2. /\ Base' \in Nat /\ (Base' = 0 \/ Base' \in FirmShots')
      /\ \A w \in FirmShots' : w <= Base'
      /\ FirmShots' \subseteq Latest' /\ Latest' \subseteq Watermark
  BY FirmIsNext
<1>3. Base <= Base'
  BY <1>1, <1>2
<1>4. Base' \in Anchors
  <2>1. CASE Base' = Base
    BY <2>1, <1>1
  <2>2. CASE Base' > Base
    BY <2>2, <1>1, <1>2 DEF Anchors
  <2> QED BY <2>1, <2>2, <1>1, <1>2, <1>3
<1>5. Anchors' \subseteq Anchors
  <2> SUFFICES ASSUME NEW w \in Latest', w > Base' PROVE w \in Anchors
    BY <1>4 DEF Anchors
  <2>1. w \in Latest /\ w \in Nat
    BY <1>2, NamesAre
  <2>2. w > Base
    BY <1>1, <1>2, <1>3, <2>1
  <2> QED BY <2>1, <2>2 DEF Anchors
<1> QED BY <1>2, <1>3, <1>4, <1>5

\* The files tell the same log from the new base on.
LEMMA Rebased ==
  ASSUME StoreInv, StoreInv', FileInv, ~Unused, UNCHANGED <<segments, contents>>,
         Base' \in Anchors, Anchors' \subseteq Anchors, FirmSegments' # {},
         \A n \in Name : n > Base' => /\ n \in FirmSegments => n \in FirmSegments'
                                      /\ n \in Linked' => n \in Linked
  PROVE  Shape(Base', Anchors', Linked', FirmSegments', segments', contents', RecoveredLog)
<1> DEFINE l == RecoveredLog
           base2 == Base'
           anchors2 == Anchors'
           names2 == Linked'
           firm2 == FirmSegments'
<1>1. Shape(Base, Anchors, Linked, FirmSegments, segments, contents, l) /\ Files(segments)
  BY LogIs DEF Tells
<1>2. Linked \in SUBSET Name
  BY FirmIs DEF StoreInv, FirmFacts
<1>3. /\ base2 \in anchors2 /\ \A w \in anchors2 : base2 <= w
      /\ names2 \in SUBSET Name /\ firm2 \subseteq names2
  BY FirmIsNext DEF StoreInv
<1>4. /\ base2 \in Anchors /\ anchors2 \subseteq Anchors /\ firm2 # {}
      /\ \A n \in Name : n > base2 => /\ n \in FirmSegments => n \in firm2
                                      /\ n \in names2 => n \in Linked
  OBVIOUS
<1> HIDE DEF l, base2, anchors2, names2, firm2
<1>5. Shape(base2, anchors2, names2, firm2, segments, contents, l)
  BY <1>1, <1>2, <1>3, <1>4, ShapeMoves
<1> QED BY <1>5 DEF l, base2, anchors2, names2, firm2

\* The steps of create_snapshot after its rotation.
Snapping ==
  phase \in {"WriteSnapshot", "InstallSnapshot", "SyncSnapshot", "RemoveCovered", "RemoveOlder",
             "Compacted"}

\* What they find.
LEMMA SnappingIs ==
  ASSUME StoreInv, FileInv, Snapping
  PROVE  /\ Serving /\ ~Unused /\ ~poisoned /\ FTypeOK /\ CallInv /\ call = "Snapshot"
         /\ RecoveredLog = visible /\ active \in FirmSegments /\ active \in Linked
         /\ active \in Name /\ active \in Nat
         /\ Len(visible) \in Nat /\ Len(visible) \in Watermark
         /\ Len(visible) <= MaxRecord /\ MaxRecord \in Nat
         /\ Len(visible) < MaxRecord =>
              /\ active = NextRecord /\ active = Len(visible) + 1 /\ ~segments[active].torn
              /\ \A k \in Linked : k <= active
         /\ Base \in Nat /\ Base <= Len(visible)
         /\ Linked \in SUBSET Name /\ Linked \subseteq Nat /\ FirmSegments \subseteq Linked
         /\ \A n \in Linked : n > Len(visible) => n = active
<1>1. FTypeOK /\ CallInv
  BY DEF StoreInv
<1>2. phase \notin {"Down", "Idle", "Persist", "Publish"} /\ call = "Snapshot" /\ ~poisoned
  BY <1>1, CallIs DEF Snapping, CallInv
<1>3. Serving /\ ~Unused
  <2>1. Serving
    BY <1>2 DEF Serving
  <2> QED BY <2>1, ServingIs
<1>4. /\ RecoveredLog = visible /\ active \in FirmSegments
      /\ Len(visible) < MaxRecord =>
           /\ active > Base /\ ~segments[active].torn
           /\ \A k \in Linked : k > active => k = NextRecord /\ phase = "SyncSegment"
  BY <1>2, <1>3 DEF FileInv, ServeInv
<1>5. /\ Len(visible) \in Nat /\ Len(visible) <= MaxRecord /\ MaxRecord \in Nat
      /\ NextRecord = Len(visible) + 1 /\ active \in Name /\ Len(visible) \in Watermark
  BY <1>1, NextRecordIs
<1>6. /\ Linked \in SUBSET Name /\ Linked \subseteq Nat /\ FirmSegments \subseteq Linked
      /\ active \in Linked /\ active \in Nat /\ \A n \in Linked : n <= MaxRecord
  BY <1>1, <1>4, FirmIs, NamesAre DEF FirmFacts
<1>7. Base \in Nat /\ Base <= Len(visible)
  BY <1>3, <1>4, LogIs
<1>8. ASSUME Len(visible) < MaxRecord
      PROVE  active = NextRecord /\ \A k \in Linked : k <= active
  <2>1. active = NextRecord
    BY <1>2, <1>8 DEF FileInv, SnapInv, Rotating, Snapping
  <2>2. \A k \in Linked : ~(k > active)
    BY <1>4, <1>8 DEF Snapping
  <2> QED BY <2>1, <2>2, <1>6
<1>9. ASSUME NEW n \in Linked, n > Len(visible)
      PROVE  n = active
  <2>1. n \in Nat /\ n <= MaxRecord
    BY <1>6
  <2>2. Len(visible) < MaxRecord
    BY <2>1, <1>5, <1>9
  <2>3. n <= active /\ active = Len(visible) + 1
    BY <2>2, <1>5, <1>8
  <2> QED BY <2>1, <2>3, <1>5, <1>9
<1> QED BY <1>1, <1>2, <1>3, <1>4, <1>5, <1>6, <1>7, <1>8, <1>9

\* Such a step keeps the invariant when the files go on telling the log.
LEMMA SnappingStep ==
  ASSUME StoreInv, StoreInv', FileInv, Snapping, Snapping',
         UNCHANGED <<deployment, root, segments, call, active, batch, poisoned, visible>>,
         Shape(Base', Anchors', Linked', FirmSegments', segments', contents', RecoveredLog),
         Linked' \subseteq Linked, Base <= Base', active \in FirmSegments',
         phase' = "SyncSnapshot" => Len(visible) \in Anchors',
         phase' \in {"RemoveCovered", "RemoveOlder", "Compacted"} => Base' = Len(visible),
         Powered =>
           /\ \A n \in Name : n > Base' /\ Segment(n) \in wal'.durable => n \in Linked'
           /\ \A w \in Watermark : w > Base' /\ Snapshot(w) \in shots'.durable => w \in Latest'
  PROVE  FileInv' /\ Implements
<1>1. /\ Serving /\ ~Unused /\ ~poisoned /\ FTypeOK /\ call = "Snapshot"
      /\ RecoveredLog = visible /\ active \in Nat
      /\ Len(visible) \in Nat /\ MaxRecord \in Nat
      /\ Len(visible) < MaxRecord =>
           /\ active = NextRecord /\ active = Len(visible) + 1 /\ ~segments[active].torn
           /\ \A k \in Linked : k <= active
      /\ Base \in Nat /\ Linked \subseteq Nat
  BY SnappingIs
<1>2. /\ RecoveredLog' = RecoveredLog /\ DiskInv' /\ VisibleInv' /\ Implements
      /\ deployment' \in Deployments /\ Powered' = Powered
  BY <1>1, KeepsLog
<1>3. Base' \in Nat /\ Base' <= Len(visible)
  <2>1. Base' \in Nat
    BY FirmIsNext DEF StoreInv
  <2> DEFINE l == RecoveredLog
             base2 == Base'
             anchors2 == Anchors'
             names2 == Linked'
             firm2 == FirmSegments'
  <2>2. Shape(base2, anchors2, names2, firm2, segments', contents', l)
    OBVIOUS
  <2> HIDE DEF l, base2, anchors2, names2, firm2
  <2>3. base2 <= Len(l)
    BY <2>2 DEF Shape
  <2> QED BY <1>1, <2>1, <2>3 DEF l, base2
<1>4. ServeInv'
  <2>1. Len(visible) < MaxRecord => active > Base' /\ \A k \in Linked' : ~(k > active)
    BY <1>1, <1>3
  <2>2. ~Rotating' /\ phase' \notin {"Persist", "Publish"}
    BY DEF Rotating, Snapping
  <2> QED BY <1>1, <1>2, <2>1, <2>2 DEF ServeInv
<1>5. SnapInv' /\ OpenInv'
  BY <1>1 DEF SnapInv, OpenInv, NextRecord, Snapping
<1>6. PowerInv'
  <2> SUFFICES ASSUME Powered' PROVE SyncedInv' /\ DurableInv'
    BY DEF PowerInv
  <2>1. phase # "Persist" /\ phase' # "Down" /\ call' # "Open"
    BY <1>1 DEF Snapping
  <2>2. \A n \in Linked' : n > Base' => n \in Linked /\ n > Base /\ segments'[n] = segments[n]
    BY <1>1, <1>3
  <2>3. SyncedInv'
    BY <1>1, <1>2, <2>1, <2>2, SyncedStays
  <2> QED BY <1>2, <2>1, <2>3 DEF DurableInv
<1> QED BY <1>2, <1>4, <1>5, <1>6 DEF FileInv

\* The firm snapshots of a directory whose names stay, or whose names are synchronized.
LEMMA ShotsStayFirm ==
  ASSUME FTypeOK, FTypeOK', deployment' = deployment,
         \A w \in Watermark : Snapshot(w) \in shots'.linked <=> Snapshot(w) \in shots.linked,
         \/ shots'.durable = shots'.linked
         \/ shots'.durable = shots.durable
  PROVE  /\ Latest' = Latest /\ FirmShots \subseteq FirmShots'
         /\ shots'.durable = shots'.linked => FirmShots' = Latest
         /\ Base <= Base' /\ Base' \in Anchors /\ Anchors' \subseteq Anchors /\ Base' \in Nat
         /\ (\A w \in Watermark : w > Base /\ Snapshot(w) \in shots.durable => w \in Latest) =>
              \A w \in Watermark : w > Base' /\ Snapshot(w) \in shots'.durable => w \in Latest'
<1>1. Latest' = Latest
  BY DEF Latest
<1>2. FirmShots \subseteq FirmShots'
  <2>1. CASE shots'.durable = shots'.linked
    BY <2>1 DEF FirmShots, Firm, Powered
  <2>2. CASE shots'.durable = shots.durable
    BY <2>2 DEF FirmShots, Firm, Powered
  <2> QED BY <2>1, <2>2
<1>3. Base <= Base' /\ Base' \in Anchors /\ Anchors' \subseteq Anchors /\ Base' \in Nat
  BY <1>1, <1>2, BaseMoves
<1>4. ASSUME shots'.durable = shots'.linked PROVE FirmShots' = Latest
  BY <1>4 DEF FirmShots, Firm, Latest
<1>5. ASSUME \A w \in Watermark : w > Base /\ Snapshot(w) \in shots.durable => w \in Latest,
             NEW w \in Watermark, w > Base', Snapshot(w) \in shots'.durable
      PROVE  w \in Latest'
  <2>1. CASE shots'.durable = shots'.linked
    BY <2>1, <1>5 DEF Latest
  <2>2. CASE shots'.durable = shots.durable
    <3>1. Base \in Nat /\ w \in Nat
      BY <1>5, FirmIs, NamesAre DEF FirmFacts
    <3>2. w > Base
      BY <3>1, <1>3, <1>5
    <3> QED BY <2>2, <3>2, <1>1, <1>5
  <2> QED BY <2>1, <2>2
<1> QED BY <1>1, <1>2, <1>3, <1>4, <1>5

\* The snapshot is written to a temporary file; the last one goes on counting.
LEMMA WriteSnapshotImplements ==
  ASSUME StoreInv, StoreInv', FileInv, WriteSnapshot
  PROVE  FileInv' /\ Implements
<1>1. /\ phase = "WriteSnapshot" /\ phase' = "InstallSnapshot"
      /\ UNCHANGED <<deployment, root, wal, segments, contents, call, active, batch, poisoned, visible>>
      /\ shots' = Link(WithoutTemp(shots), TempSnapshot)
  BY DEF WriteSnapshot, Continue
<1>2. Snapping /\ Snapping'
  BY <1>1 DEF Snapping
<1>3. /\ ~Unused /\ active \in FirmSegments /\ FTypeOK /\ FTypeOK'
  BY <1>2, SnappingIs DEF StoreInv
<1>4. /\ shots'.linked = (shots.linked \ {TempSnapshot}) \cup {TempSnapshot}
      /\ \/ shots'.durable = shots.linked \ {TempSnapshot}
         \/ shots'.durable = shots.durable
  <2> DEFINE rest == WithoutTemp(shots)
             temp == TempSnapshot
  <2>1. shots \in Directory(ShotEntry) /\ temp \in ShotEntry
    BY <1>3 DEF FTypeOK, ShotEntry
  <2>2. /\ rest \in Directory(ShotEntry) /\ rest.linked = shots.linked \ {temp}
        /\ rest.durable = rest.linked \/ rest.durable = shots.durable
    BY <2>1, TempRemoved
  <2>3. shots' = Link(rest, temp)
    BY <1>1
  <2> HIDE DEF rest, temp
  <2>4. shots'.linked = rest.linked \cup {temp} /\ shots'.durable = rest.durable
    BY <2>1, <2>2, <2>3, DirectorySteps
  <2> QED BY <2>2, <2>4 DEF temp
<1>5. \A w \in Watermark : Snapshot(w) # TempSnapshot
  BY NamesAre, EntriesDiffer
<1>6. Latest' = Latest
  BY <1>4, <1>5 DEF Latest
<1>7. FirmShots \subseteq FirmShots'
  BY <1>1, <1>4, <1>5 DEF FirmShots, Firm, Powered
<1>8. Base <= Base' /\ Base' \in Anchors /\ Anchors' \subseteq Anchors /\ Base' \in Nat
  BY <1>3, <1>6, <1>7, BaseMoves
<1>9. Linked' = Linked /\ FirmSegments' = FirmSegments
  BY <1>1, SameNames
<1>10. Shape(Base', Anchors', Linked', FirmSegments', segments', contents', RecoveredLog)
  BY <1>1, <1>3, <1>8, <1>9, Rebased
<1>11. ASSUME Powered
       PROVE  /\ \A n \in Name : n > Base' /\ Segment(n) \in wal'.durable => n \in Linked'
              /\ \A w \in Watermark : w > Base' /\ Snapshot(w) \in shots'.durable => w \in Latest'
  <2>1. DurableInv
    BY <1>3, <1>11 DEF FileInv, PowerInv
  <2>2. Base \in Nat /\ Name \subseteq Nat /\ Watermark \subseteq Nat
    BY <1>3, FirmIs, NamesAre DEF FirmFacts
  <2>3. \A n \in Nat : n > Base' => n > Base
    BY <2>2, <1>8
  <2>4. \A n \in Name : n > Base' /\ Segment(n) \in wal'.durable => n \in Linked'
    BY <1>1, <1>9, <2>1, <2>2, <2>3 DEF DurableInv
  <2>5. \A w \in Watermark : w > Base' /\ Snapshot(w) \in shots'.durable => w \in Latest'
    BY <1>4, <1>6, <2>1, <2>2, <2>3 DEF DurableInv, Latest
  <2> QED BY <2>4, <2>5
<1> QED BY <1>1, <1>2, <1>3, <1>8, <1>9, <1>10, <1>11, SnappingStep

\* The snapshot is renamed into place: recovery may begin there now.
LEMMA InstallSnapshotImplements ==
  ASSUME StoreInv, StoreInv', FileInv, InstallSnapshot
  PROVE  FileInv' /\ Implements
<1> DEFINE here == Len(visible)
<1>1. /\ phase = "InstallSnapshot" /\ phase' = "SyncSnapshot"
      /\ UNCHANGED <<deployment, root, wal, segments, call, active, batch, poisoned, visible>>
      /\ shots' = Link(Unlink(shots, {TempSnapshot}), Snapshot(here))
      /\ contents' = [contents EXCEPT ![here] = visible]
  BY DEF InstallSnapshot, Continue
<1>2. Snapping /\ Snapping'
  BY <1>1 DEF Snapping
<1>3. /\ ~Unused /\ active \in FirmSegments /\ FTypeOK /\ FTypeOK' /\ RecoveredLog = visible
      /\ here \in Watermark /\ here \in Nat /\ here <= MaxRecord /\ MaxRecord \in Nat
      /\ (here < MaxRecord => active = here + 1)
      /\ Linked \in SUBSET Name
  BY <1>2, SnappingIs DEF StoreInv
<1>4. /\ shots'.linked = (shots.linked \ {TempSnapshot}) \cup {Snapshot(here)}
      /\ shots'.durable = shots.durable
  <2> DEFINE rest == Unlink(shots, {TempSnapshot})
             entry == Snapshot(here)
  <2>1. shots \in Directory(ShotEntry) /\ entry \in ShotEntry
    BY <1>3 DEF FTypeOK, ShotEntry
  <2>2. shots' = Link(rest, entry)
    BY <1>1
  <2> HIDE DEF entry
  <2>3. /\ rest \in Directory(ShotEntry) /\ rest.linked = shots.linked \ {TempSnapshot}
        /\ rest.durable = shots.durable
    BY <2>1, DirectorySteps
  <2> HIDE DEF rest
  <2>4. shots'.linked = rest.linked \cup {entry} /\ shots'.durable = rest.durable
    BY <2>1, <2>2, <2>3, DirectorySteps
  <2> QED BY <2>3, <2>4 DEF entry
<1> HIDE DEF here
<1>5. \A w \in Watermark : Snapshot(w) # TempSnapshot
  BY NamesAre, EntriesDiffer
<1>6. Latest' = Latest \cup {here}
  BY <1>3, <1>4, <1>5, EntriesDiffer DEF Latest
<1>7. FirmShots \subseteq FirmShots'
  BY <1>1, <1>4, <1>5 DEF FirmShots, Firm, Powered
<1>8. /\ Base \in Nat /\ (Base = 0 \/ Base \in FirmShots) /\ Base \in Anchors
      /\ Base' \in Nat /\ (Base' = 0 \/ Base' \in FirmShots')
      /\ FirmShots' \subseteq Latest' /\ Latest' \subseteq Nat
      /\ \A w \in FirmShots' : w <= Base'
      /\ Base' \in Anchors' /\ \A w \in Anchors' : Base' <= w
  <2>1. Latest' \subseteq Nat
    BY <1>3, FirmIsNext, NamesAre
  <2> QED BY <1>3, <2>1, FirmIs, FirmIsNext DEF FirmFacts
<1>9. Base <= Base'
  BY <1>7, <1>8
<1>10. Base' \in Anchors \cup {here}
  <2>1. CASE Base' = Base
    BY <2>1, <1>8
  <2>2. CASE Base' > Base
    <3>1. Base' \in Latest \cup {here}
      BY <2>2, <1>6, <1>8
    <3> QED BY <2>2, <3>1 DEF Anchors
  <2> QED BY <2>1, <2>2, <1>8, <1>9
<1>11. Anchors' \subseteq Anchors \cup {here}
  <2> SUFFICES ASSUME NEW w \in Latest', w > Base' PROVE w \in Anchors \cup {here}
    BY <1>10 DEF Anchors
  <2>1. w > Base
    BY <1>8, <1>9
  <2> QED BY <2>1, <1>6 DEF Anchors
<1>12. Linked' = Linked /\ FirmSegments' = FirmSegments
  BY <1>1, SameNames
<1>13. Shape(Base, Anchors, Linked, FirmSegments, segments, contents, visible) /\ Files(segments)
  BY <1>3, LogIs DEF Tells
<1>14. Shape(Base, Anchors \cup {here}, Linked, FirmSegments, segments, contents', visible)
  <2> DEFINE shot2 == contents'
  <2>1. /\ shot2[Len(visible)] = visible
        /\ \A w \in Watermark : w # Len(visible) => shot2[w] = contents[w]
    BY <1>1, <1>3 DEF FTypeOK, here
  <2>2. Len(visible) = MaxRecord \/ Len(visible) + 1 \in FirmSegments
    BY <1>3 DEF here
  <2> HIDE DEF shot2
  <2>3. Shape(Base, Anchors \cup {Len(visible)}, Linked, FirmSegments, segments, shot2, visible)
    BY <1>3, <1>13, <2>1, <2>2, ShapeInstalls
  <2> QED BY <2>3 DEF shot2, here
<1>15. Shape(Base', Anchors', Linked', FirmSegments', segments', contents', RecoveredLog)
  <2> DEFINE shot2 == contents'
             base2 == Base'
             anchors2 == Anchors'
             anchors == Anchors \cup {here}
  <2>1. /\ base2 \in anchors /\ base2 \in anchors2 /\ anchors2 \subseteq anchors
        /\ \A w \in anchors2 : base2 <= w
    BY <1>8, <1>10, <1>11
  <2>2. FirmSegments # {} /\ FirmSegments \subseteq Linked
    BY <1>13 DEF Shape
  <2>3. \A n \in Name : n > base2 => /\ n \in FirmSegments => n \in FirmSegments
                                     /\ n \in Linked => n \in Linked
    OBVIOUS
  <2>4. Shape(Base, anchors, Linked, FirmSegments, segments, shot2, visible)
    BY <1>14
  <2> HIDE DEF shot2, base2, anchors2, anchors
  <2>5. Shape(base2, anchors2, Linked, FirmSegments, segments, shot2, visible)
    BY <1>3, <1>13, <2>1, <2>2, <2>3, <2>4, ShapeMoves
  <2> QED BY <1>1, <1>3, <1>12, <2>5 DEF shot2, base2, anchors2
<1>16. here \in Anchors'
  <2>1. Base' <= here
    <3>1. \A w \in Anchors \cup {here} : w <= here
      BY <1>14 DEF Shape, here
    <3> QED BY <3>1, <1>10
  <2>2. CASE here = Base'
    BY <2>2, <1>8
  <2>3. CASE here > Base'
    BY <2>3, <1>6 DEF Anchors
  <2> QED BY <2>1, <2>2, <2>3, <1>3, <1>8
<1>17. ASSUME Powered
       PROVE  /\ \A n \in Name : n > Base' /\ Segment(n) \in wal'.durable => n \in Linked'
              /\ \A w \in Watermark : w > Base' /\ Snapshot(w) \in shots'.durable => w \in Latest'
  <2>1. DurableInv
    BY <1>3, <1>17 DEF FileInv, PowerInv
  <2>2. \A n \in Nat : n > Base' => n > Base
    BY <1>8, <1>9
  <2> QED BY <1>1, <1>4, <1>6, <1>12, <2>1, <2>2, NamesAre DEF DurableInv
<1> QED BY <1>1, <1>2, <1>3, <1>9, <1>12, <1>15, <1>16, <1>17, SnappingStep DEF here

\* The names of the snapshots are synchronized, before anything is removed or after it.
LEMMA SyncShotsImplements ==
  ASSUME StoreInv, StoreInv', FileInv, SyncSnapshot \/ SyncCleanup
  PROVE  FileInv' /\ Implements
<1>1. /\ phase \in {"SyncSnapshot", "RemoveOlder"}
      /\ phase' \in {"RemoveCovered", "Compacted"}
      /\ UNCHANGED <<deployment, root, wal, segments, contents, call, active, batch, poisoned, visible>>
      /\ shots' = SyncDirectory(shots)
  BY DEF SyncSnapshot, SyncCleanup, Continue
<1>2. Snapping /\ Snapping'
  BY <1>1 DEF Snapping
<1>3. /\ ~Unused /\ active \in FirmSegments /\ FTypeOK /\ FTypeOK' /\ RecoveredLog = visible
      /\ Len(visible) \in Nat /\ call = "Snapshot" /\ Base \in Nat
  BY <1>2, SnappingIs DEF StoreInv
<1>4. shots'.linked = shots.linked /\ shots'.durable = shots'.linked
  BY <1>1, <1>3, DirectorySynced DEF FTypeOK
<1>5. /\ Base <= Base' /\ Base' \in Anchors /\ Anchors' \subseteq Anchors /\ Base' \in Nat
      /\ FirmShots' = Latest /\ Latest' = Latest
  BY <1>1, <1>3, <1>4, ShotsStayFirm
<1>6. Linked' = Linked /\ FirmSegments' = FirmSegments
  BY <1>1, SameNames
<1>7. Shape(Base', Anchors', Linked', FirmSegments', segments', contents', RecoveredLog)
  BY <1>1, <1>3, <1>5, <1>6, Rebased
<1>8. Base' = Len(visible)
  <2>1. Base' <= Len(visible)
    <3>1. Tells(visible)
      BY <1>3, LogIs
    <3> QED BY <3>1, <1>5 DEF Tells, Shape
  <2>2. Len(visible) = Base \/ Len(visible) \in Latest
    BY <1>1, <1>3 DEF FileInv, SnapInv, Anchors
  <2>3. Len(visible) <= Base'
    <3>1. \A w \in FirmShots' : w <= Base'
      BY <1>3, FirmIsNext
    <3> QED BY <3>1, <2>2, <1>5
  <2> QED BY <2>1, <2>3, <1>3, <1>5
<1>9. ASSUME Powered
      PROVE  /\ \A n \in Name : n > Base' /\ Segment(n) \in wal'.durable => n \in Linked'
             /\ \A w \in Watermark : w > Base' /\ Snapshot(w) \in shots'.durable => w \in Latest'
  <2>1. DurableInv
    BY <1>3, <1>9 DEF FileInv, PowerInv
  <2>2. \A n \in Nat : n > Base' => n > Base
    BY <1>3, <1>5
  <2> QED BY <1>1, <1>4, <1>6, <2>1, <2>2, NamesAre DEF DurableInv, Latest
<1>10. phase' # "SyncSnapshot"
  BY <1>1
<1>11. Linked' \subseteq Linked /\ active \in FirmSegments'
  BY <1>3, <1>6
<1> QED BY <1>1, <1>2, <1>5, <1>7, <1>8, <1>9, <1>10, <1>11, SnappingStep

\* Segments that a snapshot covers are removed: recovery begins behind them.
LEMMA CoveredImplements ==
  ASSUME StoreInv, StoreInv', FileInv, RemoveCovered \/ SyncCompacted
  PROVE  FileInv' /\ Implements
<1>1. /\ phase = "RemoveCovered" /\ phase' \in {"RemoveCovered", "RemoveOlder"}
      /\ UNCHANGED <<deployment, root, segments, shots, contents, call, active, batch, poisoned,
                     visible>>
      /\ \/ \E e \in Covered : wal' = Unlink(wal, {e})
         \/ wal' = SyncDirectory(wal)
  BY DEF RemoveCovered, SyncCompacted, Continue
<1>2. Snapping /\ Snapping'
  BY <1>1 DEF Snapping
<1>3. /\ ~Unused /\ active \in FirmSegments /\ FTypeOK /\ active \in Linked
      /\ RecoveredLog = visible /\ Len(visible) \in Nat /\ call = "Snapshot"
      /\ active \in Name /\ FirmSegments \subseteq Linked
      /\ \A n \in Linked : n > Len(visible) => n = active
      /\ Base = Len(visible)
  BY <1>1, <1>2, SnappingIs DEF FileInv, SnapInv
<1>4. /\ Segment(active) \in wal'.linked /\ wal'.linked \subseteq wal.linked
      /\ \/ wal'.durable = wal.durable
         \/ wal'.durable = wal.linked /\ wal'.linked = wal.linked
  <2>1. wal \in Directory(WalEntry) /\ Segment(active) \in wal.linked /\ WalEntry # {}
    BY <1>3 DEF FTypeOK, Linked, WalEntry
  <2>2. CASE \E e \in Covered : wal' = Unlink(wal, {e})
    <3>1. PICK e \in Covered : wal' = Unlink(wal, {e})
      BY <2>2
    <3>2. PICK other \in WalEntry : TRUE
      BY <2>1
    <3> DEFINE gone == {e}
    <3> HIDE DEF gone
    <3>3. wal' = Unlink(wal, gone)
      BY <3>1 DEF gone
    <3>4. wal'.linked = wal.linked \ gone /\ wal'.durable = wal.durable
      BY <2>1, <3>2, <3>3, DirectorySteps
    <3> QED BY <2>1, <3>1, <3>4 DEF gone, Covered
  <2>3. CASE wal' = SyncDirectory(wal)
    BY <2>1, <2>3, DirectorySynced
  <2> QED BY <2>2, <2>3, <1>1
<1>5. /\ Latest' = Latest /\ Base' = Base /\ Anchors' = Anchors
      /\ Base \in Anchors /\ Base \in Nat
  BY <1>1, <1>3, SameShots, FirmIs DEF FirmFacts
<1>6. Linked' \subseteq Linked /\ active \in Linked'
  BY <1>3, <1>4 DEF Linked
<1>7. active \in FirmSegments'
  BY <1>1, <1>3, <1>4 DEF FirmSegments, Firm, Powered
<1>8. \A n \in Name : n > Base' => /\ n \in FirmSegments => n \in FirmSegments'
                                   /\ n \in Linked' => n \in Linked
  BY <1>3, <1>5, <1>6, <1>7
<1>9. Shape(Base', Anchors', Linked', FirmSegments', segments', contents', RecoveredLog)
  <2>1. FirmSegments' # {}
    BY <1>7
  <2> QED BY <1>1, <1>3, <1>5, <1>8, <2>1, Rebased
<1>10. ASSUME Powered
       PROVE  /\ \A n \in Name : n > Base' /\ Segment(n) \in wal'.durable => n \in Linked'
              /\ \A w \in Watermark : w > Base' /\ Snapshot(w) \in shots'.durable => w \in Latest'
  <2>1. DurableInv
    BY <1>3, <1>10 DEF FileInv, PowerInv
  <2>2. ASSUME NEW n \in Name, n > Base', Segment(n) \in wal'.durable
        PROVE  n \in Linked'
    <3>1. n \in Linked
      BY <1>4, <1>5, <2>1, <2>2 DEF DurableInv, Linked
    <3> QED BY <3>1, <1>3, <1>5, <1>6, <2>2
  <2> QED BY <1>1, <1>5, <2>1, <2>2 DEF DurableInv
<1>11. phase' # "SyncSnapshot" /\ Base <= Base' /\ Base' = Len(visible)
  BY <1>1, <1>3, <1>5
<1> QED BY <1>1, <1>2, <1>6, <1>7, <1>9, <1>10, <1>11, SnappingStep

\* Older snapshots are removed: there is one that no failure takes.
LEMMA RemoveOlderImplements ==
  ASSUME StoreInv, StoreInv', FileInv, RemoveOlder
  PROVE  FileInv' /\ Implements
<1>1. /\ phase = "RemoveOlder" /\ phase' = "RemoveOlder"
      /\ UNCHANGED <<deployment, root, wal, segments, contents, call, active, batch, poisoned, visible>>
      /\ \E e \in Older : shots' = Unlink(shots, {e})
  BY DEF RemoveOlder, Continue
<1>2. Snapping /\ Snapping'
  BY <1>1 DEF Snapping
<1>3. /\ ~Unused /\ active \in FirmSegments /\ FTypeOK /\ FTypeOK'
      /\ RecoveredLog = visible /\ Len(visible) \in Nat /\ Len(visible) \in Watermark
      /\ call = "Snapshot" /\ Base = Len(visible) /\ Base \in Nat
  BY <1>1, <1>2, SnappingIs DEF FileInv, SnapInv, StoreInv
<1>4. /\ shots'.durable = shots.durable /\ shots'.linked \subseteq shots.linked
      /\ Snapshot(Base) \in shots.linked => Snapshot(Base) \in shots'.linked
  <2>1. shots \in Directory(ShotEntry)
    BY <1>3 DEF FTypeOK
  <2>2. PICK e \in Older : shots' = Unlink(shots, {e})
    BY <1>1
  <2>3. PICK other \in ShotEntry : TRUE
    BY DEF ShotEntry
  <2> DEFINE gone == {e}
  <2> HIDE DEF gone
  <2>4. shots' = Unlink(shots, gone)
    BY <2>2 DEF gone
  <2>5. shots'.linked = shots.linked \ gone /\ shots'.durable = shots.durable
    BY <2>1, <2>3, <2>4, DirectorySteps
  <2> QED BY <2>2, <2>5, <1>3 DEF gone, Older
<1>5. /\ Base = 0 \/ Base \in FirmShots
      /\ \A w \in FirmShots : w <= Base
      /\ Base \in Anchors
      /\ Base' \in Nat /\ (Base' = 0 \/ Base' \in FirmShots')
      /\ \A w \in FirmShots' : w <= Base'
  BY <1>3, FirmIs, FirmIsNext DEF FirmFacts
<1>6. FirmShots' \subseteq FirmShots /\ Latest' \subseteq Latest
  BY <1>1, <1>4 DEF FirmShots, Latest, Firm, Powered
<1>7. Base \in FirmShots => Base \in FirmShots'
  BY <1>1, <1>4 DEF FirmShots, Firm, Powered
<1>8. Base' = Base
  BY <1>3, <1>5, <1>6, <1>7
<1>9. Anchors' \subseteq Anchors
  BY <1>6, <1>8 DEF Anchors
<1>10. Linked' = Linked /\ FirmSegments' = FirmSegments
  BY <1>1, SameNames
<1>11. Shape(Base', Anchors', Linked', FirmSegments', segments', contents', RecoveredLog)
  BY <1>1, <1>3, <1>5, <1>8, <1>9, <1>10, Rebased
<1>12. ASSUME Powered
       PROVE  /\ \A n \in Name : n > Base' /\ Segment(n) \in wal'.durable => n \in Linked'
              /\ \A w \in Watermark : w > Base' /\ Snapshot(w) \in shots'.durable => w \in Latest'
  <2>1. DurableInv
    BY <1>3, <1>12 DEF FileInv, PowerInv
  <2>2. ASSUME NEW w \in Watermark, w > Base', Snapshot(w) \in shots'.durable PROVE FALSE
    <3>1. w \in Latest
      BY <1>4, <1>8, <2>1, <2>2 DEF DurableInv
    <3>2. w \in Anchors
      BY <3>1, <1>8, <2>2 DEF Anchors
    <3>3. w <= Len(visible)
      <4>1. Tells(visible)
        BY <1>3, LogIs
      <4> QED BY <3>2, <4>1 DEF Tells, Shape
    <3> QED BY <3>3, <1>3, <1>8, <2>2, NamesAre
  <2> QED BY <1>1, <1>8, <1>10, <2>1, <2>2 DEF DurableInv
<1>13. /\ phase' # "SyncSnapshot" /\ Base <= Base' /\ Base' = Len(visible)
       /\ Linked' \subseteq Linked /\ active \in FirmSegments'
  BY <1>1, <1>3, <1>8, <1>10
<1> QED BY <1>1, <1>2, <1>11, <1>12, <1>13, SnappingStep

-----------------------------------------------------------------------------
(* Opening.                                                                 *)

\* All that open finds is there to stay.
LEMMA OpeningIs ==
  ASSUME StoreInv, FileInv, ~Unused, phase = "Down" \/ call = "Open"
  PROVE  /\ FirmSegments = Linked /\ FirmShots = Latest /\ Base = Anchor
         /\ FTypeOK /\ phase # "Persist" /\ ~poisoned
         /\ Linked \in SUBSET Name /\ Linked \subseteq Nat /\ Base \in Nat /\ Base \in Anchors
         /\ Linked # {}
<1>1. FTypeOK /\ CallInv
  BY DEF StoreInv
<1>2. phase # "Persist" /\ ~poisoned
  BY <1>1, CallIs DEF CallInv
<1>3. FirmSegments = Linked /\ FirmShots = Latest /\ Base = Anchor
  <2>1. CASE Powered
    <3>1. wal.linked \subseteq wal.durable /\ shots.linked \subseteq shots.durable
      BY <2>1 DEF FileInv, PowerInv, DurableInv
    <3>2. FirmSegments = Linked /\ FirmShots = Latest
      BY <3>1 DEF FirmSegments, FirmShots, Linked, Latest, Firm
    <3> QED BY <3>2 DEF Base, Anchor
  <2>2. CASE ~Powered
    BY <2>2, <1>1, FirmIs DEF FirmFacts
  <2> QED BY <2>1, <2>2
<1>4. Linked \in SUBSET Name /\ Linked \subseteq Nat /\ Base \in Nat /\ Base \in Anchors
  BY <1>1, FirmIs, NamesAre DEF FirmFacts
<1>5. FirmSegments # {}
  BY LogIs DEF Tells, Shape
<1> QED BY <1>1, <1>2, <1>3, <1>4, <1>5

\* A step of open keeps the invariant when the files go on telling the log.
LEMMA OpeningStep ==
  ASSUME StoreInv, StoreInv', FileInv, ~Unused, UNCHANGED <<deployment, root, visible>>,
         call' = "Open", phase' \in {"Recover", "RemoveObsolete", "SyncTrimmed"},
         Shape(Base', Anchors', Linked', FirmSegments', segments', contents', RecoveredLog),
         OpenInv', Powered => SyncedInv' /\ DurableInv'
  PROVE  FileInv' /\ Implements
<1>1. /\ DiskInv' /\ VisibleInv' /\ Implements
      /\ deployment' \in Deployments /\ Powered' = Powered
  BY KeepsLog
<1>2. ServeInv' /\ SnapInv' /\ PowerInv'
  BY <1>1 DEF ServeInv, Serving, SnapInv, PowerInv
<1> QED BY <1>1, <1>2 DEF FileInv

\* Temporary files are removed.
LEMMA OpenImplements ==
  ASSUME StoreInv, StoreInv', FileInv, Open
  PROVE  FileInv' /\ Implements
<1>1. /\ phase = "Down" /\ root = "Manifest" /\ phase' = "Recover" /\ call' = "Open"
      /\ UNCHANGED <<deployment, root, segments, contents, active, batch, poisoned, visible>>
  BY DEF Open
<1>2. ~Unused
  <2>1. FTypeOK /\ CallInv
    BY DEF StoreInv
  <2> QED BY <2>1, <1>1, CallIs DEF Unused
<1>3. /\ FTypeOK /\ FTypeOK' /\ phase # "Persist" /\ ~poisoned /\ Base \in Nat
      /\ FirmSegments = Linked /\ Linked # {}
  BY <1>1, <1>2, OpeningIs DEF StoreInv
<1>4. /\ wal'.linked \subseteq wal.linked /\ Linked' = Linked
      /\ \/ wal'.durable = wal'.linked
         \/ wal'.linked = wal.linked /\ wal'.durable = wal.durable
      /\ shots'.linked = shots.linked \ {TempSnapshot}
      /\ \/ shots'.durable = shots'.linked
         \/ shots'.linked = shots.linked /\ shots'.durable = shots.durable
  BY <1>3, TempsRemoved
<1>5. \A w \in Watermark : Snapshot(w) # TempSnapshot
  BY NamesAre, EntriesDiffer
<1>6. \A w \in Watermark : Snapshot(w) \in shots'.linked <=> Snapshot(w) \in shots.linked
  BY <1>4, <1>5
<1>7. /\ Base <= Base' /\ Base' \in Anchors /\ Anchors' \subseteq Anchors /\ Base' \in Nat
      /\ (\A w \in Watermark : w > Base /\ Snapshot(w) \in shots.durable => w \in Latest) =>
           \A w \in Watermark : w > Base' /\ Snapshot(w) \in shots'.durable => w \in Latest'
  BY <1>1, <1>3, <1>4, <1>6, ShotsStayFirm
<1>8. FirmSegments' = Linked
  <2>1. FirmSegments' \subseteq Linked'
    BY <1>3, FirmIsNext
  <2>2. Linked \subseteq FirmSegments'
    <3>1. CASE wal'.durable = wal'.linked
      BY <3>1, <1>4 DEF FirmSegments, Linked, Firm
    <3>2. CASE wal'.linked = wal.linked /\ wal'.durable = wal.durable
      <4>1. FirmSegments' = FirmSegments
        BY <3>2, <1>1 DEF FirmSegments, Firm, Powered
      <4> QED BY <4>1, <1>3
    <3> QED BY <3>1, <3>2, <1>4
  <2> QED BY <2>1, <2>2, <1>4
<1>9. Shape(Base', Anchors', Linked', FirmSegments', segments', contents', RecoveredLog)
  BY <1>1, <1>2, <1>3, <1>4, <1>7, <1>8, Rebased
<1>10. ASSUME Powered
       PROVE  SyncedInv' /\ DurableInv'
  <2>1. DurableInv /\ wal.linked \subseteq wal.durable /\ shots.linked \subseteq shots.durable
    BY <1>1, <1>2, <1>10 DEF FileInv, PowerInv, DurableInv
  <2>2. \A n \in Nat : n > Base' => n > Base
    BY <1>3, <1>7
  <2>3. SyncedInv'
    <3>1. Linked \subseteq Nat
      BY <1>3, FirmIs, NamesAre DEF FirmFacts
    <3> QED BY <1>1, <1>2, <1>3, <1>4, <1>10, <2>2, <3>1, SyncedStays
  <2>4. \A n \in Name : n > Base' /\ Segment(n) \in wal'.durable => n \in Linked'
    <3>1. \A n \in Name : Segment(n) \in wal'.linked => n \in Linked'
      BY DEF Linked
    <3>2. \A n \in Name : n > Base' /\ Segment(n) \in wal.durable => n \in Linked
      BY <2>1, <2>2, NamesAre DEF DurableInv
    <3> QED BY <1>4, <3>1, <3>2
  <2>5. \A w \in Watermark : w > Base' /\ Snapshot(w) \in shots'.durable => w \in Latest'
    BY <1>7, <2>1 DEF DurableInv
  <2>6. wal'.linked \subseteq wal'.durable /\ shots'.linked \subseteq shots'.durable
    BY <1>4, <2>1
  <2> QED BY <2>3, <2>4, <2>5, <2>6 DEF DurableInv
<1>11. OpenInv'
  BY <1>1 DEF OpenInv
<1> QED BY <1>1, <1>2, <1>9, <1>10, <1>11, OpeningStep

\* The partial tail of the last segment is cut off: it holds no record.
LEMMA RecoverImplements ==
  ASSUME StoreInv, StoreInv', FileInv, Recover
  PROVE  FileInv' /\ Implements
<1>1. /\ phase = "Recover" /\ CanOpen /\ phase' = "RemoveObsolete" /\ call' = call
      /\ UNCHANGED <<deployment, root, wal, shots, contents, active, batch, poisoned, visible>>
  BY DEF Recover, Continue
<1>2. call = "Open" /\ ~Unused
  <2>1. FTypeOK /\ CallInv
    BY DEF StoreInv
  <2> QED BY <2>1, <1>1, CallIs DEF Unused, CanOpen
<1>3. /\ FTypeOK /\ phase # "Persist" /\ ~poisoned /\ Base \in Nat /\ Base = Anchor
      /\ FirmSegments = Linked /\ Linked \in SUBSET Name /\ Linked \subseteq Nat
  BY <1>2, OpeningIs
<1>4. /\ Linked' = Linked /\ FirmSegments' = FirmSegments
      /\ Latest' = Latest /\ Base' = Base /\ Anchors' = Anchors
  BY <1>1, SameNames, SameShots
<1>5. /\ \A n \in Name : /\ segments'[n].records = segments[n].records
                         /\ segments'[n].torn => segments[n].torn
                         /\ (segments[n].synced = Len(segments[n].records) =>
                               segments'[n].synced = Len(segments'[n].records))
      /\ ~Exhausted => ~segments'[Max(Suffix)].torn
      /\ Max(Suffix) \in Suffix /\ Max(Suffix) \in Name
  BY <1>3, RepairedIs
<1> DEFINE l == RecoveredLog
<1>6. Shape(Base, Anchors, Linked, FirmSegments, segments, contents, l)
  BY <1>2, LogIs DEF Tells
<1> HIDE DEF l
<1>7. Shape(Base, Anchors, Linked, FirmSegments, segments', contents, l)
  BY <1>3, <1>5, <1>6, ShapeStays
<1>8. Shape(Base', Anchors', Linked', FirmSegments', segments', contents', RecoveredLog)
  BY <1>1, <1>4, <1>7 DEF l
<1>9. OpenInv'
  <2> SUFFICES ASSUME NEW n \in Linked, n > Base PROVE ~segments'[n].torn
    BY <1>4 DEF OpenInv
  <2> DEFINE last == Max(Suffix)
  <2>1. n \in Nat /\ n <= MaxRecord /\ MaxRecord \in Nat
    BY <1>3, NamesAre
  <2>2. ~Exhausted /\ Minimum = Anchor + 1
    BY <1>3, <2>1 DEF Exhausted, Minimum
  <2>3. n \in Suffix
    BY <1>3, <2>1, <2>2 DEF Suffix
  <2>4. n <= last /\ last \in Suffix
    <3>1. Suffix \in SUBSET Name /\ Suffix # {}
      BY <1>3, <2>3 DEF Suffix
    <3> QED BY <2>3, <3>1, SegmentsEnd
  <2>5. last \in Linked /\ last \in Nat
    BY <1>3, <2>4 DEF Suffix
  <2>6. ~segments'[last].torn
    BY <1>5, <2>2
  <2> HIDE DEF last
  <2>7. CASE n = last
    BY <2>6, <2>7
  <2>8. CASE n # last
    <3>1. last > n
      BY <2>1, <2>4, <2>5, <2>8
    <3> QED BY <3>1, <1>7, <2>5 DEF Shape
  <2> QED BY <2>7, <2>8
<1>10. ASSUME Powered
       PROVE  SyncedInv' /\ DurableInv'
  <2>1. SyncedInv /\ DurableInv
    BY <1>2, <1>10 DEF FileInv, PowerInv
  <2>2. \A n \in Linked : n > Base => segments'[n].synced = Len(segments'[n].records)
    BY <1>3, <1>5, <2>1 DEF SyncedInv
  <2>3. SyncedInv'
    BY <1>4, <2>2 DEF SyncedInv
  <2> QED BY <1>1, <1>2, <1>4, <2>1, <2>3 DEF DurableInv
<1> QED BY <1>1, <1>2, <1>8, <1>9, <1>10, OpeningStep

\* Segments that the snapshot covers are removed.
LEMMA TrimmedImplements ==
  ASSUME StoreInv, StoreInv', FileInv, RemoveObsolete \/ SyncTrimmed
  PROVE  FileInv' /\ Implements
<1>1. FTypeOK /\ CallInv /\ OpeningInv
  BY DEF StoreInv
<1>2. /\ phase \in {"RemoveObsolete", "SyncTrimmed"}
      /\ phase' \in {"RemoveObsolete", "SyncTrimmed"}
      /\ UNCHANGED <<deployment, root, segments, shots, contents, call, active, batch, poisoned,
                     visible>>
      /\ wal'.linked \subseteq wal.linked
      /\ \A n \in Name : n >= Minimum => (n \in Linked' <=> n \in Linked)
      /\ wal'.durable = wal.durable \/ wal'.durable = wal'.linked
      /\ Suffix' = Suffix
  BY <1>1, TrimmedIs
<1>3. call = "Open" /\ ~Unused
  <2>1. CanOpen
    BY <1>1, <1>2 DEF OpeningInv
  <2> QED BY <1>1, <1>2, <2>1, CallIs DEF Unused, CanOpen
<1>4. /\ phase # "Persist" /\ ~poisoned /\ Base \in Nat /\ Base = Anchor /\ Base \in Anchors
      /\ FirmSegments = Linked /\ Linked \in SUBSET Name /\ Linked \subseteq Nat
  BY <1>3, OpeningIs
<1>5. Latest' = Latest /\ Base' = Base /\ Anchors' = Anchors
  BY <1>2, SameShots
<1>6. Linked' \subseteq Linked
  BY <1>2 DEF Linked
<1>7. FirmSegments' = Linked'
  <2>1. CASE Powered
    <3>1. wal.linked \subseteq wal.durable
      BY <2>1, <1>3 DEF FileInv, PowerInv, DurableInv
    <3>2. wal'.linked \subseteq wal'.durable
      BY <3>1, <1>2
    <3> QED BY <3>2 DEF FirmSegments, Linked, Firm
  <2>2. CASE ~Powered
    BY <2>2, <1>2 DEF FirmSegments, Linked, Firm, Powered
  <2> QED BY <2>1, <2>2
<1>8. \A n \in Name : n > Base => (n \in Linked' <=> n \in Linked)
  <2> SUFFICES ASSUME NEW n \in Name, n > Base PROVE n >= Minimum
    BY <1>2
  <2>1. n \in Nat /\ n <= MaxRecord /\ MaxRecord \in Nat
    BY NamesAre
  <2>2. Minimum = Anchor + 1
    BY <1>4, <2>1 DEF Minimum
  <2> QED BY <1>4, <2>1, <2>2
<1>9. Linked' # {}
  <2>1. Suffix # {}
    BY <1>1, <1>2 DEF OpeningInv, CanOpen, Accepted
  <2>2. Suffix' \subseteq Linked'
    BY DEF Suffix
  <2> QED BY <1>2, <2>1, <2>2
<1>10. Shape(Base', Anchors', Linked', FirmSegments', segments', contents', RecoveredLog)
  BY <1>2, <1>3, <1>4, <1>5, <1>6, <1>7, <1>8, <1>9, Rebased
<1>11. OpenInv'
  BY <1>2, <1>5, <1>6 DEF FileInv, OpenInv
<1>12. ASSUME Powered
       PROVE  SyncedInv' /\ DurableInv'
  <2>1. DurableInv /\ wal.linked \subseteq wal.durable
    BY <1>3, <1>12 DEF FileInv, PowerInv, DurableInv
  <2>2. SyncedInv'
    BY <1>2, <1>3, <1>4, <1>5, <1>6, <1>12, SyncedStays
  <2>3. \A n \in Name : n > Base' /\ Segment(n) \in wal'.durable => n \in Linked'
    <3>1. CASE wal'.durable = wal.durable
      BY <3>1, <1>5, <1>8, <2>1 DEF DurableInv
    <3>2. CASE wal'.durable = wal'.linked
      BY <3>2 DEF Linked
    <3> QED BY <3>1, <3>2, <1>2
  <2>4. wal'.linked \subseteq wal'.durable
    BY <1>2, <2>1
  <2> QED BY <1>2, <1>3, <1>5, <2>1, <2>2, <2>3, <2>4 DEF DurableInv
<1> QED BY <1>2, <1>3, <1>10, <1>11, <1>12, OpeningStep

-----------------------------------------------------------------------------
(* A loss of power.                                                         *)

\* The entries that are left: all of them are firm, and none is new.
LEMMA EntriesLeft ==
  ASSUME StoreInv, StoreInv', FileInv, ~Unused, LosePower
  PROVE  /\ Powered /\ wal'.durable = wal'.linked /\ shots'.durable = shots'.linked
         /\ FirmSegments' = Linked' /\ Anchors' = {Base'} /\ Base' \in Nat
         /\ \A n \in Linked' : n > Base' => n \in Linked /\ n > Base
         /\ Shape(Base', {Base'}, Linked', Linked', segments, contents, RecoveredLog)
<1>1. /\ Powered /\ deployment' = deployment /\ FTypeOK /\ FTypeOK'
      /\ wal' \in Remnants(wal) /\ shots' \in Remnants(shots)
  BY DEF LosePower, End, Powered, StoreInv
<1>2. /\ wal'.durable = wal'.linked
      /\ wal.linked \cap wal.durable \subseteq wal'.linked
      /\ wal'.linked \subseteq wal.linked \cup wal.durable
      /\ shots'.durable = shots'.linked
      /\ shots.linked \cap shots.durable \subseteq shots'.linked
      /\ shots'.linked \subseteq shots.linked \cup shots.durable
  BY <1>1, RemnantsAre DEF FTypeOK
<1>3. FirmSegments' = Linked' /\ FirmShots' = Latest'
  BY <1>2 DEF FirmSegments, Linked, FirmShots, Latest, Firm
<1>4. FirmSegments \subseteq Linked' /\ FirmShots \subseteq Latest'
  BY <1>1, <1>2 DEF FirmSegments, Linked, FirmShots, Latest, Firm
<1>5. /\ Base \in Nat /\ (Base = 0 \/ Base \in FirmShots) /\ Base \in Anchors
      /\ Base' \in Nat /\ (Base' = 0 \/ Base' \in FirmShots')
      /\ \A w \in FirmShots' : w <= Base'
      /\ Latest' \subseteq Nat /\ Linked \in SUBSET Name /\ Linked' \in SUBSET Name
      /\ Latest' \subseteq Watermark /\ Linked' \subseteq Nat
  <2>1. Latest' \subseteq Watermark /\ Linked' \in SUBSET Name
    BY <1>1, FirmIsNext
  <2> QED BY <1>1, <2>1, FirmIs, FirmIsNext, NamesAre DEF FirmFacts
<1>6. Base <= Base'
  BY <1>3, <1>4, <1>5
<1>7. DurableInv
  BY <1>1 DEF FileInv, PowerInv
<1>8. Base' \in Anchors
  <2>1. CASE Base' = Base
    BY <2>1, <1>5
  <2>2. CASE Base' > Base
    <3>1. Base' \in Latest'
      BY <2>2, <1>3, <1>5
    <3>2. Base' \in Watermark /\ Snapshot(Base') \in shots'.linked
      BY <3>1 DEF Latest
    <3>3. Base' \in Latest
      BY <2>2, <3>2, <1>2, <1>7 DEF DurableInv, Latest
    <3> QED BY <2>2, <3>3 DEF Anchors
  <2> QED BY <2>1, <2>2, <1>5, <1>6
<1>9. Anchors' = {Base'}
  <2>1. \A w \in Latest' : ~(w > Base')
    BY <1>3, <1>5
  <2> QED BY <2>1 DEF Anchors
<1>10. ASSUME NEW n \in Linked', n > Base'
       PROVE  n \in Linked /\ n > Base
  <2>1. n > Base /\ n \in Name
    BY <1>5, <1>6, <1>10
  <2>2. Segment(n) \in wal.linked \/ Segment(n) \in wal.durable
    BY <1>2 DEF Linked
  <2> QED BY <2>1, <2>2, <1>7 DEF DurableInv, Linked
<1>11. Shape(Base', {Base'}, Linked', Linked', segments, contents, RecoveredLog)
  <2> DEFINE l == RecoveredLog
             base2 == Base'
             names2 == Linked'
             firm2 == names2
             anchors2 == {base2}
  <2>1. Shape(Base, Anchors, Linked, FirmSegments, segments, contents, l) /\ Files(segments)
    BY LogIs DEF Tells
  <2>2. firm2 # {}
    BY <2>1, <1>4 DEF Shape
  <2>3. /\ base2 \in Anchors /\ base2 \in anchors2 /\ anchors2 \subseteq Anchors
        /\ \A w \in anchors2 : base2 <= w
        /\ names2 \in SUBSET Name /\ firm2 \subseteq names2
        /\ \A n \in Name : n > base2 => /\ n \in FirmSegments => n \in firm2
                                        /\ n \in names2 => n \in Linked
    BY <1>4, <1>5, <1>8, <1>10
  <2> HIDE DEF l, base2, names2, firm2, anchors2
  <2>4. Shape(base2, anchors2, names2, firm2, segments, contents, l)
    <3>1. Linked \in SUBSET Name
      BY <1>5
    <3> QED BY ONLY <2>1, <2>2, <2>3, <3>1, ShapeMoves
  <2> QED BY <2>4 DEF l, base2, names2, firm2, anchors2
<1> QED BY <1>1, <1>2, <1>3, <1>5, <1>9, <1>10, <1>11

\* The log that is left: all of it, or, when an append did not finish, at least what was
\* published.
LEMMA LogLeft ==
  ASSUME StoreInv, StoreInv', FileInv, ~Unused, LosePower
  PROVE  \E l \in Log :
           /\ Shape(Base', Anchors', Linked', FirmSegments', segments', contents', l)
           /\ \/ l = RecoveredLog
              \/ Unsettled /\ IsPrefix(l, RecoveredLog) /\ IsPrefix(visible, l)
<1> DEFINE log == RecoveredLog
           base == Base'
           names == Linked'
           segs == segments'
<1>1. /\ contents' = contents /\ FirmSegments' = names /\ Anchors' = {base} /\ Powered
      /\ base \in Nat
      /\ \A n \in names : n > base => n \in Linked /\ n > Base
      /\ Shape(base, {base}, names, names, segments, contents, log)
  BY EntriesLeft DEF LosePower
<1>2. /\ FTypeOK /\ CallInv /\ Files(segments)
      /\ log \in Log /\ log \in Seq(Value) /\ Len(log) \in Nat
      /\ visible \in Seq(Value) /\ Len(visible) \in Nat /\ Len(visible) <= Len(log)
      /\ IsPrefix(visible, log)
  BY LogIs DEF FileInv, VisibleInv
<1>3. SyncedInv
  BY <1>1 DEF FileInv, PowerInv
<1>4. names \in SUBSET Name /\ names \subseteq Nat
  BY FirmIsNext, NamesAre DEF StoreInv
<1>5. \A n \in Name :
        /\ Len(segs[n].records) \in Nat /\ Len(segments[n].records) \in Nat
        /\ segments[n].synced \in Nat
        /\ segments[n].synced <= Len(segs[n].records)
        /\ Len(segs[n].records) <= Len(segments[n].records)
        /\ segs[n].records = SubSeq(segments[n].records, 1, Len(segs[n].records))
        /\ segs[n].torn => segments[n].torn \/ Len(segs[n].records) < Len(segments[n].records)
        /\ segments[n].synced = Len(segments[n].records) =>
             segs[n].records = segments[n].records
  BY <1>2, LostSegments, SegmentIs
<1> SUFFICES \E l \in Log :
               /\ Shape(base, {base}, names, names, segs, contents, l)
               /\ \/ l = log
                  \/ Unsettled /\ IsPrefix(l, log) /\ IsPrefix(visible, l)
  BY <1>1
<1> HIDE DEF log, base, names, segs
<1>6. CASE \A n \in names : ~(n > base)
  <2>1. Shape(base, {base}, names, names, segs, contents, log)
    BY <1>1, <1>6 DEF Shape
  <2> QED BY <2>1, <1>2
<1>7. CASE \E n \in names : n > base
  <2> DEFINE m == Max(names)
  <2>1. m \in names /\ \A n \in names : n <= m
    BY <1>4, <1>7, SegmentsEnd
  <2> HIDE DEF m
  <2>2. m \in Nat /\ m \in Name /\ m > base /\ m \in Linked /\ m > Base
    <3>1. m \in Nat /\ m \in Name /\ m > base
      BY <1>1, <1>4, <1>7, <2>1
    <3> QED BY <3>1, <1>1, <2>1
  <2> DEFINE kept == Len(segs[m].records)
  <2>3. \A n \in names : n > base /\ n # m =>
          segs[n].records = segments[n].records /\ (segs[n].torn => segments[n].torn)
    <3> SUFFICES ASSUME NEW n \in names, n > base, n # m
                 PROVE  segs[n].records = segments[n].records /\ (segs[n].torn => segments[n].torn)
      OBVIOUS
    <3>1. n \in Linked /\ n > Base /\ ~(m <= n) /\ n \in Name
      BY <1>1, <1>4, <2>1, <2>2
    <3>2. segments[n].synced = Len(segments[n].records)
      BY <1>3, <2>2, <3>1 DEF SyncedInv
    <3>3. segs[n].records = segments[n].records
      BY <1>5, <3>1, <3>2
    <3> QED BY <1>5, <3>1, <3>3
  <2>4. /\ kept \in Nat /\ kept <= Len(segments[m].records)
        /\ segs[m].records = SubSeq(segments[m].records, 1, kept)
        /\ Len(segments[m].records) \in Nat
        /\ segments[m].synced \in Nat /\ segments[m].synced <= kept
        /\ segments[m].synced = Len(segments[m].records) => kept = Len(segments[m].records)
    BY <1>5, <2>2
  <2> HIDE DEF kept
  <2> DEFINE end == m + kept - 1
             l == SubSeq(log, 1, end)
  <2>5. /\ Len(log) + 1 = m + Len(segments[m].records)
        /\ end \in Nat /\ end <= Len(log)
        /\ Shape(base, {base}, names, names, segs, contents, l)
    BY <1>1, <1>2, <1>4, <2>1, <2>2, <2>3, <2>4, ShapeShrinks
  <2> HIDE DEF end
  <2>6. /\ l \in Log /\ l \in Seq(Value) /\ Len(l) = end
        /\ \A i \in 1 .. end : l[i] = log[i]
        /\ IsPrefix(l, log)
        /\ end = Len(log) => l = log
    BY <1>2, <2>5, CutIs
  <2> HIDE DEF l
  <2>7. CASE segments[m].synced = Len(segments[m].records)
    <3>1. end = Len(log)
      BY <1>2, <2>2, <2>4, <2>5, <2>7 DEF end
    <3> QED BY <3>1, <2>5, <2>6
  <2>8. CASE segments[m].synced # Len(segments[m].records)
    <3>1. (phase = "Persist" \/ poisoned) /\ m + segments[m].synced > Len(visible)
      BY <1>3, <2>2, <2>8 DEF SyncedInv
    <3>2. Unsettled
      BY <3>1, <1>2, CallIs DEF Unsettled
    <3>3. Len(visible) <= end
      BY <3>1, <1>2, <2>2, <2>4 DEF end
    <3>4. \A i \in 1 .. Len(visible) : visible[i] = log[i]
      BY <1>2, PrefixIs
    <3>5. \A i \in 1 .. Len(visible) : visible[i] = l[i]
      BY <3>3, <3>4, <1>2, <2>5, <2>6
    <3>6. IsPrefix(visible, l)
      BY <3>3, <3>5, <1>2, <2>6, PrefixIs
    <3> QED BY <3>2, <3>6, <2>5, <2>6
  <2> QED BY <2>7, <2>8
<1> QED BY <1>6, <1>7

\* What was published survives.
LEMMA LosePowerImplements ==
  ASSUME StoreInv, StoreInv', FileInv, TrustedDeployments, LosePower
  PROVE  FileInv' /\ Implements
<1>1. /\ UNCHANGED <<deployment, root, contents, visible>> /\ MayEnd
      /\ phase' = "Down" /\ call' = "None"
  BY DEF LosePower, End
<1>2. CASE Unused
  <2>1. root # "Manifest"
    BY <1>1, <1>2 DEF Unused, MayEnd, TrustedDeployments
  <2>2. Unused'
    BY <1>1, <2>1 DEF Unused
  <2> QED BY <1>1, <1>2, <2>2, CreationStep
<1>3. CASE ~Unused
  <2>1. PICK l \in Log :
          /\ Shape(Base', Anchors', Linked', FirmSegments', segments', contents', l)
          /\ \/ l = RecoveredLog
             \/ Unsettled /\ IsPrefix(l, RecoveredLog) /\ IsPrefix(visible, l)
    BY <1>3, LogLeft
  <2>2. root' = "Manifest"
    BY <1>1, <1>3 DEF Unused
  <2>3. RecoveredLog' = l /\ DiskInv'
    BY <2>1, <2>2, TellsNext
  <2>4. RecoveredLog \in Seq(Value) /\ IsPrefix(visible, RecoveredLog)
    BY <1>3, LogIs DEF FileInv, VisibleInv
  <2>5. Implements
    BY <1>1, <2>1, <2>3, <2>4, QuietStep, ChangingStep
  <2>6. VisibleInv'
    BY <1>1, <2>1, <2>3, <2>4 DEF VisibleInv
  <2>7. ServeInv' /\ SnapInv' /\ OpenInv'
    BY <1>1 DEF ServeInv, Serving, SnapInv, OpenInv
  <2>8. PowerInv'
    <3>1. wal'.durable = wal'.linked /\ shots'.durable = shots'.linked
      BY <1>3, EntriesLeft
    <3>2. \A n \in Name : segments'[n].synced = Len(segments'[n].records)
      BY LostSegments DEF StoreInv
    <3>3. SyncedInv'
      BY <3>2, FirmIsNext DEF SyncedInv, StoreInv
    <3>4. DurableInv'
      BY <3>1 DEF DurableInv, Linked, Latest
    <3> QED BY <3>3, <3>4 DEF PowerInv
  <2>9. deployment' \in Deployments
    BY <1>1 DEF FileInv
  <2> QED BY <2>3, <2>5, <2>6, <2>7, <2>8, <2>9 DEF FileInv
<1> QED BY <1>2, <1>3

-----------------------------------------------------------------------------
(* The theorems.                                                            *)

\* In the beginning there is no directory.
LEMMA RecoveryStarts ==
  FInit => FileInv /\ Durable!Init
<1> SUFFICES ASSUME FInit PROVE FileInv /\ Durable!Init
  OBVIOUS
<1>1. /\ deployment \in Deployments /\ root = "Absent" /\ phase = "Down" /\ call = "None"
      /\ ~poisoned /\ visible = <<>>
  BY DEF FInit
<1>2. Unused
  BY <1>1 DEF Unused
<1>3. FileInv
  BY <1>1, <1>2 DEF FileInv, DiskInv, VisibleInv, ServeInv, Serving, SnapInv, OpenInv, PowerInv
<1>4. RecoveredLog = <<>>
  BY <1>2, StoreStarts, UnusedReads
<1>5. Durable!Init
  BY <1>1, <1>4 DEF Durable!Init
<1> QED BY <1>3, <1>5

\* A step of nobody.
LEMMA StutterImplements ==
  ASSUME StoreInv, StoreInv', FileInv, UNCHANGED fvars
  PROVE  FileInv' /\ Implements
<1>1. /\ UNCHANGED <<deployment, disk>> /\ deployment' = deployment /\ root' = root
      /\ phase' = phase /\ call' = call /\ active' = active /\ batch' = batch
      /\ poisoned' = poisoned /\ visible' = visible
  BY DEF fvars, disk
<1>2. CASE Unused
  <2>1. Unused'
    BY <1>1, <1>2 DEF Unused
  <2> QED BY <1>1, <1>2, <2>1, CreationStep
<1>3. CASE ~Unused
  <2>1. /\ RecoveredLog' = RecoveredLog /\ DiskInv' /\ deployment' \in Deployments
        /\ Base' = Base /\ Anchors' = Anchors /\ Linked' = Linked
        /\ FirmSegments' = FirmSegments /\ segments' = segments
    BY <1>1, <1>3, SameFiles
  <2>2. PowerInv'
    BY <1>1, <1>3, SamePower
  <2>3. VisibleInv' /\ SnapInv' /\ OpenInv'
    BY <1>1, <1>3, <2>1 DEF FileInv, VisibleInv, SnapInv, OpenInv, Rotating, NextRecord
  <2>4. ServeInv'
    BY <1>1, <2>1 DEF FileInv, ServeInv, Serving, Rotating, NextRecord
  <2>5. RecoveredLog \in Seq(Value)
    BY <1>3, LogIs
  <2> QED BY <1>1, <2>1, <2>2, <2>3, <2>4, <2>5, QuietStep DEF FileInv
<1> QED BY <1>2, <1>3

\* The directory and its manifest are made.
LEMMA CreateImplements ==
  ASSUME StoreInv, StoreInv', FileInv, Create \/ WriteManifest
  PROVE  FileInv' /\ Implements
<1>1. /\ visible' = visible /\ deployment' = deployment
      /\ \/ root = "Absent" /\ call' = "Create"
         \/ phase = "WriteManifest" /\ call' = call
  BY DEF Create, WriteManifest, Continue
<1>2. phase = "WriteManifest" => call = "Create"
  BY CallIs DEF StoreInv
<1>3. Unused /\ Unused'
  BY <1>1, <1>2 DEF Unused
<1> QED BY <1>1, <1>3, CreationStep

\* Every step preserves the invariants, and is one of the abstract log.
LEMMA EveryStep ==
  ASSUME StoreInv, FileInv, TrustedDeployments, [FNext]_fvars
  PROVE  StoreInv' /\ FileInv' /\ Implements
<1>1. StoreInv'
  BY StoreStays
<1> SUFFICES FileInv' /\ Implements
  BY <1>1
<1>2. CASE UNCHANGED fvars
  BY <1>1, <1>2, StutterImplements
<1>3. CASE Create \/ WriteManifest
  BY <1>1, <1>3, CreateImplements
<1>4. CASE CreateTemp
  BY <1>1, <1>4, CreateTempImplements
<1>5. CASE LinkSegment
  BY <1>1, <1>5, LinkSegmentImplements
<1>6. CASE SyncSegment
  BY <1>1, <1>6, SyncSegmentImplements
<1>7. CASE StartAppend
  BY <1>1, <1>7, StartAppendImplements
<1>8. CASE Write
  BY <1>1, <1>8, WriteImplements
<1>9. CASE Persist
  BY <1>1, <1>9, PersistImplements
<1>10. CASE Publish
  BY <1>1, <1>10, PublishImplements
<1>11. CASE AppendFails
  BY <1>1, <1>11, AppendFailsImplements
<1>12. CASE StartSnapshot
  BY <1>1, <1>12, StartSnapshotImplements
<1>13. CASE WriteSnapshot
  BY <1>1, <1>13, WriteSnapshotImplements
<1>14. CASE InstallSnapshot
  BY <1>1, <1>14, InstallSnapshotImplements
<1>15. CASE SyncSnapshot \/ SyncCleanup
  BY <1>1, <1>15, SyncShotsImplements
<1>16. CASE RemoveCovered \/ SyncCompacted
  BY <1>1, <1>16, CoveredImplements
<1>17. CASE RemoveOlder
  BY <1>1, <1>17, RemoveOlderImplements
<1>18. CASE ReturnOutcome \/ SnapshotFails
  BY <1>1, <1>18, SnapshotEndImplements
<1>19. CASE Open
  BY <1>1, <1>19, OpenImplements
<1>20. CASE Recover
  BY <1>1, <1>20, RecoverImplements
<1>21. CASE RemoveObsolete \/ SyncTrimmed
  BY <1>1, <1>21, TrimmedImplements
<1>22. CASE FinishOpen
  BY <1>1, <1>22, FinishOpenImplements
<1>23. CASE OpenFails \/ Close
  BY <1>1, <1>23, QuietEndImplements
<1>24. CASE CrashProcess
  BY <1>1, <1>24, CrashImplements
<1>25. CASE LosePower
  BY <1>1, <1>25, LosePowerImplements
<1> QED
  BY <1>2, <1>3, <1>4, <1>5, <1>6, <1>7, <1>8, <1>9, <1>10, <1>11, <1>12, <1>13, <1>14, <1>15,
     <1>16, <1>17, <1>18, <1>19, <1>20, <1>21, <1>22, <1>23, <1>24, <1>25 DEF FNext

\* The inductive invariant behind recovery, in trusted deployments: the files of a
\* directory tell one log at every moment, also those a failure would leave, and it
\* continues what was published.
THEOREM FilesTellTheLog ==
  ASSUME TrustedDeployments
  PROVE  FSpec => [](StoreInv /\ FileInv)
<1>1. FInit => StoreInv /\ FileInv
  BY StoreStarts, RecoveryStarts
<1>2. StoreInv /\ FileInv /\ [FNext]_fvars => StoreInv' /\ FileInv'
  BY EveryStep
<1> QED BY <1>1, <1>2, PTL DEF FSpec

\* In trusted deployments, in whatever step of an append, a snapshot, its compaction or an
\* open the last process ended, open accepts the directory: a snapshot never outlives the
\* segments after it, segments follow on each other, and sealed ones are whole. An
\* interrupted create, an error of create_snapshot's rotation after the rename, and a loss
\* of power with Flush or after a restart of another kind are not covered; after the
\* first two open can refuse the directory.
THEOREM DirectoryAlwaysOpens ==
  ASSUME TrustedDeployments
  PROVE  FSpec => []AlwaysOpens
<1>1. StoreInv /\ FileInv => AlwaysOpens
  <2> SUFFICES ASSUME StoreInv, FileInv, phase = "Down", root = "Manifest" PROVE CanOpen
    BY DEF AlwaysOpens
  <2>1. ~Unused
    BY CallIs DEF StoreInv, Unused
  <2> QED BY <2>1, LogIs
<1> QED BY <1>1, FilesTellTheLog, PTL

\* In trusted deployments, between calls of a database that is not poisoned, opening its
\* directory afresh would give exactly the state it serves. An error of create_snapshot's
\* rotation after the rename, which does not poison, is not covered, and breaks it.
THEOREM ServesWhatItRecovers ==
  ASSUME TrustedDeployments
  PROVE  FSpec => []ServesTheLog
<1>1. StoreInv /\ FileInv => ServesTheLog
  <2> SUFFICES ASSUME StoreInv, FileInv, phase = "Idle", ~poisoned
               PROVE  CanOpen /\ visible = RecoveredLog
    BY DEF ServesTheLog
  <2>1. Serving
    BY CallIs DEF StoreInv, Serving
  <2>2. CanOpen
    BY <2>1, ServingIs, LogIs
  <2>3. visible = RecoveredLog
    BY <2>1 DEF FileInv, ServeInv
  <2> QED BY <2>2, <2>3
<1> QED BY <1>1, FilesTellTheLog, PTL

\* In trusted deployments the directory implements a durable log: what was published stays
\* a prefix of what recovery finds, and nothing but an append, or a failure during one,
\* changes that log: no step of create_snapshot, of its clean-up or of open, and no end of
\* a process. With Flush a loss of power takes published records, and so it can after a
\* crash of the process, whose records open serves without synchronizing them.
THEOREM DirectoryImplementsDurableLog ==
  ASSUME TrustedDeployments
  PROVE  FSpec => ImplementsDurableLog
<1>1. FInit => Durable!Init
  BY RecoveryStarts
<1>2. StoreInv /\ FileInv /\ [FNext]_fvars =>
        [Durable!Next]_<<RecoveredLog, visible, Unsettled>>
  <2> SUFFICES ASSUME StoreInv, FileInv, [FNext]_fvars
               PROVE  [Durable!Next]_<<RecoveredLog, visible, Unsettled>>
    OBVIOUS
  <2>1. Implements
    BY EveryStep
  <2> QED BY <2>1 DEF Implements
<1>3. FSpec => [][Durable!Next]_<<RecoveredLog, visible, Unsettled>>
  BY <1>2, FilesTellTheLog, PTL DEF FSpec
<1> QED BY <1>1, <1>3, PTL DEF FSpec, ImplementsDurableLog, Durable!Spec, Unsettled
=============================================================================
