------------------------------- MODULE WalRecords -------------------------------
(***************************************************************************)
(* The records of a log file (storage::record): how a group is framed and  *)
(* appended, what a reader makes of the file after a torn or lost write, a *)
(* file extended before its data was written, or a damaged field, and what *)
(* open repairs.                                                           *)
(*                                                                         *)
(* The file is a sequence of cells: one for each field of the header, for  *)
(* each byte of payload and of padding, and for the checksum.  All lengths *)
(* count cells; a field has one value, and damage to any byte of it gives  *)
(* it another.                                                             *)
(***************************************************************************)
EXTENDS Integers, Sequences, FiniteSets, SequencesExt, FiniteSetsExt

CONSTANTS
  Payload,       \* payloads a writer may produce, sequences of numbers
  Timestamp,     \* the times of records
  MaxRecordLen,  \* RecordLimits::max_record_len
  MaxSequence,   \* the last record sequence (u64::MAX in the code)
  MaxGroup,      \* the longest group of records
  Faults         \* what may go wrong: "Append", "Power", "Extend", "Damage", "Read"

VARIABLES
  file,     \* the cells of the log
  synced,   \* how many of them are on stable storage
  status,   \* "Down", "Reading", "Ready", "Refused" (by open), "Poisoned"
  reader,   \* RecordReader: offset, expected sequence, and the read in progress
  records,  \* what the reader has returned
  written,  \* history: the records handed to the file, complete or not
  acked,    \* history: how many of them were acknowledged and never withdrawn
  hurt      \* history: what the file and its reads have suffered since the last recovery

rvars == <<file, synced, status, reader, records, written, acked, hurt>>

-----------------------------------------------------------------------------
(***************************************************************************)
(* The format.                                                             *)
(***************************************************************************)
HeaderLen == 8
ChecksumLen == 1
Alignment == 3
MinRecordLen == HeaderLen + ChecksumLen
FormatMaxRecordLen == 8 * Alignment
NoSequence == 0

ValidLimit(n) == n \in MinRecordLen..FormatMaxRecordLen /\ n % Alignment = 0

ASSUME WalConstants ==
  /\ ValidLimit(MaxRecordLen) /\ MaxSequence \in Nat \ {0} /\ MaxGroup \in Nat \ {0}
  /\ Faults \subseteq {"Append", "Power", "Extend", "Damage", "Read"}

ASSUME WalData == Payload \subseteq Seq(Nat) /\ Timestamp \subseteq Int

\* A cell is the sequence of the numbers it stands for: one number, or for a
\* checksum all those it was computed from, as no two inputs collide.
Cell(n) == <<n>>
Value(cell) == cell[1]
Zero == Cell(0)
Zeros(n) == [i \in 1..n |-> Zero]
\* Mutant of Hash: the header is not covered.
HashOfBody(cells) == [i \in DOMAIN cells |-> IF i <= HeaderLen THEN 0 ELSE Value(cells[i])]
Hash(cells) == [i \in DOMAIN cells |-> Value(cells[i])]

Magic == 9
FormatVersion == 1
FormatFlags == 0

Successor(sequence) == IF sequence = MaxSequence THEN NoSequence ELSE sequence + 1

PaddingLen(payloadLen) == (Alignment - (payloadLen % Alignment)) % Alignment
RecordLen(payloadLen) == MinRecordLen + payloadLen + PaddingLen(payloadLen)

Record(sequence, timestamp, payload) ==
  [sequence |-> sequence, timestamp |-> timestamp, payload |-> payload]

\* The cells of a record.
Framed(r) ==
  LET len == Len(r.payload)
      header == <<Magic, FormatVersion, FormatFlags, HeaderLen, RecordLen(len), len,
                  r.sequence, r.timestamp>>
      covered == [i \in 1..HeaderLen |-> Cell(header[i])]
                   \o [i \in 1..len |-> Cell(r.payload[i])] \o Zeros(PaddingLen(len))
  IN  Append(covered, Hash(covered))

FitsFormat(r) == RecordLen(Len(r.payload)) <= FormatMaxRecordLen
FitsLimit(r) == RecordLen(Len(r.payload)) <= MaxRecordLen

\* encode_payload_into: the cells are appended, or the destination is as it was.
EncodeInto(destination, r) ==
  IF FitsFormat(r) /\ FitsLimit(r) THEN destination \o Framed(r) ELSE destination

-----------------------------------------------------------------------------
(***************************************************************************)
(* Reading.  What a reader finds is a record, the end, a partial tail, or  *)
(* the first reason to reject what is there.                               *)
(***************************************************************************)
Found(kind) == [kind |-> kind]

\* The first of the named conditions that holds.
FirstOf(checks) ==
  LET failed == {i \in DOMAIN checks : checks[i][1]}
  IN  IF failed = {} THEN "None" ELSE checks[Min(failed)][2]

\* Mutant of HeaderFault: lengths are not checked against each other.
HeaderFaultLoose(header, expected) ==
  LET h == [i \in 1..HeaderLen |-> Value(header[i])] IN
  FirstOf(<<
    <<h[1] # Magic, "InvalidMagic">>,
    <<h[5] \notin MinRecordLen..FormatMaxRecordLen \/ h[5] % Alignment # 0, "InvalidRecordLength">>,
    <<h[5] > MaxRecordLen, "RecordTooLarge">>,
    <<h[7] # expected, "SequenceMismatch">> >>)

HeaderFault(header, expected) ==
  LET h == [i \in 1..HeaderLen |-> Value(header[i])] IN
  FirstOf(<<
    <<h[1] # Magic, "InvalidMagic">>,
    <<h[2] # FormatVersion, "UnsupportedRecordVersion">>,
    <<h[3] # FormatFlags, "UnsupportedFlags">>,
    <<h[4] # HeaderLen, "InvalidHeaderLength">>,
    <<h[5] \notin MinRecordLen..FormatMaxRecordLen \/ h[5] % Alignment # 0, "InvalidRecordLength">>,
    <<h[5] > MaxRecordLen, "RecordTooLarge">>,
    <<RecordLen(h[6]) # h[5], "InvalidPayloadLength">>,
    <<h[7] = 0, "InvalidSequence">>,
    <<expected # NoSequence /\ h[7] # expected, "SequenceMismatch">>,
    <<expected = NoSequence, "SequenceOverflow">> >>)

BodyFault(header, body) ==
  LET payloadLen == Value(header[6])
      sum == Len(body)
  IN  FirstOf(<<
        <<\E i \in payloadLen + 1..sum - 1 : body[i] # Zero, "NonZeroPadding">>,
        <<body[sum] # Hash(header \o SubSeq(body, 1, sum - 1)), "ChecksumMismatch">> >>)

Read(header, body) ==
  Record(Value(header[7]), Value(header[8]),
         [i \in 1..Value(header[6]) |-> Value(body[i])])

\* Mutant of HeaderRead: a header must be there as a whole.
HeaderReadStrict(header, expected) ==
  IF header = <<>> THEN Found("End")
  ELSE LET fault == HeaderFault(header, expected)
       IN  IF Len(header) < HeaderLen THEN Found("TruncatedHeader")
           ELSE IF fault # "None" THEN Found(fault) ELSE Found("Header")

\* What a header tells that was read as far as the file goes.
HeaderRead(header, expected) ==
  IF header = <<>> THEN Found("End")
  ELSE IF Len(header) < HeaderLen THEN Found("PartialTail")
  ELSE LET fault == HeaderFault(header, expected)
       IN  IF fault # "None" THEN Found(fault) ELSE Found("Header")

BodyLen(header) == Value(header[5]) - HeaderLen

\* And what the rest of the record tells.
BodyRead(header, body) ==
  IF Len(body) < BodyLen(header) THEN Found("PartialTail")
  ELSE LET fault == BodyFault(header, body)
       IN  IF fault # "None" THEN Found(fault)
           ELSE [kind |-> "Record", record |-> Read(header, body)]

\* As many cells as there are, and no more than wanted.
Cells(bytes, from, wanted) == SubSeq(bytes, from + 1, Min({from + wanted, Len(bytes)}))

\* read_next on a buffer in memory, which no read cuts short.
ReadNext(bytes, offset, expected) ==
  LET header == Cells(bytes, offset, HeaderLen)
      found == HeaderRead(header, expected)
  IN  IF found.kind # "Header" THEN found
      ELSE BodyRead(header, Cells(bytes, offset + HeaderLen, BodyLen(header)))

-----------------------------------------------------------------------------
(***************************************************************************)
(* RecordReader over the file, one read at a time.                         *)
(***************************************************************************)
Start(expected) == [offset |-> 0, expected |-> expected, header |-> <<>>, got |-> 0]

Past(r) ==
  [offset |-> reader.offset + RecordLen(Len(r.payload)), expected |-> Successor(r.sequence),
   header |-> <<>>, got |-> 0]

\* read_fully reads the header, or the rest of the record once there is one.
Wanted == IF reader.header = <<>> THEN HeaderLen ELSE BodyLen(reader.header)
Position == reader.offset + Len(reader.header) + reader.got
Got == SubSeq(file, Position - reader.got + 1, Position)

\* A read may return less than asked for; it is repeated, as it is when interrupted.
\* One short read, of one cell, stands for any number.
ReadChunk ==
  /\ status = "Reading" /\ reader.got < Wanted /\ Position < Len(file)
  /\ LET rest == Min({Wanted - reader.got, Len(file) - Position}) IN
     \E n \in {rest} \cup (IF reader.got = 0 THEN {1} ELSE {}) :
       reader' = [reader EXCEPT !.got = @ + n]
  /\ UNCHANGED <<file, synced, status, records, written, acked, hurt>>

ReadFully == status = "Reading" /\ (reader.got = Wanted \/ Position = Len(file))

\* Recovery ends; the next record follows the last one that was read.
Ready ==
  /\ status' = "Ready" /\ written' = records /\ hurt' = {}
  /\ reader' = [reader EXCEPT !.header = <<>>, !.got = 0]
  /\ UNCHANGED <<records, acked>>

\* Mutant of Repair: the cut is taken for synchronized as the file was.
RepairUnsynced ==
  /\ file' = SubSeq(file, 1, reader.offset) /\ UNCHANGED synced
  /\ Ready

\* A partial tail is cut off behind the last complete record, and the file synchronized.
Repair ==
  /\ file' = SubSeq(file, 1, reader.offset) /\ synced' = reader.offset
  /\ Ready

Refuse ==
  /\ status' = "Refused"
  /\ UNCHANGED <<file, synced, reader, records, written, acked>>

\* What recovery does about anything but a record: of one file, the last segment.
Stop(found) ==
  CASE found.kind = "End" -> Ready /\ UNCHANGED <<file, synced>>
    [] found.kind = "PartialTail" -> Repair
    [] OTHER -> Refuse /\ UNCHANGED hurt

ReadHeader ==
  /\ ReadFully /\ reader.header = <<>>
  /\ LET found == HeaderRead(Got, reader.expected) IN
     IF found.kind # "Header" THEN Stop(found)
     ELSE /\ reader' = [reader EXCEPT !.header = Got, !.got = 0]
          /\ UNCHANGED <<file, synced, status, records, written, acked, hurt>>

ReadBody ==
  /\ ReadFully /\ reader.header # <<>>
  /\ LET found == BodyRead(reader.header, Got) IN
     IF found.kind # "Record" THEN Stop(found)
     ELSE /\ records' = Append(records, found.record)
          /\ reader' = Past(found.record)
          /\ UNCHANGED <<file, synced, status, written, acked, hurt>>

\* Any other error of a read ends the recovery.
ReadFails ==
  /\ "Read" \in Faults /\ status = "Reading"
  /\ hurt' = hurt \cup {"Read"}
  /\ Refuse

-----------------------------------------------------------------------------
(***************************************************************************)
(* Appending a group.                                                      *)
(***************************************************************************)
Groups == UNION {[1..k -> Payload] : k \in 1..MaxGroup}

\* The records of a group carry consecutive sequences.
GroupOf(payloads, timestamp) ==
  [i \in DOMAIN payloads |-> Record(reader.expected + i - 1, timestamp, payloads[i])]

\* apply_batch gives up before any I/O when a record does not fit, or has no number.
Accepted(group) ==
  /\ reader.expected # NoSequence /\ reader.expected + Len(group) - 1 <= MaxSequence
  /\ \A i \in DOMAIN group : FitsFormat(group[i]) /\ FitsLimit(group[i])

Encoded(group) ==
  LET encoded[k \in 0..Len(group)] ==
        IF k = 0 THEN <<>> ELSE EncodeInto(encoded[k - 1], group[k])
  IN  encoded[Len(group)]

\* inspect_batch reads the buffer back, from the first record to the end.
Inspected(group, bytes) ==
  \A i \in DOMAIN group :
    LET offset == Len(Encoded(SubSeq(group, 1, i - 1)))
    IN  ReadNext(bytes, offset, group[i].sequence) = [kind |-> "Record", record |-> group[i]]

\* Not all of the group reaches the file, or that is not known: an error of append or sync.
AppendFails(group, bytes) ==
  /\ "Append" \in Faults
  /\ \E n \in 0..Len(bytes) : file' = file \o SubSeq(bytes, 1, n)
  /\ status' = "Poisoned" /\ written' = written \o group
  /\ UNCHANGED <<synced, reader, records, acked, hurt>>

\* append and sync: the group is in the file, on stable storage, and acknowledged.
AppendGroup(group, bytes) ==
  /\ file' = file \o bytes /\ synced' = Len(file')
  /\ written' = written \o group /\ records' = records \o group /\ acked' = Len(written')
  /\ reader' = [reader EXCEPT !.offset = @ + Len(bytes),
                              !.expected = Successor(Last(group).sequence)]
  /\ UNCHANGED <<status, hurt>>

Submit ==
  /\ status = "Ready"
  /\ \E payloads \in Groups, timestamp \in Timestamp :
       LET group == GroupOf(payloads, timestamp)
           bytes == Encoded(group)
       IN  /\ Accepted(group) /\ Inspected(group, bytes)
           /\ AppendGroup(group, bytes) \/ AppendFails(group, bytes)

-----------------------------------------------------------------------------
(***************************************************************************)
(* The end of a process and what it does to the file; opening it again.    *)
(***************************************************************************)
\* The operating system keeps what it was handed.
End ==
  /\ status # "Down" /\ status' = "Down"
  /\ hurt' = hurt \ {"Read"}
  /\ reader' = Start(1) /\ records' = <<>>
  /\ UNCHANGED <<file, synced, written, acked>>

\* Stable storage holds the synchronized cells and some of the others; the file may
\* have its length although what was written to it is missing.
LosePower ==
  /\ "Power" \in Faults /\ status # "Down" /\ status' = "Down"
  /\ \E n \in synced..Len(file) :
       \E zeros \in {0} \cup (IF "Extend" \in Faults THEN {Len(file) - n} ELSE {}) :
         /\ file' = SubSeq(file, 1, n) \o Zeros(zeros) /\ synced' = n + zeros
         /\ hurt' = IF zeros = 0 THEN hurt \ {"Read"} ELSE {"Extend"}
  /\ reader' = Start(1) /\ records' = <<>>
  /\ UNCHANGED <<written, acked>>

\* One cell of the file changes; there is no second one before it is noticed.
Damage ==
  /\ "Damage" \in Faults /\ status = "Down" /\ hurt = {}
  /\ \E i \in DOMAIN file : \E n \in {1, Alignment} :
       file' = [file EXCEPT ![i] = Cell(Value(@) + n)]
  /\ hurt' = {"Damage"}
  /\ UNCHANGED <<synced, status, reader, records, written, acked>>

Open ==
  /\ status = "Down" /\ status' = "Reading"
  /\ UNCHANGED <<file, synced, reader, records, written, acked, hurt>>

RInit ==
  /\ file = <<>> /\ synced = 0 /\ status = "Ready" /\ reader = Start(1)
  /\ records = <<>> /\ written = <<>> /\ acked = 0 /\ hurt = {}

RNext ==
  \/ ReadChunk \/ ReadHeader \/ ReadBody \/ ReadFails
  \/ Submit \/ End \/ LosePower \/ Damage \/ Open

RSpec == RInit /\ [][RNext]_rvars

-----------------------------------------------------------------------------
(***************************************************************************)
(* Properties                                                              *)
(***************************************************************************)
\* Every variable has its type, and the reader never stands behind the end of the
\* file: no length it read was believed before as many cells were there.
RTypeOK ==
  /\ synced \in 0..Len(file) /\ acked \in 0..Len(written)
  /\ status \in {"Down", "Reading", "Ready", "Refused", "Poisoned"}
  /\ reader.expected \in 0..MaxSequence /\ Position <= Len(file)
  /\ hurt \subseteq {"Extend", "Damage", "Read"}

\* Whatever happened to the file, the reader returns the records that were written,
\* in their order and from the first, or fails: never a changed record, one of a lost
\* group behind a later one, or one read from a wrong boundary.
ReturnsWhatWasWritten == IsPrefix(records, written)

\* A recovery that succeeds leaves whole records only, and all that were acknowledged:
\* read_next calls a tail partial, which open cuts off, for no damage to one field.
KeepsWhatWasAcknowledged ==
  status = "Ready" => acked <= Len(records) /\ file = Encoded(records)

\* No crash, torn write or loss of power alone makes open refuse the file: only a
\* damaged cell, a file extended before its data was there, or a read that failed.
RefusesOnlyDamage == status = "Refused" => hurt # {}
=================================================================================
