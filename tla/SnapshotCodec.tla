----------------------------- MODULE SnapshotCodec -----------------------------
(***************************************************************************)
(* Snapshot files (storage::snapshot): the header, the budgets, and the    *)
(* checksum.  The state a file decodes to is validated against itself by   *)
(* Engine::restore_snapshot_unindexed, which is modelled in Coordinator.   *)
(***************************************************************************)
EXTENDS TransitionCodec

CONSTANT Limits  \* SnapshotLimits: [total, collection, string, nested]

ValidLimits(limits) ==
  limits.total >= 160 /\ limits.collection > 0 /\ limits.string > 0 /\ limits.nested > 0
ASSUME SnapshotConstants == ValidLimits(Limits)

Magic == 1312966736
Version == 1
HeaderLen == 128
HeaderFields == 16
ChecksumLen == 32

Zeros32 == <<>>  \* 32 bytes that are no digest

\* A record is <<client, key, hash, response>>.
WriteRecord == Fields(<<Text, Text, Hash32, WriteResponse>>)
WritePayload ==
  Fields(<<List(WriteResourcePool), List(WritePromise), List(WriteEvent), List(WriteRecord)>>)
Payload(s) == <<s.pools, s.promises, s.events, s.records>>

-----------------------------------------------------------------------------
(***************************************************************************)
(* Encoding.                                                               *)
(***************************************************************************)
\* What encode checks before it writes.
WithinLimits(s) ==
  LET Items(list) == Len(list) <= Limits.collection
      Nested(list) == Len(list) <= Limits.nested
      Str(text) == Len(text) <= Limits.string
  IN  /\ Items(s.pools) /\ Items(s.promises) /\ Items(s.events) /\ Items(s.records)
      /\ \A i \in DOMAIN s.pools :
           /\ Str(s.pools[i][2]) /\ Str(s.pools[i][3][1])
           /\ Nested(s.pools[i][4])
      /\ \A i \in DOMAIN s.promises : Nested(s.promises[i][3])
      /\ \A i \in DOMAIN s.events :
           s.events[i][4][1] = "Deficit" => Nested(s.events[i][4][2][4])
      /\ \A i \in DOMAIN s.records : Str(s.records[i][1]) /\ Str(s.records[i][2])

\* BLAKE3 of the header and the payload; no two have the same digest.
\* Mutant of Checksum: the header is not covered.
ChecksumOfPayload(tokens) == SubSeq(tokens, HeaderFields + 1, Len(tokens))
Checksum(tokens) == tokens

Header(s, payloadLen) == <<
  Token(4, Magic), Token(1, Version), Token(1, 0), Token(2, HeaderLen), Token(2, ChecksumLen),
  Token(6, 0), Token(8, HeaderLen + payloadLen + ChecksumLen), Token(8, payloadLen),
  Token(16, s.uuid), Token(4, s.semantics), Token(4, 0), Token(8, s.watermark),
  Token(8, s.sequence), Token(16, s.revision), Token(8, s.pruned), Token(32, Zeros32)>>

\* The file, or Refused.
EncodeSnapshot(s) ==
  LET payload == Put(WritePayload, Payload(s))
      covered == Header(s, SizeOf(payload)) \o payload
      file == Append(covered, Token(ChecksumLen, Checksum(covered)))
  IN  IF WithinLimits(s) /\ SizeOf(file) <= Limits.total THEN Got(file, 0) ELSE Refused

-----------------------------------------------------------------------------
(***************************************************************************)
(* Decoding, by a database with a UUID and semantics version, of the file  *)
(* whose name has a watermark.                                             *)
(***************************************************************************)
HeaderFault(file, expected) ==
  LET Field(k) == file[k].v
  IN  \/ Field(1) # Magic \/ Field(2) # Version \/ Field(3) # 0
      \/ Field(4) # HeaderLen \/ Field(5) # ChecksumLen
      \/ Field(6) # 0 \/ Field(11) # 0 \/ Field(16) # Zeros32
      \/ Field(7) > Limits.total
      \/ Field(7) # HeaderLen + Field(8) + ChecksumLen
      \/ SizeOf(file) # Field(7)
      \/ Field(9) # expected.uuid \/ Field(10) # expected.semantics
      \/ Field(12) # expected.watermark
      \/ file[Len(file)] # Token(ChecksumLen, Checksum(Front(file)))

ReadRecord == Fields(<<Text, Text, Hash32, ReadResponse>>)
ReadPayload ==
  Fields(<<List(ReadResourcePool), List(ReadPromise), List(ReadEvent), List(ReadRecord)>>)

\* One limit on everything that is counted, text included.
ReaderLimits ==
  [items |-> IF Limits.nested > Limits.collection THEN Limits.nested ELSE Limits.collection,
   strings |-> Limits.string]

DecodeSnapshot(file, expected) ==
  IF SizeOf(file) > Limits.total \/ SizeOf(file) < HeaderLen \/ HeaderFault(file, expected)
  THEN Refused
  ELSE LET payload == SubSeq(file, HeaderFields + 1, Len(file) - 1)
           lists == GetAll(ReadPayload, payload, 1, ReaderLimits)
       IN  IF lists.ok /\ \A i \in DOMAIN lists.value : Len(lists.value[i]) <= Limits.collection
           THEN Got([uuid |-> file[9].v, semantics |-> file[10].v, watermark |-> file[12].v,
                     pools |-> lists.value[1], promises |-> lists.value[2],
                     events |-> lists.value[3], records |-> lists.value[4],
                     sequence |-> file[13].v, revision |-> file[14].v, pruned |-> file[15].v], 0)
           ELSE Refused
==============================================================================
