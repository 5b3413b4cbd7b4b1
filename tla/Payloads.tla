------------------------------- MODULE Payloads -------------------------------
(***************************************************************************)
(* A payload from the writer to the reader: a command, a transition or a   *)
(* snapshot is encoded, may lose its end, gain a byte or change in one     *)
(* field, and is decoded by what recovers a database.  The idempotency     *)
(* record that a decoded transition carries then answers retries.          *)
(***************************************************************************)
EXTENDS SnapshotCodec

CONSTANTS
  Commands,     \* commands to encode
  Transitions,  \* prepared transitions, whose hashes are those of their commands
  Snapshots,    \* captured states, with the header fields of their files
  Retried       \* operations sent again under the key of a transition

VARIABLES
  kind,     \* "Command", "Transition" or "Snapshot"
  value,    \* what is encoded
  file,     \* its payload
  stage,    \* "New", "Written", "NotWritten", "Read"
  intact,   \* history: the payload is the one that was written
  read,     \* what the decoder made of it
  retry     \* the last retry and its answer

pvars == <<kind, value, file, stage, intact, read, retry>>

NoRetry == [answer |-> "None"]

PInit ==
  /\ \/ kind = "Command" /\ value \in Commands
     \/ kind = "Transition" /\ value \in Transitions
     \/ kind = "Snapshot" /\ value \in Snapshots
  /\ file = <<>> /\ stage = "New" /\ intact = TRUE /\ read = Refused /\ retry = NoRetry

-----------------------------------------------------------------------------
WriteRecordPayload ==
  /\ stage = "New" /\ kind # "Snapshot"
  /\ file' = IF kind = "Command" THEN EncodeCommand(value) ELSE EncodeTransition(value)
  /\ stage' = "Written"
  /\ UNCHANGED <<kind, value, intact, read, retry>>

\* create_snapshot: a state over the budgets is not written.
CreateSnapshot ==
  LET encoded == EncodeSnapshot(value) IN
  /\ stage = "New" /\ kind = "Snapshot"
  /\ IF encoded.ok THEN file' = encoded.value /\ stage' = "Written"
     ELSE file' = file /\ stage' = "NotWritten"
  /\ UNCHANGED <<kind, value, intact, read, retry>>

Spoil(tokens) ==
  /\ stage = "Written" /\ intact
  /\ file' = tokens /\ intact' = FALSE
  /\ UNCHANGED <<kind, value, stage, read, retry>>

Cut == \E n \in 0..(Len(file) - 1) : Spoil(SubSeq(file, 1, n))
Extend == Spoil(Append(file, Token(1, 0)))

\* Records have a checksum of their own, outside the payload; a snapshot's is
\* part of the file.
Changed(t) == IF t.w = ChecksumLen THEN [t EXCEPT !.v = Append(@, 1)] ELSE [t EXCEPT !.v = @ + 1]
Damage ==
  /\ kind = "Snapshot"
  /\ \E k \in DOMAIN file : Spoil([file EXCEPT ![k] = Changed(@)])

\* A transition is installed only if its client, key and hash are those of
\* its command.
Installable(command, effects) ==
  /\ effects[1] = command[1] /\ effects[2] = command[2]
  /\ effects[3] = HashOperation(Operation(command))
DecodeInstallable(tokens) ==
  LET t == DecodeTransition(tokens)
  IN  IF t.ok /\ Installable(t.value[1], t.value[2]) THEN t ELSE Refused

Read ==
  /\ stage = "Written"
  /\ read' = CASE kind = "Command" -> DecodeCommand(file)
               [] kind = "Transition" -> DecodeInstallable(file)
               [] kind = "Snapshot" -> DecodeSnapshot(file, value)
  /\ stage' = "Read"
  /\ UNCHANGED <<kind, value, file, intact, retry>>

\* A command under the key of the record is answered from it, or refused.
Retry ==
  /\ kind = "Transition" /\ stage = "Read" /\ read.ok /\ retry = NoRetry
  /\ \E operation \in Retried :
       retry' = [operation |-> operation,
                 answer |-> IF HashOperation(operation) = read.value[2][3]
                            THEN "Original" ELSE "IdempotencyConflict"]
  /\ UNCHANGED <<kind, value, file, stage, intact, read>>

Finished == stage \in {"NotWritten", "Read"} /\ UNCHANGED pvars

PNext ==
  \/ WriteRecordPayload \/ CreateSnapshot
  \/ Cut \/ Extend \/ Damage
  \/ Read \/ Retry
  \/ Finished

PSpec == PInit /\ [][PNext]_pvars

-----------------------------------------------------------------------------
(***************************************************************************)
(* Properties.                                                             *)
(***************************************************************************)
\* Whatever a writer produces, the reader of its format takes back as the
\* same value: the tags, widths, orders and lengths of two separate pieces of
\* code agree for every variant, and the constructors that validate what is
\* read accept all that the engine produces (codec.rs:34, transition/mod.rs,
\* snapshot/reader.rs:15; a snapshot over its budgets is never written).
DecodesWhatWasEncoded ==
  stage = "Read" /\ intact => read.ok /\ read.value = value

\* A payload that lost its end or gained a byte is never taken for another
\* value, and neither is a snapshot file with one field changed: the decoders
\* reject short input and trailing bytes (codec.rs:79, transition/reader.rs:76,
\* snapshot/reader.rs:89) and the checksum covers header and payload
\* (snapshot/reader.rs:117).
RefusesWhatWasNotWritten ==
  stage = "Read" /\ ~intact => ~read.ok

Occurrences(claims, c) == Cardinality({i \in DOMAIN claims : claims[i] = c})
SameClaims(a, b) ==
  /\ Len(a) = Len(b)
  /\ \A i \in DOMAIN a : Occurrences(a, a[i]) = Occurrences(b, a[i])

\* Equal but for the order of claims inside a bundle.
SameOperation(a, b) ==
  LET bundle == CASE a[1] \in {"Hold", "HoldOneOf", "HoldFirstSlot"} -> 2
                  [] a[1] = "Replace" -> 3
                  [] OTHER -> 0
      others(x) == [i \in DOMAIN x[2] \ {bundle} |-> x[2][i]]
  IN  /\ a[1] = b[1]
      /\ IF bundle = 0 THEN a[2] = b[2] ELSE
           /\ others(a) = others(b)
           /\ LET p == a[2][bundle]
                  q == b[2][bundle]
              IN  IF a[1] = "HoldOneOf"
                  THEN Len(p) = Len(q) /\ \A i \in DOMAIN p : SameClaims(p[i], q[i])
                  ELSE SameClaims(p, q)

\* After a restart a retry gets the cached response exactly if it asks for the
\* operation of the original command, in whatever order it lists the claims of
\* a bundle; the order of alternatives counts (idempotency.rs:316,
\* engine.rs:705).
RetriesMatchTheirCommand ==
  retry # NoRetry =>
    (retry.answer = "Original" <=> SameOperation(retry.operation, Operation(value[1])))

\* A snapshot that was written can be read again under the limits it was
\* written with (docs/adr/0013-snapshots-and-compaction.md:7; create_snapshot
\* removes the log it stands for).
SnapshotsReopen ==
  stage = "Read" /\ intact /\ kind = "Snapshot" => read.ok
===============================================================================
