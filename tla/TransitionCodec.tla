---------------------------- MODULE TransitionCodec ----------------------------
(***************************************************************************)
(* Payloads of prepared transitions (storage::transition): the command,    *)
(* the hash and response of its idempotency record, and the after-values   *)
(* of the pools, promises and events it touched.                           *)
(***************************************************************************)
EXTENDS Codec

TransitionFormatVersion == 1
Hash32 == Word(32)

\* In the order of their tags.
DomainErrors == <<
  "InvalidInterval", "UnsortedCapacitySegments", "OverlappingCapacitySegments",
  "InvalidUnitName", "InvalidUnitScale", "InvalidQuantity", "QuantityOutOfRange",
  "QuantityOverflow", "IndexOverflow", "InvalidExpiration", "EmptyBundle",
  "EmptyRelativeBundle", "EmptyChoice", "InvalidSearchRange", "InvalidStep",
  "TimestampOverflow", "ResourcePoolAlreadyExists", "ResourcePoolNotFound",
  "CapacityExceeded", "CapacityRevisionCreatesDeficit", "PromiseAlreadyExists",
  "PromiseNotFound", "InvalidPromiseState", "IdempotencyConflict", "VersionConflict",
  "VersionOverflow", "SequenceOverflow", "SystemTimeOutOfRange", "HoldExpired",
  "HoldNotExpired", "InvalidPromiseHistory", "PublicationRevisionOverflow">>
EventKinds == <<
  "ResourceCreated", "CapacityRevised", "HoldCreated", "HoldCommitted", "PromiseReleased",
  "PromiseReplaced", "HoldExpired", "DeficitCreated", "DeficitChanged", "DeficitResolved">>

-----------------------------------------------------------------------------
(***************************************************************************)
(* The writer.                                                             *)
(***************************************************************************)
WriteInterval == Fields(<<I64, I64>>)
WriteCurve == List(Fields(<<WriteInterval, U64>>))
WriteBundle == List(Fields(<<Id, WriteInterval, U64>>))
WriteResourcePool == Fields(<<Id, Text, Fields(<<Text, U64>>), WriteCurve>>)
WritePromise == Fields(<<
  Id,
  OneOf({Variant("Held", 1, I64), Variant("Committed", 2, Nothing),
         Variant("Released", 3, Nothing), Variant("Expired", 4, Nothing)}),
  WriteBundle, U64, U64, U64>>)
WriteIds == List(Id)
WriteConflicts == List(Fields(<<Id, WriteInterval, U64, U64, U64, WriteIds>>))
WriteDeficit == Fields(<<Id, WriteInterval, U64, WriteIds>>)
WriteCapacityOutcome == Fields(<<U64, List(WriteDeficit), WriteIds>>)
WriteResult == OneOf({
  Variant("ResourcePoolCreated", 1, Id),
  Variant("CapacityRevised", 2, WriteCapacityOutcome),
  Variant("HoldCompleted", 3,
    OneOf({Variant("Held", 1, Id), Variant("Unavailable", 2, WriteConflicts)})),
  Variant("ChoiceCompleted", 4,
    OneOf({Variant("Held", 1, Fields(<<Id, Index>>)),
           Variant("Unavailable", 2, List(Fields(<<Index, WriteConflicts>>)))})),
  Variant("SlotCompleted", 5,
    OneOf({Variant("Held", 1, Fields(<<Id, I64>>)), Variant("Unavailable", 2, U128)})),
  Variant("PromiseCommitted", 6, Fields(<<Id, U64>>)),
  Variant("PromiseReleased", 7, Fields(<<Id, U64>>)),
  Variant("PromiseReplaced", 8,
    OneOf({Variant("Replaced", 1, Fields(<<Id, U64>>)), Variant("Unavailable", 2, WriteConflicts)})),
  Variant("ExpirationsProcessed", 9, U64)})
WriteResponse == OneOf({Variant("Ok", 1, WriteResult), Variant("Err", 2, Enum(DomainErrors))})
WriteEvent == Fields(<<
  U64, I64, Enum(EventKinds),
  OneOf({Variant("ResourcePool", 1, Id), Variant("Promise", 2, Fields(<<Id, U64>>)),
         Variant("Deficit", 3, WriteDeficit)})>>)

\* A transition is <<command, effects>>; the effects are the client, the key,
\* the hash of the operation, the response, pools, promises, events and the
\* final sequence.
WriteEffects == Fields(<<Text, Text, Hash32, WriteResponse, List(WriteResourcePool),
                         List(WritePromise), List(WriteEvent), U64>>)

EncodeTransition(transition) ==
  LET command == EncodeCommand(transition[1])
  IN  <<Token(1, TransitionFormatVersion), Token(4, SizeOf(command))>>
        \o command \o Put(WriteEffects, transition[2])

-----------------------------------------------------------------------------
(***************************************************************************)
(* The reader.                                                             *)
(***************************************************************************)
ReadVersion == Checked(U64, "Version")
ReadInterval == Checked(Fields(<<I64, I64>>), "Interval")
ReadCurve == Checked(List(Fields(<<ReadInterval, U64>>)), "CapacityCurve")
ReadBundle == Checked(List(Checked(Fields(<<Id, ReadInterval, U64>>), "Claim")), "NonEmpty")
ReadResourcePool ==
  Fields(<<Id, Text, Checked(Fields(<<Text, U64>>), "Unit"), ReadCurve>>)
\* Mutant of ReadPromiseState: the tags of the final states are swapped.
ReadPromiseStateSwapped ==
  OneOf({Variant("Held", 1, I64), Variant("Committed", 2, Nothing),
         Variant("Expired", 3, Nothing), Variant("Released", 4, Nothing)})
ReadPromiseState ==
  OneOf({Variant("Held", 1, I64), Variant("Committed", 2, Nothing),
         Variant("Released", 3, Nothing), Variant("Expired", 4, Nothing)})
ReadPromise == Checked(Fields(<<Id, ReadPromiseState, ReadBundle, ReadVersion, U64, U64>>), "Promise")
ReadIds == Checked(List(Id), "PromiseIds")
ReadConflict == Checked(Fields(<<Id, ReadInterval, U64, U64, U64, ReadIds>>), "Conflict")
ReadConflicts == Checked(List(ReadConflict), "NonEmpty")
ReadDeficit == Checked(Fields(<<Id, ReadInterval, U64, ReadIds>>), "Deficit")
ReadCapacityOutcome == Checked(Fields(<<U64, List(ReadDeficit), ReadIds>>), "RevisionOutcome")
ReadChoiceConflicts == Checked(List(Fields(<<Index, ReadConflicts>>)), "ChoiceConflicts")
ReadResult == OneOf({
  Variant("ResourcePoolCreated", 1, Id),
  Variant("CapacityRevised", 2, ReadCapacityOutcome),
  Variant("HoldCompleted", 3,
    OneOf({Variant("Held", 1, Id), Variant("Unavailable", 2, ReadConflicts)})),
  Variant("ChoiceCompleted", 4,
    OneOf({Variant("Held", 1, Fields(<<Id, Index>>)),
           Variant("Unavailable", 2, ReadChoiceConflicts)})),
  Variant("SlotCompleted", 5,
    OneOf({Variant("Held", 1, Fields(<<Id, I64>>)),
           Variant("Unavailable", 2, Checked(U128, "Attempts"))})),
  Variant("PromiseCommitted", 6, Fields(<<Id, ReadVersion>>)),
  Variant("PromiseReleased", 7, Fields(<<Id, ReadVersion>>)),
  Variant("PromiseReplaced", 8,
    OneOf({Variant("Replaced", 1, Fields(<<Id, ReadVersion>>)),
           Variant("Unavailable", 2, ReadConflicts)})),
  Variant("ExpirationsProcessed", 9, U64)})
ReadResponse == OneOf({Variant("Ok", 1, ReadResult), Variant("Err", 2, Enum(DomainErrors))})
ReadEvent == Checked(Fields(<<
  U64, I64, Enum(EventKinds),
  OneOf({Variant("ResourcePool", 1, Id), Variant("Promise", 2, Fields(<<Id, ReadVersion>>)),
         Variant("Deficit", 3, Fields(<<Id, ReadInterval, U64, ReadIds>>))})>>), "Event")

ReadEffects == Fields(<<Text, Text, Hash32, ReadResponse, Checked(List(ReadResourcePool), "ById"),
                        Checked(List(ReadPromise), "ById"), Checked(List(ReadEvent), "BySequence"),
                        U64>>)

\* Positions after from at which length bytes end.
EndsOf(tokens, from, length) ==
  {k \in (from - 1)..Len(tokens) : SizeOf(SubSeq(tokens, from, k)) = length}

DecodeTransition(tokens) ==
  LET version == GetWord(1, tokens, 1)
      length == GetCount(tokens, 2, Unlimited)
      ends == EndsOf(tokens, 3, length.value)
      last == CHOOSE k \in ends : TRUE
      command == DecodeCommand(SubSeq(tokens, 3, last))
      effects == GetAll(ReadEffects, tokens, last + 1, Unlimited)
  IN  IF /\ version.ok /\ version.value = TransitionFormatVersion
         /\ length.ok /\ ends # {}
         /\ command.ok /\ effects.ok
      THEN Got(<<command.value, effects.value>>, effects.next)
      ELSE Refused
==============================================================================
