--------------------------------- MODULE Codec ---------------------------------
(***************************************************************************)
(* Command payloads (storage::codec) and the canonical form that commands  *)
(* are hashed in (idempotency).                                            *)
(*                                                                         *)
(* A payload is a sequence of tokens, one for each fixed-width number,     *)
(* identifier, tag, length or character, with its width in bytes.  What    *)
(* the code writes and reads field by field is given as a layout; the      *)
(* writer, the reader and the hasher of the code have layouts of their     *)
(* own, that Put and Get follow.                                           *)
(*                                                                         *)
(* An identifier is a number, text a sequence of characters; the values of *)
(* an enum are pairs of a name and the fields of the variant.              *)
(***************************************************************************)
EXTENDS CapacityCurve, FiniteSets

CONSTANT MaxLength  \* the limit of a reader without budgets (usize::MAX)

Refused == [ok |-> FALSE]
Got(value, next) == [ok |-> TRUE, value |-> value, next |-> next]

Token(width, value) == [w |-> width, v |-> value]
SizeOf(tokens) == FoldLeft(LAMBDA n, t : n + t.w, 0, tokens)

-----------------------------------------------------------------------------
(***************************************************************************)
(* Layouts.                                                                *)
(***************************************************************************)
Word(width) == [form |-> "Word", width |-> width]
Byte == Word(1)
U64 == Word(8)
I64 == Word(8)
U128 == Word(16)
Id == Word(16)
Index == [form |-> "Index"]
TextOf(width) == [form |-> "Text", width |-> width]
Text == TextOf(4)
ListOf(width, item) == [form |-> "List", width |-> width, of |-> item]
List(item) == ListOf(4, item)
Fields(parts) == [form |-> "Fields", parts |-> parts]
Nothing == Fields(<<>>)
\* In an order that does not depend on the one given.
Sorted(list) == [form |-> "Sorted", of |-> list]
\* Read through a constructor that may refuse the value.
Checked(layout, constructor) == [form |-> "Checked", of |-> layout, by |-> constructor]
\* A one-byte tag, then the fields of its variant.
Variant(name, tag, fields) == [name |-> name, tag |-> tag, of |-> fields]
OneOf(variants) == [form |-> "OneOf", variants |-> variants]
\* Variants without fields, tagged in order from 1.
Enum(names) == OneOf({Variant(names[i], i, Nothing) : i \in DOMAIN names})

-----------------------------------------------------------------------------
(***************************************************************************)
(* Writing.                                                                *)
(***************************************************************************)
Chars(text) == [i \in DOMAIN text |-> Token(1, text[i])]

\* Whether tokens a come before tokens b of the same widths.
Precedes(a, b) ==
  \E i \in DOMAIN a : a[i].v < b[i].v /\ \A k \in 1..(i - 1) : a[k] = b[k]

RECURSIVE Put(_, _)
Put(layout, x) ==
  CASE layout.form = "Word" -> <<Token(layout.width, x)>>
    [] layout.form = "Index" -> <<Token(4, x)>>
    [] layout.form = "Text" -> <<Token(layout.width, Len(x))>> \o Chars(x)
    [] layout.form = "List" ->
         <<Token(layout.width, Len(x))>> \o FlattenSeq([i \in DOMAIN x |-> Put(layout.of, x[i])])
    [] layout.form = "Fields" ->
         FlattenSeq([i \in DOMAIN x |-> Put(layout.parts[i], x[i])])
    [] layout.form = "Sorted" ->
         Put(layout.of, SortSeq(x, LAMBDA a, b : Precedes(Put(layout.of.of, a), Put(layout.of.of, b))))
    [] layout.form = "OneOf" ->
         LET variant == CHOOSE v \in layout.variants : v.name = x[1]
         IN  <<Token(1, variant.tag)>> \o Put(variant.of, x[2])

PutInterval == Fields(<<I64, I64>>)
PutUnit == Fields(<<Text, U64>>)
PutCurve == List(Fields(<<PutInterval, U64>>))
PutClaim == Fields(<<Id, PutInterval, U64>>)
PutBundle == List(PutClaim)
PutChoice == List(PutBundle)
PutRelativeBundle == List(Fields(<<Id, I64, I64, U64>>))
PutMode == Enum(<<"Strict", "Force">>)
PutReplacementState == OneOf({Variant("Held", 1, I64), Variant("Committed", 2, Nothing)})
PutOperation == OneOf({
  Variant("CreateResourcePool", 1, Fields(<<Id, Text, PutUnit, PutCurve>>)),
  Variant("ReviseCapacity", 2, Fields(<<Id, PutCurve, PutMode>>)),
  Variant("Hold", 3, Fields(<<Id, PutBundle, I64>>)),
  Variant("Commit", 4, Fields(<<Id, U64>>)),
  Variant("Release", 5, Fields(<<Id, U64>>)),
  Variant("Replace", 6, Fields(<<Id, U64, PutBundle, PutReplacementState>>)),
  Variant("ProcessExpirations", 7, Nothing),
  Variant("HoldOneOf", 8, Fields(<<Id, PutChoice, I64>>)),
  Variant("HoldFirstSlot", 9, Fields(<<Id, PutRelativeBundle, I64, I64, I64, I64>>))})

CommandFormatVersion == 1
\* A command is <<client, key, operation>>.
Operation(command) == command[3]
EncodeCommand(command) ==
  <<Token(1, CommandFormatVersion)>> \o Put(Fields(<<Text, Text, PutOperation>>), command)

-----------------------------------------------------------------------------
(***************************************************************************)
(* What the constructors of values accept.                                 *)
(***************************************************************************)
Space == 32
NotACharacter == 255  \* stands for bytes that are no UTF-8

Utf8(text) == \A i \in DOMAIN text : text[i] # NotACharacter
Blank(text) == \A i \in DOMAIN text : text[i] = Space
Ascending(ids) == \A i \in DOMAIN ids : i > 1 => ids[i - 1] < ids[i]
AscendingById(items) == Ascending([i \in DOMAIN items |-> items[i][1]])
InRange(quantity) == quantity > 0 /\ quantity <= MaxQuantity

Segments(curve) ==
  [i \in DOMAIN curve |-> [from |-> curve[i][1][1], to |-> curve[i][1][2], capacity |-> curve[i][2]]]

RevisionEvent == {"ResourceCreated", "CapacityRevised"}
DeficitEvent == {"DeficitCreated", "DeficitChanged", "DeficitResolved"}
EventData(kind) ==
  IF kind \in RevisionEvent THEN "ResourcePool"
  ELSE IF kind \in DeficitEvent THEN "Deficit" ELSE "Promise"

ValidInterval(x) == x[1] < x[2]
ValidUnit(x) == ~Blank(x[1]) /\ x[2] > 0
ValidClaim(x) == InRange(x[3])
ValidRelativeClaim(x) == x[2] < x[3] /\ InRange(x[4])
ValidVersion(x) == x # 0
\* <<id, state, bundle, version, created, updated>>
ValidPromise(x) == x[4] # 0 /\ x[5] # 0 /\ x[6] >= x[5]
\* <<pool, interval, required, available, deficit, promises>>
ValidConflict(x) == x[3] > x[4] /\ x[5] = x[3] - x[4] /\ Ascending(x[6])
ValidChoiceConflicts(x) == x # <<>> /\ \A i \in DOMAIN x : x[i][1] = i - 1 /\ x[i][2] # <<>>
\* <<pool, interval, quantity, promises>>
ValidDeficit(x) == x[3] > 0 /\ Ascending(x[4])
\* <<sequence, deficits, promises>>
ValidOutcome(x) == x[1] > 0 /\ Ascending(x[3])
\* <<sequence, timestamp, kind, data>>
ValidEvent(x) ==
  /\ x[1] # 0
  /\ x[4][1] = EventData(x[3][1])
  /\ x[4][1] = "Deficit" => ValidDeficit(x[4][2])

Accepts(constructor, x) ==
  CASE constructor = "Interval" -> ValidInterval(x)
    [] constructor = "Unit" -> ValidUnit(x)
    [] constructor = "CapacityCurve" -> FromSorted(Segments(x)) # Rejected
    [] constructor = "Claim" -> ValidClaim(x)
    [] constructor = "RelativeClaim" -> ValidRelativeClaim(x)
    [] constructor = "NonEmpty" -> x # <<>>
    [] constructor = "Version" -> ValidVersion(x)
    [] constructor = "Attempts" -> x # 0
    [] constructor = "Promise" -> ValidPromise(x)
    [] constructor = "PromiseIds" -> Ascending(x)
    [] constructor = "Conflict" -> ValidConflict(x)
    [] constructor = "ChoiceConflicts" -> ValidChoiceConflicts(x)
    [] constructor = "Deficit" -> ValidDeficit(x)
    [] constructor = "RevisionOutcome" -> ValidOutcome(x)
    [] constructor = "Event" -> ValidEvent(x)
    [] constructor = "ById" -> AscendingById(x)
    [] constructor = "BySequence" -> \A i \in DOMAIN x : i > 1 => x[i - 1][1] <= x[i][1]

-----------------------------------------------------------------------------
(***************************************************************************)
(* Reading, from a position, under limits on the length of strings and of  *)
(* everything that is counted.                                             *)
(***************************************************************************)
Unlimited == [items |-> MaxLength, strings |-> MaxLength]

GetWord(width, tokens, at) ==
  IF at \in DOMAIN tokens /\ tokens[at].w = width
  THEN Got(tokens[at].v, at + 1) ELSE Refused

GetCount(tokens, at, limits) ==
  LET count == GetWord(4, tokens, at)
  IN  IF count.ok /\ count.value <= limits.items THEN count ELSE Refused

GetText(tokens, at, limits) ==
  LET count == GetCount(tokens, at, limits) IN
  IF ~count.ok \/ count.value > limits.strings THEN Refused
  ELSE LET last == at + count.value
           text == [i \in 1..count.value |-> tokens[at + i].v]
       IN  IF /\ last <= Len(tokens)
              /\ \A i \in (at + 1)..last : tokens[i].w = 1
              /\ Utf8(text)
           THEN Got(text, last + 1) ELSE Refused

RECURSIVE Get(_, _, _, _), GetEach(_, _, _, _)
\* The values of the layouts, one after the other.
GetEach(layouts, tokens, at, limits) ==
  IF layouts = <<>> THEN Got(<<>>, at)
  ELSE LET first == Get(Head(layouts), tokens, at, limits) IN
       IF ~first.ok THEN Refused
       ELSE LET others == GetEach(Tail(layouts), tokens, first.next, limits) IN
            IF others.ok THEN Got(<<first.value>> \o others.value, others.next) ELSE Refused

Get(layout, tokens, at, limits) ==
  CASE layout.form = "Word" -> GetWord(layout.width, tokens, at)
    [] layout.form = "Index" -> GetCount(tokens, at, limits)
    [] layout.form = "Text" -> GetText(tokens, at, limits)
    [] layout.form = "List" ->
         LET count == GetCount(tokens, at, limits) IN
         IF ~count.ok THEN Refused
         ELSE GetEach([i \in 1..count.value |-> layout.of], tokens, count.next, limits)
    [] layout.form = "Fields" -> GetEach(layout.parts, tokens, at, limits)
    [] layout.form = "Checked" ->
         LET raw == Get(layout.of, tokens, at, limits)
         IN  IF raw.ok /\ Accepts(layout.by, raw.value) THEN raw ELSE Refused
    [] layout.form = "OneOf" ->
         LET tag == GetWord(1, tokens, at)
             chosen == {v \in layout.variants : tag.ok /\ v.tag = tag.value}
         IN  IF chosen = {} THEN Refused
             ELSE LET v == CHOOSE v \in chosen : TRUE
                      fields == Get(v.of, tokens, tag.next, limits)
                  IN  IF fields.ok THEN Got(<<v.name, fields.value>>, fields.next) ELSE Refused

\* The value of a payload that must end where the layout ends.
GetAll(layout, tokens, at, limits) ==
  LET r == Get(layout, tokens, at, limits)
  IN  IF r.ok /\ r.next = Len(tokens) + 1 THEN r ELSE Refused

GetVersion == Checked(U64, "Version")
GetInterval == Checked(Fields(<<I64, I64>>), "Interval")
GetUnit == Checked(Fields(<<Text, U64>>), "Unit")
GetCurve == Checked(List(Fields(<<GetInterval, U64>>)), "CapacityCurve")
GetClaim == Checked(Fields(<<Id, GetInterval, U64>>), "Claim")
GetBundle == Checked(List(GetClaim), "NonEmpty")
GetChoice == Checked(List(GetBundle), "NonEmpty")
GetRelativeBundle ==
  Checked(List(Checked(Fields(<<Id, I64, I64, U64>>), "RelativeClaim")), "NonEmpty")
GetOperation == OneOf({
  Variant("CreateResourcePool", 1, Fields(<<Id, Text, GetUnit, GetCurve>>)),
  Variant("ReviseCapacity", 2, Fields(<<Id, GetCurve, Enum(<<"Strict", "Force">>)>>)),
  Variant("Hold", 3, Fields(<<Id, GetBundle, I64>>)),
  Variant("HoldOneOf", 8, Fields(<<Id, GetChoice, I64>>)),
  Variant("HoldFirstSlot", 9, Fields(<<Id, GetRelativeBundle, I64, I64, I64, I64>>)),
  Variant("Commit", 4, Fields(<<Id, GetVersion>>)),
  Variant("Release", 5, Fields(<<Id, GetVersion>>)),
  Variant("Replace", 6, Fields(<<Id, GetVersion, GetBundle,
    OneOf({Variant("Held", 1, I64), Variant("Committed", 2, Nothing)})>>)),
  Variant("ProcessExpirations", 7, Nothing)})

DecodeCommand(tokens) ==
  LET version == GetWord(1, tokens, 1) IN
  IF version.ok /\ version.value = CommandFormatVersion
  THEN GetAll(Fields(<<Text, Text, GetOperation>>), tokens, version.next, Unlimited)
  ELSE Refused

-----------------------------------------------------------------------------
(***************************************************************************)
(* Hashing.  Lengths take eight bytes, and the claims of a bundle are      *)
(* hashed in the order of their fields; alternatives keep their order.     *)
(***************************************************************************)
HashText == TextOf(8)
HashList(item) == ListOf(8, item)
HashInterval == Fields(<<I64, I64>>)
HashCurve == HashList(Fields(<<HashInterval, U64>>))
HashClaim == Fields(<<Id, HashInterval, U64>>)
\* Mutant of HashBundle: the claims are hashed in the order they were given.
HashBundleAsGiven == HashList(HashClaim)
HashBundle == Sorted(HashList(HashClaim))
HashRelativeBundle == Sorted(HashList(Fields(<<Id, I64, I64, U64>>)))
HashReplacementState == OneOf({Variant("Held", 1, I64), Variant("Committed", 2, Nothing)})
HashFields == OneOf({
  Variant("CreateResourcePool", 1, Fields(<<Id, HashText, Fields(<<HashText, U64>>), HashCurve>>)),
  Variant("ReviseCapacity", 2, Fields(<<Id, HashCurve, Enum(<<"Strict", "Force">>)>>)),
  Variant("Hold", 3, Fields(<<Id, HashBundle, I64>>)),
  Variant("Commit", 4, Fields(<<Id, U64>>)),
  Variant("Release", 5, Fields(<<Id, U64>>)),
  Variant("Replace", 6, Fields(<<Id, U64, HashBundle, HashReplacementState>>)),
  Variant("ProcessExpirations", 7, Nothing),
  Variant("HoldOneOf", 8, Fields(<<Id, HashList(HashBundle), I64>>)),
  Variant("HoldFirstSlot", 9, Fields(<<Id, HashRelativeBundle, I64, I64, I64, I64>>))})

\* The little-endian bytes of a token whose number fits one byte.
Bytes(token) ==
  [i \in 1..token.w |->
     IF i = 1 THEN token.v % 256 ELSE IF token.v < 0 THEN 255 ELSE 0]

\* No two inputs have the same digest, so the bytes stand for it; the prefix
\* that all inputs share is left out.
HashOperation(operation) ==
  LET tokens == Put(HashFields, operation)
  IN  FlattenSeq([i \in DOMAIN tokens |-> Bytes(tokens[i])])
==============================================================================
