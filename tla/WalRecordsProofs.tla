--------------------------- MODULE WalRecordsProofs --------------------------
(***************************************************************************)
(* Theorems about WalRecords for every value of its constants.             *)
(***************************************************************************)
EXTENDS WalRecords, LeastElements, SequenceTheorems, TLAPS

-----------------------------------------------------------------------------
(* What the definitions are applied to.                                     *)

CellType == {cell \in Seq(Int) : Len(cell) >= 1}

AnyRecord == [sequence : Nat, timestamp : Int, payload : Seq(Nat)]

Size(r) == RecordLen(Len(r.payload))

\* The records that encode_payload_into does not refuse.
FitRecord == {r \in AnyRecord : FitsFormat(r) /\ FitsLimit(r)}

-----------------------------------------------------------------------------
(* The frame of one record.                                                 *)

\* A record is at least its header and checksum long, and ends on an alignment.
LEMMA RecordLengths ==
  ASSUME NEW n \in Nat
  PROVE  /\ PaddingLen(n) \in 0 .. 2
         /\ RecordLen(n) = 9 + n + PaddingLen(n)
         /\ RecordLen(n) \in Nat /\ RecordLen(n) >= 9 + n
         /\ RecordLen(n) % 3 = 0
<1> DEFINE rest == n % 3
           padding == (3 - rest) % 3
<1>1. rest \in 0 .. 2
  OBVIOUS
<1>2. PaddingLen(n) = padding /\ RecordLen(n) = 9 + n + padding
  BY DEF PaddingLen, RecordLen, Alignment, MinRecordLen, HeaderLen, ChecksumLen
<1>3. padding \in 0 .. 2
  BY <1>1
<1>4. (9 + n + padding) % 3 = 0
  <2>1. CASE rest = 0
    <3>1. padding = 0
      BY <2>1
    <3> QED BY <2>1, <3>1
  <2>2. CASE rest = 1
    <3>1. padding = 2
      BY <2>2
    <3> QED BY <2>2, <3>1
  <2>3. CASE rest = 2
    <3>1. padding = 1
      BY <2>3
    <3> QED BY <2>3, <3>1
  <2> QED BY <1>1, <2>1, <2>2, <2>3
<1> HIDE DEF rest, padding
<1>5. 9 + n + padding \in Nat /\ 9 + n + padding >= 9 + n
  BY <1>3
<1> QED BY <1>2, <1>3, <1>4, <1>5

\* The cells of a record: its header, payload and padding, a number in each, and
\* a checksum that stands for all of them.
IsFrame(cells, r) ==
  /\ cells \in Seq(CellType) /\ Len(cells) = Size(r)
  /\ cells[1] = Cell(Magic) /\ cells[2] = Cell(FormatVersion) /\ cells[3] = Cell(FormatFlags)
  /\ cells[4] = Cell(HeaderLen) /\ cells[5] = Cell(Size(r)) /\ cells[6] = Cell(Len(r.payload))
  /\ cells[7] = Cell(r.sequence) /\ cells[8] = Cell(r.timestamp)
  /\ \A i \in 1 .. Len(r.payload) : cells[8 + i] = Cell(r.payload[i])
  /\ \A i \in 9 + Len(r.payload) .. Size(r) - 1 : cells[i] = Zero
  /\ cells[Size(r)] = [i \in 1 .. Size(r) - 1 |-> Value(cells[i])]

\* So is the size of a record.
LEMMA SizeIsPositive ==
  ASSUME NEW r \in AnyRecord
  PROVE  /\ Len(r.payload) \in Nat /\ Size(r) \in Nat /\ Size(r) >= 9 + Len(r.payload)
         /\ Size(r) >= 9 /\ Size(r) % 3 = 0
<1> DEFINE n == Len(r.payload)
<1>1. n \in Nat
  BY DEF AnyRecord
<1>2. Size(r) = RecordLen(n)
  BY DEF Size
<1> HIDE DEF n
<1>3. RecordLen(n) \in Nat /\ RecordLen(n) >= 9 + n /\ RecordLen(n) % 3 = 0
  BY <1>1, RecordLengths
<1>4. Size(r) \in Nat /\ Size(r) >= 9 + n /\ Size(r) >= 9 /\ Size(r) % 3 = 0
  BY <1>1, <1>2, <1>3
<1> QED BY <1>1, <1>4 DEF n

\* A number makes a cell.
LEMMA CellOfNumber ==
  ASSUME NEW n \in Int
  PROVE  /\ Cell(n) \in CellType /\ Len(Cell(n)) = 1 /\ Value(Cell(n)) = n
BY DEF Cell, CellType, Value

\* The value of a cell is a number.
LEMMA ValueOfCell ==
  ASSUME NEW cell \in CellType
  PROVE  Value(cell) \in Int
BY DEF CellType, Value

\* One sequence behind another: the elements of each stay in their order.
IsJoin(c, a, b) ==
  /\ Len(c) = Len(a) + Len(b)
  /\ \A i \in 1 .. Len(a) : c[i] = a[i]
  /\ \A i \in 1 .. Len(b) : c[Len(a) + i] = b[i]

\* Concatenation joins sequences.
LEMMA Joined ==
  ASSUME NEW S, NEW a \in Seq(S), NEW b \in Seq(S)
  PROVE  a \o b \in Seq(S) /\ IsJoin(a \o b, a, b)
<1>1. Len(a) \in Nat /\ Len(b) \in Nat
  BY LenProperties
<1>2. /\ a \o b \in Seq(S)
      /\ Len(a \o b) = Len(a) + Len(b)
      /\ \A i \in 1 .. Len(a) + Len(b) :
           (a \o b)[i] = IF i <= Len(a) THEN a[i] ELSE b[i - Len(a)]
  BY ConcatProperties
<1>3. \A i \in 1 .. Len(a) : i \in 1 .. Len(a) + Len(b) /\ i <= Len(a)
  BY <1>1
<1>4. \A i \in 1 .. Len(b) : /\ Len(a) + i \in 1 .. Len(a) + Len(b)
                             /\ ~(Len(a) + i <= Len(a)) /\ (Len(a) + i) - Len(a) = i
  BY <1>1
<1> QED BY <1>2, <1>3, <1>4 DEF IsJoin

\* Framed makes the frame of a record.
LEMMA FramedIsFrame ==
  ASSUME NEW r \in AnyRecord
  PROVE  IsFrame(Framed(r), r)
<1> DEFINE len == Len(r.payload)
           n == RecordLen(len)
           pad == PaddingLen(len)
           header == <<Magic, FormatVersion, FormatFlags, HeaderLen, n, len,
                       r.sequence, r.timestamp>>
           first == [i \in 1 .. HeaderLen |-> Cell(header[i])]
           middle == [i \in 1 .. len |-> Cell(r.payload[i])]
           last == Zeros(pad)
           covered == first \o middle \o last
           sum == Hash(covered)
           f == Framed(r)
<1>1. len \in Nat /\ r.payload \in Seq(Nat) /\ r.sequence \in Nat /\ r.timestamp \in Int
  BY DEF AnyRecord
<1>2. n \in Nat /\ pad \in 0 .. 2 /\ n = 9 + len + pad
  BY <1>1, RecordLengths
<1>3. \A i \in 1 .. 8 : header[i] \in Int
  BY <1>1, <1>2 DEF Magic, FormatVersion, FormatFlags, HeaderLen
<1>4. first \in Seq(CellType) /\ Len(first) = 8 /\ \A i \in 1 .. 8 : first[i] = Cell(header[i])
  <2> HIDE DEF header
  <2>1. \A i \in 1 .. 8 : Cell(header[i]) \in CellType
    BY <1>3, CellOfNumber
  <2> QED BY <2>1 DEF HeaderLen
<1>5. middle \in Seq(CellType) /\ Len(middle) = len
      /\ \A i \in 1 .. len : middle[i] = Cell(r.payload[i])
  <2>1. \A i \in 1 .. len : Cell(r.payload[i]) \in CellType
    BY <1>1, CellOfNumber
  <2> QED BY <1>1, <2>1
<1>6. last \in Seq(CellType) /\ Len(last) = pad /\ \A i \in 1 .. pad : last[i] = Zero
  <2>1. Zero \in CellType
    BY CellOfNumber DEF Zero
  <2> QED BY <1>2, <2>1 DEF Zeros
<1>7. /\ covered \in Seq(CellType) /\ Len(covered) = n - 1
      /\ \A i \in 1 .. 8 : covered[i] = first[i]
      /\ \A i \in 1 .. len : covered[8 + i] = middle[i]
      /\ \A i \in 1 .. pad : covered[8 + len + i] = last[i]
  <2> HIDE DEF first, middle, last, len, n, pad
  <2> DEFINE front == first \o middle
  <2>1. /\ front \in Seq(CellType) /\ Len(front) = 8 + len
        /\ \A i \in 1 .. 8 : front[i] = first[i]
        /\ \A i \in 1 .. len : front[8 + i] = middle[i]
    <3>1. front \in Seq(CellType) /\ IsJoin(front, first, middle)
      BY <1>4, <1>5, Joined
    <3> QED BY <3>1, <1>4, <1>5 DEF IsJoin
  <2> HIDE DEF front
  <2>2. /\ front \o last \in Seq(CellType) /\ Len(front \o last) = 8 + len + pad
        /\ \A i \in 1 .. 8 + len : (front \o last)[i] = front[i]
        /\ \A i \in 1 .. pad : (front \o last)[8 + len + i] = last[i]
    <3>1. front \o last \in Seq(CellType) /\ IsJoin(front \o last, front, last)
      BY <2>1, <1>6, Joined
    <3> QED BY <3>1, <1>6, <2>1 DEF IsJoin
  <2>3. covered = front \o last
    BY DEF front
  <2> HIDE DEF covered
  <2>4. /\ \A i \in 1 .. 8 : i \in 1 .. 8 + len
        /\ \A i \in 1 .. len : 8 + i \in 1 .. 8 + len
        /\ 8 + len + pad = n - 1
    BY <1>1, <1>2
  <2> QED BY <2>1, <2>2, <2>3, <2>4
<1>8. f = Append(covered, sum)
  BY DEF Framed
<1>9. sum = [i \in 1 .. n - 1 |-> Value(covered[i])] /\ sum \in CellType
  <2> HIDE DEF covered, len, n
  <2>1. DOMAIN covered = 1 .. n - 1 /\ \A i \in 1 .. n - 1 : covered[i] \in CellType
    BY <1>7, LenProperties
  <2>2. \A i \in 1 .. n - 1 : Value(covered[i]) \in Int
    BY <2>1, ValueOfCell
  <2>3. sum = [i \in 1 .. n - 1 |-> Value(covered[i])]
    BY <2>1 DEF Hash
  <2>4. n - 1 \in Nat /\ n - 1 >= 1
    BY <1>1, <1>2
  <2>5. sum \in Seq(Int) /\ Len(sum) = n - 1
    <3> DEFINE N == n - 1
    <3> HIDE DEF sum, N
    <3>1. N \in Nat /\ sum = [i \in 1 .. N |-> Value(covered[i])]
          /\ \A i \in 1 .. N : Value(covered[i]) \in Int
      BY <2>2, <2>3, <2>4 DEF N
    <3>2. sum \in Seq(Int) /\ Len(sum) = N
      BY <3>1
    <3> QED BY <3>2 DEF N
  <2> HIDE DEF sum
  <2> QED BY <2>3, <2>4, <2>5 DEF CellType
<1>10. /\ f \in Seq(CellType) /\ Len(f) = n
       /\ \A i \in 1 .. n - 1 : f[i] = covered[i]
       /\ f[n] = sum
  <2> HIDE DEF covered, sum, f, len, n
  <2> QED BY <1>7, <1>8, <1>9, <1>1, <1>2, AppendProperties
<1> HIDE DEF len, n, pad, covered, sum, f, first, middle, last
<1>11. \A i \in 1 .. 8 : f[i] = Cell(header[i])
  <2> HIDE DEF header
  <2>1. \A i \in 1 .. 8 : i \in 1 .. n - 1
    BY <1>1, <1>2
  <2> QED BY <2>1, <1>10, <1>7, <1>4
<1>12. \A i \in 1 .. len : f[8 + i] = Cell(r.payload[i])
  <2>1. \A i \in 1 .. len : 8 + i \in 1 .. n - 1
    BY <1>1, <1>2
  <2> QED BY <2>1, <1>10, <1>7, <1>5
<1>13. \A i \in 9 + len .. n - 1 : f[i] = Zero
  <2> SUFFICES ASSUME NEW i \in 9 + len .. n - 1 PROVE f[i] = Zero
    OBVIOUS
  <2> DEFINE j == i - (8 + len)
  <2>1. i \in 1 .. n - 1 /\ j \in 1 .. pad /\ i = 8 + len + j
    BY <1>1, <1>2
  <2> HIDE DEF j
  <2> QED BY <2>1, <1>10, <1>7, <1>6
<1>14. f[n] = [i \in 1 .. n - 1 |-> Value(f[i])]
  BY <1>9, <1>10
<1>15. /\ f[1] = Cell(Magic) /\ f[2] = Cell(FormatVersion) /\ f[3] = Cell(FormatFlags)
       /\ f[4] = Cell(HeaderLen) /\ f[5] = Cell(n) /\ f[6] = Cell(len)
       /\ f[7] = Cell(r.sequence) /\ f[8] = Cell(r.timestamp)
  BY <1>11
<1>16. Size(r) = n
  BY DEF Size, n, len
<1>17. len = Len(r.payload) /\ f = Framed(r)
  BY DEF len, f
<1> QED BY <1>10, <1>12, <1>13, <1>14, <1>15, <1>16, <1>17 DEF IsFrame

-----------------------------------------------------------------------------
(* The frames of several records.                                           *)

\* The cells after none, one, two ... of the records.
AreStages(stage, s) ==
  /\ stage \in [0 .. Len(s) -> Seq(CellType)]
  /\ stage[0] = <<>>
  /\ \A k \in 1 .. Len(s) : stage[k] = stage[k - 1] \o Framed(s[k])

\* A record that fits is appended.
LEMMA FitRecordIsAppended ==
  ASSUME NEW r \in FitRecord, NEW cells \in Seq(CellType)
  PROVE  /\ EncodeInto(cells, r) = cells \o Framed(r)
         /\ EncodeInto(cells, r) \in Seq(CellType)
<1>1. r \in AnyRecord /\ FitsFormat(r) /\ FitsLimit(r)
  BY DEF FitRecord
<1>2. Framed(r) \in Seq(CellType)
  BY <1>1, FramedIsFrame DEF IsFrame
<1>3. cells \o Framed(r) \in Seq(CellType)
  BY <1>2, Joined
<1> QED BY <1>1, <1>3 DEF EncodeInto

\* Encoded appends the records one after another.
LEMMA EncodedInStages ==
  ASSUME NEW s \in Seq(FitRecord)
  PROVE  \E stage : AreStages(stage, s) /\ Encoded(s) = stage[Len(s)]
<1> DEFINE N == Len(s)
           Step(f, k) == IF k = 0 THEN <<>> ELSE EncodeInto(f[k - 1], s[k])
           Stages(f, n) == /\ f \in [0 .. n -> Seq(CellType)]
                           /\ \A k \in 0 .. n : f[k] = Step(f, k)
           Bad == {n \in 0 .. N : ~ \E f : Stages(f, n)}
<1>1. N \in Nat /\ \A k \in 1 .. N : s[k] \in FitRecord
  BY LenProperties, ElementOfSeq
<1>2. Bad = {}
  <2> HIDE DEF N
  <2>1. SUFFICES ASSUME Bad # {} PROVE FALSE
    OBVIOUS
  <2>2. PICK m \in Bad : \A k \in Bad : m <= k
    <3>1. Bad \in SUBSET Nat
      BY <1>1
    <3> HIDE DEF Bad
    <3> QED BY <2>1, <3>1, LeastNatural
  <2>3. m # 0
    <3>1. <<>> \in Seq(CellType)
      OBVIOUS
    <3>2. Stages([k \in 0 .. 0 |-> <<>>], 0)
      BY <3>1
    <3> QED BY <3>2
  <2>4. m \in 1 .. N /\ m - 1 \in 0 .. N /\ m - 1 \notin Bad
    <3>1. m \in 0 .. N /\ m - 1 \in 0 .. N /\ m \in 1 .. N
      BY <1>1, <2>3
    <3> HIDE DEF Bad
    <3> QED BY <2>2, <3>1
  <2>5. PICK f : Stages(f, m - 1)
    BY <2>4
  <2> DEFINE longer == [k \in 0 .. m |-> IF k = m THEN EncodeInto(f[m - 1], s[m]) ELSE f[k]]
  <2>6. f[m - 1] \in Seq(CellType) /\ EncodeInto(f[m - 1], s[m]) \in Seq(CellType)
    <3>1. s[m] \in FitRecord
      BY <1>1, <2>4
    <3>2. f[m - 1] \in Seq(CellType)
      <4>1. m - 1 \in 0 .. m - 1
        BY <2>4, <1>1
      <4> QED BY <2>5, <4>1
    <3> QED BY <3>1, <3>2, FitRecordIsAppended
  <2>7. longer \in [0 .. m -> Seq(CellType)]
    BY <1>1, <2>4, <2>5, <2>6
  <2>8. ASSUME NEW k \in 0 .. m PROVE longer[k] = Step(longer, k)
    <3>1. CASE k = m
      BY <3>1, <2>3, <2>4, <1>1
    <3>2. CASE k # m
      <4>1. k \in 0 .. m - 1 /\ longer[k] = f[k]
        BY <3>2, <2>4, <1>1
      <4>2. f[k] = Step(f, k)
        BY <4>1, <2>5
      <4>3. ASSUME k # 0 PROVE longer[k - 1] = f[k - 1]
        BY <4>1, <4>3, <2>4, <1>1
      <4> HIDE DEF longer
      <4> QED BY <4>1, <4>2, <4>3
    <3> QED BY <3>1, <3>2
  <2>9. Stages(longer, m)
    BY <2>7, <2>8
  <2> QED BY <2>9
<1>3. PICK f : Stages(f, N)
  <2> HIDE DEF N, Stages
  <2>1. N \in 0 .. N
    BY <1>1
  <2>2. N \notin Bad
    BY <1>2
  <2> QED BY <2>1, <2>2, Zenon
<1> DEFINE Rec(e) == e = [k \in 0 .. N |-> Step(e, k)]
           chosen == CHOOSE e : Rec(e)
<1>4. Rec(f)
  BY <1>3
<1>5. Rec(chosen)
  <2> HIDE DEF Rec
  <2> QED BY <1>4
<1>6. Encoded(s) = chosen[N]
  BY DEF Encoded
<1>7. \A k \in 0 .. N : chosen[k] = Step(chosen, k)
  <2> HIDE DEF chosen
  <2> QED BY <1>5
<1>8. \A k \in 0 .. N : chosen[k] \in Seq(CellType)
  <2> DEFINE Odd == {k \in 0 .. N : chosen[k] \notin Seq(CellType)}
  <2> HIDE DEF chosen, N
  <2>1. SUFFICES ASSUME Odd # {} PROVE FALSE
    OBVIOUS
  <2>2. PICK m \in Odd : \A k \in Odd : m <= k
    <3>1. Odd \in SUBSET Nat
      BY <1>1
    <3> HIDE DEF Odd
    <3> QED BY <2>1, <3>1, LeastNatural
  <2>3. m # 0
    <3>1. chosen[0] = <<>> /\ <<>> \in Seq(CellType)
      BY <1>7, <1>1
    <3> QED BY <3>1, <2>2
  <2>4. m \in 1 .. N /\ m - 1 \in 0 .. N /\ chosen[m - 1] \in Seq(CellType)
    BY <2>2, <2>3, <1>1
  <2>5. chosen[m] = EncodeInto(chosen[m - 1], s[m])
    BY <2>3, <2>4, <1>7
  <2> QED BY <2>4, <2>5, <1>1, FitRecordIsAppended
<1>9. AreStages(chosen, s)
  <2> HIDE DEF chosen
  <2>1. chosen \in [0 .. N -> Seq(CellType)]
    BY <1>5, <1>8
  <2>2. chosen[0] = <<>>
    BY <1>7, <1>1
  <2>3. ASSUME NEW k \in 1 .. N PROVE chosen[k] = chosen[k - 1] \o Framed(s[k])
    <3>1. k \in 0 .. N /\ k # 0 /\ k - 1 \in 0 .. N
      BY <1>1
    <3>2. chosen[k] = EncodeInto(chosen[k - 1], s[k])
      BY <3>1, <1>7
    <3> QED BY <3>1, <3>2, <1>1, <1>8, FitRecordIsAppended
  <2> QED BY <2>1, <2>2, <2>3 DEF AreStages
<1> QED BY <1>6, <1>9

\* The stages of a prefix are stages of the whole.
LEMMA StagesAgree ==
  ASSUME NEW s \in Seq(FitRecord), NEW t \in Seq(FitRecord), Len(s) <= Len(t),
         \A k \in 1 .. Len(s) : s[k] = t[k],
         NEW f, NEW g, AreStages(f, s), AreStages(g, t)
  PROVE  f[Len(s)] = g[Len(s)]
<1> DEFINE N == Len(s)
           Bad == {k \in 0 .. N : f[k] # g[k]}
<1>1. N \in Nat /\ Len(t) \in Nat
  BY LenProperties
<1>2. Bad = {}
  <2>1. SUFFICES ASSUME Bad # {} PROVE FALSE
    OBVIOUS
  <2>2. PICK m \in Bad : \A k \in Bad : m <= k
    <3>1. Bad \in SUBSET Nat
      BY <1>1
    <3> HIDE DEF Bad
    <3> QED BY <2>1, <3>1, LeastNatural
  <2>3. m # 0
    BY DEF AreStages
  <2>4. m \in 1 .. N /\ m \in 1 .. Len(t) /\ m - 1 \in 0 .. N
    BY <2>2, <2>3, <1>1
  <2>5. f[m - 1] = g[m - 1]
    BY <2>2, <2>4
  <2> QED BY <2>2, <2>4, <2>5 DEF AreStages
<1> QED BY <1>1, <1>2

\* No records, no cells.
LEMMA EncodedNothing == Encoded(<<>>) = <<>>
<1>1. <<>> \in Seq(FitRecord) /\ Len(<<>>) = 0
  OBVIOUS
<1> QED BY <1>1, EncodedInStages DEF AreStages

\* The cells of the records are a sequence of cells.
LEMMA EncodedType ==
  ASSUME NEW s \in Seq(FitRecord)
  PROVE  Encoded(s) \in Seq(CellType) /\ Len(Encoded(s)) \in Nat
<1>1. Len(s) \in Nat
  BY LenProperties
<1>2. Encoded(s) \in Seq(CellType)
  <2>1. PICK stage : AreStages(stage, s) /\ Encoded(s) = stage[Len(s)]
    BY EncodedInStages
  <2> QED BY <1>1, <2>1 DEF AreStages
<1> QED BY <1>2, LenProperties

\* One more record adds its frame.
LEMMA EncodedAppend ==
  ASSUME NEW s \in Seq(FitRecord), NEW r \in FitRecord
  PROVE  Encoded(Append(s, r)) = Encoded(s) \o Framed(r)
<1> DEFINE t == Append(s, r)
<1>1. /\ t \in Seq(FitRecord) /\ Len(t) = Len(s) + 1 /\ Len(s) \in Nat
      /\ \A k \in 1 .. Len(s) : t[k] = s[k]
      /\ t[Len(t)] = r
  BY AppendProperties, LenProperties
<1> HIDE DEF t
<1>2. PICK f : AreStages(f, s) /\ Encoded(s) = f[Len(s)]
  BY EncodedInStages
<1>3. PICK g : AreStages(g, t) /\ Encoded(t) = g[Len(t)]
  BY <1>1, EncodedInStages
<1>4. f[Len(s)] = g[Len(s)]
  BY <1>1, <1>2, <1>3, StagesAgree
<1>5. g[Len(t)] = g[Len(t) - 1] \o Framed(t[Len(t)])
  <2>1. Len(t) \in 1 .. Len(t)
    BY <1>1
  <2>2. \A k \in 1 .. Len(t) : g[k] = g[k - 1] \o Framed(t[k])
    BY <1>3 DEF AreStages
  <2> QED BY <2>1, <2>2
<1> QED BY <1>1, <1>2, <1>3, <1>4, <1>5 DEF t

\* A longer prefix of a sequence is a shorter one and the element behind it.
LEMMA PrefixExtends ==
  ASSUME NEW S, NEW t \in Seq(S), NEW m \in 1 .. Len(t)
  PROVE  /\ SubSeq(t, 1, m) = Append(SubSeq(t, 1, m - 1), t[m])
         /\ SubSeq(t, 1, m) \in Seq(S) /\ SubSeq(t, 1, m - 1) \in Seq(S)
         /\ t[m] \in S
<1>1. Len(t) \in Nat /\ t[m] \in S /\ \A i \in 1 .. m : t[i] \in S
  BY LenProperties, ElementOfSeq
<1>2. SubSeq(t, 1, m) \in Seq(S)
  BY <1>1, SubSeqProperties
<1>3. SubSeq(t, 1, m - 1) \in Seq(S)
  BY <1>1, SubSeqProperties
<1>4. 1 \in 1 .. Len(t) /\ m \in 1 .. Len(t)
  BY <1>1
<1>5. SubSeq(t, 1, m) = SubSeq(t, 1, m - 1) \o <<t[m]>>
  BY <1>4, SubSeqRecursiveSecond
<1>6. Append(SubSeq(t, 1, m - 1), t[m]) = SubSeq(t, 1, m - 1) \o <<t[m]>>
  BY <1>1, <1>3, AppendIsConcat
<1> QED BY <1>1, <1>2, <1>3, <1>5, <1>6

\* Sequences can be joined from either end.
IsRegrouped(a, b, c) == (a \o b) \o c = a \o (b \o c)

\* Concatenation is associative.
LEMMA Regrouped ==
  ASSUME NEW S, NEW a \in Seq(S), NEW b \in Seq(S), NEW c \in Seq(S)
  PROVE  IsRegrouped(a, b, c)
BY ConcatAssociative DEF IsRegrouped

\* The cells of two runs of records are the cells of the one, then of the other.
LEMMA EncodedConcat ==
  ASSUME NEW s \in Seq(FitRecord), NEW t \in Seq(FitRecord)
  PROVE  Encoded(s \o t) = Encoded(s) \o Encoded(t)
<1> DEFINE Prefix(n) == SubSeq(t, 1, n)
           Bad == {n \in 0 .. Len(t) :
                     Encoded(s \o Prefix(n)) # Encoded(s) \o Encoded(Prefix(n))}
<1>1. Len(t) \in Nat /\ Prefix(Len(t)) = t
  BY LenProperties, SubSeqFull
<1>2. Bad = {}
  <2>1. SUFFICES ASSUME Bad # {} PROVE FALSE
    OBVIOUS
  <2>2. PICK m \in Bad : \A k \in Bad : m <= k
    <3>1. Bad \in SUBSET Nat
      BY <1>1
    <3> HIDE DEF Bad
    <3> QED BY <2>1, <3>1, LeastNatural
  <2>3. m # 0
    <3>1. Prefix(0) = <<>> /\ s \o <<>> = s
      BY SubSeqEmpty, ConcatEmptySeq
    <3>2. Encoded(s) \o <<>> = Encoded(s)
      BY EncodedType, ConcatEmptySeq
    <3> QED BY <2>2, <3>1, <3>2, EncodedNothing
  <2>4. m \in 1 .. Len(t) /\ m - 1 \in 0 .. Len(t)
    BY <2>2, <2>3, <1>1
  <2> DEFINE u == Prefix(m - 1)
  <2>5. /\ Prefix(m) = Append(u, t[m]) /\ u \in Seq(FitRecord) /\ t[m] \in FitRecord
    BY <2>4, PrefixExtends
  <2>6. Encoded(s \o u) = Encoded(s) \o Encoded(u)
    BY <2>2, <2>4
  <2> HIDE DEF u, Prefix
  <2>7. Framed(t[m]) \in Seq(CellType)
    BY <2>5, FramedIsFrame DEF IsFrame, FitRecord
  <2>8. s \o u \in Seq(FitRecord)
    BY <2>5, Joined
  <2>9. Append(s \o u, t[m]) = s \o Append(u, t[m])
    <3>1. /\ Append(s \o u, t[m]) = (s \o u) \o <<t[m]>>
          /\ Append(u, t[m]) = u \o <<t[m]>>
          /\ <<t[m]>> \in Seq(FitRecord)
      BY <2>5, <2>8, AppendIsConcat
    <3> DEFINE e == <<t[m]>>
    <3>2. s \in Seq(FitRecord) /\ u \in Seq(FitRecord) /\ e \in Seq(FitRecord)
      BY <3>1, <2>5
    <3> HIDE DEF e
    <3>3. IsRegrouped(s, u, e)
      BY <3>2, Regrouped
    <3> QED BY <3>1, <3>3 DEF e, IsRegrouped
  <2>10. Encoded(s \o Prefix(m)) = (Encoded(s) \o Encoded(u)) \o Framed(t[m])
    BY <2>5, <2>6, <2>8, <2>9, EncodedAppend
  <2>11. Encoded(Prefix(m)) = Encoded(u) \o Framed(t[m])
    BY <2>5, EncodedAppend
  <2>12. (Encoded(s) \o Encoded(u)) \o Framed(t[m]) = Encoded(s) \o (Encoded(u) \o Framed(t[m]))
    <3>1. Encoded(s) \in Seq(CellType) /\ Encoded(u) \in Seq(CellType)
      BY <2>5, EncodedType
    <3> DEFINE x == Encoded(s)
               y == Encoded(u)
               z == Framed(t[m])
    <3>2. x \in Seq(CellType) /\ y \in Seq(CellType) /\ z \in Seq(CellType)
      BY <3>1, <2>7
    <3> HIDE DEF x, y, z, Bad
    <3>3. IsRegrouped(x, y, z)
      BY <3>2, Regrouped
    <3> QED BY <3>3 DEF x, y, z, IsRegrouped
  <2> QED BY <2>2, <2>10, <2>11, <2>12
<1>3. Len(t) \in 0 .. Len(t) /\ Len(t) \notin Bad
  BY <1>1, <1>2
<1> QED BY <1>1, <1>3

\* Where the record after the first k begins.
Boundary(s, k) == Len(Encoded(SubSeq(s, 1, k)))

\* The parts that a sequence of records splits into at a boundary.
LEMMA SplitAt ==
  ASSUME NEW s \in Seq(FitRecord), NEW k \in 0 .. Len(s)
  PROVE  /\ SubSeq(s, 1, k) \in Seq(FitRecord) /\ SubSeq(s, k + 1, Len(s)) \in Seq(FitRecord)
         /\ Encoded(SubSeq(s, 1, k)) \in Seq(CellType) /\ Boundary(s, k) \in Nat
         /\ IsJoin(Encoded(s), Encoded(SubSeq(s, 1, k)), Encoded(SubSeq(s, k + 1, Len(s))))
<1> DEFINE a == SubSeq(s, 1, k)
           b == SubSeq(s, k + 1, Len(s))
<1>1. Len(s) \in Nat /\ \A i \in 1 .. Len(s) : s[i] \in FitRecord
  BY LenProperties, ElementOfSeq
<1>2. a \in Seq(FitRecord)
  BY <1>1, SubSeqProperties
<1>3. b \in Seq(FitRecord)
  <2>1. k + 1 \in Int /\ Len(s) \in Int /\ \A i \in k + 1 .. Len(s) : s[i] \in FitRecord
    BY <1>1
  <2> QED BY <2>1, SubSeqProperties
<1>4. a \o b = s
  <2>1. SubSeq(s, 1, Len(s)) = s
    BY SubSeqFull
  <2>2. 1 \in 1 .. Len(s) + 1 /\ k \in 1 - 1 .. Len(s) /\ Len(s) \in k .. Len(s)
    BY <1>1
  <2>3. SubSeq(s, 1, k) \o SubSeq(s, k + 1, Len(s)) = SubSeq(s, 1, Len(s))
    BY <2>2, ConcatAdjacentSubSeq
  <2> QED BY <2>1, <2>3
<1> HIDE DEF a, b
<1>5. Encoded(a) \in Seq(CellType) /\ Len(Encoded(a)) \in Nat /\ Encoded(b) \in Seq(CellType)
  BY <1>2, <1>3, EncodedType
<1>6. Encoded(s) = Encoded(a) \o Encoded(b)
  BY <1>2, <1>3, <1>4, EncodedConcat
<1>7. IsJoin(Encoded(s), Encoded(a), Encoded(b))
  BY <1>5, <1>6, Joined
<1> QED BY <1>2, <1>3, <1>5, <1>7 DEF a, b, Boundary

\* The first boundary is the beginning and the last one the end; there are no
\* cells behind it.
LEMMA BoundaryEnds ==
  ASSUME NEW s \in Seq(FitRecord)
  PROVE  /\ Boundary(s, 0) = 0
         /\ Boundary(s, Len(s)) = Len(Encoded(s))
         /\ \A k \in 0 .. Len(s) : /\ Boundary(s, k) \in Nat
                                   /\ Boundary(s, k) <= Len(Encoded(s))
<1>1. Boundary(s, 0) = 0
  <2>1. SubSeq(s, 1, 0) = <<>> /\ Len(<<>>) = 0
    BY SubSeqEmpty
  <2> QED BY <2>1, EncodedNothing DEF Boundary
<1>2. Boundary(s, Len(s)) = Len(Encoded(s))
  BY SubSeqFull DEF Boundary
<1>3. ASSUME NEW k \in 0 .. Len(s)
      PROVE  Boundary(s, k) \in Nat /\ Boundary(s, k) <= Len(Encoded(s))
  <2> DEFINE a == SubSeq(s, 1, k)
             b == SubSeq(s, k + 1, Len(s))
  <2>1. /\ b \in Seq(FitRecord) /\ Boundary(s, k) \in Nat
        /\ IsJoin(Encoded(s), Encoded(a), Encoded(b))
    BY SplitAt
  <2>2. Len(Encoded(b)) \in Nat
    BY <2>1, EncodedType
  <2>3. Boundary(s, k) = Len(Encoded(a))
    BY DEF Boundary
  <2> HIDE DEF a, b
  <2> QED BY <2>1, <2>2, <2>3 DEF IsJoin
<1> QED BY <1>1, <1>2, <1>3

\* Up to a boundary the cells are those of the records before it.
LEMMA CellsOfPrefix ==
  ASSUME NEW s \in Seq(FitRecord), NEW k \in 0 .. Len(s)
  PROVE  /\ SubSeq(s, 1, k) \in Seq(FitRecord)
         /\ Encoded(SubSeq(s, 1, k)) \in Seq(CellType)
         /\ Len(Encoded(SubSeq(s, 1, k))) = Boundary(s, k)
         /\ \A i \in 1 .. Boundary(s, k) : Encoded(s)[i] = Encoded(SubSeq(s, 1, k))[i]
BY SplitAt DEF Boundary, IsJoin

\* The prefixes of a prefix are prefixes of the whole.
LEMMA PrefixOfPrefix ==
  ASSUME NEW S, NEW s \in Seq(S), NEW k \in 0 .. Len(s), NEW j \in 0 .. k
  PROVE  /\ SubSeq(SubSeq(s, 1, k), 1, j) = SubSeq(s, 1, j)
         /\ SubSeq(s, 1, k) \in Seq(S) /\ Len(SubSeq(s, 1, k)) = k
         /\ \A i \in 1 .. k : SubSeq(s, 1, k)[i] = s[i]
<1> DEFINE a == SubSeq(s, 1, k)
<1>1. Len(s) \in Nat /\ \A i \in 1 .. Len(s) : s[i] \in S
  BY LenProperties, ElementOfSeq
<1>2. a \in Seq(S) /\ Len(a) = k /\ \A i \in 1 .. k : a[i] = s[i]
  <2>1. \A i \in 1 .. k : s[i] \in S
    BY <1>1
  <2>2. /\ a \in Seq(S) /\ Len(a) = IF 1 <= k THEN k - 1 + 1 ELSE 0
        /\ \A i \in 1 .. k - 1 + 1 : a[i] = s[1 + i - 1]
    BY <2>1, SubSeqProperties
  <2>3. k - 1 + 1 = k /\ \A i \in 1 .. k : 1 + i - 1 = i
    OBVIOUS
  <2> HIDE DEF a
  <2> QED BY <2>2, <2>3
<1>3. SubSeq(a, 1, j) = SubSeq(s, 1, j)
  <2> HIDE DEF a
  <2>1. CASE j = 0
    BY <2>1, SubSeqEmpty
  <2>2. CASE j # 0
    <3>1. /\ SubSeq(a, 1, j) \in Seq(S) /\ Len(SubSeq(a, 1, j)) = j
          /\ \A i \in 1 .. j : SubSeq(a, 1, j)[i] = a[i]
      BY <1>2, <2>2
    <3>2. /\ SubSeq(s, 1, j) \in Seq(S) /\ Len(SubSeq(s, 1, j)) = j
          /\ \A i \in 1 .. j : SubSeq(s, 1, j)[i] = s[i]
      BY <1>1, <2>2
    <3>3. \A i \in 1 .. j : a[i] = s[i]
      BY <1>2
    <3> QED BY <3>1, <3>2, <3>3, SeqEqual
  <2> QED BY <2>1, <2>2
<1> QED BY <1>2, <1>3

\* One boundary lies behind the one before it by the size of the record between.
LEMMA BoundaryStep ==
  ASSUME NEW s \in Seq(FitRecord), NEW k \in 1 .. Len(s)
  PROVE  /\ Boundary(s, k) = Boundary(s, k - 1) + Size(s[k])
         /\ \A i \in 1 .. Size(s[k]) :
              Encoded(s)[Boundary(s, k - 1) + i] = Framed(s[k])[i]
         /\ s[k] \in FitRecord /\ Size(s[k]) \in Nat /\ Size(s[k]) >= 9
         /\ Boundary(s, k - 1) \in Nat
<1> DEFINE u == SubSeq(s, 1, k - 1)
           v == SubSeq(s, 1, k)
           f == Framed(s[k])
<1>1. Len(s) \in Nat /\ k \in 0 .. Len(s) /\ k - 1 \in 0 .. Len(s)
  BY LenProperties
<1>2. v = Append(u, s[k]) /\ u \in Seq(FitRecord) /\ s[k] \in FitRecord
  BY PrefixExtends
<1>3. Boundary(s, k) = Len(Encoded(v)) /\ Boundary(s, k - 1) = Len(Encoded(u))
      /\ Boundary(s, k - 1) \in Nat
  BY <1>1, BoundaryEnds DEF Boundary
<1>4. f \in Seq(CellType) /\ Len(f) = Size(s[k])
  BY <1>2, FramedIsFrame DEF FitRecord, IsFrame
<1>5. Size(s[k]) \in Nat /\ Size(s[k]) >= 9
  BY <1>2, SizeIsPositive DEF FitRecord
<1>6. \A i \in 1 .. Boundary(s, k) : Encoded(s)[i] = Encoded(v)[i]
  BY <1>1, CellsOfPrefix
<1> HIDE DEF u, v, f
<1>7. Encoded(u) \in Seq(CellType) /\ Encoded(v) = Encoded(u) \o f
  BY <1>2, EncodedAppend, EncodedType DEF f
<1>8. IsJoin(Encoded(v), Encoded(u), f)
  BY <1>4, <1>7, Joined
<1>9. Boundary(s, k) = Boundary(s, k - 1) + Size(s[k])
  BY <1>3, <1>4, <1>8 DEF IsJoin
<1>10. ASSUME NEW i \in 1 .. Size(s[k]) PROVE Encoded(s)[Boundary(s, k - 1) + i] = f[i]
  <2>1. Boundary(s, k - 1) + i \in 1 .. Boundary(s, k)
    BY <1>3, <1>5, <1>9
  <2>2. Encoded(v)[Boundary(s, k - 1) + i] = f[i]
    BY <1>3, <1>4, <1>8 DEF IsJoin
  <2> QED BY <2>1, <2>2, <1>6
<1> QED BY <1>2, <1>3, <1>5, <1>9, <1>10 DEF f

\* The boundaries grow with the records: by at least a header and a checksum.
LEMMA BoundaryGrows ==
  ASSUME NEW s \in Seq(FitRecord), NEW j \in 0 .. Len(s), NEW k \in 0 .. Len(s), j < k
  PROVE  Boundary(s, j + 1) <= Boundary(s, k) /\ Boundary(s, j) + 9 <= Boundary(s, k)
<1>1. Len(s) \in Nat /\ j + 1 \in 1 .. Len(s) /\ j + 1 \in 0 .. k /\ j + 1 - 1 = j
  BY LenProperties
<1> DEFINE v == SubSeq(s, 1, k)
<1>2. /\ v \in Seq(FitRecord) /\ Len(v) = k /\ SubSeq(v, 1, j + 1) = SubSeq(s, 1, j + 1)
  BY <1>1, PrefixOfPrefix
<1>3. Boundary(v, j + 1) = Boundary(s, j + 1) /\ Boundary(s, k) = Len(Encoded(v))
  BY <1>2 DEF Boundary
<1> HIDE DEF v
<1>4. Boundary(v, j + 1) <= Len(Encoded(v))
  BY <1>1, <1>2, BoundaryEnds
<1>5. Boundary(s, j + 1) = Boundary(s, j) + Size(s[j + 1]) /\ Size(s[j + 1]) >= 9
      /\ Size(s[j + 1]) \in Nat /\ Boundary(s, j) \in Nat
  BY <1>1, BoundaryStep
<1>6. Boundary(s, k) \in Nat
  BY BoundaryEnds
<1> QED BY <1>3, <1>4, <1>5, <1>6

\* Every cell belongs to one of the records.
LEMMA CellHasRecord ==
  ASSUME NEW s \in Seq(FitRecord), NEW i \in 1 .. Len(Encoded(s))
  PROVE  \E k \in 1 .. Len(s) : \E j \in 1 .. Size(s[k]) : i = Boundary(s, k - 1) + j
<1> DEFINE Reach == {k \in 0 .. Len(s) : i <= Boundary(s, k)}
<1>1. Len(s) \in Nat /\ Len(Encoded(s)) \in Nat /\ Boundary(s, Len(s)) = Len(Encoded(s))
      /\ Boundary(s, 0) = 0
  BY LenProperties, EncodedType, BoundaryEnds
<1>2. Reach # {} /\ Reach \in SUBSET Nat
  <2>1. Len(s) \in Reach
    BY <1>1
  <2> QED BY <2>1, <1>1
<1>3. PICK k \in Reach : \A n \in Reach : k <= n
  <2> HIDE DEF Reach
  <2> QED BY <1>2, LeastNatural
<1>4. k # 0
  BY <1>1, <1>3
<1>5. k \in 1 .. Len(s) /\ k - 1 \in 0 .. Len(s) /\ k - 1 \notin Reach
  BY <1>1, <1>3, <1>4
<1>6. /\ Boundary(s, k) = Boundary(s, k - 1) + Size(s[k]) /\ Size(s[k]) \in Nat
      /\ Boundary(s, k - 1) \in Nat
  BY <1>5, BoundaryStep
<1>7. i <= Boundary(s, k) /\ ~(i <= Boundary(s, k - 1))
  BY <1>3, <1>5
<1> DEFINE j == i - Boundary(s, k - 1)
<1>8. j \in 1 .. Size(s[k]) /\ i = Boundary(s, k - 1) + j
  BY <1>1, <1>6, <1>7
<1> HIDE DEF j
<1> QED BY <1>5, <1>8

-----------------------------------------------------------------------------
(* What the checks of a reader find.                                        *)

\* No check fails, or the first that does is reported.
LEMMA FirstOfChecks ==
  ASSUME NEW n \in Nat, NEW checks, DOMAIN checks = 1 .. n,
         \A i \in 1 .. n : checks[i][2] # "None"
  PROVE  /\ FirstOf(checks) = "None" <=> \A i \in 1 .. n : ~checks[i][1]
         /\ FirstOf(checks) = "None" \/ \E i \in 1 .. n : FirstOf(checks) = checks[i][2]
<1> DEFINE failed == {i \in 1 .. n : checks[i][1]}
<1>1. FirstOf(checks) = IF failed = {} THEN "None" ELSE checks[Min(failed)][2]
  BY DEF FirstOf
<1>2. CASE failed = {}
  BY <1>1, <1>2
<1>3. CASE failed # {}
  <2>1. PICK m \in failed : \A k \in failed : m <= k
    <3>1. failed \in SUBSET Nat
      OBVIOUS
    <3> HIDE DEF failed
    <3> QED BY <1>3, <3>1, LeastNatural
  <2>2. Min(failed) \in failed
    <3> HIDE DEF failed
    <3> QED BY <2>1 DEF Min
  <2> QED BY <1>1, <1>3, <2>2
<1> QED BY <1>2, <1>3

\* What a header without a fault says.
IsGoodHeader(h, expected) ==
  /\ h[1] = Magic /\ h[2] = FormatVersion /\ h[3] = FormatFlags /\ h[4] = HeaderLen
  /\ h[5] \in MinRecordLen .. FormatMaxRecordLen /\ h[5] % Alignment = 0
  /\ ~(h[5] > MaxRecordLen) /\ RecordLen(h[6]) = h[5] /\ h[7] # 0
  /\ expected # NoSequence /\ h[7] = expected

\* No fault is found in a header of this format, with the sequence that is next.
LEMMA HeaderWithoutFault ==
  ASSUME NEW header, NEW expected
  PROVE  /\ HeaderFault(header, expected) = "None"
              <=> IsGoodHeader([i \in 1 .. HeaderLen |-> Value(header[i])], expected)
         /\ HeaderFault(header, expected) \notin {"End", "PartialTail", "Header", "Record"}
<1> DEFINE h == [i \in 1 .. HeaderLen |-> Value(header[i])]
           checks == <<
    <<h[1] # Magic, "InvalidMagic">>,
    <<h[2] # FormatVersion, "UnsupportedRecordVersion">>,
    <<h[3] # FormatFlags, "UnsupportedFlags">>,
    <<h[4] # HeaderLen, "InvalidHeaderLength">>,
    <<h[5] \notin MinRecordLen..FormatMaxRecordLen \/ h[5] % Alignment # 0, "InvalidRecordLength">>,
    <<h[5] > MaxRecordLen, "RecordTooLarge">>,
    <<RecordLen(h[6]) # h[5], "InvalidPayloadLength">>,
    <<h[7] = 0, "InvalidSequence">>,
    <<expected # NoSequence /\ h[7] # expected, "SequenceMismatch">>,
    <<expected = NoSequence, "SequenceOverflow">> >>
<1>1. HeaderFault(header, expected) = FirstOf(checks)
  BY DEF HeaderFault
<1> HIDE DEF h
<1>2. DOMAIN checks = 1 .. 10 /\ 10 \in Nat
  OBVIOUS
<1>3. \A i \in 1 .. 10 :
        checks[i][2] \notin {"None", "End", "PartialTail", "Header", "Record"}
  OBVIOUS
<1>4. /\ FirstOf(checks) = "None" <=> \A i \in 1 .. 10 : ~checks[i][1]
      /\ FirstOf(checks) \notin {"End", "PartialTail", "Header", "Record"}
  <2> HIDE DEF checks
  <2> QED BY <1>2, <1>3, FirstOfChecks
<1>5. (\A i \in 1 .. 10 : ~checks[i][1]) <=>
        /\ ~checks[1][1] /\ ~checks[2][1] /\ ~checks[3][1] /\ ~checks[4][1] /\ ~checks[5][1]
        /\ ~checks[6][1] /\ ~checks[7][1] /\ ~checks[8][1] /\ ~checks[9][1] /\ ~checks[10][1]
  <2> HIDE DEF checks
  <2> QED OBVIOUS
<1>6. /\ ~checks[1][1] <=> h[1] = Magic
      /\ ~checks[2][1] <=> h[2] = FormatVersion
      /\ ~checks[3][1] <=> h[3] = FormatFlags
      /\ ~checks[4][1] <=> h[4] = HeaderLen
      /\ ~checks[5][1] <=> h[5] \in MinRecordLen..FormatMaxRecordLen /\ h[5] % Alignment = 0
      /\ ~checks[6][1] <=> ~(h[5] > MaxRecordLen)
      /\ ~checks[7][1] <=> RecordLen(h[6]) = h[5]
      /\ ~checks[8][1] <=> h[7] # 0
      /\ ~checks[9][1] <=> expected = NoSequence \/ h[7] = expected
      /\ ~checks[10][1] <=> expected # NoSequence
  OBVIOUS
<1> HIDE DEF checks
<1>7. FirstOf(checks) = "None" <=> IsGoodHeader(h, expected)
  BY <1>4, <1>5, <1>6 DEF IsGoodHeader
<1> QED BY <1>1, <1>4, <1>7 DEF h

\* What a body without a fault says.
IsGoodBody(header, body) ==
  /\ \A i \in Value(header[6]) + 1 .. Len(body) - 1 : body[i] = Zero
  /\ body[Len(body)] = Hash(header \o SubSeq(body, 1, Len(body) - 1))

\* No fault is found in a body with zeros behind the payload and the checksum of
\* what it follows.
LEMMA BodyWithoutFault ==
  ASSUME NEW header, NEW body
  PROVE  /\ BodyFault(header, body) = "None" <=> IsGoodBody(header, body)
         /\ BodyFault(header, body) \notin {"End", "PartialTail", "Header", "Record"}
<1> DEFINE padded == \E i \in Value(header[6]) + 1 .. Len(body) - 1 : body[i] # Zero
           differs == body[Len(body)] # Hash(header \o SubSeq(body, 1, Len(body) - 1))
           checks == << <<padded, "NonZeroPadding">>, <<differs, "ChecksumMismatch">> >>
<1>1. BodyFault(header, body) = FirstOf(checks)
  BY DEF BodyFault
<1>2. IsGoodBody(header, body) <=> ~padded /\ ~differs
  BY DEF IsGoodBody
<1> HIDE DEF padded, differs
<1>3. DOMAIN checks = 1 .. 2 /\ 2 \in Nat
  OBVIOUS
<1>4. \A i \in 1 .. 2 :
        checks[i][2] \notin {"None", "End", "PartialTail", "Header", "Record"}
  OBVIOUS
<1>5. /\ FirstOf(checks) = "None" <=> \A i \in 1 .. 2 : ~checks[i][1]
      /\ FirstOf(checks) \notin {"End", "PartialTail", "Header", "Record"}
  <2> HIDE DEF checks
  <2> QED BY <1>3, <1>4, FirstOfChecks
<1>6. (\A i \in 1 .. 2 : ~checks[i][1]) <=> ~checks[1][1] /\ ~checks[2][1]
  <2> HIDE DEF checks
  <2> QED OBVIOUS
<1>7. (~checks[1][1] <=> ~padded) /\ (~checks[2][1] <=> ~differs)
  OBVIOUS
<1> HIDE DEF checks
<1> QED BY <1>1, <1>2, <1>5, <1>6, <1>7

\* What a reader makes of a header: the end, a partial tail, a fault, or a header.
LEMMA HeaderReads ==
  ASSUME NEW header, NEW expected
  PROVE  LET kind == HeaderRead(header, expected).kind IN
         /\ header = <<>> => kind = "End"
         /\ header # <<>> /\ Len(header) < HeaderLen => kind = "PartialTail"
         /\ header # <<>> /\ ~(Len(header) < HeaderLen) =>
              IF HeaderFault(header, expected) = "None" THEN kind = "Header"
              ELSE kind \notin {"End", "PartialTail", "Header"}
<1> DEFINE fault == HeaderFault(header, expected)
<1>1. fault \notin {"End", "PartialTail", "Header", "Record"}
  BY HeaderWithoutFault
<1> HIDE DEF fault
<1>2. HeaderRead(header, expected) =
        IF header = <<>> THEN Found("End")
        ELSE IF Len(header) < HeaderLen THEN Found("PartialTail")
        ELSE IF fault # "None" THEN Found(fault) ELSE Found("Header")
  BY DEF HeaderRead, fault
<1> QED BY <1>1, <1>2 DEF Found, fault

\* And of the rest of a record: a partial tail, a fault, or the record.
LEMMA BodyReads ==
  ASSUME NEW header, NEW body
  PROVE  LET found == BodyRead(header, body) IN
         /\ Len(body) < BodyLen(header) => found.kind = "PartialTail"
         /\ ~(Len(body) < BodyLen(header)) =>
              IF BodyFault(header, body) = "None"
              THEN found.kind = "Record" /\ found.record = Read(header, body)
              ELSE found.kind \notin {"End", "PartialTail", "Record"}
<1> DEFINE fault == BodyFault(header, body)
<1>1. fault \notin {"End", "PartialTail", "Header", "Record"}
  BY BodyWithoutFault
<1> HIDE DEF fault
<1>2. BodyRead(header, body) =
        IF Len(body) < BodyLen(header) THEN Found("PartialTail")
        ELSE IF fault # "None" THEN Found(fault)
             ELSE [kind |-> "Record", record |-> Read(header, body)]
  BY DEF BodyRead, fault
<1> QED BY <1>1, <1>2 DEF Found, fault

-----------------------------------------------------------------------------
(* The invariant.                                                           *)

\* Every variable has a type.
WalTyped ==
  /\ file \in Seq(CellType) /\ synced \in 0 .. Len(file)
  /\ status \in {"Down", "Reading", "Ready", "Refused", "Poisoned"}
  /\ reader \in [offset : Nat, expected : Nat, header : Seq(CellType), got : Nat]
  /\ hurt \subseteq {"Extend", "Damage", "Read"}

\* What was written is numbered from one and fits; what was read is a beginning of it.
Numbered ==
  /\ written \in Seq(FitRecord) /\ Len(written) <= MaxSequence
  /\ \A k \in 1 .. Len(written) : written[k].sequence = k
  /\ acked \in 0 .. Len(written)
  /\ records \in Seq(FitRecord) /\ Len(records) <= Len(written)
  /\ records = SubSeq(written, 1, Len(records))

\* The reader stands at a boundary, all cells before it are as they were written, and
\* a header it holds is the one at its place and has no fault.
Standing ==
  /\ reader.offset = Boundary(written, Len(records))
  /\ reader.expected = Successor(Len(records))
  /\ Position <= Len(file) /\ reader.got <= Wanted
  /\ \A i \in 1 .. reader.offset : file[i] = Encoded(written)[i]
  /\ reader.header # <<>> =>
       /\ Len(reader.header) = HeaderLen
       /\ \A i \in 1 .. HeaderLen : reader.header[i] = file[reader.offset + i]
       /\ HeaderFault(reader.header, reader.expected) = "None"

\* When no recovery is under way nothing is being read; a recovery is not refused by a
\* file to which nothing happened.
AtRest ==
  /\ status \in {"Down", "Ready", "Poisoned"} => reader.header = <<>> /\ reader.got = 0
  /\ status = "Down" => records = <<>>
  /\ status \in {"Ready", "Poisoned"} => hurt = {}
  /\ status = "Ready" => written = records /\ Len(file) = Len(Encoded(written))
  /\ status = "Refused" => hurt # {}

\* A cell reads back as a near value.
Altered(cell, original) == \E n \in {1, Alignment} : cell = Cell(Value(original) + n)

\* The cells are those that were written, but for one that is damaged and for zeros
\* behind the records that were acknowledged.
Original(d) ==
  \A i \in 1 .. Len(file) :
    \/ file[i] = Encoded(written)[i]
    \/ i > Boundary(written, acked) /\ file[i] = Zero
    \/ i = d /\ Altered(file[i], Encoded(written)[i])

\* The acknowledged records are on stable storage, and the file is what was written
\* but for what it has suffered.
Survives ==
  /\ Len(file) <= Len(Encoded(written))
  /\ Boundary(written, acked) <= synced
  /\ \E d \in Nat : Original(d)
  /\ hurt \subseteq {"Read"} => \A i \in 1 .. Len(file) : file[i] = Encoded(written)[i]

WalInv == WalTyped /\ Numbered /\ Standing /\ AtRest /\ Survives

-----------------------------------------------------------------------------
(* Cells of the file.                                                       *)

\* Every cell of a frame but the last is a number.
LEMMA FrameHoldsNumbers ==
  ASSUME NEW r \in AnyRecord, NEW i \in 1 .. Size(r) - 1
  PROVE  Framed(r)[i] = Cell(Value(Framed(r)[i])) /\ Len(Framed(r)[i]) = 1
<1> DEFINE f == Framed(r)
           len == Len(r.payload)
<1>1. IsFrame(f, r)
  BY FramedIsFrame
<1>2. len \in Nat /\ Size(r) \in Nat /\ Size(r) >= 9 + len
  BY SizeIsPositive
<1>3. \E x \in Int : f[i] = Cell(x)
  <2>1. r.sequence \in Int /\ r.timestamp \in Int /\ r.payload \in Seq(Nat)
    BY DEF AnyRecord
  <2>2. CASE i \in 1 .. 8
    <3>1. i = 1 \/ i = 2 \/ i = 3 \/ i = 4 \/ i = 5 \/ i = 6 \/ i = 7 \/ i = 8
      BY <2>2
    <3>2. Magic \in Int /\ FormatVersion \in Int /\ FormatFlags \in Int /\ HeaderLen \in Int
      BY DEF Magic, FormatVersion, FormatFlags, HeaderLen
    <3> HIDE DEF f
    <3>3. /\ f[1] = Cell(Magic) /\ f[2] = Cell(FormatVersion) /\ f[3] = Cell(FormatFlags)
          /\ f[4] = Cell(HeaderLen) /\ f[5] = Cell(Size(r)) /\ f[6] = Cell(len)
          /\ f[7] = Cell(r.sequence) /\ f[8] = Cell(r.timestamp)
      BY <1>1 DEF IsFrame
    <3>4. Size(r) \in Int /\ len \in Int
      BY <1>2
    <3> HIDE DEF len
    <3>5. ASSUME NEW x \in Int, f[i] = Cell(x) PROVE \E y \in Int : f[i] = Cell(y)
      BY <3>5, Zenon
    <3>6. CASE i = 1
      BY <3>6, <3>2, <3>3, <3>5
    <3>7. CASE i = 2
      BY <3>7, <3>2, <3>3, <3>5
    <3>8. CASE i = 3
      BY <3>8, <3>2, <3>3, <3>5
    <3>9. CASE i = 4
      BY <3>9, <3>2, <3>3, <3>5
    <3>10. CASE i = 5
      BY <3>10, <3>4, <3>3, <3>5
    <3>11. CASE i = 6
      BY <3>11, <3>4, <3>3, <3>5
    <3>12. CASE i = 7
      BY <3>12, <2>1, <3>3, <3>5
    <3>13. CASE i = 8
      BY <3>13, <2>1, <3>3, <3>5
    <3> QED BY <3>1, <3>6, <3>7, <3>8, <3>9, <3>10, <3>11, <3>12, <3>13
  <2>3. CASE i \in 9 .. 8 + len
    <3> DEFINE j == i - 8
    <3>1. j \in 1 .. len /\ i = 8 + j
      BY <2>3, <1>2
    <3> HIDE DEF f, j
    <3>2. f[8 + j] = Cell(r.payload[j])
      BY <3>1, <1>1 DEF IsFrame
    <3>3. r.payload[j] \in Int
      BY <2>1, <3>1
    <3> QED BY <3>1, <3>2, <3>3
  <2>4. CASE i \in 9 + len .. Size(r) - 1
    <3> HIDE DEF f
    <3>1. f[i] = Zero
      BY <2>4, <1>1 DEF IsFrame
    <3> QED BY <3>1 DEF Zero
  <2> HIDE DEF len
  <2> QED BY <2>2, <2>3, <2>4, <1>2
<1> HIDE DEF f
<1>4. PICK x \in Int : f[i] = Cell(x)
  BY <1>3
<1> QED BY <1>4, CellOfNumber DEF f

\* A cell of the log that stands for several numbers is the checksum of a record:
\* it is the last of its record, and stands for all cells before it.
LEMMA ChecksumEndsRecord ==
  ASSUME NEW s \in Seq(FitRecord), NEW i \in 1 .. Len(Encoded(s)), Len(Encoded(s)[i]) > 1
  PROVE  \E k \in 1 .. Len(s) :
           /\ i = Boundary(s, k)
           /\ Encoded(s)[i] = [j \in 1 .. Size(s[k]) - 1 |->
                                 Value(Encoded(s)[Boundary(s, k - 1) + j])]
<1>0. PICK k \in 1 .. Len(s) : \E j \in 1 .. Size(s[k]) : i = Boundary(s, k - 1) + j
  BY CellHasRecord
<1>1. PICK j \in 1 .. Size(s[k]) : i = Boundary(s, k - 1) + j
  BY <1>0
<1> DEFINE r == s[k]
           f == Framed(r)
           p == Boundary(s, k - 1)
           n == Size(r)
<1>2. /\ Boundary(s, k) = p + n
      /\ \A x \in 1 .. n : Encoded(s)[p + x] = f[x]
      /\ r \in FitRecord /\ n \in Nat /\ n >= 9 /\ p \in Nat
  BY BoundaryStep
<1>3. r \in AnyRecord
  BY <1>2 DEF FitRecord
<1>4. IsFrame(f, r)
  BY <1>3, FramedIsFrame
<1> HIDE DEF r, f, p, n
<1>5. j \in 1 .. n /\ i = p + j /\ Encoded(s)[i] = f[j]
  BY <1>1, <1>2 DEF r, p, n
<1>6. j = n
  <2>1. SUFFICES ASSUME j # n PROVE FALSE
    OBVIOUS
  <2>2. j \in 1 .. n - 1
    BY <1>2, <1>5, <2>1
  <2>3. Len(f[j]) = 1
    BY <2>2, <1>3, FrameHoldsNumbers DEF f, n
  <2> QED BY <1>5, <2>3
<1>7. f[n] = [x \in 1 .. n - 1 |-> Value(f[x])]
  BY <1>4 DEF IsFrame, n
<1>8. \A x \in 1 .. n - 1 : f[x] = Encoded(s)[p + x]
  BY <1>2
<1>9. f[n] = [x \in 1 .. n - 1 |-> Value(Encoded(s)[p + x])]
  BY <1>7, <1>8
<1>10. i = Boundary(s, k) /\ Encoded(s)[i] = [x \in 1 .. n - 1 |-> Value(Encoded(s)[p + x])]
  BY <1>2, <1>5, <1>6, <1>9
<1> QED BY <1>10 DEF n, p, r

\* A cell of the file that stands for several numbers is as it was written: damage
\* makes a number of it, and what was never written is a number.
LEMMA ChecksumIsOriginal ==
  ASSUME WalInv, NEW i \in 1 .. Len(file), Len(file[i]) > 1
  PROVE  file[i] = Encoded(written)[i] /\ i \in 1 .. Len(Encoded(written))
<1>1. Len(file) \in Nat /\ Len(Encoded(written)) \in Nat /\ Len(file) <= Len(Encoded(written))
  BY LenProperties, EncodedType DEF WalInv, WalTyped, Numbered, Survives
<1>2. i \in 1 .. Len(Encoded(written))
  BY <1>1
<1>3. PICK d \in Nat : Original(d)
  BY DEF WalInv, Survives
<1>4. Encoded(written)[i] \in CellType
  BY <1>2, EncodedType, ElementOfSeq DEF WalInv, Numbered
<1>5. Len(Zero) = 1
  BY CellOfNumber DEF Zero
<1>6. ASSUME Altered(file[i], Encoded(written)[i]) PROVE Len(file[i]) = 1
  <2>1. Value(Encoded(written)[i]) \in Int
    BY <1>4, ValueOfCell
  <2> DEFINE v == Value(Encoded(written)[i])
  <2>2. PICK n \in {1, Alignment} : file[i] = Cell(v + n)
    BY <1>6 DEF Altered
  <2>3. v + n \in Int
    BY <2>1, <2>2 DEF Alignment
  <2> QED BY <2>2, <2>3, CellOfNumber
<1>7. \/ file[i] = Encoded(written)[i]
      \/ i > Boundary(written, acked) /\ file[i] = Zero
      \/ i = d /\ Altered(file[i], Encoded(written)[i])
  BY <1>3 DEF Original
<1>8. ~(i > Boundary(written, acked) /\ file[i] = Zero)
  <2>1. SUFFICES ASSUME file[i] = Zero PROVE FALSE
    OBVIOUS
  <2>2. Len(file[i]) = 1
    BY <1>5, <2>1, Zenon
  <2> QED BY <2>2
<1>9. ~(i = d /\ Altered(file[i], Encoded(written)[i]))
  <2>1. SUFFICES ASSUME Altered(file[i], Encoded(written)[i]) PROVE FALSE
    OBVIOUS
  <2>2. Len(file[i]) = 1
    BY <1>6, <2>1
  <2> QED BY <2>2
<1> QED BY <1>2, <1>7, <1>8, <1>9

-----------------------------------------------------------------------------
(* What the reader holds.                                                   *)

\* The reader has got the cells behind what it read before.
LEMMA GotCells ==
  ASSUME WalInv
  PROVE  /\ reader.offset \in Nat /\ reader.got \in Nat /\ Len(reader.header) \in Nat
         /\ Got \in Seq(CellType) /\ Len(Got) = reader.got
         /\ \A i \in 1 .. reader.got : Got[i] = file[reader.offset + Len(reader.header) + i]
<1> DEFINE p == reader.offset
           h == Len(reader.header)
           g == reader.got
<1>1. p \in Nat /\ g \in Nat /\ h \in Nat
  BY LenProperties DEF WalInv, WalTyped
<1>2. file \in Seq(CellType) /\ Len(file) \in Nat /\ p + h + g <= Len(file)
  BY LenProperties DEF WalInv, WalTyped, Standing, Position
<1>3. Got = SubSeq(file, (p + h + g) - g + 1, p + h + g)
  BY DEF Got, Position
<1> HIDE DEF p, h, g
<1>4. (p + h + g) - g + 1 = p + h + 1 /\ p + h + 1 \in Int /\ p + h + g \in Int
  BY <1>1
<1>5. \A i \in p + h + 1 .. p + h + g : file[i] \in CellType
  <2>1. \A i \in p + h + 1 .. p + h + g : i \in 1 .. Len(file)
    BY <1>1, <1>2
  <2> QED BY <2>1, <1>2, ElementOfSeq
<1> DEFINE m == p + h + 1
           n == p + h + g
<1>6. /\ SubSeq(file, m, n) \in Seq(CellType)
      /\ Len(SubSeq(file, m, n)) = IF m <= n THEN n - m + 1 ELSE 0
      /\ \A i \in 1 .. n - m + 1 : SubSeq(file, m, n)[i] = file[m + i - 1]
  <2>1. m \in Int /\ n \in Int /\ \A i \in m .. n : file[i] \in CellType
    BY <1>4, <1>5
  <2> HIDE DEF m, n
  <2> QED BY <2>1, SubSeqProperties
<1>7. /\ (IF m <= n THEN n - m + 1 ELSE 0) = g /\ n - m + 1 = g
      /\ \A i \in 1 .. g : m + i - 1 = p + h + i
  BY <1>1
<1>8. Got = SubSeq(file, m, n)
  BY <1>3, <1>4
<1> HIDE DEF m, n
<1>9. Got \in Seq(CellType) /\ Len(Got) = g /\ \A i \in 1 .. g : Got[i] = file[p + h + i]
  BY <1>6, <1>7, <1>8
<1> QED BY <1>1, <1>9 DEF p, h, g

\* A header that the reader holds tells the length of the record.
LEMMA HeldHeader ==
  ASSUME WalInv, reader.header # <<>>
  PROVE  LET n == Value(reader.header[5]) IN
         /\ Len(reader.header) = 8
         /\ n \in 9 .. 24 /\ n % 3 = 0 /\ n = RecordLen(Value(reader.header[6]))
         /\ Value(reader.header[7]) = reader.expected /\ reader.expected # NoSequence
         /\ BodyLen(reader.header) = n - 8 /\ Wanted = n - 8
         /\ \A i \in 1 .. 8 : reader.header[i] = file[reader.offset + i]
<1> DEFINE h == [i \in 1 .. HeaderLen |-> Value(reader.header[i])]
<1>1. /\ Len(reader.header) = 8
      /\ \A i \in 1 .. 8 : reader.header[i] = file[reader.offset + i]
      /\ HeaderFault(reader.header, reader.expected) = "None"
  BY DEF WalInv, Standing, HeaderLen
<1>2. IsGoodHeader(h, reader.expected)
  BY <1>1, HeaderWithoutFault
<1>3. \A i \in 1 .. 8 : h[i] = Value(reader.header[i])
  BY DEF HeaderLen
<1> HIDE DEF h
<1>4. /\ h[5] \in 9 .. 24 /\ h[5] % 3 = 0 /\ RecordLen(h[6]) = h[5]
      /\ reader.expected # NoSequence /\ h[7] = reader.expected
  BY <1>2 DEF IsGoodHeader, MinRecordLen, HeaderLen, ChecksumLen, FormatMaxRecordLen, Alignment
<1>5. BodyLen(reader.header) = h[5] - 8 /\ Wanted = BodyLen(reader.header)
  BY <1>3 DEF BodyLen, HeaderLen, Wanted
<1> QED BY <1>1, <1>3, <1>4, <1>5

\* The checksum tells the record: a body that is read without a fault is that of the
\* next record that was written, and every cell of it is as it was written.
LEMMA AcceptedIsWritten ==
  ASSUME WalInv, reader.header # <<>>, reader.got = Wanted,
         BodyFault(reader.header, Got) = "None"
  PROVE  LET k == Len(records) + 1
             n == Value(reader.header[5])
         IN  /\ k \in 1 .. Len(written) /\ n = Size(written[k])
             /\ Read(reader.header, Got) = written[k]
             /\ \A i \in 1 .. n : file[reader.offset + i] = Encoded(written)[reader.offset + i]
<1> DEFINE n == Value(reader.header[5])
           p == reader.offset
           K == Len(records)
           O == Encoded(written)
           H == reader.header
           body == Got
           front == SubSeq(body, 1, n - 9)
           covered == H \o front
<1>1. /\ n \in 9 .. 24 /\ Len(H) = 8 /\ Wanted = n - 8 /\ reader.got = n - 8
      /\ \A i \in 1 .. 8 : H[i] = file[p + i]
  BY HeldHeader
<1>2. /\ body \in Seq(CellType) /\ Len(body) = n - 8 /\ p \in Nat
      /\ \A i \in 1 .. n - 8 : body[i] = file[p + 8 + i]
  BY <1>1, GotCells
<1>3. H \in Seq(CellType)
  BY DEF WalInv, WalTyped
<1>4. IsGoodBody(H, body)
  BY BodyWithoutFault
<1> HIDE DEF n, p, H, body, O
<1>5. body[n - 8] = Hash(covered)
  <2>1. Len(body) - 1 = n - 9
    BY <1>1, <1>2
  <2> QED BY <1>2, <1>4, <2>1 DEF IsGoodBody
<1>6. /\ front \in Seq(CellType) /\ Len(front) = n - 9
      /\ \A i \in 1 .. n - 9 : front[i] = file[p + 8 + i]
  <2> DEFINE m == n - 9
  <2>1. m \in 0 .. Len(body) /\ \A i \in 1 .. m : i \in 1 .. n - 8
    BY <1>1, <1>2
  <2>2. SubSeq(body, 1, m) \in Seq(CellType) /\ Len(SubSeq(body, 1, m)) = m
        /\ \A i \in 1 .. m : SubSeq(body, 1, m)[i] = body[i]
    <3> HIDE DEF m
    <3>1. 0 \in 0 .. m
      BY <2>1
    <3> QED BY <2>1, <3>1, <1>2, PrefixOfPrefix
  <2> QED BY <2>1, <2>2, <1>2
<1> HIDE DEF front
<1>7. covered \in Seq(CellType) /\ IsJoin(covered, H, front)
  BY <1>3, <1>6, Joined
<1> HIDE DEF covered
<1>8. Len(covered) = n - 1 /\ \A i \in 1 .. n - 1 : covered[i] = file[p + i]
  <2>1. Len(covered) = n - 1
    BY <1>1, <1>6, <1>7 DEF IsJoin
  <2>2. ASSUME NEW i \in 1 .. 8 PROVE covered[i] = file[p + i]
    BY <1>1, <1>7 DEF IsJoin
  <2>3. ASSUME NEW i \in 1 .. n - 9 PROVE covered[8 + i] = file[p + 8 + i]
    BY <1>1, <1>6, <1>7 DEF IsJoin
  <2>4. ASSUME NEW i \in 9 .. n - 1 PROVE covered[i] = file[p + i]
    <3> DEFINE j == i - 8
    <3>1. j \in 1 .. n - 9 /\ i = 8 + j /\ p + 8 + j = p + i
      BY <1>1, <1>2
    <3> HIDE DEF j
    <3> QED BY <3>1, <2>3
  <2>5. \A i \in 1 .. n - 1 : i \in 1 .. 8 \/ i \in 9 .. n - 1
    BY <1>1
  <2> QED BY <2>1, <2>2, <2>4, <2>5
<1>9. Hash(covered) = [i \in 1 .. n - 1 |-> Value(file[p + i])]
  <2>1. DOMAIN covered = 1 .. n - 1
    BY <1>7, <1>8, LenProperties
  <2> QED BY <1>8, <2>1 DEF Hash
<1> DEFINE z == p + n
<1>10. file[z] = [i \in 1 .. n - 1 |-> Value(file[p + i])]
  <2>1. n - 8 \in 1 .. n - 8 /\ p + 8 + (n - 8) = z
    BY <1>1, <1>2
  <2>2. body[n - 8] = file[p + 8 + (n - 8)]
    BY <1>2, <2>1
  <2> QED BY <1>5, <1>9, <2>1, <2>2
<1>11. z \in 1 .. Len(file) /\ Len(file[z]) = n - 1 /\ n - 1 > 1
  <2>1. p + 8 + (n - 8) <= Len(file)
    BY <1>1 DEF WalInv, Standing, Position, p, H
  <2>2. Len(file) \in Nat
    BY LenProperties DEF WalInv, WalTyped
  <2>3. z \in 1 .. Len(file)
    BY <1>1, <1>2, <2>1, <2>2
  <2>4. Len(file[z]) = n - 1
    <3> DEFINE m == n - 1
    <3>1. m \in Nat /\ file[z] = [i \in 1 .. m |-> Value(file[p + i])]
      BY <1>1, <1>10
    <3> HIDE DEF m, z
    <3>2. \A i \in 1 .. m : Value(file[p + i]) = file[z][i]
      BY <3>1
    <3>3. file[z] \in CellType
      BY <2>3, ElementOfSeq DEF WalInv, WalTyped
    <3>4. file[z] \in Seq(Int) /\ DOMAIN file[z] = 1 .. m
      BY <3>1, <3>3 DEF CellType
    <3>5. Len(file[z]) = m
      BY <3>1, <3>4
    <3> QED BY <3>5 DEF m
  <2>5. n - 1 > 1
    <3>1. n \in 9 .. 24
      BY <1>1, Zenon
    <3> QED BY ONLY <3>1
  <2> QED BY <2>3, <2>4, <2>5, Zenon
<1> HIDE DEF z
<1>12. file[z] = O[z] /\ z \in 1 .. Len(O)
  BY <1>11, ChecksumIsOriginal DEF O
<1>13. written \in Seq(FitRecord) /\ Len(written) \in Nat /\ K \in 0 .. Len(written)
       /\ p = Boundary(written, K)
  BY LenProperties DEF WalInv, Numbered, Standing, p
<1>14. PICK k \in 1 .. Len(written) :
         /\ z = Boundary(written, k)
         /\ O[z] = [j \in 1 .. Size(written[k]) - 1 |-> Value(O[Boundary(written, k - 1) + j])]
  <2>1. z \in 1 .. Len(Encoded(written)) /\ Len(Encoded(written)[z]) > 1
    BY <1>11, <1>12 DEF O
  <2>2. \E k \in 1 .. Len(written) :
          /\ z = Boundary(written, k)
          /\ Encoded(written)[z] = [j \in 1 .. Size(written[k]) - 1 |->
                                     Value(Encoded(written)[Boundary(written, k - 1) + j])]
    BY <1>13, <2>1, ChecksumEndsRecord
  <2> QED BY <2>2 DEF O
<1> DEFINE r == written[k]
           q == Boundary(written, k - 1)
<1>15. /\ z = q + Size(r) /\ q \in Nat /\ r \in FitRecord
       /\ Size(r) \in Nat /\ Size(r) >= 9
       /\ \A i \in 1 .. Size(r) : O[q + i] = Framed(r)[i]
  BY <1>13, <1>14, BoundaryStep DEF O
<1>16. O[z] = [j \in 1 .. Size(r) - 1 |-> Value(O[q + j])]
  BY <1>14
<1> HIDE DEF r, q
<1>17. n = Size(r)
  <2>1. DOMAIN O[z] = 1 .. n - 1
    BY <1>10, <1>12
  <2>2. DOMAIN O[z] = 1 .. Size(r) - 1
    BY <1>16
  <2> DEFINE a == n - 1
             b == Size(r) - 1
  <2>3. a \in Nat /\ b \in Nat /\ 1 .. a = 1 .. b
    BY <1>1, <1>15, <2>1, <2>2
  <2>4. a = b
    <3> HIDE DEF a, b
    <3>1. a \in 1 .. a \/ a = 0
      BY <2>3
    <3>2. b \in 1 .. b \/ b = 0
      BY <2>3
    <3> QED BY <2>3, <3>1, <3>2
  <2> QED BY <2>4, <1>1, <1>15
<1>18. q = p
  BY <1>15, <1>17, <1>2, <1>1 DEF z
<1>19. k = K + 1
  <2>1. k - 1 \in 0 .. Len(written) /\ K \in 0 .. Len(written)
    BY <1>13
  <2>2. Boundary(written, k - 1) = Boundary(written, K) /\ Boundary(written, K) \in Nat
    BY <1>13, <1>18, <1>2 DEF q
  <2>3. ~(k - 1 < K)
    <3>1. SUFFICES ASSUME k - 1 < K PROVE FALSE
      OBVIOUS
    <3> DEFINE j == k - 1
    <3>2. j \in 0 .. Len(written) /\ j < K /\ Boundary(written, j) = Boundary(written, K)
      BY <2>1, <2>2, <3>1
    <3> HIDE DEF j, K
    <3>3. Boundary(written, j) + 9 <= Boundary(written, K)
      BY <3>2, <2>1, <1>13, BoundaryGrows
    <3> QED BY <3>2, <3>3, <2>2
  <2>4. ~(K < k - 1)
    <3>1. SUFFICES ASSUME K < k - 1 PROVE FALSE
      OBVIOUS
    <3> DEFINE j == k - 1
    <3>2. j \in 0 .. Len(written) /\ K < j /\ Boundary(written, j) = Boundary(written, K)
      BY <2>1, <2>2, <3>1
    <3> HIDE DEF j, K
    <3>3. Boundary(written, K) + 9 <= Boundary(written, j)
      BY <3>2, <2>1, <1>13, BoundaryGrows
    <3> QED BY <3>2, <3>3, <2>2
  <2> QED BY <2>1, <2>3, <2>4
<1>20. r \in AnyRecord /\ IsFrame(Framed(r), r)
  BY <1>15, FramedIsFrame DEF FitRecord
<1>21. ASSUME NEW i \in 1 .. n - 1 PROVE file[p + i] = O[p + i]
  <2>1. Value(file[p + i]) = Value(O[p + i])
    <3>1. \A j \in 1 .. n - 1 : file[z][j] = Value(file[p + j])
      BY <1>10
    <3>2. \A j \in 1 .. n - 1 : O[z][j] = Value(O[p + j])
      BY <1>16, <1>17, <1>18
    <3> QED BY <3>1, <3>2, <1>12
  <2>2. p + i \in 1 .. Len(file)
    BY <1>1, <1>2, <1>11 DEF z
  <2>3. O[p + i] = Cell(Value(O[p + i])) /\ Value(O[p + i]) \in Int
    <3>1. i \in 1 .. Size(r) - 1 /\ i \in 1 .. Size(r)
      BY <1>17, <1>1
    <3>2. Framed(r)[i] = Cell(Value(Framed(r)[i]))
      BY <3>1, <1>20, FrameHoldsNumbers
    <3>3. Framed(r)[i] \in CellType
      BY <3>1, <1>20, ElementOfSeq DEF IsFrame
    <3>4. Value(Framed(r)[i]) \in Int
      BY <3>3, ValueOfCell
    <3>5. O[p + i] = Framed(r)[i]
      BY <3>1, <1>15, <1>18
    <3> QED BY <3>2, <3>4, <3>5
  <2>4. PICK d \in Nat : Original(d)
    BY DEF WalInv, Survives
  <2>5. CASE file[p + i] = O[p + i]
    BY <2>5
  <2>6. CASE file[p + i] = Zero
    <3>1. Value(O[p + i]) = 0
      BY <2>1, <2>6, CellOfNumber DEF Zero
    <3> QED BY <2>3, <2>6, <3>1 DEF Zero
  <2>7. CASE Altered(file[p + i], O[p + i])
    <3> DEFINE v == Value(O[p + i])
    <3>1. PICK x \in {1, Alignment} : file[p + i] = Cell(v + x)
      BY <2>7 DEF Altered
    <3>2. v \in Int /\ v + x \in Int /\ v + x # v
      BY <2>3 DEF Alignment
    <3>3. Value(file[p + i]) = v + x
      BY <3>1, <3>2, CellOfNumber
    <3> QED BY <2>1, <3>2, <3>3
  <2> QED BY <2>2, <2>4, <2>5, <2>6, <2>7 DEF Original, O
<1>22. \A i \in 1 .. n : file[p + i] = O[p + i]
  <2>1. \A i \in 1 .. n : i \in 1 .. n - 1 \/ i = n
    <3>1. n \in 9 .. 24
      BY <1>1
    <3> QED BY ONLY <3>1
  <2> QED BY <2>1, <1>21, <1>12 DEF z
<1>23. \A i \in 1 .. n : file[p + i] = Framed(r)[i]
  BY <1>22, <1>15, <1>17, <1>18
<1>24. Read(H, body) = r
  <2> DEFINE f == Framed(r)
             len == Len(r.payload)
  <2>1. /\ f[6] = Cell(len) /\ f[7] = Cell(r.sequence) /\ f[8] = Cell(r.timestamp)
        /\ \A i \in 1 .. len : f[8 + i] = Cell(r.payload[i])
    BY <1>20 DEF IsFrame
  <2>2. /\ r.sequence \in Int /\ r.timestamp \in Int /\ r.payload \in Seq(Nat) /\ len \in Nat
        /\ r = [sequence |-> r.sequence, timestamp |-> r.timestamp, payload |-> r.payload]
    BY <1>20 DEF AnyRecord
  <2>3. Size(r) >= 9 + len
    BY <1>20, SizeIsPositive
  <2> HIDE DEF f, len
  <2>4. H[6] = f[6] /\ H[7] = f[7] /\ H[8] = f[8]
    BY <1>1, <1>23 DEF f
  <2>5. Value(H[6]) = len /\ Value(H[7]) = r.sequence /\ Value(H[8]) = r.timestamp
    <3>1. Value(Cell(len)) = len
      BY <2>2, CellOfNumber
    <3>2. Value(Cell(r.sequence)) = r.sequence
      BY <2>2, CellOfNumber
    <3>3. Value(Cell(r.timestamp)) = r.timestamp
      BY <2>2, CellOfNumber
    <3> QED BY <2>1, <2>4, <3>1, <3>2, <3>3
  <2>6. ASSUME NEW i \in 1 .. len PROVE Value(body[i]) = r.payload[i]
    <3>1. i \in 1 .. n - 8 /\ 8 + i \in 1 .. n /\ p + 8 + i = p + (8 + i)
      <4>1. n \in 9 .. 24 /\ p \in Nat /\ len \in Nat /\ n >= 9 + len
        BY <1>1, <1>2, <1>17, <2>2, <2>3
      <4> QED BY ONLY <4>1, i \in 1 .. len
    <3>2. body[i] = f[8 + i]
      BY <3>1, <1>2, <1>23 DEF f
    <3>3. r.payload[i] \in Int
      BY <2>2 DEF len
    <3> QED BY <3>2, <3>3, <2>1, CellOfNumber
  <2>7. r.payload = [i \in 1 .. len |-> r.payload[i]]
    BY <2>2 DEF len
  <2>8. [i \in 1 .. len |-> Value(body[i])] = r.payload
    BY <2>6, <2>7
  <2>9. Read(H, body) = Record(r.sequence, r.timestamp, r.payload)
    BY <2>5, <2>8 DEF Read
  <2> QED BY <2>2, <2>9 DEF Record
<1>25. r = written[K + 1] /\ K + 1 \in 1 .. Len(written)
  BY <1>13, <1>19 DEF r
<1> QED BY <1>17, <1>22, <1>24, <1>25 DEF n, p, H, body, O

-----------------------------------------------------------------------------
(* A record that is whole.                                                  *)

\* A frame passes every check of the reader that expects its sequence, and reads
\* back as its record.
LEMMA FrameIsAccepted ==
  ASSUME NEW r \in FitRecord, r.sequence # 0,
         NEW header \in Seq(CellType), Len(header) = 8,
         \A i \in 1 .. 8 : header[i] = Framed(r)[i],
         NEW body \in Seq(CellType)
  PROVE  /\ HeaderFault(header, r.sequence) = "None"
         /\ BodyLen(header) = Size(r) - 8 /\ Value(header[5]) = Size(r)
         /\ Len(body) = Size(r) - 8 /\ (\A i \in 1 .. Size(r) - 8 : body[i] = Framed(r)[8 + i])
              => BodyFault(header, body) = "None" /\ Read(header, body) = r
<1> DEFINE f == Framed(r)
           n == Size(r)
           len == Len(r.payload)
<1>1. r \in AnyRecord /\ FitsFormat(r) /\ FitsLimit(r)
  BY DEF FitRecord
<1>2. IsFrame(f, r)
  BY <1>1, FramedIsFrame
<1>3. /\ r.sequence \in Nat /\ r.timestamp \in Int /\ r.payload \in Seq(Nat) /\ len \in Nat
      /\ r = [sequence |-> r.sequence, timestamp |-> r.timestamp, payload |-> r.payload]
  BY <1>1 DEF AnyRecord
<1>4. n \in Nat /\ n >= 9 + len /\ n >= 9 /\ n % 3 = 0
  BY <1>1, SizeIsPositive
<1>5. n = RecordLen(len) /\ n <= 24 /\ n <= MaxRecordLen
  BY <1>1 DEF Size, FitsFormat, FitsLimit, FormatMaxRecordLen, Alignment
<1>6. /\ f[1] = Cell(9) /\ f[2] = Cell(1) /\ f[3] = Cell(0) /\ f[4] = Cell(8)
      /\ f[5] = Cell(n) /\ f[6] = Cell(len) /\ f[7] = Cell(r.sequence) /\ f[8] = Cell(r.timestamp)
      /\ \A i \in 1 .. len : f[8 + i] = Cell(r.payload[i])
      /\ \A i \in 9 + len .. n - 1 : f[i] = Zero
      /\ f[n] = [i \in 1 .. n - 1 |-> Value(f[i])]
  BY <1>2 DEF IsFrame, Magic, FormatVersion, FormatFlags, HeaderLen
<1> DEFINE h == [i \in 1 .. HeaderLen |-> Value(header[i])]
<1>7. \A i \in 1 .. 8 : h[i] = Value(f[i])
  BY DEF HeaderLen
<1> HIDE DEF f, n, len, h
<1>8. \A x \in Int : Value(Cell(x)) = x
  BY CellOfNumber
<1>9. /\ h[1] = 9 /\ h[2] = 1 /\ h[3] = 0 /\ h[4] = 8
      /\ h[5] = n /\ h[6] = len /\ h[7] = r.sequence /\ h[8] = r.timestamp
  <2>1. h[1] = Value(Cell(9)) /\ h[2] = Value(Cell(1)) /\ h[3] = Value(Cell(0))
        /\ h[4] = Value(Cell(8)) /\ h[5] = Value(Cell(n)) /\ h[6] = Value(Cell(len))
        /\ h[7] = Value(Cell(r.sequence)) /\ h[8] = Value(Cell(r.timestamp))
    BY <1>6, <1>7
  <2>2. n \in Int /\ len \in Int /\ r.sequence \in Int /\ r.timestamp \in Int
    BY <1>3, <1>4
  <2> QED BY <1>8, <2>1, <2>2
<1>10. MaxRecordLen \in Int
  BY WalConstants DEF ValidLimit, MinRecordLen, HeaderLen, ChecksumLen, FormatMaxRecordLen, Alignment
<1>11. HeaderFault(header, r.sequence) = "None"
  <2>1. n \in 9 .. 24 /\ ~(n > MaxRecordLen)
    <3>1. n \in Nat /\ n >= 9 /\ n <= 24 /\ n <= MaxRecordLen /\ MaxRecordLen \in Int
      BY <1>4, <1>5, <1>10
    <3> QED BY ONLY <3>1
  <2>2. h[5] \in MinRecordLen .. FormatMaxRecordLen /\ h[5] % Alignment = 0
    BY <1>4, <1>9, <2>1 DEF MinRecordLen, HeaderLen, ChecksumLen, FormatMaxRecordLen, Alignment
  <2>3. IsGoodHeader(h, r.sequence)
    BY <1>5, <1>9, <2>1, <2>2 DEF IsGoodHeader, Magic, FormatVersion, FormatFlags, HeaderLen,
                                   NoSequence
  <2> QED BY <2>3, HeaderWithoutFault DEF h
<1>12. Value(header[5]) = n /\ BodyLen(header) = n - 8
  <2>1. Value(header[5]) = n
    BY <1>9 DEF h, HeaderLen
  <2> QED BY <2>1 DEF BodyLen, HeaderLen
<1>13. ASSUME Len(body) = n - 8, \A i \in 1 .. n - 8 : body[i] = f[8 + i]
       PROVE  BodyFault(header, body) = "None" /\ Read(header, body) = r
  <2> DEFINE m == n - 9
             front == SubSeq(body, 1, m)
             covered == header \o front
  <2>1. m \in 0 .. Len(body) /\ 0 \in 0 .. m /\ m = Len(body) - 1 /\ Len(body) = m + 1
    BY <1>4, <1>13
  <2>2. /\ front \in Seq(CellType) /\ Len(front) = m /\ \A i \in 1 .. m : front[i] = body[i]
    <3> HIDE DEF m
    <3> QED BY <2>1, PrefixOfPrefix
  <2> HIDE DEF front
  <2>3. covered \in Seq(CellType) /\ IsJoin(covered, header, front)
    BY <2>2, Joined
  <2> HIDE DEF covered
  <2>4. Len(covered) = n - 1 /\ \A i \in 1 .. n - 1 : covered[i] = f[i]
    <3>1. Len(covered) = n - 1
      BY <2>2, <2>3, <1>4 DEF IsJoin
    <3>2. ASSUME NEW i \in 1 .. 8 PROVE covered[i] = f[i]
      BY <2>3 DEF IsJoin, f
    <3>3. ASSUME NEW i \in 1 .. m PROVE covered[8 + i] = f[8 + i]
      <4>1. i \in 1 .. n - 8
        BY <1>4
      <4>2. covered[8 + i] = front[i]
        BY <2>2, <2>3 DEF IsJoin
      <4> QED BY <4>1, <4>2, <2>2, <1>13
    <3>4. ASSUME NEW i \in 9 .. n - 1 PROVE covered[i] = f[i]
      <4> DEFINE j == i - 8
      <4>1. j \in 1 .. m /\ i = 8 + j
        BY <1>4
      <4> HIDE DEF j, m
      <4> QED BY <4>1, <3>3
    <3>5. \A i \in 1 .. n - 1 : i \in 1 .. 8 \/ i \in 9 .. n - 1
      <4>1. n \in Nat /\ n >= 9
        BY <1>4
      <4> QED BY ONLY <4>1
    <3> QED BY <3>1, <3>2, <3>4, <3>5
  <2>5. Hash(covered) = f[n]
    <3>1. DOMAIN covered = 1 .. n - 1
      BY <2>3, <2>4, LenProperties
    <3>2. Hash(covered) = [i \in 1 .. n - 1 |-> Value(f[i])]
      BY <3>1, <2>4 DEF Hash
    <3> QED BY <3>2, <1>6
  <2>6. body[Len(body)] = Hash(covered)
    <3>1. n - 8 \in 1 .. n - 8 /\ 8 + (n - 8) = n
      BY <1>4
    <3>2. body[n - 8] = f[8 + (n - 8)]
      BY <1>13, <3>1
    <3> QED BY <1>13, <2>5, <3>1, <3>2
  <2>7. Value(header[6]) = len /\ Value(header[7]) = r.sequence /\ Value(header[8]) = r.timestamp
    BY <1>9 DEF h, HeaderLen
  <2>8. ASSUME NEW i \in len + 1 .. Len(body) - 1 PROVE body[i] = Zero
    <3>1. i \in 1 .. n - 8 /\ 8 + i \in 9 + len .. n - 1
      <4>1. n \in Nat /\ len \in Nat /\ n >= 9 + len /\ Len(body) = n - 8
        BY <1>3, <1>4, <1>13
      <4> QED BY ONLY <4>1, i \in len + 1 .. Len(body) - 1
    <3> QED BY <3>1, <1>6, <1>13
  <2>9. BodyFault(header, body) = "None"
    <3>1. IsGoodBody(header, body)
      BY <2>1, <2>6, <2>7, <2>8 DEF IsGoodBody, covered, front
    <3> QED BY <3>1, BodyWithoutFault
  <2>10. ASSUME NEW i \in 1 .. len PROVE Value(body[i]) = r.payload[i]
    <3>1. i \in 1 .. n - 8
      <4>1. n \in Nat /\ len \in Nat /\ n >= 9 + len
        BY <1>3, <1>4
      <4> QED BY ONLY <4>1, i \in 1 .. len
    <3>2. body[i] = Cell(r.payload[i])
      BY <3>1, <1>6, <1>13
    <3>3. r.payload[i] \in Int
      BY <1>3 DEF len
    <3> QED BY <3>2, <3>3, <1>8
  <2>11. r.payload = [i \in 1 .. len |-> r.payload[i]]
    BY <1>3 DEF len
  <2>12. [i \in 1 .. len |-> Value(body[i])] = r.payload
    BY <2>10, <2>11
  <2>13. Read(header, body) = Record(r.sequence, r.timestamp, r.payload)
    BY <2>7, <2>12 DEF Read
  <2> QED BY <2>9, <2>13, <1>3 DEF Record
<1> QED BY <1>11, <1>12, <1>13 DEF f, n

-----------------------------------------------------------------------------
(* What a partial tail is, and what a fault.                                *)

\* The record behind those that were read, when it was written: where it is.
LEMMA NextRecord ==
  ASSUME WalInv, Len(records) < Len(written)
  PROVE  LET K == Len(records)
             r == written[K + 1]
         IN  /\ K \in Nat /\ K + 1 \in 1 .. Len(written)
             /\ r \in FitRecord /\ r \in AnyRecord /\ r.sequence = K + 1
             /\ Size(r) \in Nat /\ Size(r) >= 9 /\ Size(r) % 3 = 0
             /\ reader.offset + Size(r) = Boundary(written, K + 1)
             /\ reader.offset + Size(r) <= Len(Encoded(written))
             /\ \A i \in 1 .. Size(r) : Encoded(written)[reader.offset + i] = Framed(r)[i]
             /\ reader.expected = K + 1
<1> DEFINE K == Len(records)
           r == written[K + 1]
<1>1. /\ written \in Seq(FitRecord) /\ Len(written) \in Nat /\ K \in Nat
      /\ K + 1 \in 1 .. Len(written) /\ Len(written) <= MaxSequence
      /\ r.sequence = K + 1 /\ reader.offset = Boundary(written, K)
      /\ reader.expected = Successor(K)
  BY LenProperties DEF WalInv, Numbered, Standing
<1>2. /\ Boundary(written, K + 1) = Boundary(written, K) + Size(r)
      /\ \A i \in 1 .. Size(r) : Encoded(written)[Boundary(written, K) + i] = Framed(r)[i]
      /\ r \in FitRecord
  <2> DEFINE k == K + 1
  <2>1. k \in 1 .. Len(written) /\ k - 1 = K
    BY <1>1
  <2> HIDE DEF k, K
  <2>2. /\ Boundary(written, k) = Boundary(written, k - 1) + Size(written[k])
        /\ \A i \in 1 .. Size(written[k]) :
             Encoded(written)[Boundary(written, k - 1) + i] = Framed(written[k])[i]
        /\ written[k] \in FitRecord
    BY <1>1, <2>1, BoundaryStep
  <2> QED BY <2>1, <2>2 DEF k
<1>3. r \in AnyRecord
  BY <1>2 DEF FitRecord
<1>4. Size(r) \in Nat /\ Size(r) >= 9 /\ Size(r) % 3 = 0
  BY <1>3, SizeIsPositive
<1>5. Boundary(written, K + 1) <= Len(Encoded(written))
  BY <1>1, BoundaryEnds
<1>6. reader.expected = K + 1
  <2>1. MaxSequence \in Nat /\ K # MaxSequence
    BY <1>1, WalConstants
  <2> QED BY <1>1, <2>1 DEF Successor
<1> QED BY <1>1, <1>2, <1>3, <1>4, <1>5, <1>6

\* The file reaches to the end of every record that was acknowledged.
LEMMA AcknowledgedIsThere ==
  ASSUME WalInv, ~(acked <= Len(records))
  PROVE  /\ Len(records) < Len(written)
         /\ reader.offset + Size(written[Len(records) + 1]) <= Boundary(written, acked)
         /\ Boundary(written, acked) <= Len(file)
         /\ Len(file) \in Nat /\ Boundary(written, acked) \in Nat
<1> DEFINE K == Len(records)
<1>1. /\ written \in Seq(FitRecord) /\ Len(written) \in Nat /\ K \in Nat
      /\ acked \in 0 .. Len(written) /\ K \in 0 .. Len(written) /\ K < acked
      /\ K < Len(written)
  BY LenProperties DEF WalInv, Numbered
<1>2. Boundary(written, K + 1) <= Boundary(written, acked)
  <2> HIDE DEF K
  <2> QED BY <1>1, BoundaryGrows
<1>3. Boundary(written, acked) \in Nat
  BY <1>1, BoundaryEnds
<1>4. synced \in 0 .. Len(file) /\ Len(file) \in Nat /\ Boundary(written, acked) <= synced
  BY LenProperties DEF WalInv, WalTyped, Survives
<1>5. reader.offset + Size(written[K + 1]) = Boundary(written, K + 1)
  BY <1>1, NextRecord
<1> QED BY <1>1, <1>2, <1>3, <1>4, <1>5

\* No acknowledged record is at the end of the file, or cut short within its header.
LEMMA NoHeaderIsCut ==
  ASSUME WalInv, reader.header = <<>>, reader.got < HeaderLen, Position = Len(file)
  PROVE  acked <= Len(records)
<1>1. SUFFICES ASSUME ~(acked <= Len(records)) PROVE FALSE
  OBVIOUS
<1> DEFINE n == Size(written[Len(records) + 1])
           p == reader.offset
           g == reader.got
<1>2. p + n <= Boundary(written, acked) /\ Boundary(written, acked) <= Len(file)
      /\ Len(file) \in Nat /\ Boundary(written, acked) \in Nat /\ Len(records) < Len(written)
  BY <1>1, AcknowledgedIsThere
<1>3. n \in Nat /\ n >= 9
  BY <1>2, NextRecord
<1>4. p \in Nat /\ g \in Nat /\ g < 8 /\ p + g = Len(file)
  BY GotCells DEF Position, HeaderLen
<1> HIDE DEF n, p, g
<1> QED BY <1>2, <1>3, <1>4

\* Nor within its body: damage to the length of a record would have to fit the length
\* of its payload, which is in another cell.
LEMMA NoBodyIsCut ==
  ASSUME WalInv, reader.header # <<>>, reader.got < Wanted, Position = Len(file)
  PROVE  acked <= Len(records)
<1>1. SUFFICES ASSUME ~(acked <= Len(records)) PROVE FALSE
  OBVIOUS
<1> DEFINE r == written[Len(records) + 1]
           len == Len(r.payload)
           n == Value(reader.header[5])
           p == reader.offset
           g == reader.got
           B == Boundary(written, acked)
           O == Encoded(written)
<1>2. p + Size(r) <= B /\ B <= Len(file) /\ Len(file) \in Nat /\ B \in Nat
      /\ Len(records) < Len(written)
  BY <1>1, AcknowledgedIsThere
<1>3. /\ r \in AnyRecord /\ Size(r) \in Nat /\ Size(r) >= 9 /\ Size(r) % 3 = 0
      /\ \A i \in 1 .. Size(r) : O[p + i] = Framed(r)[i]
  BY <1>2, NextRecord
<1>4. /\ Len(reader.header) = 8 /\ n \in 9 .. 24 /\ n % 3 = 0
      /\ n = RecordLen(Value(reader.header[6])) /\ Wanted = n - 8
      /\ n = Value(file[p + 5]) /\ reader.header[6] = file[p + 6]
  BY HeldHeader
<1>5. p \in Nat /\ g \in Nat /\ g < n - 8 /\ p + 8 + g = Len(file)
  BY GotCells, <1>4 DEF Position
<1>6. len \in Nat /\ Size(r) = RecordLen(len)
  BY <1>3, SizeIsPositive DEF Size
<1>7. Framed(r)[5] = Cell(Size(r)) /\ Framed(r)[6] = Cell(len)
  BY <1>3, FramedIsFrame DEF IsFrame
<1> HIDE DEF r, len, n, p, g, B, O
<1>8. O[p + 5] = Cell(Size(r)) /\ O[p + 6] = Cell(len)
  BY <1>3, <1>7
<1>9. Value(O[p + 5]) = Size(r) /\ Value(O[p + 6]) = len
  BY <1>3, <1>6, <1>8, CellOfNumber
<1>10. PICK d \in Nat : Original(d)
  BY DEF WalInv, Survives
<1>11. ASSUME NEW i \in 5 .. 6
       PROVE  file[p + i] = O[p + i] \/ (p + i = d /\ Altered(file[p + i], O[p + i]))
  <2>1. p + i \in 1 .. Len(file) /\ ~(p + i > B)
    <3>1. p \in Nat /\ Size(r) \in Nat /\ Size(r) >= 9 /\ B \in Nat /\ Len(file) \in Nat
          /\ p + Size(r) <= B /\ B <= Len(file)
      BY <1>2, <1>3, <1>5
    <3> QED BY ONLY <3>1, i \in 5 .. 6
  <2> QED BY <1>10, <2>1 DEF Original, B, O
<1>12. n # Size(r)
  BY <1>2, <1>3, <1>4, <1>5
<1>13. file[p + 5] # O[p + 5]
  BY <1>4, <1>9, <1>12
<1>14. p + 5 = d /\ Altered(file[p + 5], O[p + 5])
  BY <1>11, <1>13
<1>15. file[p + 6] = O[p + 6]
  <2>1. p + 6 # d
    BY <1>5, <1>14
  <2> QED BY <1>11, <2>1
<1>16. n = RecordLen(len)
  BY <1>4, <1>9, <1>15
<1> QED BY <1>6, <1>12, <1>16

\* Cells behind what was read were written for a record.
LEMMA NextIsThere ==
  ASSUME WalInv, reader.offset < Len(file)
  PROVE  Len(records) < Len(written)
<1>1. SUFFICES ASSUME ~(Len(records) < Len(written)) PROVE FALSE
  OBVIOUS
<1>2. /\ written \in Seq(FitRecord) /\ Len(written) \in Nat /\ Len(records) \in Nat
      /\ Len(records) = Len(written) /\ reader.offset = Boundary(written, Len(records))
  BY <1>1, LenProperties DEF WalInv, Numbered, Standing
<1>3. Boundary(written, Len(written)) = Len(Encoded(written)) /\ Len(Encoded(written)) \in Nat
  BY <1>2, BoundaryEnds, EncodedType
<1>4. Len(file) \in Nat /\ Len(file) <= Len(Encoded(written))
  BY LenProperties DEF WalInv, WalTyped, Survives
<1> QED BY <1>2, <1>3, <1>4

\* A header at a boundary has no fault when nothing happened to the file.
LEMMA IntactHeader ==
  ASSUME WalInv, hurt \subseteq {"Read"}, reader.header = <<>>, reader.got = HeaderLen
  PROVE  HeaderFault(Got, reader.expected) = "None"
<1> DEFINE p == reader.offset
           r == written[Len(records) + 1]
<1>1. /\ p \in Nat /\ Got \in Seq(CellType) /\ Len(Got) = 8
      /\ \A i \in 1 .. 8 : Got[i] = file[p + i]
  <2>1. /\ p \in Nat /\ Got \in Seq(CellType) /\ Len(Got) = 8
        /\ \A i \in 1 .. 8 : Got[i] = file[p + 0 + i]
    BY GotCells DEF HeaderLen
  <2> HIDE DEF p
  <2>2. \A i \in 1 .. 8 : p + 0 + i = p + i
    <3>1. p \in Nat
      BY <2>1
    <3> QED BY ONLY <3>1
  <2>3. \A i \in 1 .. 8 : Got[i] = file[p + i]
    BY <2>1, <2>2
  <2> QED BY <2>1, <2>3, Zenon
<1>2. p + 8 <= Len(file) /\ Len(file) \in Nat
  <2>1. p + 0 + 8 <= Len(file)
    BY DEF WalInv, Standing, Position, HeaderLen
  <2> QED BY <1>1, <2>1, LenProperties DEF WalInv, WalTyped
<1>3. Len(records) < Len(written)
  BY <1>1, <1>2, NextIsThere
<1>4. /\ r \in FitRecord /\ r.sequence = reader.expected /\ r.sequence # 0
      /\ Size(r) \in Nat /\ Size(r) >= 9
      /\ \A i \in 1 .. Size(r) : Encoded(written)[p + i] = Framed(r)[i]
  BY <1>3, NextRecord
<1>5. \A i \in 1 .. Len(file) : file[i] = Encoded(written)[i]
  BY DEF WalInv, Survives
<1> HIDE DEF p, r
<1>6. \A i \in 1 .. 8 : Got[i] = Framed(r)[i]
  <2>1. \A i \in 1 .. 8 : p + i \in 1 .. Len(file) /\ i \in 1 .. Size(r)
    <3>1. /\ p \in Nat /\ p + 8 <= Len(file) /\ Len(file) \in Nat
          /\ Size(r) \in Nat /\ Size(r) >= 9
      BY <1>1, <1>2, <1>4
    <3> QED BY ONLY <3>1
  <2> QED BY <2>1, <1>1, <1>4, <1>5
<1>7. Got \in Seq(CellType) /\ Len(Got) = 8 /\ r \in FitRecord /\ r.sequence # 0
  BY <1>1, <1>4
<1>8. HeaderFault(Got, r.sequence) = "None"
  BY <1>6, <1>7, FrameIsAccepted
<1> QED BY <1>4, <1>8

\* Nor has the body of a record.
LEMMA IntactBody ==
  ASSUME WalInv, hurt \subseteq {"Read"}, reader.header # <<>>, reader.got = Wanted
  PROVE  BodyFault(reader.header, Got) = "None"
<1> DEFINE p == reader.offset
           r == written[Len(records) + 1]
           H == reader.header
           n == Value(reader.header[5])
<1>1. /\ Len(H) = 8 /\ n \in 9 .. 24 /\ Wanted = n - 8
      /\ \A i \in 1 .. 8 : H[i] = file[p + i]
  BY HeldHeader
<1>2. /\ p \in Nat /\ Got \in Seq(CellType) /\ Len(Got) = n - 8
      /\ \A i \in 1 .. n - 8 : Got[i] = file[p + 8 + i]
  BY <1>1, GotCells
<1>3. p + n <= Len(file) /\ Len(file) \in Nat /\ H \in Seq(CellType)
  <2>1. p + 8 + (n - 8) <= Len(file)
    BY <1>1 DEF WalInv, Standing, Position
  <2>2. p + 8 + (n - 8) = p + n
    <3>1. p \in Nat /\ n \in 9 .. 24
      BY <1>1, <1>2
    <3> HIDE DEF p, n
    <3> QED BY ONLY <3>1
  <2> QED BY <2>1, <2>2, LenProperties DEF WalInv, WalTyped
<1>4. p < Len(file)
  <2>1. p \in Nat /\ n \in 9 .. 24 /\ p + n <= Len(file) /\ Len(file) \in Nat
    BY <1>1, <1>2, <1>3
  <2> HIDE DEF p, n
  <2> QED BY ONLY <2>1
<1>5. Len(records) < Len(written)
  BY <1>4, NextIsThere
<1>6. /\ r \in FitRecord /\ r.sequence # 0
      /\ Size(r) \in Nat /\ Size(r) >= 9
      /\ \A i \in 1 .. Size(r) : Encoded(written)[p + i] = Framed(r)[i]
  BY <1>5, NextRecord
<1>7. \A i \in 1 .. Len(file) : file[i] = Encoded(written)[i]
  BY DEF WalInv, Survives
<1> HIDE DEF p, r, H, n
<1>8. \A i \in 1 .. 8 : H[i] = Framed(r)[i]
  <2>1. \A i \in 1 .. 8 : p + i \in 1 .. Len(file) /\ i \in 1 .. Size(r)
    <3>1. /\ p \in Nat /\ n \in 9 .. 24 /\ p + n <= Len(file) /\ Len(file) \in Nat
          /\ Size(r) \in Nat /\ Size(r) >= 9
      BY <1>1, <1>2, <1>3, <1>6
    <3> QED BY ONLY <3>1
  <2> QED BY <2>1, <1>1, <1>6, <1>7
<1>9. n = Size(r)
  <2>1. Value(H[5]) = Size(r)
    BY <1>1, <1>2, <1>3, <1>6, <1>8, FrameIsAccepted
  <2> QED BY <2>1 DEF n, H
<1>10. ASSUME NEW i \in 1 .. Size(r) - 8 PROVE Got[i] = Framed(r)[8 + i]
  <2>1. /\ i \in 1 .. n - 8 /\ 8 + i \in 1 .. Size(r) /\ p + 8 + i = p + (8 + i)
        /\ p + (8 + i) \in 1 .. Len(file)
    <3>1. p \in Nat /\ n \in 9 .. 24 /\ n = Size(r) /\ p + n <= Len(file) /\ Len(file) \in Nat
      BY <1>1, <1>2, <1>3, <1>9
    <3> QED BY ONLY <3>1, i \in 1 .. Size(r) - 8
  <2> QED BY <2>1, <1>2, <1>6, <1>7
<1>11. Len(Got) = Size(r) - 8
  BY <1>2, <1>9
<1>12. BodyFault(H, Got) = "None"
  BY <1>1, <1>2, <1>3, <1>6, <1>8, <1>10, <1>11, FrameIsAccepted
<1> QED BY <1>12 DEF H

-----------------------------------------------------------------------------
(* Every step keeps the invariant.                                          *)

\* A chunk that is read moves the reader within the file, and within what it wants.
LEMMA ReadChunkKeepsInv ==
  ASSUME WalInv, ReadChunk
  PROVE  WalInv'
<1> DEFINE rest == Min({Wanted - reader.got, Len(file) - Position})
<1>1. PICK n \in {rest} \cup (IF reader.got = 0 THEN {1} ELSE {}) :
        reader' = [reader EXCEPT !.got = @ + n]
  BY DEF ReadChunk
<1>2. /\ status = "Reading" /\ reader.got < Wanted /\ Position < Len(file)
      /\ UNCHANGED <<file, synced, status, records, written, acked, hurt>>
  BY DEF ReadChunk
<1>3. Wanted \in Nat /\ Position \in Nat /\ Len(file) \in Nat /\ reader.got \in Nat
  <2>1. Len(file) \in Nat /\ reader.got \in Nat /\ Position \in Nat
    BY GotCells, LenProperties DEF WalInv, WalTyped, Position
  <2>2. CASE reader.header = <<>>
    BY <2>1, <2>2 DEF Wanted, HeaderLen
  <2>3. CASE reader.header # <<>>
    <3>1. Wanted \in Nat
      BY <2>3, HeldHeader
    <3> QED BY <2>1, <3>1
  <2> QED BY <2>2, <2>3
<1>4. n \in Nat /\ reader.got + n <= Wanted /\ Position + n <= Len(file)
  <2>1. CASE n = 1
    BY <1>2, <1>3, <2>1
  <2>2. CASE n = rest
    <3> DEFINE S == {Wanted - reader.got, Len(file) - Position}
    <3>1. S \in SUBSET Nat /\ S # {}
      BY <1>2, <1>3
    <3> HIDE DEF S
    <3>2. Min(S) \in S /\ \A y \in S : Min(S) <= y
      BY <3>1, LeastNatural DEF Min
    <3>3. n \in Nat /\ n <= Wanted - reader.got /\ n <= Len(file) - Position
      BY <2>2, <3>1, <3>2 DEF S
    <3> QED BY <3>3, <1>3
  <2> QED BY <1>1, <2>1, <2>2
<1>5. /\ reader' \in [offset : Nat, expected : Nat, header : Seq(CellType), got : Nat]
      /\ reader'.offset = reader.offset /\ reader'.expected = reader.expected
      /\ reader'.header = reader.header /\ reader'.got = reader.got + n
  <2>1. reader \in [offset : Nat, expected : Nat, header : Seq(CellType), got : Nat]
    BY DEF WalInv, WalTyped
  <2>2. reader.got + n \in Nat
    BY <1>3, <1>4
  <2> QED BY ONLY <1>1, <2>1, <2>2
<1>6. Wanted' = Wanted /\ Position' = Position + n
  <2>1. Wanted' = Wanted
    BY <1>5 DEF Wanted, BodyLen
  <2>2. Position' = reader.offset + Len(reader.header) + (reader.got + n)
    BY <1>5 DEF Position
  <2>3. reader.offset \in Nat /\ Len(reader.header) \in Nat
    BY GotCells
  <2> DEFINE x == reader.offset
             y == Len(reader.header)
             g == reader.got
  <2>4. x + y + (g + n) = (x + y + g) + n
    <3>1. x \in Nat /\ y \in Nat /\ g \in Nat /\ n \in Nat
      BY <2>3, <1>3, <1>4
    <3> HIDE DEF x, y, g
    <3> QED BY ONLY <3>1
  <2> QED BY <2>1, <2>2, <2>4 DEF Position
<1>7. WalTyped' /\ Numbered'
  BY <1>2, <1>5 DEF WalInv, WalTyped, Numbered
<1>8. Standing'
  <2>1. Position' <= Len(file) /\ reader'.got <= Wanted'
    BY <1>4, <1>5, <1>6
  <2> QED BY <2>1, <1>2, <1>5 DEF WalInv, Standing, Boundary
<1>9. AtRest' /\ Survives'
  BY <1>2 DEF WalInv, AtRest, Survives, Original, Boundary
<1> QED BY <1>7, <1>8, <1>9 DEF WalInv

\* A recovery that is refused leaves everything but the status.
LEMMA RefuseKeepsInv ==
  ASSUME WalInv, Refuse, hurt' # {}, hurt' = hurt \/ hurt' = hurt \cup {"Read"}
  PROVE  WalInv'
<1>1. /\ status' = "Refused"
      /\ UNCHANGED <<file, synced, reader, records, written, acked>>
  BY DEF Refuse
<1>2. hurt' \subseteq {"Extend", "Damage", "Read"}
      /\ (hurt' \subseteq {"Read"} => hurt \subseteq {"Read"})
  BY DEF WalInv, WalTyped
<1>3. WalTyped' /\ Numbered'
  BY <1>1, <1>2 DEF WalInv, WalTyped, Numbered
<1>4. Standing'
  BY <1>1 DEF WalInv, Standing, Boundary, Position, Wanted
<1>5. AtRest'
  BY <1>1 DEF AtRest
<1>6. Survives'
  BY <1>1, <1>2 DEF WalInv, Survives, Original, Boundary
<1> QED BY <1>3, <1>4, <1>5, <1>6 DEF WalInv

\* A read that fails refuses the recovery.
LEMMA ReadFailsKeepsInv ==
  ASSUME WalInv, ReadFails
  PROVE  WalInv'
<1>1. Refuse /\ hurt' = hurt \cup {"Read"} /\ hurt' # {}
  BY DEF ReadFails
<1> QED BY <1>1, RefuseKeepsInv

\* Open begins to read.
LEMMA OpenKeepsInv ==
  ASSUME WalInv, Open
  PROVE  WalInv'
<1>1. /\ status' = "Reading"
      /\ UNCHANGED <<file, synced, reader, records, written, acked, hurt>>
  BY DEF Open
<1>2. WalTyped' /\ Numbered'
  BY <1>1 DEF WalInv, WalTyped, Numbered
<1>3. Standing'
  BY <1>1 DEF WalInv, Standing, Boundary, Position, Wanted
<1>4. AtRest'
  BY <1>1 DEF AtRest
<1>5. Survives'
  BY <1>1 DEF WalInv, Survives, Original, Boundary
<1> QED BY <1>2, <1>3, <1>4, <1>5 DEF WalInv

\* So does a step that changes nothing.
LEMMA StutterKeepsInv ==
  ASSUME WalInv, UNCHANGED rvars
  PROVE  WalInv'
<1>1. UNCHANGED <<file, synced, status, reader, records, written, acked, hurt>>
  BY DEF rvars
<1>2. WalTyped' /\ Numbered' /\ AtRest'
  BY <1>1 DEF WalInv, WalTyped, Numbered, AtRest
<1>3. Standing'
  BY <1>1 DEF WalInv, Standing, Boundary, Position, Wanted
<1>4. Survives'
  BY <1>1 DEF WalInv, Survives, Original, Boundary
<1> QED BY <1>2, <1>3, <1>4 DEF WalInv

\* A recovery that has read everything that was acknowledged ends with those records
\* and their cells.
LEMMA ReadyKeepsInv ==
  ASSUME WalInv, acked <= Len(records), Ready,
         file' = SubSeq(file, 1, reader.offset), synced' \in Nat,
         synced' <= reader.offset, Boundary(written, acked) <= synced'
  PROVE  WalInv'
<1> DEFINE p == reader.offset
           K == Len(records)
           O == Encoded(records)
<1>1. /\ status' = "Ready" /\ written' = records /\ hurt' = {} /\ records' = records
      /\ acked' = acked /\ reader' = [reader EXCEPT !.header = <<>>, !.got = 0]
  BY DEF Ready
<1>2. /\ written \in Seq(FitRecord) /\ records \in Seq(FitRecord)
      /\ records = SubSeq(written, 1, K) /\ K \in 0 .. Len(written) /\ K \in Nat
      /\ Len(written) <= MaxSequence /\ acked \in 0 .. K
      /\ \A k \in 1 .. Len(written) : written[k].sequence = k
      /\ Len(written) \in Nat
  BY LenProperties DEF WalInv, Numbered
<1>3. p = Boundary(written, K) /\ p \in Nat /\ p <= Len(file) /\ Len(file) \in Nat
      /\ file \in Seq(CellType)
  <2>1. p = Boundary(written, K) /\ file \in Seq(CellType) /\ Len(file) \in Nat
    BY LenProperties DEF WalInv, Standing, WalTyped
  <2>2. p \in Nat /\ Len(reader.header) \in Nat /\ reader.got \in Nat
    BY GotCells
  <2>3. p + Len(reader.header) + reader.got <= Len(file)
    BY DEF WalInv, Standing, Position
  <2> QED BY <2>1, <2>2, <2>3
<1>4. /\ O \in Seq(CellType) /\ Len(O) = p
      /\ \A i \in 1 .. p : Encoded(written)[i] = O[i]
  <2>1. /\ Encoded(SubSeq(written, 1, K)) \in Seq(CellType)
        /\ Len(Encoded(SubSeq(written, 1, K))) = Boundary(written, K)
        /\ \A i \in 1 .. Boundary(written, K) :
             Encoded(written)[i] = Encoded(SubSeq(written, 1, K))[i]
    BY <1>2, CellsOfPrefix
  <2> QED BY <2>1, <1>2, <1>3
<1>5. /\ file' \in Seq(CellType) /\ Len(file') = p
      /\ \A i \in 1 .. p : file'[i] = file[i]
  <2>1. p \in 0 .. Len(file) /\ 0 \in 0 .. p
    BY <1>3
  <2> HIDE DEF p
  <2>2. file' = SubSeq(file, 1, p)
    BY DEF p
  <2>3. /\ SubSeq(file, 1, p) \in Seq(CellType) /\ Len(SubSeq(file, 1, p)) = p
        /\ \A i \in 1 .. p : SubSeq(file, 1, p)[i] = file[i]
    <3>1. file \in Seq(CellType)
      BY <1>3
    <3> QED BY <2>1, <3>1, PrefixOfPrefix
  <2> QED BY <2>2, <2>3
<1>6. \A i \in 1 .. p : file'[i] = O[i]
  <2>1. \A i \in 1 .. p : file[i] = Encoded(written)[i]
    BY DEF WalInv, Standing
  <2> QED BY <2>1, <1>4, <1>5
<1>7. /\ reader' \in [offset : Nat, expected : Nat, header : Seq(CellType), got : Nat]
      /\ reader'.offset = p /\ reader'.expected = reader.expected
      /\ reader'.header = <<>> /\ reader'.got = 0
  <2>1. <<>> \in Seq(CellType)
    OBVIOUS
  <2> QED BY <1>1, <2>1 DEF WalInv, WalTyped
<1>8. /\ SubSeq(records, 1, K) = records
      /\ SubSeq(records, 1, acked) = SubSeq(written, 1, acked)
      /\ \A k \in 1 .. K : records[k] = written[k]
  <2>1. K \in 0 .. K
    BY <1>2
  <2> HIDE DEF K
  <2>2. /\ SubSeq(SubSeq(written, 1, K), 1, K) = SubSeq(written, 1, K)
        /\ SubSeq(SubSeq(written, 1, K), 1, acked) = SubSeq(written, 1, acked)
        /\ \A i \in 1 .. K : SubSeq(written, 1, K)[i] = written[i]
    BY <1>2, <2>1, PrefixOfPrefix
  <2> QED BY <1>2, <2>2
<1>9. Boundary(records, K) = p /\ Boundary(records, acked) = Boundary(written, acked)
  BY <1>4, <1>8 DEF Boundary
<1>10. WalTyped'
  BY <1>1, <1>3, <1>5, <1>7 DEF WalTyped
<1>11. Numbered'
  <2>1. \A k \in 1 .. K : k \in 1 .. Len(written)
    BY <1>2
  <2>2. \A k \in 1 .. K : records[k].sequence = k
    BY <1>2, <1>8, <2>1
  <2>3. K <= MaxSequence
    <3>1. MaxSequence \in Nat
      BY WalConstants
    <3> QED BY <1>2, <3>1
  <2> QED BY <1>1, <1>2, <1>8, <2>2, <2>3 DEF Numbered
<1>12. Standing'
  <2>1. reader.expected = Successor(K)
    BY DEF WalInv, Standing
  <2>2. Position' = p /\ Wanted' = 8
    BY <1>3, <1>7 DEF Position, Wanted, HeaderLen
  <2>3. reader'.offset = Boundary(written', Len(records'))
    BY <1>1, <1>7, <1>9
  <2>4. \A i \in 1 .. reader'.offset : file'[i] = Encoded(written')[i]
    BY <1>1, <1>6, <1>7
  <2>5. Position' <= Len(file') /\ reader'.got <= Wanted'
    BY <1>3, <1>5, <1>7, <2>2
  <2>6. reader'.expected = Successor(Len(records'))
    BY <1>1, <1>7, <2>1
  <2> QED BY <1>7, <2>3, <2>4, <2>5, <2>6 DEF Standing
<1>13. AtRest'
  BY <1>1, <1>4, <1>5, <1>7 DEF AtRest
<1>14. Survives'
  <2>1. Len(file') <= Len(Encoded(written'))
    BY <1>1, <1>3, <1>4, <1>5
  <2>2. (Boundary(written, acked))' <= synced'
    BY <1>1, <1>9 DEF Boundary
  <2>3. \A i \in 1 .. Len(file') : file'[i] = Encoded(written')[i]
    BY <1>1, <1>5, <1>6
  <2>4. Original(0)'
    BY <2>3 DEF Original
  <2>5. \E d \in Nat : Original(d)'
    BY <2>4
  <2> QED BY <2>1, <2>2, <2>3, <2>5 DEF Survives
<1> QED BY <1>10, <1>11, <1>12, <1>13, <1>14 DEF WalInv

\* What recovery does at the end of the file: it keeps what it has read.
LEMMA EndOfFileKeepsInv ==
  ASSUME WalInv, acked <= Len(records), Ready, UNCHANGED <<file, synced>>,
         reader.offset = Len(file)
  PROVE  WalInv'
<1>1. file \in Seq(CellType) /\ synced \in 0 .. Len(file) /\ Len(file) \in Nat
      /\ Boundary(written, acked) <= synced
  BY LenProperties DEF WalInv, WalTyped, Survives
<1>2. file' = SubSeq(file, 1, reader.offset)
  BY <1>1, SubSeqFull
<1> QED BY <1>1, <1>2, ReadyKeepsInv

\* And at a partial tail: it cuts the file behind what it has read.
LEMMA RepairKeepsInv ==
  ASSUME WalInv, acked <= Len(records), Repair
  PROVE  WalInv'
<1>1. file' = SubSeq(file, 1, reader.offset) /\ synced' = reader.offset /\ Ready
  BY DEF Repair
<1>2. reader.offset \in Nat
  BY GotCells
<1>3. Boundary(written, acked) <= reader.offset
  <2> DEFINE K == Len(records)
  <2>1. /\ written \in Seq(FitRecord) /\ K \in 0 .. Len(written) /\ acked \in 0 .. Len(written)
        /\ reader.offset = Boundary(written, K) /\ K \in Nat /\ acked \in Nat
    BY LenProperties DEF WalInv, Numbered, Standing
  <2> HIDE DEF K
  <2>2. CASE acked = K
    BY <1>2, <2>1, <2>2
  <2>3. CASE acked < K
    <3>1. Boundary(written, acked) + 9 <= Boundary(written, K)
          /\ Boundary(written, acked) \in Nat
      BY <2>1, <2>3, BoundaryGrows, BoundaryEnds
    <3> QED BY <3>1, <2>1, <1>2
  <2> QED BY <2>1, <2>2, <2>3 DEF K
<1> QED BY <1>1, <1>2, <1>3, ReadyKeepsInv

\* Reading a header: the end and a partial tail are never reached before what was
\* acknowledged, and a fault is a sign of damage.
LEMMA ReadHeaderKeepsInv ==
  ASSUME WalInv, ReadHeader
  PROVE  WalInv'
<1> DEFINE found == HeaderRead(Got, reader.expected)
           g == reader.got
<1>1. /\ status = "Reading" /\ reader.header = <<>> /\ (g = 8 \/ Position = Len(file))
      /\ IF found.kind # "Header" THEN Stop(found)
         ELSE /\ reader' = [reader EXCEPT !.header = Got, !.got = 0]
              /\ UNCHANGED <<file, synced, status, records, written, acked, hurt>>
  BY DEF ReadHeader, ReadFully, Wanted, HeaderLen
<1>2. /\ reader.offset \in Nat /\ g \in Nat /\ Got \in Seq(CellType) /\ Len(Got) = g
      /\ \A i \in 1 .. g : Got[i] = file[reader.offset + i]
  <2>1. Len(reader.header) = 0
    BY <1>1
  <2>2. /\ reader.offset \in Nat /\ g \in Nat /\ Got \in Seq(CellType) /\ Len(Got) = g
        /\ \A i \in 1 .. g : Got[i] = file[reader.offset + 0 + i]
    BY <2>1, GotCells
  <2> QED BY <2>2
<1>3. g <= 8
  BY <1>1 DEF WalInv, Standing, Wanted, HeaderLen
<1>4. /\ Got = <<>> => found.kind = "End"
      /\ Got # <<>> /\ Len(Got) < 8 => found.kind = "PartialTail"
      /\ Got # <<>> /\ ~(Len(Got) < 8) =>
           IF HeaderFault(Got, reader.expected) = "None" THEN found.kind = "Header"
           ELSE found.kind \notin {"End", "PartialTail", "Header"}
  BY HeaderReads DEF HeaderLen
<1>5. Position = reader.offset + g
  BY <1>1, <1>2 DEF Position
<1>6. Got = <<>> <=> g = 0
  BY <1>2, EmptySeq
<1> HIDE DEF found, g
<1>7. CASE g < 8
  <2>1. Position = Len(file) /\ reader.got < HeaderLen
    BY <1>1, <1>3, <1>7 DEF g, HeaderLen
  <2>2. acked <= Len(records)
    BY <1>1, <2>1, NoHeaderIsCut
  <2>3. CASE g = 0
    <3>1. found.kind = "End"
      BY <1>4, <1>6, <2>3
    <3>2. Ready /\ UNCHANGED <<file, synced>>
      BY <1>1, <3>1 DEF Stop
    <3>3. reader.offset = Len(file)
      BY <1>2, <1>5, <2>1, <2>3
    <3> QED BY <2>2, <3>2, <3>3, EndOfFileKeepsInv
  <2>4. CASE g # 0
    <3>1. found.kind = "PartialTail"
      BY <1>2, <1>4, <1>6, <1>7, <2>4
    <3>2. Repair
      BY <1>1, <3>1 DEF Stop
    <3> QED BY <2>2, <3>2, RepairKeepsInv
  <2> QED BY <2>3, <2>4
<1>8. CASE g = 8
  <2>1. Got # <<>> /\ ~(Len(Got) < 8) /\ Len(Got) = 8
    BY <1>2, <1>6, <1>8
  <2>2. CASE HeaderFault(Got, reader.expected) # "None"
    <3>1. found.kind \notin {"End", "PartialTail", "Header"}
      BY <1>4, <2>1, <2>2
    <3>2. Refuse /\ hurt' = hurt
      BY <1>1, <3>1 DEF Stop
    <3>3. hurt # {}
      <4>1. SUFFICES ASSUME hurt = {} PROVE FALSE
        OBVIOUS
      <4>2. hurt \subseteq {"Read"} /\ reader.got = HeaderLen
        BY <4>1, <1>8 DEF g, HeaderLen
      <4> QED BY <4>2, <1>1, <2>2, IntactHeader
    <3> QED BY <3>2, <3>3, RefuseKeepsInv
  <2>3. CASE HeaderFault(Got, reader.expected) = "None"
    <3>1. found.kind = "Header"
      BY <1>4, <2>1, <2>3
    <3>2. /\ reader' = [reader EXCEPT !.header = Got, !.got = 0]
          /\ UNCHANGED <<file, synced, status, records, written, acked, hurt>>
      BY <1>1, <3>1
    <3>3. /\ reader' \in [offset : Nat, expected : Nat, header : Seq(CellType), got : Nat]
          /\ reader'.offset = reader.offset /\ reader'.expected = reader.expected
          /\ reader'.header = Got /\ reader'.got = 0
      BY <1>2, <3>2 DEF WalInv, WalTyped
    <3>4. WalTyped' /\ Numbered'
      BY <3>2, <3>3 DEF WalInv, WalTyped, Numbered
    <3>5. Position' = Position
      <4>1. Position' = reader.offset + 8 + 0
        BY <2>1, <3>3 DEF Position
      <4>2. Position = reader.offset + 8
        BY <1>5, <1>8
      <4>3. reader.offset \in Nat
        BY <1>2
      <4> QED BY <4>1, <4>2, <4>3
    <3>6. reader'.got <= Wanted'
      <4> DEFINE h == [i \in 1 .. HeaderLen |-> Value(Got[i])]
      <4>1. IsGoodHeader(h, reader.expected)
        BY <2>3, HeaderWithoutFault
      <4>2. h[5] = Value(Got[5])
        BY DEF HeaderLen
      <4> HIDE DEF h
      <4>3. h[5] \in 9 .. 24
        BY <4>1 DEF IsGoodHeader, MinRecordLen, HeaderLen, ChecksumLen, FormatMaxRecordLen,
                    Alignment
      <4>4. Wanted' = h[5] - 8
        BY <2>1, <3>3, <4>2 DEF Wanted, BodyLen, HeaderLen
      <4>5. 0 <= h[5] - 8
        BY <4>3
      <4> QED BY <3>3, <4>4, <4>5
    <3>7. Standing'
      <4>1. Position' <= Len(file)
        BY <3>5 DEF WalInv, Standing
      <4>2. \A i \in 1 .. 8 : Got[i] = file[reader.offset + i]
        BY <1>2, <1>8
      <4> QED BY <4>1, <4>2, <2>1, <2>3, <3>2, <3>3, <3>6 DEF WalInv, Standing, Boundary, HeaderLen
    <3>8. AtRest' /\ Survives'
      BY <1>1, <3>2 DEF WalInv, AtRest, Survives, Original, Boundary
    <3> QED BY <3>4, <3>7, <3>8 DEF WalInv
  <2> QED BY <2>2, <2>3
<1> QED BY <1>2, <1>3, <1>7, <1>8

\* Reading a body: what is returned is the next record that was written.
LEMMA ReadBodyKeepsInv ==
  ASSUME WalInv, ReadBody
  PROVE  WalInv'
<1> DEFINE found == BodyRead(reader.header, Got)
           g == reader.got
           n == Value(reader.header[5])
           p == reader.offset
           K == Len(records)
           r == written[K + 1]
<1>1. /\ status = "Reading" /\ reader.header # <<>> /\ (g = Wanted \/ Position = Len(file))
      /\ IF found.kind # "Record" THEN Stop(found)
         ELSE /\ records' = Append(records, found.record)
              /\ reader' = Past(found.record)
              /\ UNCHANGED <<file, synced, status, written, acked, hurt>>
  BY DEF ReadBody, ReadFully
<1>2. /\ p \in Nat /\ g \in Nat /\ Got \in Seq(CellType) /\ Len(Got) = g
  BY GotCells
<1>3. /\ n \in 9 .. 24 /\ Wanted = n - 8 /\ BodyLen(reader.header) = n - 8
      /\ Len(reader.header) = 8
  BY <1>1, HeldHeader
<1>4. g <= n - 8
  BY <1>3 DEF WalInv, Standing
<1>5. /\ Len(Got) < n - 8 => found.kind = "PartialTail"
      /\ ~(Len(Got) < n - 8) =>
           IF BodyFault(reader.header, Got) = "None"
           THEN found.kind = "Record" /\ found.record = Read(reader.header, Got)
           ELSE found.kind \notin {"End", "PartialTail", "Record"}
  BY <1>3, BodyReads
<1> HIDE DEF found, g, n, p
<1>6. CASE g < n - 8
  <2>1. Position = Len(file) /\ reader.got < Wanted
    BY <1>1, <1>2, <1>3, <1>6 DEF g
  <2>2. acked <= Len(records)
    BY <1>1, <2>1, NoBodyIsCut
  <2>3. found.kind = "PartialTail"
    BY <1>2, <1>5, <1>6
  <2>4. Repair
    BY <1>1, <2>3 DEF Stop
  <2> QED BY <2>2, <2>4, RepairKeepsInv
<1>7. CASE g = n - 8
  <2>1. ~(Len(Got) < n - 8) /\ reader.got = Wanted
    BY <1>2, <1>3, <1>7 DEF g
  <2>2. CASE BodyFault(reader.header, Got) # "None"
    <3>1. found.kind \notin {"End", "PartialTail", "Record"}
      BY <1>5, <2>1, <2>2
    <3>2. Refuse /\ hurt' = hurt
      BY <1>1, <3>1 DEF Stop
    <3>3. hurt # {}
      <4>1. SUFFICES ASSUME hurt = {} PROVE FALSE
        OBVIOUS
      <4>2. hurt \subseteq {"Read"}
        BY <4>1
      <4> QED BY <4>2, <1>1, <2>1, <2>2, IntactBody
    <3> QED BY <3>2, <3>3, RefuseKeepsInv
  <2>3. CASE BodyFault(reader.header, Got) = "None"
    <3>1. found.kind = "Record" /\ found.record = Read(reader.header, Got)
      BY <1>5, <2>1, <2>3
    <3>2. /\ K + 1 \in 1 .. Len(written) /\ n = Size(r) /\ found.record = r
          /\ \A i \in 1 .. n : file[p + i] = Encoded(written)[p + i]
      BY <1>1, <2>1, <2>3, <3>1, AcceptedIsWritten DEF n, p
    <3>3. /\ records' = Append(records, r) /\ reader' = Past(r)
          /\ UNCHANGED <<file, synced, status, written, acked, hurt>>
      BY <1>1, <3>1, <3>2
    <3>4. /\ written \in Seq(FitRecord) /\ Len(written) \in Nat /\ K \in Nat
          /\ records = SubSeq(written, 1, K) /\ Len(records) < Len(written)
      <4>1. written \in Seq(FitRecord) /\ Len(written) \in Nat /\ K \in Nat
            /\ records = SubSeq(written, 1, K)
        BY LenProperties DEF WalInv, Numbered
      <4> HIDE DEF r
      <4> QED BY <4>1, <3>2
    <3>5. /\ r \in FitRecord /\ r.sequence = K + 1 /\ Size(r) \in Nat
          /\ p + Size(r) = Boundary(written, K + 1)
      BY <3>4, NextRecord DEF p
    <3>6. /\ reader'.offset = p + n /\ reader'.expected = Successor(K + 1)
          /\ reader'.header = <<>> /\ reader'.got = 0
          /\ reader' = [offset |-> p + n, expected |-> Successor(K + 1),
                        header |-> <<>>, got |-> 0]
      BY <3>2, <3>3, <3>5 DEF Past, Size, p
    <3>7. Successor(K + 1) \in Nat
      BY <3>4 DEF Successor, NoSequence
    <3>8. WalTyped'
      <4>1. reader' \in [offset : Nat, expected : Nat, header : Seq(CellType), got : Nat]
        <5>1. <<>> \in Seq(CellType) /\ p + n \in Nat
          BY <1>2, <1>3
        <5> QED BY <3>6, <3>7, <5>1
      <4> QED BY <3>3, <4>1 DEF WalInv, WalTyped
    <3>9. records' = SubSeq(written, 1, K + 1) /\ records' \in Seq(FitRecord)
          /\ Len(records') = K + 1
      <4> DEFINE k == K + 1
      <4>1. k \in 1 .. Len(written) /\ k - 1 = K
        BY <3>2, <3>4
      <4>2. records \in Seq(FitRecord)
        BY DEF WalInv, Numbered
      <4>3. records' = Append(SubSeq(written, 1, K), written[k])
        BY <3>3, <3>4
      <4>4. Len(records') = K + 1 /\ records' \in Seq(FitRecord)
        BY <4>2, <3>3, <3>5, AppendProperties
      <4> HIDE DEF k, K
      <4>5. SubSeq(written, 1, k) = Append(SubSeq(written, 1, k - 1), written[k])
        BY <4>1, <3>4, PrefixExtends
      <4>6. records' = SubSeq(written, 1, k)
        BY <4>1, <4>3, <4>5
      <4> QED BY <4>4, <4>6 DEF k
    <3>10. Numbered'
      <4> HIDE DEF K, r
      <4>1. Len(records') <= Len(written')
        BY <3>2, <3>3, <3>4, <3>9
      <4>2. records' = SubSeq(written', 1, Len(records'))
        BY <3>3, <3>9
      <4> QED BY <4>1, <4>2, <3>3, <3>9 DEF WalInv, Numbered
    <3>11. Standing'
      <4>1. Position' = p + n
        BY <1>2, <1>3, <3>6 DEF Position
      <4>2. p + n <= Len(file)
        <5>1. p + 8 + (n - 8) <= Len(file)
          BY <1>3, <1>7 DEF WalInv, Standing, Position, g, p
        <5>2. p + 8 + (n - 8) = p + n
          BY <1>2, <1>3
        <5> QED BY <5>1, <5>2
      <4>3. reader'.got <= Wanted'
        BY <3>6 DEF Wanted, HeaderLen
      <4>4. reader'.offset = Boundary(written', Len(records'))
        BY <3>2, <3>3, <3>5, <3>6, <3>9 DEF Boundary
      <4>5. ASSUME NEW i \in 1 .. p + n PROVE file[i] = Encoded(written)[i]
        <5>1. CASE i \in 1 .. p
          BY <5>1 DEF WalInv, Standing, p
        <5>2. CASE i \in p + 1 .. p + n
          <6> DEFINE j == i - p
          <6>1. j \in 1 .. n /\ p + j = i
            BY <1>2, <1>3, <5>2
          <6> HIDE DEF j, r
          <6> QED BY <6>1, <3>2
        <5> QED BY <5>1, <5>2, <1>2, <1>3
      <4>6. \A i \in 1 .. reader'.offset : file'[i] = Encoded(written')[i]
        BY <3>3, <3>6, <4>5
      <4>7. reader'.expected = Successor(Len(records'))
        BY <3>6, <3>9
      <4> QED BY <4>1, <4>2, <4>3, <4>4, <4>6, <4>7, <3>3, <3>6 DEF Standing
    <3>12. AtRest' /\ Survives'
      BY <1>1, <3>3 DEF WalInv, AtRest, Survives, Original, Boundary
    <3> QED BY <3>8, <3>10, <3>11, <3>12 DEF WalInv
  <2> QED BY <2>2, <2>3
<1> QED BY <1>2, <1>3, <1>4, <1>6, <1>7

\* When the log is ready, the file holds the records that were read or written, and
\* the reader stands at its end.
LEMMA ReadyFile ==
  ASSUME WalInv, status = "Ready"
  PROVE  /\ written = records /\ written \in Seq(FitRecord) /\ Len(written) \in Nat
         /\ file = Encoded(written) /\ file \in Seq(CellType)
         /\ reader.offset = Len(file) /\ reader.header = <<>> /\ reader.got = 0
         /\ hurt = {} /\ reader.expected = Successor(Len(written))
<1>1. /\ written = records /\ written \in Seq(FitRecord) /\ Len(written) \in Nat
      /\ Len(file) = Len(Encoded(written)) /\ hurt = {}
      /\ reader.header = <<>> /\ reader.got = 0
  BY LenProperties DEF WalInv, AtRest, Numbered
<1>2. \A i \in 1 .. Len(file) : file[i] = Encoded(written)[i]
  BY <1>1 DEF WalInv, Survives
<1>3. file \in Seq(CellType) /\ Encoded(written) \in Seq(CellType)
  BY <1>1, EncodedType DEF WalInv, WalTyped
<1>4. file = Encoded(written)
  BY <1>1, <1>2, <1>3, SeqEqual
<1>5. reader.offset = Boundary(written, Len(written)) /\ reader.expected = Successor(Len(written))
  BY <1>1 DEF WalInv, Standing
<1>6. reader.offset = Len(file)
  BY <1>1, <1>5, BoundaryEnds
<1> QED BY <1>1, <1>3, <1>4, <1>5, <1>6

\* The records of a group that is accepted fit, and are numbered from the next sequence.
LEMMA GroupIsNumbered ==
  ASSUME reader.expected \in Nat,
         NEW payloads \in Groups, NEW timestamp \in Timestamp,
         Accepted(GroupOf(payloads, timestamp))
  PROVE  /\ GroupOf(payloads, timestamp) \in Seq(FitRecord)
         /\ Len(GroupOf(payloads, timestamp)) \in Nat \ {0}
         /\ \A i \in 1 .. Len(GroupOf(payloads, timestamp)) :
              GroupOf(payloads, timestamp)[i].sequence = reader.expected + i - 1
<1> DEFINE group == GroupOf(payloads, timestamp)
           e == reader.expected
<1>1. PICK k \in 1 .. MaxGroup : payloads \in [1 .. k -> Payload]
  BY DEF Groups
<1>2. k \in Nat \ {0}
  BY <1>1, WalConstants
<1>3. group = [i \in 1 .. k |-> Record(e + i - 1, timestamp, payloads[i])]
  BY <1>1 DEF GroupOf
<1>4. e \in Nat \ {0}
  BY DEF Accepted, NoSequence
<1>5. \A i \in 1 .. k : FitsFormat(group[i]) /\ FitsLimit(group[i])
  BY <1>3 DEF Accepted
<1>6. ASSUME NEW i \in 1 .. k PROVE group[i] \in FitRecord /\ group[i].sequence = e + i - 1
  <2>1. group[i] = [sequence |-> e + i - 1, timestamp |-> timestamp, payload |-> payloads[i]]
    BY <1>3 DEF Record
  <2>2. payloads[i] \in Seq(Nat) /\ timestamp \in Int
    BY <1>1, WalData
  <2>3. e + i - 1 \in Nat
    BY <1>4, <1>2
  <2> HIDE DEF group
  <2>4. group[i] \in AnyRecord
    BY <2>1, <2>2, <2>3 DEF AnyRecord
  <2>5. group[i].sequence = e + i - 1
    BY <2>1
  <2> QED BY <2>4, <2>5, <1>5 DEF FitRecord
<1> HIDE DEF group
<1>7. group \in Seq(FitRecord) /\ Len(group) = k
  <2>1. group = [i \in 1 .. k |-> group[i]]
    BY <1>3
  <2>2. group \in [1 .. k -> FitRecord]
    BY <2>1, <1>6
  <2> QED BY <2>2, <1>2
<1> QED BY <1>2, <1>6, <1>7 DEF group

\* What is appended leaves the prefixes of a sequence.
LEMMA PrefixOfConcat ==
  ASSUME NEW S, NEW s \in Seq(S), NEW t \in Seq(S), NEW k \in 0 .. Len(s)
  PROVE  SubSeq(s \o t, 1, k) = SubSeq(s, 1, k)
<1> DEFINE w == s \o t
<1>1. w \in Seq(S) /\ IsJoin(w, s, t)
  BY Joined
<1>2. Len(s) \in Nat /\ Len(t) \in Nat
  BY LenProperties
<1> HIDE DEF w
<1>3. Len(w) = Len(s) + Len(t) /\ \A i \in 1 .. Len(s) : w[i] = s[i]
  BY <1>1 DEF IsJoin
<1>4. k \in 0 .. Len(w) /\ 0 \in 0 .. k
  BY <1>2, <1>3
<1>5. /\ SubSeq(w, 1, k) \in Seq(S) /\ Len(SubSeq(w, 1, k)) = k
      /\ \A i \in 1 .. k : SubSeq(w, 1, k)[i] = w[i]
  BY <1>1, <1>4, PrefixOfPrefix
<1>6. /\ SubSeq(s, 1, k) \in Seq(S) /\ Len(SubSeq(s, 1, k)) = k
      /\ \A i \in 1 .. k : SubSeq(s, 1, k)[i] = s[i]
  BY <1>4, PrefixOfPrefix
<1>7. \A i \in 1 .. k : SubSeq(w, 1, k)[i] = SubSeq(s, 1, k)[i]
  <2>1. \A i \in 1 .. k : i \in 1 .. Len(s)
    BY <1>2
  <2> QED BY <1>3, <1>5, <1>6, <2>1
<1> QED BY <1>5, <1>6, <1>7, SeqEqual DEF w

\* A group continues the log: its records are the next ones, and its cells come next.
Continues(group) ==
  LET w == written \o group
      K == Len(written)
  IN  /\ Len(group) \in Nat \ {0} /\ w \in Seq(FitRecord) /\ Len(w) = K + Len(group)
      /\ Len(w) <= MaxSequence /\ \A k \in 1 .. Len(w) : w[k].sequence = k
      /\ Last(group).sequence = Len(w)
      /\ \A k \in 0 .. K : SubSeq(w, 1, k) = SubSeq(written, 1, k)
      /\ Encoded(group) \in Seq(CellType) /\ Encoded(w) \in Seq(CellType)
      /\ IsJoin(Encoded(w), file, Encoded(group)) /\ Encoded(w) = file \o Encoded(group)

\* A group that is accepted continues the log.
LEMMA GroupContinues ==
  ASSUME WalInv, status = "Ready",
         NEW payloads \in Groups, NEW timestamp \in Timestamp,
         Accepted(GroupOf(payloads, timestamp))
  PROVE  Continues(GroupOf(payloads, timestamp))
<1> DEFINE group == GroupOf(payloads, timestamp)
           w == written \o group
           bytes == Encoded(group)
           L == Len(group)
           K == Len(written)
<1>1. /\ written \in Seq(FitRecord) /\ K \in Nat /\ file = Encoded(written)
      /\ file \in Seq(CellType) /\ reader.expected = Successor(K)
  BY ReadyFile
<1>2. K <= MaxSequence /\ \A k \in 1 .. K : written[k].sequence = k
  BY DEF WalInv, Numbered
<1>3. MaxSequence \in Nat \ {0} /\ reader.expected \in Nat
  BY WalConstants DEF WalInv, WalTyped
<1>4. /\ group \in Seq(FitRecord) /\ L \in Nat \ {0}
      /\ \A i \in 1 .. L : group[i].sequence = reader.expected + i - 1
  BY <1>3, GroupIsNumbered
<1>5. reader.expected = K + 1 /\ reader.expected + L - 1 <= MaxSequence
  <2>1. reader.expected # 0 /\ reader.expected + L - 1 <= MaxSequence
    BY DEF Accepted, NoSequence
  <2> QED BY <1>1, <2>1 DEF Successor, NoSequence
<1>6. Last(group) = group[L]
  BY DEF Last
<1> HIDE DEF group
<1>7. w \in Seq(FitRecord) /\ IsJoin(w, written, group)
  BY <1>1, <1>4, Joined DEF group
<1>8. /\ Len(w) = K + L /\ \A i \in 1 .. K : w[i] = written[i]
      /\ \A i \in 1 .. L : w[K + i] = group[i]
  BY <1>7 DEF IsJoin, group
<1>9. Len(w) <= MaxSequence
  BY <1>1, <1>3, <1>4, <1>5, <1>8
<1>10. ASSUME NEW k \in 1 .. Len(w) PROVE w[k].sequence = k
  <2>1. CASE k <= K
    <3>1. k \in 1 .. K
      BY <2>1, <1>1
    <3> QED BY <3>1, <1>2, <1>8
  <2>2. CASE ~(k <= K)
    <3> DEFINE j == k - K
    <3>1. j \in 1 .. L /\ k = K + j /\ (K + 1) + j - 1 = k
      BY <2>2, <1>1, <1>4, <1>8
    <3> HIDE DEF j
    <3>2. w[K + j].sequence = reader.expected + j - 1
      BY <3>1, <1>4, <1>8
    <3> QED BY <3>1, <3>2, <1>5
  <2> QED BY <2>1, <2>2
<1>11. Last(group).sequence = Len(w)
  <2>1. L \in 1 .. L /\ (K + 1) + L - 1 = K + L
    BY <1>1, <1>4
  <2> QED BY <2>1, <1>4, <1>5, <1>6, <1>8
<1>12. \A k \in 0 .. K : SubSeq(w, 1, k) = SubSeq(written, 1, k)
  BY <1>1, <1>4, PrefixOfConcat DEF group
<1>13. bytes \in Seq(CellType) /\ Encoded(w) \in Seq(CellType)
  BY <1>4, <1>7, EncodedType DEF group
<1>14. Encoded(w) = file \o bytes
  BY <1>1, <1>4, EncodedConcat DEF group
<1>15. IsJoin(Encoded(w), file, bytes)
  BY <1>1, <1>13, <1>14, Joined
<1>16. Continues(group)
  BY <1>4, <1>7, <1>8, <1>9, <1>10, <1>11, <1>12, <1>13, <1>14, <1>15 DEF Continues
<1> QED BY <1>16 DEF group

\* A group that is acknowledged extends the file by its records.
LEMMA AppendGroupKeepsInv ==
  ASSUME WalInv, status = "Ready",
         NEW payloads \in Groups, NEW timestamp \in Timestamp,
         Accepted(GroupOf(payloads, timestamp)),
         AppendGroup(GroupOf(payloads, timestamp), Encoded(GroupOf(payloads, timestamp)))
  PROVE  WalInv'
<1> DEFINE group == GroupOf(payloads, timestamp)
           w == written \o group
           bytes == Encoded(group)
           L == Len(group)
           K == Len(written)
<1>1. /\ written = records /\ file \in Seq(CellType) /\ reader.offset = Len(file)
      /\ reader.header = <<>> /\ reader.got = 0 /\ hurt = {}
  BY ReadyFile
<1>2. /\ file' = file \o bytes /\ synced' = Len(file') /\ written' = w
      /\ records' = records \o group /\ acked' = Len(written')
      /\ reader' = [reader EXCEPT !.offset = @ + Len(bytes),
                                  !.expected = Successor(Last(group).sequence)]
      /\ status' = status /\ hurt' = hurt
  BY DEF AppendGroup
<1>3. /\ L \in Nat \ {0} /\ w \in Seq(FitRecord) /\ Len(w) = K + L
      /\ Len(w) <= MaxSequence /\ \A k \in 1 .. Len(w) : w[k].sequence = k
      /\ Last(group).sequence = Len(w)
      /\ bytes \in Seq(CellType) /\ Encoded(w) \in Seq(CellType)
      /\ IsJoin(Encoded(w), file, bytes) /\ Encoded(w) = file \o bytes
  <2>1. Continues(group)
    BY GroupContinues
  <2> HIDE DEF group
  <2> QED BY <2>1 DEF Continues
<1> HIDE DEF group, w, bytes, L
<1>4. /\ Len(w) \in Nat /\ Len(file) \in Nat /\ Len(bytes) \in Nat
      /\ Len(Encoded(w)) \in Nat
  BY <1>1, <1>3, LenProperties
<1>5. /\ file' = Encoded(w) /\ records' = w /\ written' = w /\ acked' = Len(w)
      /\ Len(file') = Len(file) + Len(bytes) /\ synced' = Len(Encoded(w))
  BY <1>1, <1>2, <1>3 DEF w, IsJoin
<1>6. Successor(Len(w)) \in Nat
  BY <1>4, WalConstants DEF Successor, NoSequence
<1>7. /\ reader' \in [offset : Nat, expected : Nat, header : Seq(CellType), got : Nat]
      /\ reader'.offset = Len(Encoded(w)) /\ reader'.expected = Successor(Len(w))
      /\ reader'.header = <<>> /\ reader'.got = 0
  <2>1. reader \in [offset : Nat, expected : Nat, header : Seq(CellType), got : Nat]
    BY DEF WalInv, WalTyped
  <2>2. reader'.offset = Len(file) + Len(bytes)
    BY <1>1, <1>2, <2>1
  <2>3. Len(file) + Len(bytes) = Len(Encoded(w))
    BY <1>5
  <2>4. reader' = [reader EXCEPT !.offset = Len(Encoded(w)), !.expected = Successor(Len(w))]
    BY <1>1, <1>2, <1>3, <2>1, <2>3
  <2> QED BY <1>1, <1>4, <1>6, <2>1, <2>4
<1>8. /\ SubSeq(w, 1, Len(w)) = w /\ Boundary(w, Len(w)) = Len(Encoded(w))
  BY <1>3, SubSeqFull, BoundaryEnds
<1>9. WalTyped'
  BY <1>1, <1>2, <1>3, <1>4, <1>5, <1>7 DEF WalInv, WalTyped
<1>10. Numbered'
  <2>1. Len(w) \in 0 .. Len(w) /\ Len(w) <= Len(w)
    BY <1>4
  <2> QED BY <1>3, <1>5, <1>8, <2>1 DEF Numbered
<1>11. Standing'
  <2>1. reader'.offset = (Boundary(written, Len(records)))'
    BY <1>5, <1>7, <1>8 DEF Boundary
  <2>2. Position' = Len(Encoded(w)) + 0 + 0 /\ Wanted' = 8
    BY <1>7 DEF Position, Wanted, HeaderLen
  <2>3. Position' <= Len(file') /\ reader'.got <= Wanted'
    BY <1>4, <1>5, <1>7, <2>2
  <2> QED BY <1>5, <1>7, <2>1, <2>3 DEF Standing
<1>12. AtRest'
  BY <1>1, <1>2, <1>5, <1>7 DEF AtRest
<1>13. Survives'
  <2>1. Len(Encoded(w)) <= Len(Encoded(w))
    BY <1>4
  <2>2. (Boundary(written, acked))' <= synced'
    BY <1>5, <1>8, <2>1 DEF Boundary
  <2>3. Original(0)'
    BY <1>5 DEF Original
  <2>4. \E d \in Nat : Original(d)'
    BY <2>3
  <2> QED BY <1>5, <2>1, <2>2, <2>4 DEF Survives
<1> QED BY <1>9, <1>10, <1>11, <1>12, <1>13 DEF WalInv

\* Of a group that is not acknowledged a beginning may be in the file.
LEMMA AppendFailsKeepsInv ==
  ASSUME WalInv, status = "Ready",
         NEW payloads \in Groups, NEW timestamp \in Timestamp,
         Accepted(GroupOf(payloads, timestamp)),
         AppendFails(GroupOf(payloads, timestamp), Encoded(GroupOf(payloads, timestamp)))
  PROVE  WalInv'
<1> DEFINE group == GroupOf(payloads, timestamp)
           w == written \o group
           bytes == Encoded(group)
           L == Len(group)
           K == Len(written)
<1>1. /\ written = records /\ file \in Seq(CellType) /\ reader.offset = Len(file)
      /\ reader.header = <<>> /\ reader.got = 0 /\ hurt = {} /\ K \in Nat
      /\ written \in Seq(FitRecord) /\ reader.expected = Successor(K)
  BY ReadyFile
<1>2. PICK n \in 0 .. Len(bytes) : file' = file \o SubSeq(bytes, 1, n)
  BY DEF AppendFails
<1>3. /\ status' = "Poisoned" /\ written' = w
      /\ UNCHANGED <<synced, reader, records, acked, hurt>>
  BY DEF AppendFails
<1>4. /\ L \in Nat \ {0} /\ w \in Seq(FitRecord) /\ Len(w) = K + L
      /\ Len(w) <= MaxSequence /\ \A k \in 1 .. Len(w) : w[k].sequence = k
      /\ \A k \in 0 .. K : SubSeq(w, 1, k) = SubSeq(written, 1, k)
      /\ bytes \in Seq(CellType) /\ Encoded(w) \in Seq(CellType)
      /\ IsJoin(Encoded(w), file, bytes)
  <2>1. Continues(group)
    BY GroupContinues
  <2> HIDE DEF group
  <2> QED BY <2>1 DEF Continues
<1>5. acked \in 0 .. K /\ synced \in 0 .. Len(file) /\ Boundary(written, acked) <= synced
  BY DEF WalInv, Numbered, WalTyped, Survives
<1> HIDE DEF group, w, bytes, L
<1>6. Len(file) \in Nat /\ Len(bytes) \in Nat /\ Len(w) \in Nat
  BY <1>1, <1>4, LenProperties
<1>7. /\ file' \in Seq(CellType) /\ Len(file') = Len(file) + n
      /\ \A i \in 1 .. Len(file') : file'[i] = Encoded(w)[i]
  <2> DEFINE part == SubSeq(bytes, 1, n)
  <2>1. 0 \in 0 .. n
    BY <1>2
  <2>2. part \in Seq(CellType) /\ Len(part) = n /\ \A i \in 1 .. n : part[i] = bytes[i]
    BY <1>2, <1>4, <2>1, PrefixOfPrefix
  <2> HIDE DEF part
  <2>3. file' \in Seq(CellType) /\ IsJoin(file', file, part)
    BY <1>1, <1>2, <2>2, Joined DEF part
  <2>4. /\ Len(file') = Len(file) + n /\ \A i \in 1 .. Len(file) : file'[i] = file[i]
        /\ \A i \in 1 .. n : file'[Len(file) + i] = bytes[i]
    BY <2>2, <2>3 DEF IsJoin
  <2>5. /\ \A i \in 1 .. Len(file) : Encoded(w)[i] = file[i]
        /\ \A i \in 1 .. Len(bytes) : Encoded(w)[Len(file) + i] = bytes[i]
    BY <1>4 DEF IsJoin
  <2>6. ASSUME NEW i \in 1 .. Len(file') PROVE file'[i] = Encoded(w)[i]
    <3>1. CASE i <= Len(file)
      <4>1. i \in 1 .. Len(file)
        BY <3>1, <1>6
      <4> QED BY <4>1, <2>4, <2>5
    <3>2. CASE ~(i <= Len(file))
      <4> DEFINE j == i - Len(file)
      <4>1. j \in 1 .. n /\ j \in 1 .. Len(bytes) /\ i = Len(file) + j
        BY <3>2, <1>2, <1>6, <2>4
      <4> HIDE DEF j
      <4> QED BY <4>1, <2>4, <2>5
    <3> QED BY <3>1, <3>2
  <2> QED BY <2>3, <2>4, <2>6
<1>8. Len(file') \in Nat /\ Len(file) <= Len(file') /\ Len(file') <= Len(Encoded(w))
  BY <1>2, <1>4, <1>6, <1>7 DEF IsJoin
<1>9. /\ SubSeq(w, 1, K) = written /\ SubSeq(w, 1, acked) = SubSeq(written, 1, acked)
      /\ Boundary(w, K) = Boundary(written, K) /\ Boundary(w, acked) = Boundary(written, acked)
      /\ Boundary(written, K) = Len(file)
  <2>1. SubSeq(w, 1, K) = SubSeq(written, 1, K)
        /\ SubSeq(w, 1, acked) = SubSeq(written, 1, acked)
    BY <1>1, <1>4, <1>5
  <2>2. SubSeq(written, 1, K) = written
    BY <1>1, SubSeqFull
  <2>3. Boundary(written, K) = Len(file)
    BY <1>1 DEF WalInv, Standing
  <2> QED BY <2>1, <2>2, <2>3 DEF Boundary
<1>10. WalTyped'
  BY <1>3, <1>5, <1>6, <1>7, <1>8 DEF WalInv, WalTyped
<1>11. Numbered'
  <2>1. Len(records) = K /\ K <= Len(w) /\ acked \in 0 .. Len(w)
    BY <1>1, <1>4, <1>5, <1>6
  <2> QED BY <2>1, <1>1, <1>3, <1>4, <1>9 DEF Numbered
<1>12. Standing'
  <2>1. reader'.offset = (Boundary(written, Len(records)))'
    BY <1>1, <1>3, <1>9 DEF Boundary
  <2>2. reader'.expected = Successor(Len(records'))
    BY <1>1, <1>3
  <2>3. Position' = Len(file) + 0 + 0 /\ Wanted' = 8 /\ reader'.got = 0
    BY <1>1, <1>3 DEF Position, Wanted, HeaderLen
  <2>4. Position' <= Len(file') /\ reader'.got <= Wanted'
    BY <1>6, <1>8, <2>3
  <2>5. \A i \in 1 .. reader'.offset : file'[i] = Encoded(written')[i]
    <3>1. \A i \in 1 .. Len(file) : i \in 1 .. Len(file')
      BY <1>6, <1>8
    <3> QED BY <3>1, <1>1, <1>3, <1>7
  <2> QED BY <1>1, <1>3, <2>1, <2>2, <2>4, <2>5 DEF Standing
<1>13. AtRest'
  BY <1>1, <1>3 DEF AtRest
<1>14. Survives'
  <2>1. (Boundary(written, acked))' <= synced'
    BY <1>3, <1>5, <1>9 DEF Boundary
  <2>2. \A i \in 1 .. Len(file') : file'[i] = Encoded(written')[i]
    BY <1>3, <1>7
  <2>3. Original(0)'
    BY <2>2 DEF Original
  <2>4. \E d \in Nat : Original(d)'
    BY <2>3
  <2> QED BY <1>3, <1>8, <2>1, <2>2, <2>4 DEF Survives
<1> QED BY <1>10, <1>11, <1>12, <1>13, <1>14 DEF WalInv

\* Submit does the one or the other.
LEMMA SubmitKeepsInv ==
  ASSUME WalInv, Submit
  PROVE  WalInv'
<1>1. /\ status = "Ready"
      /\ \E payloads \in Groups, timestamp \in Timestamp :
           LET group == GroupOf(payloads, timestamp)
           IN  /\ Accepted(group)
               /\ AppendGroup(group, Encoded(group)) \/ AppendFails(group, Encoded(group))
  BY DEF Submit
<1>2. PICK payloads \in Groups, timestamp \in Timestamp :
        /\ Accepted(GroupOf(payloads, timestamp))
        /\ \/ AppendGroup(GroupOf(payloads, timestamp), Encoded(GroupOf(payloads, timestamp)))
           \/ AppendFails(GroupOf(payloads, timestamp), Encoded(GroupOf(payloads, timestamp)))
  BY <1>1
<1> QED BY <1>1, <1>2, AppendGroupKeepsInv, AppendFailsKeepsInv

\* When a process has ended nothing is read, and the next recovery will start at the
\* first record.
LEMMA DownKeepsInv ==
  ASSUME WalInv, status' = "Down", reader' = Start(1), records' = <<>>,
         UNCHANGED <<written, acked>>,
         file' \in Seq(CellType), synced' \in 0 .. Len(file'),
         hurt' \subseteq {"Extend", "Damage", "Read"}, Survives'
  PROVE  WalInv'
<1>1. /\ written \in Seq(FitRecord) /\ Len(written) \in Nat /\ acked \in 0 .. Len(written)
      /\ Len(written) <= MaxSequence /\ \A k \in 1 .. Len(written) : written[k].sequence = k
  BY LenProperties DEF WalInv, Numbered
<1>2. /\ reader' \in [offset : Nat, expected : Nat, header : Seq(CellType), got : Nat]
      /\ reader'.offset = 0 /\ reader'.expected = 1 /\ reader'.header = <<>> /\ reader'.got = 0
  <2>1. <<>> \in Seq(CellType)
    OBVIOUS
  <2> QED BY <2>1 DEF Start
<1>3. /\ records' \in Seq(FitRecord) /\ Len(records') = 0
      /\ SubSeq(written, 1, 0) = <<>> /\ Boundary(written, 0) = 0
  BY <1>1, SubSeqEmpty, BoundaryEnds
<1>4. Successor(0) = 1
  BY WalConstants DEF Successor, NoSequence
<1>5. WalTyped'
  BY <1>2 DEF WalTyped
<1>6. Numbered'
  <2>1. Len(records') <= Len(written') /\ records' = SubSeq(written', 1, Len(records'))
    BY <1>1, <1>3
  <2> QED BY <2>1, <1>1, <1>3 DEF Numbered
<1>7. Standing'
  <2>1. reader'.offset = (Boundary(written, Len(records)))'
    BY <1>2, <1>3 DEF Boundary
  <2>2. Position' = 0 /\ Wanted' = 8
    BY <1>2 DEF Position, Wanted, HeaderLen
  <2>3. Len(file') \in Nat
    BY LenProperties
  <2>4. Position' <= Len(file') /\ reader'.got <= Wanted'
    BY <1>2, <2>2, <2>3
  <2>5. reader'.expected = Successor(Len(records'))
    BY <1>2, <1>3, <1>4
  <2> QED BY <1>2, <2>1, <2>4, <2>5 DEF Standing
<1>8. AtRest'
  BY <1>2 DEF AtRest
<1> QED BY <1>5, <1>6, <1>7, <1>8 DEF WalInv

\* A process that ends leaves the file.
LEMMA EndKeepsInv ==
  ASSUME WalInv, End
  PROVE  WalInv'
<1>1. /\ status' = "Down" /\ hurt' = hurt \ {"Read"} /\ reader' = Start(1) /\ records' = <<>>
      /\ UNCHANGED <<file, synced, written, acked>>
  BY DEF End
<1>2. /\ file \in Seq(CellType) /\ synced \in 0 .. Len(file)
      /\ hurt' \subseteq {"Extend", "Damage", "Read"}
      /\ (hurt' \subseteq {"Read"} => hurt \subseteq {"Read"})
  BY <1>1 DEF WalInv, WalTyped
<1>3. Survives'
  BY <1>1, <1>2 DEF WalInv, Survives, Original, Boundary
<1> QED BY <1>1, <1>2, <1>3, DownKeepsInv

\* A loss of power leaves the synchronized cells, and behind them a part of the others
\* or zeros.
LEMMA LosePowerKeepsInv ==
  ASSUME WalInv, LosePower
  PROVE  WalInv'
<1>1. /\ status' = "Down" /\ reader' = Start(1) /\ records' = <<>>
      /\ UNCHANGED <<written, acked>>
  BY DEF LosePower
<1>2. PICK n \in synced .. Len(file) :
        \E zeros \in {0} \cup (IF "Extend" \in Faults THEN {Len(file) - n} ELSE {}) :
          /\ file' = SubSeq(file, 1, n) \o Zeros(zeros) /\ synced' = n + zeros
          /\ hurt' = IF zeros = 0 THEN hurt \ {"Read"} ELSE {"Extend"}
  BY DEF LosePower
<1>3. PICK zeros \in {0, Len(file) - n} :
        /\ file' = SubSeq(file, 1, n) \o Zeros(zeros) /\ synced' = n + zeros
        /\ hurt' = IF zeros = 0 THEN hurt \ {"Read"} ELSE {"Extend"}
  BY <1>2
<1>4. /\ file \in Seq(CellType) /\ Len(file) \in Nat /\ synced \in 0 .. Len(file)
      /\ hurt \subseteq {"Extend", "Damage", "Read"}
  BY LenProperties DEF WalInv, WalTyped
<1>5. /\ Len(file) <= Len(Encoded(written)) /\ Boundary(written, acked) <= synced
      /\ Boundary(written, acked) \in Nat /\ Len(Encoded(written)) \in Nat
  BY BoundaryEnds, EncodedType DEF WalInv, Survives, Numbered
<1>6. n \in 0 .. Len(file) /\ zeros \in Nat /\ n + zeros \in Nat /\ n + zeros <= Len(file)
      /\ synced <= n
  BY <1>2, <1>3, <1>4
<1> DEFINE kept == SubSeq(file, 1, n)
           blank == Zeros(zeros)
<1>7. kept \in Seq(CellType) /\ Len(kept) = n /\ \A i \in 1 .. n : kept[i] = file[i]
  <2>1. 0 \in 0 .. n
    BY <1>6
  <2> QED BY <2>1, <1>4, <1>6, PrefixOfPrefix
<1>8. blank \in Seq(CellType) /\ Len(blank) = zeros /\ \A i \in 1 .. zeros : blank[i] = Zero
  <2>1. Zero \in CellType
    BY CellOfNumber DEF Zero
  <2>2. blank = [i \in 1 .. zeros |-> Zero]
    BY DEF Zeros
  <2>3. blank \in [1 .. zeros -> CellType]
    BY <2>1, <2>2
  <2> HIDE DEF blank
  <2> QED BY <2>2, <2>3, <1>6
<1> HIDE DEF kept, blank
<1>9. file' \in Seq(CellType) /\ IsJoin(file', kept, blank)
  BY <1>3, <1>7, <1>8, Joined DEF kept, blank
<1>10. /\ Len(file') = n + zeros /\ \A i \in 1 .. n : file'[i] = file[i]
       /\ \A i \in 1 .. zeros : file'[n + i] = Zero
  BY <1>7, <1>8, <1>9 DEF IsJoin
<1>11. \A i \in 1 .. Len(file') : i \in 1 .. n \/ (i \in n + 1 .. n + zeros /\ file'[i] = Zero)
  <2>1. ASSUME NEW i \in 1 .. Len(file'), ~(i \in 1 .. n)
        PROVE  i \in n + 1 .. n + zeros /\ file'[i] = Zero
    <3> DEFINE j == i - n
    <3>1. j \in 1 .. zeros /\ i = n + j /\ i \in n + 1 .. n + zeros
      BY <2>1, <1>6, <1>10
    <3> HIDE DEF j
    <3> QED BY <3>1, <1>10
  <2> QED BY <2>1
<1>12. Survives'
  <2>1. Len(file') <= Len(Encoded(written)) /\ Boundary(written, acked) <= synced'
    BY <1>3, <1>5, <1>6, <1>10, <1>4
  <2>2. PICK d \in Nat : Original(d)
    BY DEF WalInv, Survives
  <2>3. ASSUME NEW i \in 1 .. Len(file')
        PROVE  \/ file'[i] = Encoded(written)[i]
               \/ i > Boundary(written, acked) /\ file'[i] = Zero
               \/ i = d /\ Altered(file'[i], Encoded(written)[i])
    <3>1. CASE i \in 1 .. n
      <4>1. i \in 1 .. Len(file) /\ file'[i] = file[i]
        BY <3>1, <1>6, <1>10
      <4> QED BY <4>1, <2>2 DEF Original
    <3>2. CASE i \in n + 1 .. n + zeros /\ file'[i] = Zero
      <4>1. i > Boundary(written, acked)
        BY <3>2, <1>4, <1>5, <1>6
      <4> QED BY <4>1, <3>2
    <3> QED BY <3>1, <3>2, <1>11
  <2>4. Original(d)'
    BY <1>1, <2>3 DEF Original, Boundary
  <2>5. ASSUME hurt' \subseteq {"Read"}, NEW i \in 1 .. Len(file')
        PROVE  file'[i] = Encoded(written)[i]
    <3>1. zeros = 0 /\ hurt \subseteq {"Read"}
      BY <1>3, <2>5
    <3>2. i \in 1 .. n /\ i \in 1 .. Len(file)
      BY <3>1, <1>6, <1>10
    <3>3. file'[i] = file[i]
      BY <3>2, <1>10
    <3> QED BY <3>1, <3>2, <3>3 DEF WalInv, Survives
  <2>6. \E x \in Nat : Original(x)'
    BY <2>4
  <2> QED BY <1>1, <2>1, <2>5, <2>6 DEF Survives, Boundary
<1>13. synced' \in 0 .. Len(file') /\ hurt' \subseteq {"Extend", "Damage", "Read"}
  BY <1>3, <1>4, <1>6, <1>10
<1> QED BY <1>1, <1>9, <1>12, <1>13, DownKeepsInv

\* Damage alters one cell of a file that was as it was written.
LEMMA DamageKeepsInv ==
  ASSUME WalInv, Damage
  PROVE  WalInv'
<1>1. /\ status = "Down" /\ hurt = {} /\ hurt' = {"Damage"}
      /\ UNCHANGED <<synced, status, reader, records, written, acked>>
  BY DEF Damage
<1>2. PICK d \in DOMAIN file, n \in {1, Alignment} :
        file' = [file EXCEPT ![d] = Cell(Value(@) + n)]
  BY DEF Damage
<1>3. /\ file \in Seq(CellType) /\ Len(file) \in Nat /\ synced \in 0 .. Len(file)
      /\ DOMAIN file = 1 .. Len(file)
  BY LenProperties DEF WalInv, WalTyped
<1>4. file[d] \in CellType /\ d \in 1 .. Len(file) /\ d \in Nat
  BY <1>2, <1>3, ElementOfSeq
<1>5. Cell(Value(file[d]) + n) \in CellType
  <2>1. Value(file[d]) + n \in Int
    BY <1>2, <1>4, ValueOfCell DEF Alignment
  <2> QED BY <2>1, CellOfNumber
<1>6. /\ file' \in Seq(CellType) /\ Len(file') = Len(file)
      /\ file'[d] = Cell(Value(file[d]) + n)
      /\ \A i \in 1 .. Len(file) : i # d => file'[i] = file[i]
  BY <1>2, <1>3, <1>4, <1>5, ExceptSeq
<1>7. \A i \in 1 .. Len(file) : file[i] = Encoded(written)[i]
  BY <1>1 DEF WalInv, Survives
<1>8. Survives'
  <2>1. Original(d)'
    <3>1. ASSUME NEW i \in 1 .. Len(file'), i = d
          PROVE  Altered(file'[i], Encoded(written)[i])
      BY <3>1, <1>2, <1>4, <1>6, <1>7 DEF Altered
    <3> QED BY <3>1, <1>1, <1>6, <1>7 DEF Original
  <2>2. \E x \in Nat : Original(x)'
    BY <2>1, <1>4
  <2>3. ~(hurt' \subseteq {"Read"})
    BY <1>1
  <2> QED BY <2>2, <2>3, <1>1, <1>6 DEF WalInv, Survives, Boundary
<1>9. WalTyped' /\ Numbered' /\ AtRest'
  BY <1>1, <1>3, <1>6 DEF WalInv, WalTyped, Numbered, AtRest
<1>10. Standing'
  <2>1. reader.header = <<>> /\ reader.got = 0 /\ records = <<>> /\ Len(records) = 0
    BY <1>1 DEF WalInv, AtRest
  <2>2. reader.offset = 0
    <3>1. reader.offset = Boundary(written, 0) /\ written \in Seq(FitRecord)
      BY <2>1 DEF WalInv, Standing, Numbered
    <3> QED BY <3>1, BoundaryEnds
  <2>3. 1 .. reader'.offset = {}
    BY <1>1, <2>2
  <2> QED BY <1>1, <1>6, <2>1, <2>3 DEF WalInv, Standing, Boundary, Position, Wanted
<1> QED BY <1>8, <1>9, <1>10 DEF WalInv

-----------------------------------------------------------------------------
(* The theorems.                                                            *)

\* The empty log satisfies the invariant.
LEMMA InitHasWalInv ==
  ASSUME RInit
  PROVE  WalInv
<1>1. /\ file = <<>> /\ synced = 0 /\ status = "Ready" /\ reader = Start(1)
      /\ records = <<>> /\ written = <<>> /\ acked = 0 /\ hurt = {}
  BY DEF RInit
<1>2. /\ <<>> \in Seq(CellType) /\ <<>> \in Seq(FitRecord) /\ Len(<<>>) = 0
  OBVIOUS
<1>3. /\ SubSeq(<<>>, 1, 0) = <<>> /\ Boundary(<<>>, 0) = 0
  <2>1. SubSeq(<<>>, 1, 0) = <<>>
    BY <1>2, SubSeqEmpty
  <2> QED BY <1>2, <2>1, EncodedNothing DEF Boundary
<1>4. /\ reader \in [offset : Nat, expected : Nat, header : Seq(CellType), got : Nat]
      /\ reader.offset = 0 /\ reader.expected = 1 /\ reader.header = <<>> /\ reader.got = 0
  BY <1>1, <1>2 DEF Start
<1>5. Successor(0) = 1 /\ 0 <= MaxSequence
  BY WalConstants DEF Successor, NoSequence
<1>6. WalTyped
  BY <1>1, <1>2, <1>4 DEF WalTyped
<1>7. Numbered
  BY <1>1, <1>2, <1>3, <1>5 DEF Numbered
<1>8. Position = 0 /\ Wanted = 8
  BY <1>4, <1>2 DEF Position, Wanted, HeaderLen
<1>9. Standing
  BY <1>1, <1>2, <1>3, <1>4, <1>5, <1>8 DEF Standing
<1>10. AtRest
  BY <1>1, <1>2, <1>4, EncodedNothing DEF AtRest
<1>11. Survives
  <2>1. Original(0) /\ 0 \in Nat
    BY <1>1, <1>2 DEF Original
  <2>2. \E d \in Nat : Original(d)
    BY <2>1
  <2> QED BY <1>1, <1>2, <1>3, <2>2, EncodedNothing DEF Survives
<1> QED BY <1>6, <1>7, <1>9, <1>10, <1>11 DEF WalInv

\* Every step keeps it.
LEMMA WalNextKeepsInv ==
  ASSUME WalInv, [RNext]_rvars
  PROVE  WalInv'
<1>1. CASE ReadChunk
  BY <1>1, ReadChunkKeepsInv
<1>2. CASE ReadHeader
  BY <1>2, ReadHeaderKeepsInv
<1>3. CASE ReadBody
  BY <1>3, ReadBodyKeepsInv
<1>4. CASE ReadFails
  BY <1>4, ReadFailsKeepsInv
<1>5. CASE Submit
  BY <1>5, SubmitKeepsInv
<1>6. CASE End
  BY <1>6, EndKeepsInv
<1>7. CASE LosePower
  BY <1>7, LosePowerKeepsInv
<1>8. CASE Damage
  BY <1>8, DamageKeepsInv
<1>9. CASE Open
  BY <1>9, OpenKeepsInv
<1>10. CASE UNCHANGED rvars
  BY <1>10, StutterKeepsInv
<1> QED BY <1>1, <1>2, <1>3, <1>4, <1>5, <1>6, <1>7, <1>8, <1>9, <1>10 DEF RNext

\* The invariant holds in every state that the log and its reader can reach.
THEOREM WalInvariant == RSpec => []WalInv
<1>1. RInit => WalInv
  BY InitHasWalInv
<1>2. WalInv /\ [RNext]_rvars => WalInv'
  BY WalNextKeepsInv
<1> QED BY <1>1, <1>2, PTL DEF RSpec

\* Every variable keeps its type, and the reader of record.rs never stands behind the
\* end of the file: whatever length a damaged header gives, it is believed only as far
\* as there are cells.
THEOREM WalTypeInvariant == RSpec => []RTypeOK
<1>1. WalInv => RTypeOK
  <2> SUFFICES ASSUME WalInv PROVE RTypeOK
    OBVIOUS
  <2>1. /\ synced \in 0 .. Len(file) /\ acked \in 0 .. Len(written)
        /\ status \in {"Down", "Reading", "Ready", "Refused", "Poisoned"}
        /\ hurt \subseteq {"Extend", "Damage", "Read"} /\ Position <= Len(file)
    BY DEF WalInv, WalTyped, Numbered, Standing
  <2>2. reader.expected \in 0 .. MaxSequence
    <3>1. /\ Len(records) \in Nat /\ Len(records) <= MaxSequence
          /\ reader.expected = Successor(Len(records)) /\ MaxSequence \in Nat \ {0}
      <4>1. Len(records) \in Nat /\ Len(written) \in Nat
        BY LenProperties DEF WalInv, Numbered
      <4>2. MaxSequence \in Nat \ {0}
        BY WalConstants
      <4> QED BY <4>1, <4>2 DEF WalInv, Numbered, Standing
    <3> DEFINE K == Len(records)
    <3> HIDE DEF K
    <3>2. K \in Nat /\ K <= MaxSequence /\ reader.expected = Successor(K)
      BY <3>1 DEF K
    <3> QED BY <3>1, <3>2 DEF Successor, NoSequence
  <2> QED BY <2>1, <2>2 DEF RTypeOK
<1> QED BY <1>1, WalInvariant, PTL

\* Whatever tears, cuts, blanks or damages the file, the records that read_next returns
\* are the first of those that were written, unchanged and in their order.
THEOREM ReturnsInvariant == RSpec => []ReturnsWhatWasWritten
<1>1. WalInv => ReturnsWhatWasWritten
  <2> SUFFICES ASSUME WalInv PROVE ReturnsWhatWasWritten
    OBVIOUS
  <2>1. /\ records \in Seq(FitRecord) /\ Len(records) <= Len(written)
        /\ records = SubSeq(written, 1, Len(records))
    BY DEF WalInv, Numbered
  <2>2. SubSeq(records, 1, Len(records)) = records
    BY <2>1, SubSeqFull
  <2> QED BY <2>1, <2>2 DEF ReturnsWhatWasWritten, IsPrefix
<1> QED BY <1>1, WalInvariant, PTL

\* When open succeeds, no record that was acknowledged has been cut off with the tail,
\* and the file holds the records that were read and nothing else.
THEOREM KeepsInvariant == RSpec => []KeepsWhatWasAcknowledged
<1>1. WalInv => KeepsWhatWasAcknowledged
  <2> SUFFICES ASSUME WalInv, status = "Ready"
               PROVE  acked <= Len(records) /\ file = Encoded(records)
    BY DEF KeepsWhatWasAcknowledged
  <2>1. written = records /\ file = Encoded(written) /\ Len(written) \in Nat
    BY ReadyFile
  <2>2. acked \in 0 .. Len(written)
    BY DEF WalInv, Numbered
  <2> QED BY <2>1, <2>2
<1> QED BY <1>1, WalInvariant, PTL

\* Torn appends, crashes and losses of power alone never make open refuse the log.
THEOREM RefusesInvariant == RSpec => []RefusesOnlyDamage
<1>1. WalInv => RefusesOnlyDamage
  BY DEF WalInv, AtRest, RefusesOnlyDamage
<1> QED BY <1>1, WalInvariant, PTL

-----------------------------------------------------------------------------
(* Reading a group back before it is appended.                              *)

\* The cells that are asked for, when there are as many.
LEMMA CellsInside ==
  ASSUME NEW S, NEW bytes \in Seq(S), NEW from \in Nat, NEW wanted \in Nat,
         from + wanted <= Len(bytes)
  PROVE  /\ Cells(bytes, from, wanted) \in Seq(S) /\ Len(Cells(bytes, from, wanted)) = wanted
         /\ \A j \in 1 .. wanted : Cells(bytes, from, wanted)[j] = bytes[from + j]
<1>1. Len(bytes) \in Nat /\ \A i \in 1 .. Len(bytes) : bytes[i] \in S
  BY LenProperties, ElementOfSeq
<1> DEFINE T == {from + wanted, Len(bytes)}
<1>2. Min(T) = from + wanted
  <2>1. T \in SUBSET Nat /\ T # {}
    BY <1>1
  <2>2. from + wanted \in T /\ Len(bytes) \in T /\ \A y \in T : y = from + wanted \/ y = Len(bytes)
    OBVIOUS
  <2> HIDE DEF T
  <2>3. Min(T) \in T /\ \A y \in T : Min(T) <= y
    BY <2>1, LeastNatural DEF Min
  <2>4. Min(T) <= from + wanted /\ (Min(T) = from + wanted \/ Min(T) = Len(bytes))
    BY <2>2, <2>3
  <2> HIDE DEF Min
  <2> QED BY <2>4, <1>1
<1> DEFINE c == SubSeq(bytes, from + 1, from + wanted)
<1>3. Cells(bytes, from, wanted) = c
  BY <1>2 DEF Cells
<1>4. /\ c \in Seq(S)
      /\ Len(c) = IF from + 1 <= from + wanted THEN from + wanted - (from + 1) + 1 ELSE 0
      /\ \A j \in 1 .. from + wanted - (from + 1) + 1 : c[j] = bytes[from + 1 + j - 1]
  <2>1. \A i \in from + 1 .. from + wanted : bytes[i] \in S
    BY <1>1
  <2> QED BY <2>1, SubSeqProperties
<1>5. /\ from + wanted - (from + 1) + 1 = wanted
      /\ (from + 1 <= from + wanted <=> wanted # 0)
      /\ \A j \in 1 .. wanted : from + 1 + j - 1 = from + j
  OBVIOUS
<1> HIDE DEF c
<1> QED BY <1>3, <1>4, <1>5

\* A record reads back from the place where it was encoded.
LEMMA RecordReadsBack ==
  ASSUME NEW s \in Seq(FitRecord), NEW k \in 1 .. Len(s), s[k].sequence # 0
  PROVE  ReadNext(Encoded(s), Boundary(s, k - 1), s[k].sequence)
           = [kind |-> "Record", record |-> s[k]]
<1> DEFINE r == s[k]
           bytes == Encoded(s)
           p == Boundary(s, k - 1)
           header == Cells(bytes, p, HeaderLen)
           body == Cells(bytes, p + HeaderLen, BodyLen(header))
<1>1. /\ Boundary(s, k) = p + Size(r) /\ r \in FitRecord /\ Size(r) \in Nat /\ Size(r) >= 9
      /\ p \in Nat /\ \A i \in 1 .. Size(r) : bytes[p + i] = Framed(r)[i]
  BY BoundaryStep
<1>2. bytes \in Seq(CellType) /\ Len(bytes) \in Nat
  BY EncodedType
<1>3. p + Size(r) <= Len(bytes)
  <2>1. k \in 0 .. Len(s)
    BY LenProperties
  <2> QED BY <2>1, <1>1, BoundaryEnds
<1> HIDE DEF r, bytes, p, header, body
<1>4. /\ header \in Seq(CellType) /\ Len(header) = 8
      /\ \A i \in 1 .. 8 : header[i] = Framed(r)[i]
  <2> DEFINE n == HeaderLen
  <2>1. n = 8 /\ n \in Nat
    BY DEF HeaderLen
  <2> HIDE DEF n
  <2>2. p + n <= Len(bytes) /\ \A i \in 1 .. 8 : i \in 1 .. Size(r)
    <3>1. /\ p \in Nat /\ Size(r) \in Nat /\ Size(r) >= 9 /\ p + Size(r) <= Len(bytes)
          /\ Len(bytes) \in Nat /\ n = 8
      BY <1>1, <1>2, <1>3, <2>1
    <3> QED BY ONLY <3>1
  <2>3. /\ Cells(bytes, p, n) \in Seq(CellType) /\ Len(Cells(bytes, p, n)) = n
        /\ \A i \in 1 .. n : Cells(bytes, p, n)[i] = bytes[p + i]
    <3>1. p \in Nat /\ n \in Nat /\ p + n <= Len(bytes) /\ bytes \in Seq(CellType)
      BY <2>1, <2>2, <1>1, <1>2
    <3> QED BY <3>1, CellsInside
  <2>4. header = Cells(bytes, p, n)
    BY DEF header, n
  <2> QED BY <2>1, <2>2, <2>3, <2>4, <1>1
<1>5. r.sequence # 0
  BY DEF r
<1>6. HeaderFault(header, r.sequence) = "None" /\ BodyLen(header) = Size(r) - 8
  <2>1. <<>> \in Seq(CellType)
    OBVIOUS
  <2> QED BY <2>1, <1>1, <1>4, <1>5, FrameIsAccepted
<1>7. /\ body \in Seq(CellType) /\ Len(body) = Size(r) - 8
      /\ \A i \in 1 .. Size(r) - 8 : body[i] = Framed(r)[8 + i]
  <2> DEFINE n == Size(r) - 8
             q == p + 8
  <2>1. /\ n \in Nat /\ q \in Nat /\ q + n <= Len(bytes)
        /\ \A i \in 1 .. n : 8 + i \in 1 .. Size(r) /\ q + i = p + (8 + i)
    BY <1>1, <1>2, <1>3
  <2>2. body = Cells(bytes, q, n)
    BY <1>6 DEF body, HeaderLen
  <2>3. n = Size(r) - 8
    OBVIOUS
  <2> HIDE DEF n, q
  <2>4. /\ Cells(bytes, q, n) \in Seq(CellType) /\ Len(Cells(bytes, q, n)) = n
        /\ \A i \in 1 .. n : Cells(bytes, q, n)[i] = bytes[q + i]
    <3>1. q \in Nat /\ n \in Nat /\ q + n <= Len(bytes) /\ bytes \in Seq(CellType)
      BY <2>1, <1>2
    <3> QED BY <3>1, CellsInside
  <2> QED BY <2>1, <2>2, <2>3, <2>4, <1>1
<1>8. BodyFault(header, body) = "None" /\ Read(header, body) = r
  BY <1>1, <1>4, <1>5, <1>7, FrameIsAccepted
<1>9. HeaderRead(header, r.sequence) = Found("Header")
  <2>1. header # <<>> /\ ~(Len(header) < 8)
    <3>1. Len(header) = 8
      BY <1>4
    <3>2. Len(<<>>) = 0 /\ 0 # 8 /\ ~(8 < 8)
      OBVIOUS
    <3> QED BY ONLY <3>1, <3>2
  <2> QED BY <2>1, <1>6 DEF HeaderRead, HeaderLen
<1>10. BodyRead(header, body) = [kind |-> "Record", record |-> r]
  <2>1. ~(Len(body) < BodyLen(header))
    BY <1>1, <1>6, <1>7
  <2> QED BY <2>1, <1>8 DEF BodyRead
<1>11. ReadNext(bytes, p, r.sequence) = BodyRead(header, body)
  <2>1. Found("Header").kind = "Header"
    BY DEF Found
  <2> QED BY <2>1, <1>9 DEF ReadNext, header, body
<1> QED BY <1>10, <1>11 DEF r, bytes, p

\* The buffer that apply_batch encodes passes inspect_batch: a group that is accepted
\* is never refused because it does not read back.
THEOREM AcceptedGroupReadsBack ==
  RSpec => [](status = "Ready" =>
                \A payloads \in Groups, timestamp \in Timestamp :
                  LET group == GroupOf(payloads, timestamp)
                  IN  Accepted(group) => Inspected(group, Encoded(group)))
<1> DEFINE Passes ==
             status = "Ready" =>
               \A payloads \in Groups, timestamp \in Timestamp :
                 LET group == GroupOf(payloads, timestamp)
                 IN  Accepted(group) => Inspected(group, Encoded(group))
<1>1. WalInv => Passes
  <2> SUFFICES ASSUME WalInv, NEW payloads \in Groups, NEW timestamp \in Timestamp,
                      Accepted(GroupOf(payloads, timestamp))
               PROVE  Inspected(GroupOf(payloads, timestamp),
                                Encoded(GroupOf(payloads, timestamp)))
    OBVIOUS
  <2> DEFINE group == GroupOf(payloads, timestamp)
  <2>1. reader.expected \in Nat /\ reader.expected # 0
    BY DEF WalInv, WalTyped, Accepted, NoSequence
  <2>2. /\ group \in Seq(FitRecord) /\ Len(group) \in Nat
        /\ \A i \in 1 .. Len(group) : group[i].sequence = reader.expected + i - 1
    BY <2>1, GroupIsNumbered
  <2> HIDE DEF group
  <2>3. ASSUME NEW i \in 1 .. Len(group)
        PROVE  ReadNext(Encoded(group), Len(Encoded(SubSeq(group, 1, i - 1))), group[i].sequence)
                 = [kind |-> "Record", record |-> group[i]]
    <3>1. group[i].sequence # 0
      BY <2>1, <2>2
    <3> QED BY <3>1, <2>2, RecordReadsBack DEF Boundary
  <2>4. DOMAIN group = 1 .. Len(group)
    BY <2>2, LenProperties
  <2>5. Inspected(group, Encoded(group))
    BY <2>3, <2>4 DEF Inspected
  <2> QED BY <2>5 DEF group
<1> HIDE DEF Passes
<1>2. RSpec => []Passes
  BY <1>1, WalInvariant, PTL
<1> QED BY <1>2 DEF Passes
=============================================================================
