------------------------------ MODULE ZclFormat ------------------------------
(***************************************************************************)
(* The bytes of ZCL data and of the global ZCL commands: what zb-rs writes *)
(* for a value and what it makes of bytes that it reads.                   *)
(*                                                                         *)
(* A datum is a record of its type's tag and its value.  Numbers are the   *)
(* bytes that they take in memory, lowest first: a number of three bytes   *)
(* on the air lives in four bytes of memory.  Bytes are 0..255.            *)
(***************************************************************************)
EXTENDS Integers, Sequences, SequencesExt

CONSTANTS
    None,       \* an absent optional field; a byte of a time that is not specified
    MaxDepth,   \* the deepest level of nested data (15 in the code)
    Utf8        \* the sequences of bytes that are text

Byte == 0..255
Word == 0..65535

ASSUME DepthAssumption == MaxDepth \in Nat

LowFirst(n) == <<n % 256, (n \div 256) % 256>>
Number(b) == b[1] + 256 * b[2]
Zeros(n) == [i \in 1..n |-> 0]
IsSeq(s) == Len(s) \in Nat /\ s = [i \in 1..Len(s) |-> s[i]]
From(b, n) == SubSeq(b, n + 1, Len(b))

Datum(t, v) == [tag |-> t, value |-> v]

\* The three ways in which reading ends: a value and the number of bytes it took,
\* an error that the caller passes on, or an index out of bounds, which panics.
Taken(v, n) == [outcome |-> "taken", value |-> v, length |-> n]
Refused == [outcome |-> "refused", value |-> None, length |-> 0]
Halted == [outcome |-> "halted", value |-> None, length |-> 0]

-----------------------------------------------------------------------------
(* Types. *)

NullTag == 0
BoolTag == 16
Float16Tag == 56
Numeric == (8..15) \cup (24..49) \cup (56..58) \cup {226} \cup (232..234)
OctetsTag == 65
TextTag == 66
LongOctetsTag == 67
LongTextTag == 68
Compound == {72, 76, 80, 81}
TimeTag == 224
DateTag == 225
AddressTag == 240
KeyTag == 241
SimpleTag ==
    Numeric \cup {NullTag, BoolTag, OctetsTag, TextTag, LongOctetsTag, LongTextTag, TimeTag,
                  DateTag, AddressTag, KeyTag}

\* Bytes on the air.  Data, bitmaps, unsigned and signed numbers come in eight
\* sizes each.
Carried(t) ==
    CASE t < 48 -> (t % 8) + 1
      [] t = 48 -> 1
      [] t \in {49, Float16Tag} \cup (232..234) -> 2
      [] t \in {57, 226} -> 4
      [] t = 58 -> 8

\* Bytes in memory: the next type of Rust that is large enough, f32 for Float16.
Held(t) ==
    IF t = Float16Tag THEN 4
    ELSE CHOOSE n \in {1, 2, 4, 8} :
            n >= Carried(t) /\ \A m \in {1, 2, 4, 8} : m >= Carried(t) => n <= m

\* What Rust holds in a datum of the type; a boolean is 0 or 1.
Values(t) ==
    CASE t = NullTag -> {<<>>}
      [] t = BoolTag -> {<<0>>, <<1>>}
      [] t \in Numeric -> [1..Held(t) -> Byte]
      [] t \in {OctetsTag, LongOctetsTag} -> Seq(Byte)
      [] t \in {TextTag, LongTextTag} -> Seq(Byte) \cap Utf8
      [] t \in {TimeTag, DateTag} -> [1..4 -> Byte \cup {None}]
      [] t = AddressTag -> [1..8 -> Byte]
      [] t = KeyTag -> [1..16 -> Byte]

Simple ==
    {d \in [tag : SimpleTag, value : Seq(Byte \cup {None})] : d.value \in Values(d.tag)}

-----------------------------------------------------------------------------
(* Writing. *)

Clock(v) == [i \in 1..4 |-> IF v[i] = None THEN 255 ELSE v[i]]

Content(t, v) ==
    CASE t \in Numeric -> SubSeq(v, 1, Carried(t))
      [] t \in {OctetsTag, TextTag} -> <<Len(v) % 256>> \o v
      [] t \in {LongOctetsTag, LongTextTag} -> LowFirst(Len(v)) \o v
      [] t \in {TimeTag, DateTag} -> Clock(v)
      [] OTHER -> v

-----------------------------------------------------------------------------
(* Reading. *)

\* Faulty variant: the sign is extended to the bytes that were not on the air.
WidenedSigned(t, b) ==
    b \o [i \in 1..Held(t) - Len(b) |-> IF b[Len(b)] > 127 THEN 255 ELSE 0]

\* What was not on the air is zero in memory, whatever the sign.
Widened(t, b) == b \o Zeros(Held(t) - Len(b))

Within(byte, limit) == byte <= limit \/ byte = 255

TimeOk(b) ==
    /\ Within(b[1], 24) /\ Within(b[2], 60) /\ Within(b[3], 60) /\ Within(b[4], 100)

ShortMonths == {2, 4, 6, 9, 11}
Leap(year) == year % 4 = 0 /\ year \notin {0, 200}

\* An unspecified day is the byte 255, which a short month does not have.
DateOk(b) ==
    /\ Within(b[2], 12) /\ Within(b[3], 31) /\ Within(b[4], 7)
    /\ b[2] \in ShortMonths => b[3] <= 30
    /\ (b[1] # 255 /\ ~Leap(b[1]) /\ b[2] = 2) => b[3] <= 29

Unclock(b) == [i \in 1..4 |-> IF b[i] = 255 THEN None ELSE b[i]]

\* A string of n bytes after a length of w bytes; the text of a long string is
\* kept as a short one.
Text(t, b, w, n) ==
    IF Len(b) < w + n THEN Refused
    ELSE LET s == SubSeq(b, w + 1, w + n)
         IN  IF t \in {TextTag, LongTextTag} /\ s \notin Utf8 THEN Refused
             ELSE Taken(Datum(IF t = LongTextTag THEN TextTag ELSE t, s), w + n)

\* The bytes of an address or a key that the reader goes on behind.
Skipped(t) == IF t = AddressTag THEN 4 ELSE 16

Fixed(t, b, n, v, step) == IF Len(b) < n THEN Refused ELSE Taken(Datum(t, v), step)

ReadSimple(t, b) ==
    CASE t = NullTag -> Taken(Datum(t, <<>>), 0)
      [] t = BoolTag -> Fixed(t, b, 1, <<IF b[1] = 0 THEN 0 ELSE 1>>, 1)
      [] t \in Numeric ->
            Fixed(t, b, Carried(t), Widened(t, SubSeq(b, 1, Carried(t))), Carried(t))
      [] t \in {OctetsTag, TextTag} ->
            IF b = <<>> THEN Halted ELSE Text(t, b, 1, b[1])
      [] t \in {LongOctetsTag, LongTextTag} ->
            IF Len(b) < 2 THEN Refused ELSE Text(t, b, 2, Number(b))
      [] t = TimeTag ->
            IF Len(b) < 4 \/ ~TimeOk(b) THEN Refused ELSE Taken(Datum(t, Unclock(b)), 4)
      [] t = DateTag ->
            IF Len(b) < 4 \/ ~DateOk(b) THEN Refused ELSE Taken(Datum(t, Unclock(b)), 4)
      [] t = AddressTag -> Fixed(t, b, 8, SubSeq(b, 1, 8), Skipped(t))
      [] t = KeyTag -> Fixed(t, b, 16, SubSeq(b, 1, 16), Skipped(t))
      [] OTHER -> Refused

-----------------------------------------------------------------------------
(* Data that nest.  A level has the data that nest no deeper, how they are written *)
(* and what is read when no more than that is allowed to nest.                     *)

DataAbove(l) == Simple \cup [tag : Compound, value : Seq(l.data)]

WriteAbove(l, d) ==
    <<d.tag>> \o
    IF d.tag \notin Compound THEN Content(d.tag, d.value)
    ELSE LowFirst(Len(d.value)) \o FlattenSeq([i \in DOMAIN d.value |-> l.write[d.value[i]]])

\* What was read behind the first n bytes.
Behind(n, r) == IF r.outcome # "taken" THEN r ELSE Taken(r.value, r.length + n)

\* What was read, and an item behind it.
Joined(r, item) ==
    IF item.outcome # "taken" THEN item
    ELSE Taken(Append(r.value, item.value), r.length + item.length)

\* One datum more behind those of a list.
NextItem(l, b, r) ==
    IF r.outcome # "taken" THEN r ELSE Joined(r, l.read[From(b, r.length)])

ReadItems(l, b, n) ==
    LET after[i \in 0..n] == IF i = 0 THEN Taken(<<>>, 2) ELSE NextItem(l, b, after[i - 1])
    IN  after[n]

ReadCompound(l, t, b) ==
    LET items == ReadItems(l, b, Number(b))
    IN  IF Len(b) < 2 THEN Refused
        ELSE IF items.outcome # "taken" THEN items
        ELSE Taken(Datum(t, items.value), items.length)

ReadAbove(l, b) ==
    IF b = <<>> THEN Halted
    ELSE Behind(1, IF b[1] \in Compound THEN ReadCompound(l, b[1], Tail(b))
                   ELSE ReadSimple(b[1], Tail(b)))

\* Beyond the deepest level nothing is written, and what is read is refused.
Level[n \in Nat] ==
    IF n = 0
    THEN [data |-> {}, write |-> [d \in {} |-> <<>>], read |-> [b \in Seq(Byte) |-> Refused]]
    ELSE LET l == Level[n - 1]
         IN  [data |-> DataAbove(l), write |-> [d \in DataAbove(l) |-> WriteAbove(l, d)],
              read |-> [b \in Seq(Byte) |-> ReadAbove(l, b)]]

Whole == Level[MaxDepth + 1]
Data == Whole.data

\* None is neither a number nor a datum, nor a field or a record of any kind.
ASSUME NoneAssumption ==
    /\ None \notin Nat /\ None \notin BOOLEAN /\ None \notin Data
    /\ None \notin [identifier : Word, indices : Seq(Word)]

WriteData(d) == Whole.write[d]
ReadData(b) == Whole.read[b]

-----------------------------------------------------------------------------
(* Fields of a record. *)

Success == 0
Status == {0, 1} \cup (126..154) \cup (192..195)
Report == 0
Receive == 1

\* What Rust holds in a field that is there.
FieldValues(type) ==
    CASE type = "u8" -> Byte
      [] type = "u16" -> Word
      [] type = "bool" -> BOOLEAN
      [] type = "status" -> Status
      [] type = "direction" -> {Report, Receive}
      [] type = "selector" -> [identifier : Word, indices : Seq(Word)]
      [] type = "data" -> Data

\* A field is read when the field before it with number "at" has the value "is";
\* number 0 stands for always.
Always(type) == [type |-> type, at |-> 0, is |-> 0]
Given(i, v, type) == [type |-> type, at |-> i, is |-> v]

\* The selector counts one byte for its identifier and its length together, so
\* that what is written next replaces its end.
WriteSelector(s) ==
    SubSeq(LowFirst(s.identifier) \o <<Len(s.indices) % 256>>
               \o FlattenSeq([i \in DOMAIN s.indices |-> LowFirst(s.indices[i])]),
           1, 2 * Len(s.indices) + 1)

WriteField(f, v) ==
    IF v = None THEN <<>>
    ELSE CASE f.type = "u16" -> LowFirst(v)
           [] f.type = "bool" -> <<IF v THEN 1 ELSE 0>>
           [] f.type = "data" -> WriteData(v)
           [] f.type = "selector" -> WriteSelector(v)
           [] OTHER -> <<v>>

\* The length is taken from the fourth byte, where the writer puts the first index.
ReadSelector(b) ==
    IF Len(b) < 4 THEN Halted
    ELSE IF Len(b) - 4 < 2 * b[4] THEN Refused
    ELSE Taken([identifier |-> Number(b),
                indices |-> [i \in 1..b[4] |-> Number(SubSeq(b, 2 * i + 3, 2 * i + 4))]],
               2 * b[4] + 1)

ReadField(f, b) ==
    CASE f.type = "data" -> ReadData(b)
      [] f.type = "selector" -> ReadSelector(b)
      [] f.type = "u16" -> IF Len(b) < 2 THEN Refused ELSE Taken(Number(b), 2)
      [] OTHER ->
            IF b = <<>> THEN Refused
            ELSE CASE f.type = "status" /\ b[1] \notin Status -> Refused
                   [] f.type = "direction" /\ b[1] \notin {Report, Receive} -> Refused
                   [] f.type = "bool" -> Taken(b[1] # 0, 1)
                   [] OTHER -> Taken(b[1], 1)

\* A record of the layout, in which a datum may nest too deep.
Fits(layout, r) ==
    /\ IsSeq(r) /\ Len(r) = Len(layout)
    /\ \A i \in DOMAIN layout :
          r[i] # None /\ layout[i].type # "data" => r[i] \in FieldValues(layout[i].type)

\* A record is written unless a datum in it nests too deep.
Writable(layout, r) ==
    \A i \in DOMAIN layout : layout[i].type = "data" /\ r[i] # None => r[i] \in Data

WriteRecord(layout, r) == FlattenSeq([i \in DOMAIN layout |-> WriteField(layout[i], r[i])])

Wanted(f, r) == f.at = 0 \/ r[f.at] = f.is

\* One field more behind those of a record.
NextField(f, b, r) ==
    IF r.outcome # "taken" THEN r
    ELSE IF ~Wanted(f, r.value) THEN Taken(Append(r.value, None), r.length)
    ELSE Joined(r, ReadField(f, From(b, r.length)))

ReadRecord(layout, b) ==
    LET after[i \in 0..Len(layout)] ==
            IF i = 0 THEN Taken(<<>>, 0) ELSE NextField(layout[i], b, after[i - 1])
    IN  after[Len(layout)]

-----------------------------------------------------------------------------
(* The global commands: the fields before the list, and those of its items. *)

ReadAttributes == 0
ReadAttributesResponse == 1
WriteAttributes == 2
WriteAttributesUndivided == 3
WriteAttributesResponse == 4
WriteAttributesNoResponse == 5
ConfigureReporting == 6
ConfigureReportingResponse == 7
ReadReportingConfiguration == 8
ReadReportingConfigurationResponse == 9
ReportAttributes == 10
DefaultResponse == 11
DiscoverAttributes == 12
DiscoverAttributesResponse == 13
DiscoverCommandsReceived == 17
DiscoverCommandsReceivedResponse == 18

GlobalCommand == 0..22

AttributeRecord == <<Always("u16"), Always("data")>>
ReadAttributesStatusRecord == <<Always("u16"), Always("status"), Given(2, Success, "data")>>
WriteAttributeStatusRecord == <<Always("status"), Always("u16")>>

\* The reportable change is written if there is one, and never read.
ReportingRecord ==
    <<Always("direction"), Always("u16"), Given(1, Report, "u8"), Given(1, Report, "u16"),
      Given(1, Report, "u16"), Given(1, None, "data"), Given(1, Receive, "u16")>>

AttributeStatusRecord == <<Always("status"), Always("direction"), Always("u16")>>
ReportingConfigurationAttributeStatus == <<Always("direction"), Always("u16")>>
ReadReportingRecord ==
    <<Always("status"), Always("direction"), Always("u16"), Given(2, Report, "u8"),
      Given(2, Report, "u16"), Given(2, Report, "u16"), Given(2, Report, "data"),
      Given(2, Receive, "u16")>>

DiscoverAttributeRecord == <<Always("u16"), Always("u8")>>
ExtendedAttributeInformation == <<Always("u16"), Always("u8"), Always("u8")>>

WriteAttributeRecord == <<Always("selector"), Always("data")>>
WriteAttributeStructuredStatus == <<Always("status"), Always("selector")>>

DiscoveryLimits(start) == <<Always(start), Always("u8")>>
DiscoveryComplete == <<Always("bool")>>

Leading(c) ==
    CASE c = DefaultResponse -> <<Always("u8"), Always("status")>>
      [] c \in {DiscoverAttributes, 21} -> DiscoveryLimits("u16")
      [] c \in {DiscoverCommandsReceived, 19} -> DiscoveryLimits("u8")
      [] c \in {DiscoverAttributesResponse, DiscoverCommandsReceivedResponse, 20, 22} ->
            DiscoveryComplete
      [] OTHER -> <<>>

\* No item for the commands without a list.
Item(c) ==
    CASE c = ReadAttributes -> <<Always("u16")>>
      [] c = ReadAttributesResponse -> ReadAttributesStatusRecord
      [] c \in {WriteAttributes, WriteAttributesUndivided, WriteAttributesNoResponse,
                ReportAttributes} -> AttributeRecord
      [] c = WriteAttributesResponse -> WriteAttributeStatusRecord
      [] c = ConfigureReporting -> ReportingRecord
      [] c = ConfigureReportingResponse -> AttributeStatusRecord
      [] c = ReadReportingConfiguration -> ReportingConfigurationAttributeStatus
      [] c = ReadReportingConfigurationResponse -> ReadReportingRecord
      [] c = DiscoverAttributesResponse -> DiscoverAttributeRecord
      [] c = 14 -> <<Always("selector")>>
      [] c = 15 -> WriteAttributeRecord
      [] c = 16 -> WriteAttributeStructuredStatus
      [] c \in {DiscoverCommandsReceivedResponse, 20} -> <<Always("u8")>>
      [] c = 22 -> ExtendedAttributeInformation
      [] OTHER -> <<>>
=============================================================================
