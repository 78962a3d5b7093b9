----------------------------- MODULE ZclExchange -----------------------------
(***************************************************************************)
(* A peer sends ZCL frames to a cluster of the node, which reads them byte *)
(* by byte, carries them out, saves the cluster and writes its answer.     *)
(*                                                                         *)
(* The cluster is the Identify cluster with further attributes.  The peer  *)
(* reads and writes frames as the node does, but for the identifier of a   *)
(* command that is the cluster's own, which this code forgets to write.    *)
(* Nothing gets lost: what can go wrong here is the meaning of the bytes.  *)
(***************************************************************************)
EXTENDS ZclFormat, FiniteSets

CONSTANTS
    Cluster,    \* the attributes, in the order of the struct's fields: identifier,
                \* default datum, whether it can be written, default interval or None
    Requests,   \* the frames the peer may send
    Capacity    \* the longest frame the APS layer sends (MAX_APS_PAYLOAD_SIZE)

VARIABLES
    values,     \* the data of the attributes
    config,     \* their reporting intervals
    saved,      \* what the storage holds of both
    phase,      \* where the exchange is
    leg,        \* "request" or "response"
    asked,      \* the peer's request
    sent,       \* the frame under way, as its writer means it
    written,    \* how many of its items are written
    wire,       \* its bytes
    got,        \* what its reader has made of them so far
    position,   \* how many of them it has read
    confirmed   \* what the peer takes for the value of an attribute other than the
                \* identify time: the last datum it wrote, if the answer said so

vars == <<values, config, saved, phase, leg, asked, sent, written, wire, got,
          position, confirmed>>

IdentifyTime == 0

ASSUME ClusterAssumption ==
    /\ Cluster \in Seq([id : Word, default : Data, write : BOOLEAN,
                         interval : {None} \cup (Word \X Word)])
    /\ \A i, j \in DOMAIN Cluster : Cluster[i].id = Cluster[j].id => i = j
    /\ \E i \in DOMAIN Cluster : Cluster[i].id = IdentifyTime /\ Cluster[i].default.tag = 33
    /\ None \notin Word \X Word
    /\ Capacity \in Nat

Places == 1..Len(Cluster)
Ids == {Cluster[i].id : i \in Places}
Known(id) == id \in Ids
At(id) == CHOOSE i \in Places : Cluster[i].id = id

\* The identify time counts down by itself.
Lasting == Ids \ {IdentifyTime}

Defaults == [i \in Places |-> Cluster[i].default]
Intervals == [i \in Places |-> Cluster[i].interval]
Image(v, c) == [values |-> v, config |-> c]

NoFrame == [type |-> "none", code |-> None, back |-> FALSE, quiet |-> FALSE,
            sequence |-> 0, command |-> 0, head |-> <<>>, items |-> <<>>]

IsGlobal(f) == f.type = "global"
ItemOf(f) == IF IsGlobal(f) THEN Item(f.command) ELSE <<Always("u8")>>
LeadingOf(f) == IF IsGlobal(f) THEN Leading(f.command) ELSE <<>>

\* A frame as Rust holds it.
IsFrame(f) ==
    /\ f \in [type : {"global", "specific"}, code : Word \cup {None}, back : BOOLEAN,
              quiet : BOOLEAN, sequence : Byte, command : Byte, head : {f.head},
              items : {f.items}]
    /\ IsGlobal(f) => f.command \in GlobalCommand
    /\ Fits(LeadingOf(f), f.head) /\ \A i \in DOMAIN f.head : f.head[i] # None
    /\ IsSeq(f.items)
    /\ \A i \in DOMAIN f.items : Fits(ItemOf(f), f.items[i])
    /\ ItemOf(f) = <<>> => f.items = <<>>

ASSUME RequestsAssumption == \A f \in Requests : IsFrame(f)

-----------------------------------------------------------------------------
(* What the formats do not carry. *)

\* A simple datum that is not read back as it was written: an address, which is read
\* with half its length; a long text, which is read as a short one; a number with a
\* sign or a fraction in bytes that stay at home; a length that takes more than its
\* bytes; a time that is none, an open day in a short month, or a number 255, which
\* says that there is none.
IsTime(v, limits) == \A i \in 1..4 : v[i] = None \/ v[i] <= limits[i]
IsDate(v) ==
    /\ IsTime(v, <<254, 12, 31, 7>>)
    /\ v[2] \in ShortMonths => v[3] # None /\ v[3] <= 30
    /\ v[2] = 2 /\ v[1] # None /\ ~Leap(v[1]) => v[3] <= 29

PlainSimple(d) ==
    /\ d.tag \notin {AddressTag, LongTextTag}
    /\ d.tag \in Numeric => \A i \in DOMAIN d.value : i > Carried(d.tag) => d.value[i] = 0
    /\ d.tag \in {OctetsTag, TextTag} => Len(d.value) < 256
    /\ d.tag = LongOctetsTag => Len(d.value) < 65536
    /\ d.tag = TimeTag => IsTime(d.value, <<24, 60, 60, 100>>)
    /\ d.tag = DateTag => IsDate(d.value)

\* The data of a level that the format carries.
PlainAbove(s) ==
    {d \in Simple : PlainSimple(d)}
    \cup {d \in [tag : Compound, value : Seq(s)] : Len(d.value) < 65536}
PlainLevel[n \in Nat] == IF n = 0 THEN {} ELSE PlainAbove(PlainLevel[n - 1])

AwkwardData(d) == d \notin PlainLevel[MaxDepth + 1]

Awkward(f, i) ==
    \E k \in DOMAIN ItemOf(f) :
        LET field == ItemOf(f)[k]
            v == f.items[i][k]
        IN  \/ (v # None) # Wanted(field, f.items[i])
            \/ field.type = "selector"
            \/ field.type = "data" /\ v # None /\ AwkwardData(v)

PlainUpTo(f, n) == \A i \in 1..n : i \in DOMAIN f.items => ~Awkward(f, i)
Plain(f) == PlainUpTo(f, Len(f.items))

-----------------------------------------------------------------------------
TypeOK ==
    /\ Len(values) = Len(Cluster)
    /\ \A i \in Places : values[i].tag = Cluster[i].default.tag
    /\ DOMAIN config = Places
    /\ \A i \in Places : (config[i] = None) = (Cluster[i].interval = None)
    /\ \A i \in Places : saved.values[i].tag = Cluster[i].default.tag
    /\ phase \in {"idle", "writing", "reading", "accepted", "refused", "unsent", "halted"}
    /\ leg \in {"request", "response"}
    /\ asked \in Requests \cup {NoFrame}
    /\ leg = "request" => sent = asked
    /\ written \in 0..Len(sent.items)
    /\ \A i \in DOMAIN wire : wire[i] \in 0..255
    /\ phase \in {"reading", "accepted"} => Len(wire) <= Capacity
    /\ position \in 0..Len(wire)
    /\ DOMAIN confirmed = Lasting

Init ==
    /\ values = Defaults /\ config = Intervals /\ saved = Image(values, config)
    /\ phase = "idle" /\ leg = "request"
    /\ asked = NoFrame /\ sent = NoFrame /\ written = 0 /\ wire = <<>>
    /\ got = NoFrame /\ position = 0
    /\ confirmed = [id \in Lasting |-> None]

clusterVars == <<values, config, saved>>

-----------------------------------------------------------------------------
(* The frame: header, command, fields and items. *)

Bit(on, weight) == IF on THEN weight ELSE 0
Control(f) ==
    Bit(~IsGlobal(f), 1) + Bit(f.code # None, 4) + Bit(f.back, 8) + Bit(f.quiet, 16)

\* The identifier of the cluster's own commands is left out by this code's writer.
Start(f) ==
    <<Control(f)>> \o (IF f.code = None THEN <<>> ELSE LowFirst(f.code)) \o <<f.sequence>>
    \o (IF IsGlobal(f) \/ leg = "request" THEN <<f.command>> ELSE <<>>)
    \o WriteRecord(LeadingOf(f), f.head)

WriteStart ==
    /\ phase = "writing" /\ wire = <<>>
    /\ wire' = Start(sent)
    /\ UNCHANGED <<clusterVars, phase, leg, asked, sent, written, got, position, confirmed>>

\* An item that cannot be written ends the whole frame.
WriteItem ==
    /\ phase = "writing" /\ wire # <<>> /\ written < Len(sent.items)
    /\ LET item == sent.items[written + 1]
       IN  IF ~Writable(ItemOf(sent), item) THEN phase' = "unsent" /\ UNCHANGED <<wire, written>>
           ELSE /\ wire' = wire \o WriteRecord(ItemOf(sent), item)
                /\ written' = written + 1
                /\ UNCHANGED phase
    /\ UNCHANGED <<clusterVars, leg, asked, sent, got, position, confirmed>>

\* No transfer in more than one frame: what is too long is not sent.
Send ==
    /\ phase = "writing" /\ wire # <<>> /\ written = Len(sent.items)
    /\ phase' = IF Len(wire) <= Capacity THEN "reading" ELSE "unsent"
    /\ UNCHANGED <<clusterVars, leg, asked, sent, written, wire, got, position, confirmed>>

HeaderFields(control) ==
    <<Always("u8")>> \o (IF (control \div 4) % 2 = 1 THEN <<Always("u16")>> ELSE <<>>)
    \o <<Always("u8"), Always("u8")>>

\* The frame that the first bytes make, without its items.
StartRead(b) ==
    LET fields == HeaderFields(b[1])
        header == ReadRecord(fields, b)
        control == b[1]
        command == header.value[Len(fields)]
        head == ReadRecord(Leading(command), From(b, header.length))
        frame(type, fs) ==
            [type |-> type, code |-> IF Len(fields) = 4 THEN header.value[2] ELSE None,
             back |-> (control \div 8) % 2 = 1, quiet |-> (control \div 16) % 2 = 1,
             sequence |-> header.value[Len(fields) - 1], command |-> command,
             head |-> fs, items |-> <<>>]
    IN  IF header.outcome # "taken" THEN header
        ELSE IF control % 4 = 1 THEN Taken(frame("specific", <<>>), header.length)
        ELSE IF control % 4 # 0 \/ command \notin GlobalCommand THEN Refused
        ELSE IF head.outcome # "taken" THEN head
        ELSE Taken(frame("global", head.value), header.length + head.length)

ReadStart ==
    /\ phase = "reading" /\ position = 0
    /\ LET r == StartRead(wire)
       IN  IF r.outcome = "taken"
           THEN got' = r.value /\ position' = r.length /\ UNCHANGED phase
           ELSE phase' = r.outcome /\ UNCHANGED <<got, position>>
    /\ UNCHANGED <<clusterVars, leg, asked, sent, written, wire, confirmed>>

MoreItems == ItemOf(got) # <<>> /\ position < Len(wire)

ReadItem ==
    /\ phase = "reading" /\ position > 0 /\ MoreItems
    /\ LET r == ReadRecord(ItemOf(got), From(wire, position))
       IN  IF r.outcome = "taken"
           THEN /\ got' = [got EXCEPT !.items = Append(@, r.value)]
                /\ position' = position + r.length
                /\ UNCHANGED phase
           ELSE phase' = r.outcome /\ UNCHANGED <<got, position>>
    /\ UNCHANGED <<clusterVars, leg, asked, sent, written, wire, confirmed>>

-----------------------------------------------------------------------------
(* The cluster. *)

UnsupportedAttribute == 134
InvalidValue == 135
ReadOnly == 136
UnreportableAttribute == 140
InvalidDataType == 141

ReadAnswer(id) ==
    IF Known(id) THEN <<id, Success, values[At(id)]>> ELSE <<id, UnsupportedAttribute, None>>

\* Faulty variant: the type of the datum is not looked at.
WriteStatusUntyped(r) ==
    IF ~Known(r[1]) THEN UnsupportedAttribute
    ELSE IF ~Cluster[At(r[1])].write THEN ReadOnly
    ELSE Success
WriteStatus(r) ==
    IF ~Known(r[1]) THEN UnsupportedAttribute
    ELSE IF ~Cluster[At(r[1])].write THEN ReadOnly
    ELSE IF r[2].tag # Cluster[At(r[1])].default.tag THEN InvalidDataType
    ELSE Success

\* The last of the records accepted for an attribute stays.
Accepted(i) ==
    {k \in DOMAIN got.items : WriteStatus(got.items[k]) = Success /\ At(got.items[k][1]) = i}
Divided ==
    [i \in Places |-> IF Accepted(i) = {} THEN values[i] ELSE got.items[Max(Accepted(i))][2]]

AllAccepted == \A k \in DOMAIN got.items : WriteStatus(got.items[k]) = Success
\* Faulty variant: of two records for one attribute the first stays.
UndividedReversed ==
    IF ~AllAccepted THEN values
    ELSE [i \in Places |-> IF Accepted(i) = {} THEN values[i] ELSE got.items[Min(Accepted(i))][2]]
Undivided == IF AllAccepted THEN Divided ELSE values

Reportable(id) == Known(id) /\ config[At(id)] # None

ReportingStatus(r) ==
    IF r[1] # Report THEN UnsupportedAttribute
    ELSE IF ~Reportable(r[2]) THEN UnreportableAttribute
    ELSE IF r[4] > r[5] /\ ~(r[4] = 65535 /\ r[5] = 0) THEN InvalidValue
    ELSE Success
Configuring(i) ==
    {k \in DOMAIN got.items :
        ReportingStatus(got.items[k]) = Success /\ At(got.items[k][2]) = i}
Configured ==
    [i \in Places |->
        IF Configuring(i) = {} THEN config[i]
        ELSE LET r == got.items[Max(Configuring(i))] IN <<r[4], r[5]>>]

ReportingAnswer(r) ==
    IF r[1] = Report /\ Reportable(r[2])
    THEN <<Success, r[1], r[2], Cluster[At(r[2])].default.tag, config[At(r[2])][1],
           config[At(r[2])][2], None, None>>
    ELSE <<UnsupportedAttribute, r[1], r[2], None, None, None, None, None>>

\* The attributes from an identifier on, in their order, no more than the limit.
Discovered(start, limit) ==
    LET ids == {id \in Ids : id >= start}
        n == IF limit < Cardinality(ids) THEN limit ELSE Cardinality(ids)
    IN  [k \in 1..n |-> CHOOSE id \in ids : Cardinality({j \in ids : j < id}) = k - 1]

\* Command, fields and items of the answer to a global command; None for those
\* without an answer of their own.
Part(command, head, items) == [command |-> command, head |-> head, items |-> items]

GlobalAnswer ==
    LET c == got.command
    IN  CASE c = ReadAttributes ->
                Part(ReadAttributesResponse, <<>>,
                     [k \in DOMAIN got.items |-> ReadAnswer(got.items[k][1])])
          [] c \in {WriteAttributes, WriteAttributesUndivided} ->
                Part(WriteAttributesResponse, <<>>,
                     [k \in DOMAIN got.items |->
                        <<WriteStatus(got.items[k]), got.items[k][1]>>])
          [] c = ConfigureReporting ->
                Part(ConfigureReportingResponse, <<>>,
                     [k \in DOMAIN got.items |->
                        <<ReportingStatus(got.items[k]), got.items[k][1], got.items[k][2]>>])
          [] c = ReadReportingConfiguration ->
                Part(ReadReportingConfigurationResponse, <<>>,
                     [k \in DOMAIN got.items |-> ReportingAnswer(got.items[k])])
          [] c = DiscoverAttributes ->
                LET ids == Discovered(got.head[1], got.head[2])
                IN  Part(DiscoverAttributesResponse, <<TRUE>>,
                         [i \in DOMAIN ids |-> <<ids[i], Cluster[At(ids[i])].default.tag>>])
          [] c = DiscoverCommandsReceived ->
                Part(DiscoverCommandsReceivedResponse, <<FALSE>>, <<>>)
          [] OTHER -> None

\* The attributes once the command is carried out.
ValuesAfter ==
    CASE got.command \in {WriteAttributes, WriteAttributesNoResponse} -> Divided
      [] got.command = WriteAttributesUndivided -> Undivided
      [] OTHER -> values

ConfigAfter ==
    IF got.command = ConfigureReporting THEN Configured ELSE config

-----------------------------------------------------------------------------
(* The commands of the Identify cluster. *)

Identify == 0
IdentifyQuery == 1

Payload == [i \in DOMAIN got.items |-> got.items[i][1]]

\* An Identify command without its time is ignored.
Identified ==
    IF got.command = Identify /\ Len(Payload) >= 2
    THEN [values EXCEPT ![At(IdentifyTime)].value = SubSeq(Payload, 1, 2)]
    ELSE values

Remaining(v) == Number(v[At(IdentifyTime)].value)

IdentifyAnswer ==
    IF got.command = IdentifyQuery /\ Remaining(values) > 0
    THEN LET t == values[At(IdentifyTime)].value
         IN  Part(0, <<>>, [i \in DOMAIN t |-> <<t[i]>>])
    ELSE None

-----------------------------------------------------------------------------
(* Handling a frame. *)

Answer(part, type) ==
    [type |-> type, code |-> got.code, back |-> ~got.back, quiet |-> TRUE,
     sequence |-> got.sequence, command |-> part.command, head |-> part.head,
     items |-> part.items]

\* The default response names the sequence number where the command belongs.
Default == Part(DefaultResponse, <<got.sequence, Success>>, <<>>)

WantsDefault == ~got.quiet /\ ~(IsGlobal(got) /\ got.command = DefaultResponse)

Respond ==
    LET part == IF IsGlobal(got) THEN GlobalAnswer ELSE IdentifyAnswer
    IN  IF part = None /\ ~WantsDefault
        THEN phase' = "idle" /\ UNCHANGED <<leg, sent, written, wire, got, position>>
        ELSE /\ phase' = "writing" /\ leg' = "response"
             /\ sent' = IF part = None THEN Answer(Default, "global")
                        ELSE Answer(part, got.type)
             /\ written' = 0 /\ wire' = <<>> /\ got' = NoFrame /\ position' = 0

\* The whole frame is read: the cluster changes and is saved, then the answer
\* is written.
Handle ==
    /\ phase = "reading" /\ leg = "request" /\ position > 0 /\ ~MoreItems
    /\ values' = IF IsGlobal(got) THEN ValuesAfter ELSE Identified
    /\ config' = IF IsGlobal(got) THEN ConfigAfter ELSE config
    /\ saved' = Image(values', config')
    /\ Respond
    /\ UNCHANGED <<asked, confirmed>>

\* One round of the identify timer, at most once a second; it is not saved.
Tick ==
    /\ phase # "halted"
    /\ Remaining(values) > 0
    /\ values' = [values EXCEPT ![At(IdentifyTime)].value = LowFirst(Remaining(values) - 1)]
    /\ UNCHANGED <<config, saved, phase, leg, asked, sent, written, wire, got, position,
                   confirmed>>

-----------------------------------------------------------------------------
(* A restart reads the attributes one behind the other, as they were written;  *)
(* the first that cannot be read leaves it and the rest at their defaults.     *)

ImageFields(i) ==
    <<Always("data")>>
    \o (IF Cluster[i].interval = None THEN <<>> ELSE <<Always("u16"), Always("u16")>>)

ImageBytes ==
    FlattenSeq([i \in Places |->
        WriteRecord(ImageFields(i), <<saved.values[i]>> \o
                    (IF saved.config[i] = None THEN <<>> ELSE saved.config[i]))])

\* The cluster with one attribute more, read from byte "at" of the image on.
Loading(i, l) ==
    LET r == ReadRecord(ImageFields(i), From(ImageBytes, l.at) \o Zeros(16))
    IN  IF l.stopped \/ r.outcome # "taken" \/ r.value[1].tag # Cluster[i].default.tag
        THEN [l EXCEPT !.stopped = TRUE]
        ELSE [stopped |-> FALSE, at |-> l.at + r.length,
              values |-> [l.values EXCEPT ![i] = r.value[1]],
              config |-> IF Len(r.value) = 1 THEN l.config
                         ELSE [l.config EXCEPT ![i] = Tail(r.value)]]

Loaded ==
    LET after[i \in 0..Len(Cluster)] ==
            IF i = 0
            THEN [stopped |-> FALSE, at |-> 0, values |-> Defaults, config |-> Intervals]
            ELSE Loading(i, after[i - 1])
    IN  after[Len(Cluster)]

PlainImage(i) == \A j \in 1..i : ~AwkwardData(saved.values[j])

Restart ==
    /\ phase \in {"idle", "halted"}
    /\ values' = Loaded.values /\ config' = Loaded.config
    /\ confirmed' = [id \in Lasting |-> IF PlainImage(At(id)) THEN confirmed[id] ELSE None]
    /\ phase' = "idle"
    /\ UNCHANGED <<saved, leg, asked, sent, written, wire, got, position>>

-----------------------------------------------------------------------------
(* The peer. *)

Writes(f) ==
    /\ IsGlobal(f)
    /\ f.command \in {WriteAttributes, WriteAttributesUndivided, WriteAttributesNoResponse}

\* What the peer knows no more while the frame is under way: attributes it is
\* about to write, all of them when the frame holds what the format does not carry.
Touched(f) ==
    IF ~Writes(f) THEN {}
    ELSE IF ~Plain(f) THEN Ids
    ELSE {f.items[i][1] : i \in DOMAIN f.items}

Ask(f) ==
    /\ phase = "idle"
    /\ phase' = "writing" /\ leg' = "request"
    /\ asked' = f /\ sent' = f
    /\ written' = 0 /\ wire' = <<>> /\ got' = NoFrame /\ position' = 0
    /\ confirmed' = [id \in Lasting |-> IF id \in Touched(f) THEN None ELSE confirmed[id]]
    /\ UNCHANGED clusterVars

\* The records of a plain write that the answer reports as done; an undivided
\* write is done as a whole or not at all.
Done ==
    {i \in DOMAIN asked.items \cap DOMAIN got.items :
        /\ got.items[i] = <<Success, asked.items[i][1]>>
        /\ asked.command = WriteAttributesUndivided =>
                \A j \in DOMAIN got.items : got.items[j][1] = Success}

LastDone(id) ==
    {i \in Done : asked.items[i][1] = id
                  /\ \A j \in Done : asked.items[j][1] = id => j <= i}

Conclude ==
    /\ phase = "reading" /\ leg = "response" /\ position > 0 /\ ~MoreItems
    /\ phase' = "accepted"
    /\ confirmed' =
        IF Writes(asked) /\ Plain(asked) /\ got.command = WriteAttributesResponse
        THEN [id \in Lasting |-> IF LastDone(id) = {} THEN confirmed[id]
                             ELSE asked.items[CHOOSE i \in LastDone(id) : TRUE][2]]
        ELSE confirmed
    /\ UNCHANGED <<clusterVars, leg, asked, sent, written, wire, got, position>>

\* The peer is through with its request, whatever came of it; a peer that halted
\* starts again.  The node drops a frame that it cannot read.
Rest ==
    /\ \/ phase \in {"accepted", "refused", "unsent"}
       \/ phase = "halted" /\ leg = "response"
    /\ phase' = "idle"
    /\ UNCHANGED <<clusterVars, leg, asked, sent, written, wire, got, position, confirmed>>

-----------------------------------------------------------------------------
Next ==
    \/ \E f \in Requests : Ask(f)
    \/ WriteStart \/ WriteItem \/ Send
    \/ ReadStart \/ ReadItem \/ Handle \/ Conclude
    \/ Tick \/ Restart \/ Rest

Spec == Init /\ [][Next]_vars

-----------------------------------------------------------------------------
(* Properties. *)

Forgetful == leg = "response" /\ sent.type = "specific"

\* A record is read as it was written unless it, or one before it, holds what its
\* format does not carry: an address, a long text, a sign or a fraction in bytes
\* that stay at home, an open day in a short month, a selector, an optional field
\* that the reader does not expect.  A frame without those is neither refused nor
\* halts its reader, and ends where it was written to end.
ReadBack ==
    phase \in {"reading", "accepted", "refused", "halted"} /\ ~Forgetful =>
        /\ \A i \in DOMAIN got.items :
              PlainUpTo(sent, i) => i \in DOMAIN sent.items /\ got.items[i] = sent.items[i]
        /\ Plain(sent) => phase \in {"reading", "accepted"}
        /\ phase = "accepted" /\ Plain(sent) => got = sent

\* What an answer told the peer is so: the attribute holds the datum that the peer
\* wrote, and holds it across restarts, if the attributes before it can be read back.
ConfirmedIsHeld ==
    \A id \in Lasting : confirmed[id] # None => values[At(id)] = confirmed[id]
=============================================================================
