---------------------------- MODULE MCZclExchange ----------------------------
(***************************************************************************)
(* An Identify cluster with a number of three bytes, an address and a byte *)
(* behind it.  Reports and structured commands, which change nothing, show *)
(* every type; reads and writes come in pairs.                             *)
(***************************************************************************)
EXTENDS ZclExchange

\* ASCII.
MCUtf8 == Seq(0..127)

Small(n) == Datum(32, <<n>>)
Three(a, b, c, d) == Datum(42, <<a, b, c, d>>)
Address(n) == Datum(AddressTag, <<n, 0, 66, 0, 7, 0, 32, n>>)

Attribute(id, default, write, interval) ==
    [id |-> id, default |-> default, write |-> write, interval |-> interval]

MCCluster ==
    <<Attribute(IdentifyTime, Datum(33, <<0, 0>>), TRUE, None),
      Attribute(1, Three(5, 0, 0, 0), TRUE, <<1, 9>>),
      Attribute(2, Address(0), TRUE, None),
      Attribute(4, Small(0), TRUE, None),
      Attribute(6, Small(9), FALSE, None)>>

Nested[n \in 0..MaxDepth + 1] ==
    IF n = 0 THEN Small(1) ELSE Datum(72, <<Nested[n - 1]>>)

Sample ==
    {Datum(NullTag, <<>>), Datum(BoolTag, <<1>>), Small(200),
     Three(1, 2, 3, 0), Three(254, 255, 255, 255), Datum(34, <<1, 2, 200, 0>>),
     Datum(57, <<0, 0, 128, 63>>), Datum(Float16Tag, <<0, 0, 128, 63>>),
     Datum(TextTag, <<97, 98>>), Datum(OctetsTag, <<>>), Datum(LongOctetsTag, <<255>>),
     Datum(LongTextTag, <<97>>),
     Datum(TimeTag, <<23, None, 60, 0>>),
     Datum(DateTag, <<124, 2, 29, None>>), Datum(DateTag, <<124, 4, None, 1>>),
     Address(1), Datum(KeyTag, Zeros(16)),
     Datum(76, <<Small(7), Datum(TextTag, <<97>>)>>), Datum(80, <<Address(2)>>),
     Nested[MaxDepth], Nested[MaxDepth + 1]}

Frame(type, code, quiet, command, head, items) ==
    [type |-> type, code |-> code, back |-> FALSE, quiet |-> quiet, sequence |-> 17,
     command |-> command, head |-> head, items |-> items]
Global(command, items) == Frame("global", None, FALSE, command, <<>>, items)
Quiet(command, items) == Frame("global", 258, TRUE, command, <<>>, items)
Own(command, bytes) ==
    Frame("specific", None, TRUE, command, <<>>, [i \in DOMAIN bytes |-> <<bytes[i]>>])

Reports ==
    {Quiet(ReportAttributes, <<<<1, d>>, <<772, Small(2)>>>>) : d \in Sample}
    \cup {Quiet(ReportAttributes, <<<<1, d>>, <<1, e>>>>) :
             d \in {Three(1, 2, 3, 0), Datum(TextTag, <<97, 98>>)}, e \in Sample}

Record == {<<1, Three(7, 1, 0, 0)>>, <<1, Three(254, 255, 255, 255)>>, <<2, Address(3)>>,
           <<4, Small(1)>>, <<4, Small(2)>>, <<4, Datum(BoolTag, <<1>>)>>,
           <<6, Small(1)>>, <<3, Small(1)>>}

WriteRequests ==
    {Global(WriteAttributes, <<r>>) : r \in Record}
    \cup {Global(WriteAttributesUndivided, <<r, <<4, Small(2)>>>>) : r \in Record}
    \cup {Quiet(WriteAttributesNoResponse, <<<<4, Small(1)>>>>),
          Global(WriteAttributes, <<<<4, Small(2)>>, <<1, Three(7, 1, 0, 0)>>>>)}

Asking ==
    {Global(ReadAttributes, <<<<1>>, <<2>>, <<3>>, <<4>>>>),
     Global(ReadAttributes, <<<<1>>, <<4>>, <<0>>>>),
     Global(ReadAttributes, <<<<1>>, <<2>>, <<1>>, <<2>>, <<1>>>>),
     Global(ConfigureReporting,
            <<<<Report, 1, 42, 2, 8, None, None>>, <<Report, 4, 32, 1, 2, None, None>>,
              <<Receive, 1, None, None, None, None, 5>>>>),
     Global(ConfigureReporting, <<<<Report, 1, 42, 9, 2, None, None>>>>),
     Global(ConfigureReporting,
            <<<<Report, 1, 42, 2, 8, Three(1, 0, 0, 0), None>>,
              <<Report, 1, 42, 3, 8, None, None>>>>),
     Global(ReadReportingConfiguration, <<<<Report, 1>>, <<Receive, 1>>>>),
     Global(ReadReportingConfiguration, <<<<Receive, 1>>, <<Receive, 4>>>>),
     Frame("global", None, FALSE, DiscoverAttributes, <<1, 2>>, <<>>),
     Frame("global", None, FALSE, DiscoverCommandsReceived, <<0, 5>>, <<>>),
     Frame("global", None, FALSE, DefaultResponse, <<0, Success>>, <<>>),
     Global(14, <<<<[identifier |-> 1, indices |-> <<1>>]>>>>),
     Global(15, <<<<[identifier |-> 1, indices |-> <<>>], Small(1)>>>>),
     Own(Identify, <<1, 0>>), Own(Identify, <<0>>), Own(IdentifyQuery, <<>>),
     Frame("specific", None, FALSE, 64, <<>>, <<<<0>>, <<0>>>>)}

MCRequests == Reports \cup WriteRequests \cup Asking
=============================================================================
