---------------------------- MODULE Joining_proofs ----------------------------
(***************************************************************************)
(* Proofs about Joining, for all networks, parents and channels, and for   *)
(* queues and lists of any size.                                           *)
(***************************************************************************)
EXTENDS Joining, FiniteSetTheorems, WellFoundedInduction, TLAPS

Scanning == {"flush", "tune", "request"}
Attempting == {"next", "associate", "poll", "answer"}

\* Positions of the beacons of the channels before the one being scanned.
Earlier == {i \in 1..Len(heard) : heard[i].channel < at}

\* The lists of a scan: those of the channels before are within the capacity
\* together, and so is that of the channel being scanned, by itself.
ListsFit ==
    /\ pc \in Scanning => \A i \in 1..Len(heard) : heard[i].channel < at
    /\ pc \in Scanning \cup {"choose"} \cup Attempting => Len(heard) <= Capacity
    /\ pc = "beacons" =>
        /\ \A i \in 1..Len(heard) : heard[i].channel <= at
        /\ Cardinality(Earlier) <= Capacity
        /\ Cardinality(Collected) <= Capacity
    /\ pc \in OnNet \cup {"panicked"} => heard = <<>>

\* A node that tries to join is at a network that one of the parents heard
\* permits to join and that it has not given up; it has asked parents of that
\* network only, with room, and none before one that is as good and was heard
\* earlier, or better.
AskedInOrder ==
    pc \in Attempting =>
        /\ net \in Net \ tried
        /\ \E i \in 1..Len(heard) : NetOf[heard[i].from] = net
        /\ retry < Retries
        /\ asked \subseteq Potential
        /\ \A i \in asked : \A j \in Potential \ asked : Before(i, j)

\* From the request to the answer the radio is where the network was heard
\* first, and in its PAN.
Tuned ==
    pc \in Attempting \ {"next"} =>
        /\ asked # {}
        /\ radio.channel = Logical
        /\ radio.pan = net

IInv == TypeOK /\ ListsFit /\ AskedInOrder /\ Tuned

-----------------------------------------------------------------------------
\* The queue.

\* A set of numbers that is not empty has a least element.
LEMMA LeastElement ==
    ASSUME NEW S \in SUBSET Nat, S # {}
    PROVE  \E i \in S : \A j \in S : i <= j
<1> DEFINE R == OpToRel(<, Nat)
<1>1. IsWellFoundedOn(R, Nat)
    BY NatLessThanWellFounded
<1>2. \A i, j \in Nat : j < i => <<j, i>> \in R
    BY DEF OpToRel
<1> HIDE DEF R
<1>3. PICK i \in S : \A j \in S : <<j, i>> \notin R
    BY <1>1, WFMin
<1>4. \A j \in S : ~(j < i)
    BY <1>2, <1>3
<1> QED
    BY <1>3, <1>4

\* What the flush leaves is an end of the queue.
LEMMA FlushedType ==
    ASSUME NEW q \in Seq(Frame), Len(q) <= QueueSize
    PROVE  /\ Flushed(q) \in Seq(Frame)
           /\ Len(Flushed(q)) <= QueueSize
           /\ \A n \in 1..Len(Flushed(q)) : \E m \in 1..Len(q) : Flushed(q)[n] = q[m]
<1> DEFINE bad == {i \in 1..Len(q) : q[i].kind = "garbled"}
           k == CHOOSE i \in bad : \A j \in bad : i <= j
<1>1. CASE bad = {}
    <2>1. Flushed(q) = <<>>
        BY <1>1 DEF Flushed
    <2>2. Len(<<>>) = 0 /\ <<>> \in Seq(Frame)
        OBVIOUS
    <2> QED
        BY <2>1, <2>2, ConstantsAssumption
<1>2. CASE bad # {}
    <2>1. \E i \in bad : \A j \in bad : i <= j
        <3>1. bad \in SUBSET Nat
            OBVIOUS
        <3> HIDE DEF bad
        <3> QED
            BY <1>2, <3>1, LeastElement
    <2>2. k \in 1..Len(q)
        BY <2>1
    <2>3. Flushed(q) = SubSeq(q, k + 1, Len(q))
        BY <1>2 DEF Flushed
    <2> HIDE DEF k
    <2>4. /\ SubSeq(q, k + 1, Len(q)) \in Seq(Frame)
          /\ Len(SubSeq(q, k + 1, Len(q))) = Len(q) - k
          /\ \A n \in 1..(Len(q) - k) : SubSeq(q, k + 1, Len(q))[n] = q[k + n]
        BY <2>2
    <2> QED
        BY <2>2, <2>3, <2>4, ConstantsAssumption
<1> QED
    BY <1>1, <1>2

\* The rest of the queue once its first frame is taken.
LEMMA TailType ==
    ASSUME NEW q \in Seq(Frame), q # <<>>, Len(q) <= QueueSize
    PROVE  /\ q[1] \in Frame
           /\ Tail(q) \in Seq(Frame)
           /\ Len(Tail(q)) <= QueueSize
           /\ \A n \in 1..Len(Tail(q)) : Tail(q)[n] = q[n + 1]
BY ConstantsAssumption

-----------------------------------------------------------------------------
\* The result of a scan.

\* The positions of the beacons heard, and what is noted of each.
LEMMA HeardType ==
    ASSUME heard \in Seq(Descriptor)
    PROVE  /\ Len(heard) \in Nat
           /\ IsFiniteSet(1..Len(heard)) /\ Cardinality(1..Len(heard)) = Len(heard)
           /\ \A i \in 1..Len(heard) :
                heard[i].from \in Parent /\ heard[i].channel \in 1..Channels
<1>1. Len(heard) \in Nat
    OBVIOUS
<1>2. IsFiniteSet(1..Len(heard)) /\ Cardinality(1..Len(heard)) = Len(heard)
    BY <1>1, FS_Interval
<1>3. \A i \in 1..Len(heard) : heard[i] \in Descriptor
    OBVIOUS
<1> QED
    BY <1>1, <1>2, <1>3 DEF Descriptor

\* A network that was heard has a first beacon, and with it a channel.
LEMMA LogicalType ==
    ASSUME heard \in Seq(Descriptor),
           NEW i \in 1..Len(heard), NetOf[heard[i].from] = net
    PROVE  Logical \in 1..Channels
<1> DEFINE of == {j \in 1..Len(heard) : NetOf[heard[j].from] = net}
<1>1. of \in SUBSET Nat /\ of # {}
    OBVIOUS
<1>2. PICK first \in of : \A j \in of : first <= j
    <2> HIDE DEF of
    <2> QED
        BY <1>1, LeastElement
<1>3. /\ first \in 1..Len(heard)
      /\ NetOf[heard[first].from] = net
      /\ \A j \in 1..(first - 1) : NetOf[heard[j].from] # net
    BY <1>2
<1> QED
    BY <1>3, HeardType DEF Logical

\* The beacons of a channel and of those before it, together.
LEMMA ListsTogether ==
    ASSUME heard \in Seq(Descriptor), at \in 1..Channels,
           \A i \in 1..Len(heard) : heard[i].channel <= at,
           Cardinality(Earlier) <= Capacity, Cardinality(Collected) <= Capacity
    PROVE  Len(heard) <= 2 * Capacity
<1>1. IsFiniteSet(1..Len(heard)) /\ Cardinality(1..Len(heard)) = Len(heard)
    BY HeardType
<1>2. Earlier \subseteq 1..Len(heard) /\ Collected \subseteq 1..Len(heard)
    BY DEF Earlier, Collected
<1>3. /\ IsFiniteSet(Earlier) /\ Cardinality(Earlier) \in Nat
      /\ IsFiniteSet(Collected) /\ Cardinality(Collected) \in Nat
    BY <1>1, <1>2, FS_Subset, FS_CardinalityType
<1>4. at \in Nat /\ \A i \in 1..Len(heard) : heard[i].channel \in Nat
    BY HeardType
<1>5. Earlier \cup Collected = 1..Len(heard)
    BY <1>4 DEF Earlier, Collected
<1>6. Earlier \cap Collected = {}
    BY <1>4 DEF Earlier, Collected
<1>7. Cardinality(Earlier \cap Collected) = 0
    BY <1>6, FS_EmptySet
<1>8. Cardinality(Earlier \cup Collected)
        = Cardinality(Earlier) + Cardinality(Collected) - Cardinality(Earlier \cap Collected)
    BY <1>3, FS_Union
<1>9. Len(heard) = Cardinality(Earlier) + Cardinality(Collected)
    <2>1. Cardinality(Earlier \cup Collected) = Len(heard)
        BY <1>1, <1>5, Zenon
    <2> QED
        BY <1>3, <1>7, <1>8, <2>1
<1> QED
    BY <1>3, <1>9, ConstantsAssumption

\* What depends on the result of the scan alone.
LEMMA SameChoice ==
    ASSUME UNCHANGED choice
    PROVE  /\ Earlier' = Earlier /\ Collected' = Collected
           /\ Potential' = Potential /\ Logical' = Logical
           /\ \A i, j : Before(i, j)' = Before(i, j)
<1>1. UNCHANGED <<at, heard, net>>
    BY DEF choice
<1> QED
    BY <1>1 DEF Earlier, Collected, Potential, Logical, Before

\* Where the node's task may go while the result of the scan stays as it is.
Moves ==
    {<<"flush", "tune">>, <<"tune", "request">>, <<"request", "beacons">>,
     <<"associate", "poll">>, <<"associate", "next">>, <<"poll", "answer">>,
     <<"poll", "next">>, <<"answer", "next">>, <<"listen", "check">>,
     <<"check", "conflict">>, <<"check", "report">>, <<"conflict", "report">>,
     <<"check", "listen">>, <<"conflict", "listen">>, <<"report", "listen">>,
     <<"listen", "flush">>}

\* A step that leaves the result of the scan alone, and the radio while it asks.
LEMMA ChoiceKept ==
    ASSUME IInv, UNCHANGED choice,
           pc' = pc \/ <<pc, pc'>> \in Moves,
           pc' \in Attempting => UNCHANGED radio
    PROVE  ListsFit' /\ AskedInOrder' /\ Tuned'
<1>1. UNCHANGED <<at, heard, tried, net, retry, asked>>
    BY DEF choice
<1>2. ListsFit'
    <2>1. CASE <<pc, pc'>> = <<"request", "beacons">>
        <3>1. heard \in Seq(Descriptor) /\ at \in 1..Channels
            BY DEF IInv, TypeOK
        <3>2. \A i \in 1..Len(heard) : heard[i].channel < at /\ heard[i].channel \in Nat
            BY <2>1, <3>1, HeardType DEF IInv, ListsFit, Scanning
        <3>3. Earlier = 1..Len(heard)
            BY <3>2 DEF Earlier
        <3>4. Collected = {}
            BY <3>1, <3>2 DEF Collected
        <3>5. Len(heard) <= Capacity
            BY <2>1 DEF IInv, ListsFit, Scanning
        <3>6. Cardinality(Earlier) <= Capacity /\ Cardinality(Collected) <= Capacity
            <4>1. Cardinality(Earlier) = Len(heard) /\ Cardinality(Collected) = 0
                BY <3>1, <3>3, <3>4, HeardType, FS_EmptySet
            <4> QED
                BY <3>5, <4>1, ConstantsAssumption
        <3> QED
            BY <1>1, <2>1, <3>1, <3>2, <3>6, SameChoice
            DEF ListsFit, Scanning, OnNet, Attempting
    <2>2. CASE <<pc, pc'>> # <<"request", "beacons">>
        BY <1>1, <2>2, SameChoice, ConstantsAssumption
        DEF IInv, ListsFit, Moves, Scanning, OnNet, Attempting
    <2> QED
        BY <2>1, <2>2
<1>3. pc' \in Attempting => pc \in Attempting /\ (pc' # "next" => pc # "next")
    BY DEF Moves, Attempting
<1>4. AskedInOrder'
    BY <1>1, <1>3, SameChoice DEF IInv, AskedInOrder
<1>5. Tuned'
    BY <1>1, <1>3, SameChoice DEF IInv, Tuned
<1> QED
    BY <1>2, <1>4, <1>5

\* The length that the types allow follows from the lists.
Typed == heard \in Seq(Descriptor) /\ at \in 1..Channels /\ pc \in Scanning \cup Attempting
            \cup OnNet \cup {"beacons", "choose", "panicked"}

Bounded == Len(heard) <= IF pc = "beacons" THEN 2 * Capacity ELSE Capacity

\* A list of a scan that fits is within the type's bound.
LEMMA LengthBound == ListsFit /\ Typed => Bounded
<1> SUFFICES ASSUME ListsFit, Typed PROVE Bounded
    OBVIOUS
<1>1. CASE pc = "beacons"
    BY <1>1, ListsTogether DEF Typed, ListsFit, Bounded
<1>2. CASE pc \in OnNet \cup {"panicked"}
    BY <1>2, ConstantsAssumption DEF ListsFit, OnNet, Bounded
<1>3. CASE pc \in Scanning \cup {"choose"} \cup Attempting
    BY <1>3 DEF ListsFit, Scanning, Attempting, Bounded
<1> QED
    BY <1>1, <1>2, <1>3 DEF Typed

\* The same after a step.
LEMMA LengthBoundNext == (ListsFit /\ Typed => Bounded)'
BY LengthBound, PTL

-----------------------------------------------------------------------------
\* Steps that leave the result of the scan alone.

Radio == [channel : 1..Channels, pan : Net \cup {None}, addr : Addr \cup {Refusal, None}]

\* They keep the invariant if they keep the types of the rest.
LEMMA QuietStep ==
    ASSUME IInv, UNCHANGED choice,
           pc' = pc \/ <<pc, pc'>> \in Moves,
           pc' \in Attempting => UNCHANGED radio,
           pc' \in OnNet => UNCHANGED <<radio, epid>>,
           radio' \in Radio, epid' \in Parent \cup {None},
           queue' \in Seq(Frame), Len(queue') <= QueueSize,
           signal' \in BOOLEAN, rx' \in {"poll", "reset", "wait"},
           owed' \subseteq BeaconFrame \cup Answer, noise' \in 0..MaxNoise
    PROVE  IInv'
<1>1. ListsFit' /\ AskedInOrder' /\ Tuned'
    BY ChoiceKept
<1>2. UNCHANGED <<at, heard, tried, net, retry, asked>>
    BY DEF choice
<1>3. Typed'
    BY <1>2 DEF IInv, TypeOK, Typed, Moves, Transmitting, Collecting, Scanning,
                Attempting, OnNet
<1>4. Bounded'
    BY <1>1, <1>3, LengthBoundNext
<1>5. pc' \in OnNet => pc \in OnNet
    BY DEF Moves, OnNet
<1>6. TypeOK'
    BY <1>2, <1>3, <1>4, <1>5
    DEF IInv, TypeOK, Typed, Bounded, Radio, Transmitting, Collecting, Scanning,
        Attempting, OnNet
<1> QED
    BY <1>1, <1>6 DEF IInv

\* What such a step may rely on.
LEMMA QuietTypes ==
    ASSUME IInv
    PROVE  /\ radio \in Radio /\ epid \in Parent \cup {None}
           /\ queue \in Seq(Frame) /\ Len(queue) <= QueueSize
           /\ signal \in BOOLEAN /\ rx \in {"poll", "reset", "wait"}
           /\ owed \subseteq BeaconFrame \cup Answer /\ noise \in 0..MaxNoise
BY DEF IInv, TypeOK, Radio

\* Polling while nothing for the node has come.
LEMMA PollingSteps ==
    ASSUME IInv, PollNothing \/ ResetSignal \/ Wake \/ PollOther
    PROVE  IInv'
<1>1. UNCHANGED <<radio, epid, pc, choice, air>>
    BY DEF PollNothing, ResetSignal, Wake, PollOther, driver
<1>2. /\ queue' = queue \/ (queue # <<>> /\ queue' = Tail(queue))
      /\ signal' \in {signal, FALSE}
      /\ rx' \in {"poll", "reset", "wait", rx}
    BY DEF PollNothing, ResetSignal, Wake, PollOther, Polled, driver
<1>3. queue' \in Seq(Frame) /\ Len(queue') <= QueueSize
    BY <1>2, QuietTypes, TailType
<1> QED
    BY <1>1, <1>2, <1>3, QuietTypes, QuietStep DEF air

\* Emptying the queue before the node transmits.
LEMMA FlushingSteps ==
    ASSUME IInv, FlushForScan \/ AssociateSent \/ PollFrame
    PROVE  IInv'
<1>1. UNCHANGED <<radio, epid, signal, rx, choice, air>> /\ <<pc, pc'>> \in Moves \cup {<<pc, pc>>}
    BY DEF FlushForScan, AssociateSent, PollFrame, driver, Moves
<1>2. /\ \/ queue' = Flushed(queue)
         \/ queue # <<>> /\ queue' \in {Tail(queue), Flushed(Tail(queue))}
    BY DEF FlushForScan, AssociateSent, PollFrame
<1>3. queue' \in Seq(Frame) /\ Len(queue') <= QueueSize
    BY <1>2, QuietTypes, TailType, FlushedType
<1> QED
    BY <1>1, <1>3, QuietTypes, QuietStep DEF air

\* The radio has sent what it was given.
LEMMA SendingSteps ==
    ASSUME IInv, Tune \/ RequestSent \/ PollSent \/ CheckSent
    PROVE  IInv'
<1>1. /\ UNCHANGED <<epid, queue, signal, choice, noise>>
      /\ <<pc, pc'>> \in Moves
      /\ radio' = radio \/ (radio' = [radio EXCEPT !.channel = at] /\ pc' = "request")
      /\ rx' \in {rx, "poll"}
    BY DEF Tune, RequestSent, PollSent, CheckSent, Moves
<1>2. radio' \in Radio
    BY <1>1, QuietTypes DEF IInv, TypeOK, Radio
<1>3. owed' \subseteq BeaconFrame \cup Answer
    BY QuietTypes DEF Tune, RequestSent, PollSent, CheckSent, OwedOn, BeaconsOwed
<1> QED
    BY <1>1, <1>2, <1>3, QuietTypes, QuietStep DEF Attempting, OnNet

\* An attempt ends, or the node goes on listening.
LEMMA EndingSteps ==
    ASSUME IInv, AssociateFails \/ NoAnswer \/ Checked \/ Resume
    PROVE  IInv'
<1>1. /\ UNCHANGED <<radio, epid, queue, signal, choice, air>>
      /\ <<pc, pc'>> \in Moves
      /\ rx' \in {rx, "poll"}
    BY DEF AssociateFails, NoAnswer, Checked, Resume, Stopped, Moves, driver
<1> QED
    BY <1>1, QuietTypes, QuietStep DEF air

\* The node starts again.
LEMMA ResetStep ==
    ASSUME IInv, Reset
    PROVE  IInv'
<1>1. UNCHANGED <<queue, signal, rx, choice, air>> /\ <<pc, pc'>> \in Moves /\ pc' = "flush"
    BY DEF Reset, Moves
<1>2. radio' \in Radio /\ epid' = None
    BY ConstantsAssumption DEF Reset, Radio
<1> QED
    BY <1>1, <1>2, QuietTypes, QuietStep DEF air, Attempting, OnNet

\* The radio hears, loses or mishears a frame.
LEMMA AirSteps ==
    ASSUME IInv,
           \/ \E f \in owed : Hear(f) \/ Lose(f)
           \/ \E f \in Overheard \cup Noise : HearNoise(f)
    PROVE  IInv'
<1>1. PICK f \in Frame :
        \/ f \in owed /\ (Hear(f) \/ Lose(f))
        \/ HearNoise(f)
    BY QuietTypes, ConstantsAssumption DEF Frame
<1>2. /\ UNCHANGED <<radio, epid, rx, pc, choice>>
      /\ \/ UNCHANGED <<queue, signal>>
         \/ Len(queue) < QueueSize /\ queue' = Append(queue, f) /\ signal' = TRUE
      /\ owed' \subseteq owed
      /\ noise' = noise \/ (noise < MaxNoise /\ noise' = noise + 1)
    BY <1>1 DEF Hear, HearNoise, Arrives, Lose, driver
<1>3. queue' \in Seq(Frame) /\ Len(queue') <= QueueSize
    <2>1. CASE UNCHANGED queue
        BY <2>1, QuietTypes
    <2>2. CASE Len(queue) < QueueSize /\ queue' = Append(queue, f)
        <3>1. queue \in Seq(Frame)
            BY QuietTypes
        <3>2. queue' \in Seq(Frame) /\ Len(queue') = Len(queue) + 1 /\ Len(queue) \in Nat
            BY <2>2, <3>1
        <3> QED
            BY <2>2, <3>2, ConstantsAssumption
    <2> QED
        BY <1>2, <2>1, <2>2
<1>4. noise' \in 0..MaxNoise
    BY <1>2, QuietTypes, ConstantsAssumption
<1> QED
    BY <1>2, <1>3, <1>4, QuietTypes, QuietStep
-----------------------------------------------------------------------------
\* Steps of the scan.

\* The next channel, or the end of the scan, once the lists are together.
LEMMA NextChannelStep ==
    ASSUME IInv, RequestFails \/ ChannelDone
    PROVE  IInv'
<1>1. /\ UNCHANGED <<radio, epid, queue, signal, heard, tried, net, retry, asked, owed, noise>>
      /\ rx' \in {rx, "poll"}
      /\ NextChannel
      /\ pc \in {"request", "beacons"}
    BY DEF RequestFails, ChannelDone, Stopped, driver, air
<1>2. /\ pc' \in {"flush", "choose"}
      /\ at' \in 1..Channels
      /\ at' = at \/ at' = at + 1
      /\ pc' = "flush" => at' = at + 1
    BY <1>1, ConstantsAssumption DEF NextChannel, IInv, TypeOK
<1>3. Len(heard) <= Capacity
    BY <1>1 DEF RequestFails, ChannelDone, IInv, ListsFit, Scanning
<1>4. /\ heard \in Seq(Descriptor)
      /\ at \in Nat
      /\ \A i \in 1..Len(heard) : heard[i].channel <= at /\ heard[i].channel \in Nat
    <2>1. heard \in Seq(Descriptor) /\ at \in Nat
        BY DEF IInv, TypeOK
    <2> QED
        BY <1>1, <2>1, HeardType DEF IInv, ListsFit, Scanning
<1>5. ListsFit'
    BY <1>1, <1>2, <1>3, <1>4 DEF ListsFit, Scanning, OnNet, Attempting
<1>6. AskedInOrder' /\ Tuned'
    BY <1>2 DEF AskedInOrder, Tuned, Attempting
<1>7. TypeOK'
    BY <1>1, <1>2, <1>3 DEF IInv, TypeOK, Transmitting, Collecting, OnNet
<1> QED
    BY <1>5, <1>6, <1>7 DEF IInv

\* A beacon is added to the list of its channel, and to no other.
LEMMA PollBeaconStep ==
    ASSUME IInv, PollBeacon
    PROVE  IInv'
<1> DEFINE d == [from |-> queue[1].from, channel |-> at]
           n == Len(heard)
<1>1. /\ UNCHANGED <<radio, epid, signal, rx, pc, at, tried, net, retry, asked, owed, noise>>
      /\ pc = "beacons"
      /\ queue # <<>> /\ queue' = Tail(queue)
      /\ queue[1].kind = "beacon"
      /\ heard' = IF Cardinality(Collected) < Capacity THEN Append(heard, d) ELSE heard
    BY DEF PollBeacon, Polled, driver, air
<1>2. /\ heard \in Seq(Descriptor) /\ n \in Nat /\ at \in 1..Channels /\ at \in Nat
      /\ \A i \in 1..n : heard[i].channel <= at
      /\ Cardinality(Earlier) <= Capacity /\ Cardinality(Collected) <= Capacity
    BY <1>1 DEF IInv, TypeOK, ListsFit
<1>3. queue' \in Seq(Frame) /\ Len(queue') <= QueueSize /\ queue[1] \in Frame
    BY <1>1, QuietTypes, TailType
<1>4. d \in Descriptor
    BY <1>1, <1>2, <1>3 DEF Frame, BeaconFrame, Answer, Noise, Descriptor
<1>5. CASE heard' = heard
    <2>1. Earlier' = Earlier /\ Collected' = Collected
        BY <1>1, <1>5 DEF Earlier, Collected
    <2>2. ListsFit'
        BY <1>1, <1>2, <1>5, <2>1 DEF ListsFit, Scanning, OnNet, Attempting
    <2> QED
        BY <1>1, <1>3, <1>5, <2>2
        DEF IInv, TypeOK, AskedInOrder, Tuned, Attempting, OnNet
<1>6. CASE heard' = Append(heard, d) /\ Cardinality(Collected) < Capacity
    <2>1. /\ heard' \in Seq(Descriptor) /\ Len(heard') = n + 1
          /\ \A i \in 1..n : heard'[i] = heard[i]
          /\ heard'[n + 1] = d
        BY <1>2, <1>4, <1>6
    <2>2. /\ 1..Len(heard') = (1..n) \cup {n + 1}
          /\ n + 1 \notin 1..n
        BY <1>2, <2>1
    <2>3. d.channel = at
        OBVIOUS
    <2> HIDE DEF d
    <2>4. Earlier' = Earlier
        BY <1>1, <1>2, <2>1, <2>2, <2>3 DEF Earlier
    <2>5. Collected' = Collected \cup {n + 1} /\ n + 1 \notin Collected
        BY <1>1, <1>2, <2>1, <2>2, <2>3 DEF Collected
    <2>6. Cardinality(Collected') <= Capacity
        <3>1. IsFiniteSet(1..n) /\ Collected \subseteq 1..n
            BY <1>2, FS_Interval DEF Collected
        <3>2. IsFiniteSet(Collected) /\ Cardinality(Collected) \in Nat
            BY <3>1, FS_Subset, FS_CardinalityType
        <3>3. Cardinality(Collected \cup {n + 1}) = Cardinality(Collected) + 1
            BY <2>5, <3>2, FS_AddElement
        <3>4. Cardinality(Collected') = Cardinality(Collected) + 1
            BY <2>5, <3>3, Zenon
        <3> QED
            BY <1>6, <3>2, <3>4, ConstantsAssumption
    <2>7. \A i \in 1..Len(heard') : heard'[i].channel <= at'
        BY <1>1, <1>2, <2>1, <2>2, <2>3
    <2>8. Cardinality(Earlier') <= Capacity
        BY <1>2, <2>4
    <2>9. ListsFit'
        BY <1>1, <2>6, <2>7, <2>8 DEF ListsFit, Scanning, OnNet, Attempting
    <2>10. Typed'
        BY <1>1, <1>2, <2>1 DEF Typed
    <2>11. Bounded'
        BY <2>9, <2>10, LengthBoundNext
    <2>12. asked' \subseteq 1..Len(heard')
        BY <1>1, <1>2, <2>1 DEF IInv, TypeOK
    <2>13. TypeOK'
        BY <1>1, <1>3, <2>1, <2>11, <2>12 DEF IInv, TypeOK, Bounded, OnNet
    <2> QED
        BY <1>1, <2>9, <2>13 DEF IInv, AskedInOrder, Tuned, Attempting
<1> QED
    BY <1>1, <1>5, <1>6

\* With nothing heard every list fits.
LEMMA ForgottenFits ==
    ASSUME Forgotten, pc' \in {"flush", "listen", "panicked"}
    PROVE  ListsFit' /\ AskedInOrder' /\ Tuned' /\ Len(heard') = 0
<1>1. heard' = <<>> /\ Len(heard') = 0
    BY DEF Forgotten
<1> QED
    BY <1>1, ConstantsAssumption
    DEF ListsFit, AskedInOrder, Tuned, Scanning, Attempting

\* The node panics, scans again or takes an answer.
LEMMA ForgettingSteps ==
    ASSUME IInv, Panic \/ ScanAgain \/ PollAnswer
    PROVE  IInv'
<1>1. Forgotten /\ pc' \in {"flush", "listen", "panicked"}
    BY DEF Panic, ScanAgain, PollAnswer
<1>2. /\ at' \in 1..Channels /\ heard' = <<>> /\ heard' \in Seq(Descriptor)
      /\ tried' = {} /\ net' = None /\ retry' \in 0..Retries /\ asked' = {}
    BY <1>1, ConstantsAssumption DEF Forgotten
<1>3. UNCHANGED <<signal, owed, noise>> /\ rx' \in {rx, "poll"}
    BY DEF Panic, ScanAgain, PollAnswer, Stopped, driver, air
<1>4. /\ radio' \in Radio /\ epid' \in Parent \cup {None}
      /\ queue' \in Seq(Frame) /\ Len(queue') <= QueueSize
      /\ pc' = "listen" => radio'.pan # None /\ radio'.addr # None /\ epid' # None
    <2>1. CASE Panic \/ ScanAgain
        <3>1. UNCHANGED <<radio, epid, queue>> /\ pc' # "listen"
            BY <2>1 DEF Panic, ScanAgain, driver
        <3> QED
            BY <3>1, QuietTypes
    <2>2. CASE PollAnswer
        <3>1. /\ queue # <<>> /\ queue' = Tail(queue)
              /\ queue[1].kind = "answer"
              /\ radio' = [radio EXCEPT !.addr = queue[1].addr]
              /\ epid' = queue[1].from
              /\ pc = "answer"
            BY <2>2 DEF PollAnswer, Polled
        <3>2. queue[1] \in Frame /\ queue' \in Seq(Frame) /\ Len(queue') <= QueueSize
            BY <3>1, QuietTypes, TailType
        <3>3. queue[1].from \in Parent /\ queue[1].addr \in Addr \cup {Refusal}
            BY <3>1, <3>2 DEF Frame, BeaconFrame, Answer, Noise
        <3>4. radio.pan = net /\ net \in Net
            BY <3>1 DEF IInv, AskedInOrder, Tuned, Attempting
        <3>5. radio' \in Radio /\ radio'.pan = radio.pan /\ radio'.addr = queue[1].addr
            BY <3>1, <3>3, QuietTypes DEF Radio
        <3> QED
            BY <3>1, <3>2, <3>3, <3>4, <3>5, ConstantsAssumption
    <2> QED
        BY <2>1, <2>2
<1>5. Len(heard') <= IF pc' = "beacons" THEN 2 * Capacity ELSE Capacity
    BY <1>1, ForgottenFits, ConstantsAssumption
<1>6. TypeOK'
    BY <1>1, <1>2, <1>3, <1>4, <1>5
    DEF IInv, TypeOK, Radio, Transmitting, Collecting, OnNet
<1> QED
    BY <1>1, <1>6, ForgottenFits DEF IInv

-----------------------------------------------------------------------------
\* Steps of the choice of a parent.

\* Choosing a network keeps the parents in their order.
LEMMA ChooseNetStep ==
    ASSUME IInv, ChooseNet
    PROVE  IInv'
<1> DEFINE i == CHOOSE c \in Candidates : \A d \in Candidates : c <= d
<1>1. /\ UNCHANGED <<radio, epid, queue, signal, rx, at, heard, tried, owed, noise>>
      /\ pc = "choose" /\ pc' = "next"
      /\ net' = NetOf[heard[i].from] /\ retry' = 0 /\ asked' = {}
      /\ Candidates # {}
    BY DEF ChooseNet, driver, air
<1>2. \E c \in Candidates : \A d \in Candidates : c <= d
    <2>1. Candidates \in SUBSET Nat
        BY DEF Candidates
    <2> QED
        BY <1>1, <2>1, LeastElement
<1>3. i \in Candidates
    BY <1>2
<1> HIDE DEF i
<1>4. i \in 1..Len(heard) /\ NetOf[heard[i].from] \notin tried
    BY <1>3 DEF Candidates
<1>5. heard[i].from \in Parent
    BY <1>4, HeardType DEF IInv, TypeOK
<1>6. net' \in Net \ tried'
    BY <1>1, <1>4, <1>5, ConstantsAssumption
<1>7. AskedInOrder'
    BY <1>1, <1>4, <1>6, ConstantsAssumption DEF AskedInOrder
<1>8. ListsFit'
    BY <1>1 DEF IInv, ListsFit, Scanning, Attempting, OnNet
<1>9. Tuned'
    BY <1>1 DEF Tuned, Attempting
<1>10. TypeOK'
    BY <1>1, <1>6, ConstantsAssumption DEF IInv, TypeOK, Transmitting, Collecting, OnNet
<1> QED
    BY <1>7, <1>8, <1>9, <1>10 DEF IInv

\* Of two beacons one is before the other.
LEMMA BeforeOrder ==
    ASSUME IInv, NEW i \in 1..Len(heard), NEW j \in 1..Len(heard)
    PROVE  Before(i, j) \/ Before(j, i)
<1>1. heard[i].from \in Parent /\ heard[j].from \in Parent
    BY HeardType DEF IInv, TypeOK
<1>2. Beacon[heard[i].from].cost \in Nat /\ Beacon[heard[j].from].cost \in Nat
    BY <1>1, ConstantsAssumption
<1> QED
    BY <1>2 DEF Before

\* Asking the next parent takes the best and earliest that is left.
LEMMA AskParentStep ==
    ASSUME IInv, AskParent
    PROVE  IInv'
<1>1. /\ UNCHANGED <<epid, queue, signal, rx, at, heard, tried, net, retry, noise>>
      /\ pc = "next" /\ pc' = "associate"
      /\ radio' = [radio EXCEPT !.channel = Logical, !.pan = net]
      /\ owed' = OwedOn(Logical)
    BY DEF AskParent
<1>2. PICK i \in Potential \ asked :
        /\ \A j \in Potential \ asked : Before(i, j)
        /\ asked' = asked \cup {i}
    BY DEF AskParent
<1>3. i \in 1..Len(heard) /\ NetOf[heard[i].from] = net
    BY DEF Potential
<1>4. net \in Net \ tried /\ retry < Retries /\ asked \subseteq Potential
      /\ \A a \in asked : \A j \in Potential \ asked : Before(a, j)
    BY <1>1 DEF IInv, AskedInOrder, Attempting
<1>5. Logical \in 1..Channels
    BY <1>3, LogicalType DEF IInv, TypeOK
<1>6. radio' \in Radio /\ radio'.channel = Logical /\ radio'.pan = net
    BY <1>1, <1>4, <1>5, QuietTypes DEF Radio
<1>7. /\ Logical' = Logical /\ Potential' = Potential
      /\ \A a, b : Before(a, b)' = Before(a, b)
    BY <1>1 DEF Logical, Potential, Before
<1>8. asked' \subseteq Potential /\ \A a \in asked' : \A j \in Potential \ asked' : Before(a, j)
    BY <1>2, <1>4
<1>9. AskedInOrder'
    BY <1>1, <1>3, <1>4, <1>7, <1>8 DEF AskedInOrder
<1>10. Tuned'
    BY <1>1, <1>2, <1>6, <1>7 DEF Tuned
<1>11. ListsFit'
    BY <1>1 DEF IInv, ListsFit, Scanning, Attempting, OnNet
<1>12. TypeOK'
    BY <1>1, <1>2, <1>3, <1>6
    DEF IInv, TypeOK, Radio, OwedOn, Transmitting, Collecting, OnNet
<1> QED
    BY <1>9, <1>10, <1>11, <1>12 DEF IInv

\* A failed attempt gives up the parent or the network.
LEMMA AttemptFailsStep ==
    ASSUME IInv, AttemptFails
    PROVE  IInv'
<1>1. /\ UNCHANGED <<radio, epid, queue, signal, rx, at, heard, net, owed, noise>>
      /\ pc = "next" /\ retry' = retry + 1 /\ asked' = {}
      /\ \/ retry' < Retries /\ pc' = "next" /\ tried' = tried
         \/ ~(retry' < Retries) /\ pc' = "choose" /\ tried' = tried \cup {net}
    BY DEF AttemptFails, driver, air
<1>2. /\ net \in Net \ tried /\ retry < Retries
      /\ \E i \in 1..Len(heard) : NetOf[heard[i].from] = net
    BY <1>1 DEF IInv, AskedInOrder, Attempting
<1>3. retry' \in 0..Retries
    BY <1>1, <1>2, ConstantsAssumption DEF IInv, TypeOK
<1>4. AskedInOrder'
    BY <1>1, <1>2 DEF AskedInOrder, Attempting
<1>5. ListsFit' /\ Tuned'
    BY <1>1 DEF IInv, ListsFit, Tuned, Scanning, Attempting, OnNet
<1>6. TypeOK'
    BY <1>1, <1>2, <1>3 DEF IInv, TypeOK, Transmitting, Collecting, OnNet
<1> QED
    BY <1>4, <1>5, <1>6 DEF IInv

-----------------------------------------------------------------------------
\* The invariant.

\* The initial states satisfy the invariant.
LEMMA InitInvariant == Init => IInv
<1> SUFFICES ASSUME Init PROVE IInv
    OBVIOUS
<1>1. heard = <<>> /\ Len(heard) = 0 /\ heard \in Seq(Descriptor) /\ pc = "flush"
    BY DEF Init
<1>2. queue \in Seq(Frame) /\ Len(queue) <= QueueSize
    BY ConstantsAssumption DEF Init
<1>3. radio \in [channel : 1..Channels, pan : Net \cup {None}, addr : Addr \cup {Refusal, None}]
    BY ConstantsAssumption DEF Init
<1>4. TypeOK
    <2>1. at \in 1..Channels /\ retry \in 0..Retries /\ noise \in 0..MaxNoise
        BY ConstantsAssumption DEF Init
    <2>2. Len(heard) <= IF pc = "beacons" THEN 2 * Capacity ELSE Capacity
        BY <1>1, ConstantsAssumption
    <2>3. pc \notin OnNet
        BY <1>1 DEF OnNet
    <2> QED
        BY <1>1, <1>2, <1>3, <2>1, <2>2, <2>3
        DEF Init, TypeOK, Transmitting, Collecting
<1>5. ListsFit /\ AskedInOrder /\ Tuned
    BY <1>1, ConstantsAssumption
    DEF ListsFit, AskedInOrder, Tuned, Scanning, Attempting, OnNet
<1> QED
    BY <1>4, <1>5 DEF IInv

\* Every step preserves the invariant.
LEMMA NextInvariant == IInv /\ [Next]_vars => IInv'
<1> SUFFICES ASSUME IInv, [Next]_vars PROVE IInv'
    OBVIOUS
<1>1. CASE Own
    BY <1>1, PollingSteps, PollBeaconStep, ForgettingSteps, FlushingSteps, SendingSteps,
       ChooseNetStep, AskParentStep, AttemptFailsStep
    DEF Own
<1>2. CASE Sent
    BY <1>2, SendingSteps, FlushingSteps DEF Sent
<1>3. CASE RequestFails \/ Timeout
    BY <1>3, NextChannelStep, ForgettingSteps, EndingSteps DEF Timeout
<1>4. CASE AssociateFails \/ Resume
    BY <1>4, EndingSteps
<1>5. CASE Reset
    BY <1>5, ResetStep
<1>6. CASE \/ \E f \in owed : Hear(f) \/ Lose(f)
           \/ \E f \in Overheard \cup Noise : HearNoise(f)
    BY <1>6, AirSteps
<1>7. CASE UNCHANGED vars
    BY <1>7, QuietTypes, QuietStep DEF vars, choice
<1> QED
    BY <1>1, <1>2, <1>3, <1>4, <1>5, <1>6, <1>7 DEF Next

\* The strengthened invariant holds in every reachable state.
THEOREM Invariance == Spec => []IInv
BY InitInvariant, NextInvariant, PTL DEF Spec

\* Every variable keeps its type, and every list of a scan its bound
\* (nwk/nlme.rs).
THEOREM TypeCorrect == Spec => []TypeOK
<1>1. IInv => TypeOK
    BY DEF IInv
<1> QED
    BY <1>1, Invariance, PTL

\* A node that has given up a network does not try it again before it has
\* scanned again; it asks parents of one network at a time, the better and the
\* earlier ones first; and from the request to the answer its radio is in that
\* network's PAN, on the channel it was first heard on (association_join and
\* associate, mlme.rs and nlme.rs).
THEOREM ParentsInOrder == Spec => [](AskedInOrder /\ Tuned)
<1>1. IInv => AskedInOrder /\ Tuned
    BY DEF IInv
<1> QED
    BY <1>1, Invariance, PTL

-----------------------------------------------------------------------------
\* What fills the lists.

\* A node panics only when the beacons of several channels together are more
\* than the list of a scan holds, or when a network has more potential parents
\* than get_potential_parents has room for: one channel by itself never does it.
PanicsWhenFull ==
    [][pc # "panicked" /\ pc' = "panicked" =>
        \/ at > 1 /\ Len(heard) > Capacity
        \/ Cardinality(Potential) > ParentRoom]_vars

\* A step that panics found a list full.
LEMMA FullStep ==
    ASSUME IInv, Next, pc # "panicked", pc' = "panicked"
    PROVE  \/ at > 1 /\ Len(heard) > Capacity
           \/ Cardinality(Potential) > ParentRoom
<1>1. Panic
    BY DEF Next, Own, Sent, Timeout, PollNothing, ResetSignal, Wake, PollOther, PollBeacon,
           PollAnswer, FlushForScan, Tune, ChooseNet, ScanAgain, AskParent, AttemptFails,
           PollFrame, RequestSent, AssociateSent, PollSent, CheckSent, RequestFails,
           AssociateFails, ChannelDone, NextChannel, NoAnswer, Checked, Resume, Reset, Hear,
           HearNoise, Arrives, Lose
<1>2. CASE pc = "beacons" /\ Len(heard) > Capacity
    <2>1. /\ heard \in Seq(Descriptor) /\ at \in 1..Channels
          /\ Cardinality(Collected) <= Capacity
          /\ \A i \in 1..Len(heard) : heard[i].channel <= at
        BY <1>2 DEF IInv, TypeOK, ListsFit
    <2>2. CASE at = 1
        <3>1. \A i \in 1..Len(heard) : heard[i].channel = 1
            BY <2>1, <2>2, HeardType
        <3>2. Collected = 1..Len(heard)
            BY <2>2, <3>1 DEF Collected
        <3>3. Cardinality(Collected) = Len(heard) /\ Len(heard) \in Nat
            BY <2>1, <3>2, HeardType
        <3> QED
            BY <1>2, <2>1, <3>3, ConstantsAssumption
    <2> QED
        BY <1>2, <2>1, <2>2
<1> QED
    BY <1>1, <1>2 DEF Panic

\* Only the beacons of several channels together, or too many potential
\* parents of one network, make a node panic (nwk/nlme.rs).
THEOREM OnlyFullListsPanic == Spec => PanicsWhenFull
<1>1. IInv /\ [Next]_vars =>
        [pc # "panicked" /\ pc' = "panicked" =>
            \/ at > 1 /\ Len(heard) > Capacity
            \/ Cardinality(Potential) > ParentRoom]_vars
    BY FullStep
<1> QED
    BY <1>1, Invariance, PTL DEF Spec, PanicsWhenFull

-----------------------------------------------------------------------------
\* Whose answer it is.

Mine(f) == f.kind = "answer" => f.addr \in Drawn \cup {Refusal}

\* Every answer that the node may still take, and the one it took, is its own.
AnswersMine ==
    /\ \A n \in 1..Len(queue) : Mine(queue[n])
    /\ \A f \in owed : Mine(f)
    /\ OwnAnswer

\* A queue of such answers stays one when frames are taken from it.
LEMMA TakenMine ==
    ASSUME IInv, \A n \in 1..Len(queue) : Mine(queue[n]),
           \/ queue' = queue
           \/ queue' = Flushed(queue)
           \/ queue # <<>> /\ queue' \in {Tail(queue), Flushed(Tail(queue))}
    PROVE  \A n \in 1..Len(queue') : Mine(queue'[n])
<1>1. queue \in Seq(Frame) /\ Len(queue) <= QueueSize
    BY QuietTypes
<1>2. CASE queue' \in {queue, Flushed(queue)}
    BY <1>1, <1>2, FlushedType
<1>3. CASE queue # <<>> /\ queue' \in {Tail(queue), Flushed(Tail(queue))}
    <2>1. /\ Tail(queue) \in Seq(Frame) /\ Len(Tail(queue)) <= QueueSize
          /\ \A n \in 1..Len(Tail(queue)) : Mine(Tail(queue)[n])
        <3>1. \A n \in 1..Len(Tail(queue)) : n + 1 \in 1..Len(queue)
            BY <1>1, <1>3
        <3> QED
            BY <1>1, <1>3, <3>1, TailType
    <2> DEFINE t == Tail(queue)
    <2> HIDE DEF t
    <2>2. t \in Seq(Frame) /\ Len(t) <= QueueSize /\ \A n \in 1..Len(t) : Mine(t[n])
        BY <2>1 DEF t
    <2>3. \A n \in 1..Len(Flushed(t)) : Mine(Flushed(t)[n])
        <3>1. \A n \in 1..Len(Flushed(t)) : \E m \in 1..Len(t) : Flushed(t)[n] = t[m]
            BY <2>2, FlushedType
        <3> QED
            BY <2>2, <3>1
    <2>4. queue' \in {t, Flushed(t)}
        BY <1>3 DEF t
    <2> QED
        BY <2>2, <2>3, <2>4
<1> QED
    BY <1>2, <1>3

\* Nothing on the air that is not the node's own becomes an answer to it.
LEMMA AirMine ==
    ASSUME IInv, AnswersMine, Overheard \cap Answer = {},
           \/ \E f \in owed : Hear(f) \/ Lose(f)
           \/ \E f \in Overheard \cup Noise : HearNoise(f)
    PROVE  AnswersMine'
<1>1. PICK f \in owed \cup Overheard \cup Noise :
        \/ f \in owed /\ (Hear(f) \/ Lose(f))
        \/ HearNoise(f)
    OBVIOUS
<1>2. f \in Frame /\ Mine(f)
    <2>1. CASE f \in owed
        BY <2>1, QuietTypes DEF AnswersMine, Frame
    <2>2. CASE f \in Overheard
        BY <2>2, ConstantsAssumption DEF BeaconFrame, Mine, Frame
    <2>3. CASE f \in Noise
        BY <2>3 DEF Noise, Mine, Frame
    <2> QED
        BY <2>1, <2>2, <2>3
<1>3. /\ radio' = radio /\ owed' \subseteq owed
      /\ queue' \in {queue, Append(queue, f)}
    BY <1>1 DEF Hear, HearNoise, Arrives, Lose, driver
<1>4. \A n \in 1..Len(queue') : Mine(queue'[n])
    <2>1. CASE queue' = queue
        BY <2>1 DEF AnswersMine
    <2>2. CASE queue' = Append(queue, f)
        <3>1. queue \in Seq(Frame)
            BY QuietTypes
        <3>2. /\ Len(queue') = Len(queue) + 1 /\ Len(queue) \in Nat
              /\ queue'[Len(queue) + 1] = f
              /\ \A n \in 1..Len(queue) : queue'[n] = queue[n]
            BY <1>2, <2>2, <3>1
        <3> QED
            BY <1>2, <3>2 DEF AnswersMine
    <2> QED
        BY <1>3, <2>1, <2>2
<1> QED
    BY <1>3, <1>4 DEF AnswersMine, OwnAnswer

\* The answer that a parent gives the node is one for the node.
LEMMA SendingMine ==
    ASSUME IInv, AnswersMine, Tune \/ RequestSent \/ PollSent \/ CheckSent \/ AskParent
    PROVE  AnswersMine'
<1>1. queue' = queue /\ radio'.addr = radio.addr
    BY QuietTypes DEF Tune, RequestSent, PollSent, CheckSent, AskParent, Radio
<1>2. \A f \in owed' : Mine(f)
    <2>1. CASE Tune \/ AskParent
        BY <2>1 DEF Tune, AskParent, OwedOn, AnswersMine
    <2>2. CASE RequestSent \/ CheckSent
        BY <2>2 DEF RequestSent, CheckSent, BeaconsOwed, BeaconFrame, Mine, AnswersMine
    <2>3. CASE PollSent
        BY <2>3 DEF PollSent, Mine, AnswersMine
    <2> QED
        BY <2>1, <2>2, <2>3
<1> QED
    BY <1>1, <1>2 DEF AnswersMine, OwnAnswer

\* Every step keeps the answers the node's own, if nobody else is let in
\* within earshot.
LEMMA MineNext ==
    ASSUME IInv, AnswersMine, Overheard \cap Answer = {}, [Next]_vars
    PROVE  AnswersMine'
<1>1. CASE \/ \E f \in owed : Hear(f) \/ Lose(f)
           \/ \E f \in Overheard \cup Noise : HearNoise(f)
    BY <1>1, AirMine
<1>2. CASE Tune \/ RequestSent \/ PollSent \/ CheckSent \/ AskParent
    BY <1>2, SendingMine
<1>3. CASE PollAnswer
    <2>1. /\ queue # <<>> /\ queue' = Tail(queue) /\ owed' = owed
          /\ queue[1].kind = "answer"
          /\ radio' = [radio EXCEPT !.addr = queue[1].addr]
        BY <1>3 DEF PollAnswer, Polled, air
    <2>2. Mine(queue[1])
        <3>1. 1 \in 1..Len(queue)
            BY <2>1, QuietTypes
        <3> QED
            BY <3>1 DEF AnswersMine
    <2>3. radio'.addr = queue[1].addr
        BY <2>1, QuietTypes DEF Radio
    <2> QED
        BY <2>1, <2>2, <2>3, TakenMine DEF AnswersMine, OwnAnswer, Mine
<1>4. CASE \/ PollNothing \/ ResetSignal \/ Wake \/ PollOther \/ PollBeacon \/ FlushForScan
           \/ ChooseNet \/ ScanAgain \/ AttemptFails \/ PollFrame \/ AssociateSent
           \/ RequestFails \/ AssociateFails \/ Timeout \/ Resume \/ Reset \/ UNCHANGED vars
    <2>1. owed' = owed /\ radio'.addr \in {radio.addr, None}
        BY <1>4 DEF PollNothing, ResetSignal, Wake, PollOther, PollBeacon, FlushForScan,
            ChooseNet, ScanAgain, AttemptFails, PollFrame, AssociateSent, RequestFails,
            AssociateFails, Timeout, ChannelDone, Panic, NoAnswer, Checked, Resume, Reset,
            vars, driver, air
    <2>2. \/ queue' = queue
          \/ queue' = Flushed(queue)
          \/ queue # <<>> /\ queue' \in {Tail(queue), Flushed(Tail(queue))}
        BY <1>4 DEF PollNothing, ResetSignal, Wake, PollOther, PollBeacon, Polled, FlushForScan,
            ChooseNet, ScanAgain, AttemptFails, PollFrame, AssociateSent, RequestFails,
            AssociateFails, Timeout, ChannelDone, Panic, NoAnswer, Checked, Resume, Reset,
            vars
    <2> QED
        BY <2>1, <2>2, TakenMine DEF AnswersMine, OwnAnswer
<1> QED
    BY <1>1, <1>2, <1>3, <1>4 DEF Next, Own, Sent

\* As long as no other device is being let in within earshot, the address that
\* a node takes was drawn for it, or is a refusal, also when the answer is a
\* late one (mlme.rs:367, which the code does not check).
THEOREM OwnAnswerAlone == Overheard \cap Answer = {} /\ Spec => []OwnAnswer
<1>1. Init => AnswersMine
    <2> SUFFICES ASSUME Init PROVE AnswersMine
        OBVIOUS
    <2>1. Len(queue) = 0 /\ owed = {} /\ radio.addr = None
        BY DEF Init
    <2> QED
        BY <2>1 DEF AnswersMine, OwnAnswer
<1>2. AnswersMine => OwnAnswer
    BY DEF AnswersMine
<1>3. ASSUME Overheard \cap Answer = {} PROVE Spec => []OwnAnswer
    <2>1. IInv /\ AnswersMine /\ [Next]_vars => AnswersMine'
        BY <1>3, MineNext
    <2> QED
        BY <1>1, <1>2, <2>1, Invariance, PTL DEF Spec
<1> QED
    BY <1>3
=============================================================================
