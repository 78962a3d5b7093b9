-------------------------------- MODULE Joining --------------------------------
(***************************************************************************)
(* How a node finds a network and gets an address on it, down to the radio *)
(* driver: active scans, the choice of a parent, the association dialog,   *)
(* and, once on a network, the scan that a PAN identifier conflict starts. *)
(*                                                                         *)
(* The driver's queue holds what the radio heard on the channel it is on,  *)
(* whoever it was for (the radio is promiscuous).  Whoever waits for a     *)
(* frame polls the queue, then resets RX_SIGNAL, then waits for it: what   *)
(* arrives between the poll and the reset wakes nobody.  A frame that      *)
(* cannot be parsed looks like an empty queue to the poll.                 *)
(*                                                                         *)
(* Other devices, the air and the completion of transmissions are          *)
(* external.  What happens between the association and a node that counts  *)
(* as joined is the subject of Commissioning.                              *)
(***************************************************************************)
EXTENDS Naturals, Sequences, FiniteSets

CONSTANTS
    Channels,   \* the channels to scan are 1..Channels
    Parent,     \* devices that may be associated with
    Net,        \* networks, by their PAN identifier
    NetOf,      \* the network each parent is on
    ChannelOf,  \* the channel each network is on
    Beacon,     \* of each parent: whether it permits joining, whether it takes this
                \* node's type and is heard well enough (LinkCost::_3), and its cost
    NetId,      \* the extended PAN identifier of each network
    Addr,       \* network addresses
    Near,       \* a parent with room, whose answers reach this node again and again
    Drawn,      \* the addresses parents draw for this node
    Overheard,  \* what parents may send to other devices that scan and join
    Refusal,    \* NwkAddress::MAX, the address in an answer that refuses
    None,       \* no network, no address, no extended PAN identifier
    QueueSize,  \* rx_queue_size
    Retries,    \* REC_SAME_NETWORK_RETRY_ATTEMPTS
    Capacity,   \* MAX_PAN_DESCRIPTOR_SIZE
    ParentRoom, \* potential parents get_potential_parents has room for
    MaxNoise    \* bound: frames of others, and frames that cannot be parsed

BeaconFrame == [kind : {"beacon"}, from : Parent]
Answer == [kind : {"answer"}, from : Parent, addr : Addr \cup {Refusal}]
Noise == [kind : {"other", "garbled"}]
Frame == BeaconFrame \cup Answer \cup Noise

ASSUME ConstantsAssumption ==
    /\ Channels \in Nat \ {0}
    /\ NetOf \in [Parent -> Net]
    /\ ChannelOf \in [Net -> 1..Channels]
    /\ Beacon \in [Parent -> [permit : BOOLEAN, room : BOOLEAN, cost : Nat]]
    /\ Near \in Parent /\ Beacon[Near].permit /\ Beacon[Near].room
    /\ None \notin Net \cup Addr \cup Parent \cup {Refusal}
    /\ Refusal \notin Addr
    /\ Drawn \subseteq Addr
    /\ Overheard \subseteq BeaconFrame \cup Answer
    /\ QueueSize \in Nat \ {0}
    /\ Retries \in Nat \ {0}
    /\ Capacity \in Nat \ {0}
    /\ ParentRoom \in Nat \ {0}
    /\ MaxNoise \in Nat

VARIABLES
    radio,  \* the driver's configuration: channel, PAN, short address
    epid,   \* Mlme.extended_pan_id
    queue,  \* frames received and not yet polled
    signal, \* RX_SIGNAL
    pc,     \* what the node's task is doing
    rx,     \* where wait_frame stands, when pc waits for a frame
    at,     \* the channel being scanned
    heard,  \* the beacons of this scan, with the channel they are put down to
    tried,  \* networks given up since the scan
    net,    \* the network being joined
    retry,  \* attempts at it
    asked,  \* positions in heard of the parents asked in this attempt
    owed,   \* frames that devices are about to send to this node
    noise   \* count, for the bound

driver == <<radio, epid, signal, rx>>
choice == <<at, heard, tried, net, retry, asked>>
air == <<owed, noise>>
vars == <<radio, epid, queue, signal, pc, rx, at, heard, tried, net, retry, asked, owed, noise>>

-----------------------------------------------------------------------------
Descriptor == [from : Parent, channel : 1..Channels]

\* Waits for a completed transmission, and waits for frames.
Transmitting == {"request", "associate", "poll", "check", "report"}
Collecting == {"beacons", "answer", "conflict"}

\* The node is on a network.
OnNet == {"listen", "check", "conflict", "report"}

TypeOK ==
    /\ radio \in [channel : 1..Channels, pan : Net \cup {None},
                  addr : Addr \cup {Refusal, None}]
    /\ epid \in Parent \cup {None}
    /\ queue \in Seq(Frame) /\ Len(queue) <= QueueSize
    /\ signal \in BOOLEAN
    /\ pc \in Transmitting \cup Collecting \cup {"flush", "tune", "choose", "next", "listen", "panicked"}
    /\ rx \in {"poll", "reset", "wait"}
    /\ at \in 1..Channels
    /\ heard \in Seq(Descriptor)
    /\ Len(heard) <= IF pc = "beacons" THEN 2 * Capacity ELSE Capacity
    /\ tried \subseteq Net
    /\ net \in Net \cup {None}
    /\ retry \in 0..Retries
    /\ asked \subseteq 1..Len(heard)
    /\ owed \subseteq BeaconFrame \cup Answer
    /\ noise \in 0..MaxNoise
    /\ pc \in OnNet => radio.pan # None /\ radio.addr # None /\ epid # None

-----------------------------------------------------------------------------
Init ==
    /\ radio = [channel |-> 1, pan |-> None, addr |-> None]
    /\ epid = None
    /\ queue = <<>>
    /\ signal = FALSE
    /\ pc = "flush"
    /\ rx = "poll"
    /\ at = 1
    /\ heard = <<>>
    /\ tried = {}
    /\ net = None
    /\ retry = 0
    /\ asked = {}
    /\ owed = {}
    /\ noise = 0

\* Esp32Driver::flush polls until the poll finds nothing: a frame that cannot
\* be parsed ends it, and what is behind the first such frame stays.
Flushed(q) ==
    LET bad == {i \in 1..Len(q) : q[i].kind = "garbled"} IN
    IF bad = {} THEN <<>> ELSE SubSeq(q, (CHOOSE i \in bad : \A j \in bad : i <= j) + 1, Len(q))

-----------------------------------------------------------------------------
\* Receiving: wait_frame, up to a frame.

\* poll finds nothing, or what it finds cannot be parsed.
PollNothing ==
    /\ pc \in Collecting
    /\ rx = "poll"
    /\ queue # <<>> => queue[1].kind = "garbled"
    /\ queue' = IF queue = <<>> THEN queue ELSE Tail(queue)
    /\ rx' = "reset"
    /\ UNCHANGED <<radio, epid, signal, pc, choice, air>>

\* wait_rx_available.
ResetSignal ==
    /\ pc \in Collecting
    /\ rx = "reset"
    /\ signal' = FALSE
    /\ rx' = "wait"
    /\ UNCHANGED <<radio, epid, queue, pc, choice, air>>

Wake ==
    /\ pc \in Collecting
    /\ rx = "wait"
    /\ signal
    /\ signal' = FALSE
    /\ rx' = "poll"
    /\ UNCHANGED <<radio, epid, queue, pc, choice, air>>

Polled(kinds) ==
    /\ pc \in Collecting
    /\ rx = "poll"
    /\ queue # <<>>
    /\ queue[1].kind \in kinds
    /\ queue' = Tail(queue)

\* Nothing is waited for any more.
Stopped == rx' = "poll"

\* A frame that is not the one waited for.
PollOther ==
    /\ Polled({"beacon", "answer", "other"})
    /\ pc = "beacons" => queue[1].kind # "beacon"
    /\ pc = "answer" => queue[1].kind # "answer"
    /\ UNCHANGED <<driver, pc, choice, air>>

-----------------------------------------------------------------------------
\* network_discovery: scan_channel_active for each channel.

FlushForScan ==
    /\ pc = "flush"
    /\ queue' = Flushed(queue)
    /\ pc' = "tune"
    /\ UNCHANGED <<driver, choice, air>>

Audible(f) == ChannelOf[NetOf[f.from]] = radio.channel

\* Answers do not wait for the radio to come back to their channel.
OwedOn(channel) == {f \in owed : ChannelOf[NetOf[f.from]] = channel}

\* An interrupt may put a frame of the channel before into the flushed queue.
Tune ==
    /\ pc = "tune"
    /\ radio' = [radio EXCEPT !.channel = at]
    /\ owed' = OwedOn(at)
    /\ pc' = "request"
    /\ UNCHANGED <<epid, queue, signal, rx, choice, noise>>

\* Who hears a beacon request answers with a beacon.
BeaconsOwed == {b \in BeaconFrame : Audible(b)}

RequestSent ==
    /\ pc = "request"
    /\ pc' = "beacons"
    /\ rx' = "poll"
    /\ owed' = owed \cup BeaconsOwed
    /\ UNCHANGED <<radio, epid, signal, queue, choice, noise>>

\* The positions of the beacons of the channel being scanned.
Collected == {i \in 1..Len(heard) : heard[i].channel = at}

\* A beacon is put down to the channel being scanned; a channel's list that is
\* full takes no more.
PollBeacon ==
    /\ pc = "beacons"
    /\ Polled({"beacon"})
    /\ heard' = IF Cardinality(Collected) < Capacity
                THEN Append(heard, [from |-> queue[1].from, channel |-> at]) ELSE heard
    /\ UNCHANGED <<driver, pc, at, tried, net, retry, asked, air>>

NextChannel ==
    IF at < Channels THEN at' = at + 1 /\ pc' = "flush"
                     ELSE at' = at /\ pc' = "choose"

\* A request that cannot be sent costs the scan of the channel.
RequestFails ==
    /\ pc = "request"
    /\ NextChannel
    /\ UNCHANGED <<driver, queue, heard, tried, net, retry, asked, air>>

\* The channel's beacons are added to those of the channels before.
ChannelDone ==
    /\ pc = "beacons"
    /\ rx = "wait" /\ ~signal
    /\ Len(heard) <= Capacity
    /\ NextChannel
    /\ Stopped
    /\ UNCHANGED <<radio, epid, signal, queue, heard, tried, net, retry, asked, air>>

-----------------------------------------------------------------------------
\* The result of the scan goes out of scope.
Forgotten ==
    /\ at' = 1
    /\ heard' = <<>>
    /\ tried' = {}
    /\ net' = None
    /\ retry' = 0
    /\ asked' = {}

\* get_potential_parents.
Potential ==
    {i \in 1..Len(heard) : LET b == Beacon[heard[i].from] IN
        NetOf[heard[i].from] = net /\ b.permit /\ b.room}

\* A Vec that is extended, or collected into, beyond its capacity panics: when
\* the channels' beacons together are too many, and when a network has too many
\* potential parents.
Panic ==
    /\ \/ pc = "beacons" /\ rx = "wait" /\ ~signal /\ Len(heard) > Capacity
       \/ pc = "next" /\ Cardinality(Potential) > ParentRoom
    /\ pc' = "panicked"
    /\ Forgotten
    /\ Stopped
    /\ UNCHANGED <<radio, epid, signal, queue, air>>

\* try_join_for_channels and association_join.

\* The networks of this scan with a parent that permits joining, first heard
\* first.
Candidates ==
    {i \in 1..Len(heard) : LET n == NetOf[heard[i].from] IN
        /\ n \notin tried
        /\ \E j \in 1..Len(heard) :
            NetOf[heard[j].from] = n /\ Beacon[heard[j].from].permit}

ChooseNet ==
    /\ pc = "choose"
    /\ Candidates # {}
    /\ LET i == CHOOSE c \in Candidates : \A d \in Candidates : c <= d
       IN net' = NetOf[heard[i].from]
    /\ retry' = 0
    /\ asked' = {}
    /\ pc' = "next"
    /\ UNCHANGED <<driver, queue, at, heard, tried, air>>

\* Nothing to join, or nothing that could be joined: the node scans again, the
\* other channels or, after a sleep, all of them.
ScanAgain ==
    /\ pc = "choose"
    /\ Candidates = {}
    /\ pc' = "flush"
    /\ Forgotten
    /\ UNCHANGED <<driver, queue, air>>

\* sort_by_key is stable: of equal costs, the one heard first.
Before(i, j) ==
    LET c == Beacon[heard[i].from].cost
        d == Beacon[heard[j].from].cost IN
    c < d \/ (c = d /\ i <= j)

\* The network's channel is that of the first beacon heard of it.
Logical ==
    heard[CHOOSE i \in 1..Len(heard) :
            /\ NetOf[heard[i].from] = net
            /\ \A j \in 1..(i - 1) : NetOf[heard[j].from] # net].channel

\* Faulty variant of AskParent: the radio stays on the channel scanned last.
AskParentUntuned ==
    /\ pc = "next"
    /\ Cardinality(Potential) <= ParentRoom
    /\ \E i \in Potential \ asked :
        /\ \A j \in Potential \ asked : Before(i, j)
        /\ asked' = asked \cup {i}
    /\ radio' = [radio EXCEPT !.pan = net]
    /\ pc' = "associate"
    /\ UNCHANGED <<epid, queue, signal, rx, at, heard, tried, net, retry, air>>

\* associate, up to the transmission of the association request.
AskParent ==
    /\ pc = "next"
    /\ Cardinality(Potential) <= ParentRoom
    /\ \E i \in Potential \ asked :
        /\ \A j \in Potential \ asked : Before(i, j)
        /\ asked' = asked \cup {i}
    /\ radio' = [radio EXCEPT !.channel = Logical, !.pan = net]
    /\ owed' = OwedOn(Logical)
    /\ pc' = "associate"
    /\ UNCHANGED <<epid, queue, signal, rx, at, heard, tried, net, retry, noise>>

\* Every parent has been asked: again, or the next network.
AttemptFails ==
    /\ pc = "next"
    /\ Cardinality(Potential) <= ParentRoom
    /\ Potential \subseteq asked
    /\ retry' = retry + 1
    /\ asked' = {}
    /\ IF retry' < Retries THEN pc' = "next" /\ UNCHANGED tried
                           ELSE pc' = "choose" /\ tried' = tried \cup {net}
    /\ UNCHANGED <<driver, queue, at, heard, net, air>>

\* The association request is out; the data request follows.
AssociateSent ==
    /\ pc = "associate"
    /\ queue' = Flushed(queue)
    /\ pc' = "poll"
    /\ UNCHANGED <<driver, choice, air>>

\* The parent that was asked, if it is on this channel, answers with an address
\* or with a refusal.  (Whether it heard the first request is up to the air.)
PollSent ==
    /\ pc = "poll"
    /\ \E i \in asked, f \in Answer :
        /\ \A j \in asked : Before(j, i)
        /\ f.from = heard[i].from
        /\ f.addr \in Drawn \cup {Refusal}
        /\ owed' = owed \cup (IF Audible(f) THEN {f} ELSE {})
    /\ pc' = "answer"
    /\ rx' = "poll"
    /\ UNCHANGED <<radio, epid, signal, queue, choice, noise>>

AssociateFails ==
    /\ pc \in {"associate", "poll"}
    /\ pc' = "next"
    /\ UNCHANGED <<driver, queue, choice, air>>

NoAnswer ==
    /\ pc = "answer"
    /\ rx = "wait" /\ ~signal
    /\ pc' = "next"
    /\ Stopped
    /\ UNCHANGED <<radio, epid, signal, queue, choice, air>>

\* The first answer heard is taken, whoever sent it to whom, and whatever its
\* status: what the node keeps of it is the address and the sender.
PollAnswer ==
    /\ pc = "answer"
    /\ Polled({"answer"})
    /\ radio' = [radio EXCEPT !.addr = queue[1].addr]
    /\ epid' = queue[1].from
    /\ pc' = "listen"
    /\ Forgotten
    /\ Stopped
    /\ UNCHANGED <<signal, air>>

-----------------------------------------------------------------------------
\* On a network.

\* filter_frame lets a beacon pass that is of the node's own PAN, and
\* handle_beacon_notify_indication compares the network's extended PAN
\* identifier with the address of the device that answered.
Conflicting(f) ==
    /\ f.kind = "beacon"
    /\ NetOf[f.from] = radio.pan
    /\ NetId[NetOf[f.from]] # epid

\* Faulty variant of PollFrame: a node on a network waits for RX_SIGNAL, too.
PollFrameSignalled ==
    /\ pc = "listen"
    /\ queue # <<>>
    /\ signal
    /\ signal' = FALSE
    /\ IF Conflicting(queue[1])
       THEN pc' = "check" /\ queue' = Flushed(Tail(queue))
       ELSE pc' = "listen" /\ queue' = Tail(queue)
    /\ UNCHANGED <<radio, epid, rx, choice, air>>

\* get_mac_indication polls every 10 ms and waits for no signal.  The scan that
\* follows a conflict flushes the queue first.
PollFrame ==
    /\ pc = "listen"
    /\ queue # <<>>
    /\ IF Conflicting(queue[1])
       THEN pc' = "check" /\ queue' = Flushed(Tail(queue))
       ELSE pc' = "listen" /\ queue' = Tail(queue)
    /\ UNCHANGED <<driver, choice, air>>

\* The beacon request of that scan, on the node's own channel, is out.
CheckSent ==
    /\ pc = "check"
    /\ pc' = "conflict"
    /\ rx' = "poll"
    /\ owed' = owed \cup BeaconsOwed
    /\ UNCHANGED <<radio, epid, signal, queue, choice, noise>>

\* The scan is over, or its request could not be sent: the node reports.
Checked ==
    /\ \/ pc = "check"
       \/ pc = "conflict" /\ rx = "wait" /\ ~signal
    /\ pc' = "report"
    /\ Stopped
    /\ UNCHANGED <<radio, epid, signal, queue, choice, air>>

\* The report is sent, or cannot be; or listen() is cancelled.
Resume ==
    /\ pc \in {"check", "conflict", "report"}
    /\ pc' = "listen"
    /\ Stopped
    /\ UNCHANGED <<radio, epid, signal, queue, choice, air>>

\* The node was not let in, or leaves: Nwk::reset.
Reset ==
    /\ pc = "listen"
    /\ radio' = [channel |-> 1, pan |-> None, addr |-> None]
    /\ epid' = None
    /\ pc' = "flush"
    /\ UNCHANGED <<queue, signal, rx, choice, air>>

-----------------------------------------------------------------------------
\* The air.

\* Faulty variant of Arrives: the queue is not bounded.
ArrivesAnyway(f) ==
    /\ queue' = Append(queue, f)
    /\ signal' = TRUE
    /\ UNCHANGED <<radio, epid, rx, pc, choice>>

\* The radio hears a frame, if the driver's queue has room for it.
Arrives(f) ==
    /\ Len(queue) < QueueSize
    /\ queue' = Append(queue, f)
    /\ signal' = TRUE
    /\ UNCHANGED <<radio, epid, rx, pc, choice>>

Hear(f) ==
    /\ f \in owed
    /\ Audible(f)
    /\ Arrives(f)
    /\ owed' = owed \ {f}
    /\ UNCHANGED noise

\* What is for another device that scans or joins, and other frames.
HearNoise(f) ==
    /\ noise < MaxNoise
    /\ f.kind \in {"beacon", "answer"} => Audible(f)
    /\ Arrives(f)
    /\ noise' = noise + 1
    /\ UNCHANGED owed

Lose(f) ==
    /\ f \in owed
    /\ owed' = owed \ {f}
    /\ UNCHANGED <<driver, queue, pc, choice, noise>>

-----------------------------------------------------------------------------
Sent == RequestSent \/ AssociateSent \/ PollSent \/ CheckSent
Failed == RequestFails \/ AssociateFails \/ (pc \in {"check", "report"} /\ Resume)
Timeout == ChannelDone \/ Panic \/ NoAnswer \/ Checked

Own ==
    \/ PollNothing \/ ResetSignal \/ Wake \/ PollOther \/ PollBeacon \/ PollAnswer
    \/ FlushForScan \/ Tune \/ ChooseNet \/ ScanAgain \/ AskParent \/ AttemptFails
    \/ PollFrame

Next ==
    \/ Own
    \/ Sent
    \/ RequestFails
    \/ AssociateFails
    \/ Timeout
    \/ Resume
    \/ Reset
    \/ \E f \in owed : Hear(f) \/ Lose(f)
    \/ \E f \in Overheard \cup Noise : HearNoise(f)

Spec == Init /\ [][Next]_vars

\* The node is about to ask Near for a beacon, or for an address.
AskingNear(state) ==
    IF state = "beacons" THEN pc = "request" /\ at = ChannelOf[NetOf[Near]]
    ELSE /\ pc = "associate"
         /\ radio.channel = ChannelOf[NetOf[Near]]
         /\ \E i \in asked : heard[i].from = Near /\ \A j \in asked : Before(j, i)

\* Near's answer reaches the node while it waits for RX_SIGNAL.
NearAnswers(state) ==
    /\ pc = state
    /\ rx = "wait"
    /\ \E f \in owed :
        /\ f.from = Near
        /\ f.kind = IF state = "beacons" THEN "beacon" ELSE "answer"
        /\ Hear(f)

\* Not every request of a node that asks for ever gets lost, and not every
\* answer arrives before the node has come to wait for it.
InTime(state) == []<>AskingNear(state) => []<><<NearAnswers(state)>>_vars

FairSpec ==
    /\ Spec
    /\ WF_vars(Own)
    /\ WF_vars(Sent \/ Failed)
    /\ SF_vars(Timeout)
    /\ InTime("beacons")
    /\ InTime("answer")

-----------------------------------------------------------------------------
\* mlme.rs:367 says that a frame with an extended destination address "shall
\* match aExtendedAddress": a node only takes an address that was drawn for it.
OwnAnswer == radio.addr \in Drawn \cup {Refusal, None}

\* Whatever wake-ups get lost, whatever frames cannot be parsed and whichever
\* networks and parents it tries before, a node that looks for a network gets an
\* answer to an association request in the end (driver.rs:177-184,
\* mlme.rs:391-441, zdo/mod.rs:382-448), unless a scan hears more beacons than
\* its lists hold.
AnsweredInTheEnd == pc \notin OnNet ~> pc \in OnNet \cup {"panicked"}

\* No frame stays in the driver's queue for ever, even if nobody was woken when
\* it came (driver.rs:154-184, reception.rs:828-835).
Drained == []<>(queue = <<>> \/ pc = "panicked")
=============================================================================
