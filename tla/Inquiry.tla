------------------------------- MODULE Inquiry -------------------------------
(***************************************************************************)
(* Other devices ask the device object of the node for addresses, for      *)
(* descriptions and for matching endpoints, and announce the addresses     *)
(* they have; the node finds out who is asking, answers what it can, and   *)
(* finds out where the answer goes.                                        *)
(*                                                                         *)
(* Devices change their addresses, and an address that one gave up may be  *)
(* another's later.  The address map and the neighbor table, which the     *)
(* node looks both directions up in, may therefore be out of date.         *)
(***************************************************************************)
EXTENDS Naturals, Sequences, FiniteSets

CONSTANTS
    Device,         \* the other devices, by extended address
    Address,        \* network addresses that they may have,
    Home,           \* and the one that each has at first
    Self,           \* the node's own extended address,
    SelfAddress,    \* and its own network address
    None,           \* nobody, or nothing found
    Everyone,       \* an address of interest that is a broadcast address
    Initiators,     \* the devices that say of themselves that they are end devices
    Endpoint,       \* the node's endpoints,
    Description,    \* their profiles and clusters,
    Oversized,      \* and those whose description does not fit into one frame
    AnyProfile,
    Questions,      \* what each device may ask,
    Announcements,  \* and announcements, which nobody answers
    MapCapacity,    \* 64 in the code
    Histories,      \* what the address map may hold at first
    MaxQuestions, MaxMoves, MaxJoins, MaxLosses, MaxAnswers   \* bounds

\* One device for an address, and no more entries than there is room for.
IsMap(m) ==
    /\ m \in Seq(Address \X Device) /\ Len(m) <= MapCapacity
    /\ \A i, j \in DOMAIN m : m[i][1] = m[j][1] => i = j

ASSUME InquiryAssumption ==
    /\ Home \in [Device -> Address] /\ \A c, d \in Device : Home[c] = Home[d] => c = d
    /\ Self \notin Device /\ SelfAddress \notin Address
    /\ None \notin Device \cup Address \cup {Self, SelfAddress}
    /\ Everyone \notin Address \cup {SelfAddress}
    /\ Initiators \subseteq Device
    /\ MapCapacity \in Nat /\ \A m \in Histories : IsMap(m)
    /\ MaxQuestions \in Nat /\ MaxMoves \in Nat
    /\ MaxJoins \in Nat /\ MaxLosses \in Nat /\ MaxAnswers \in Nat \ {0}

VARIABLES
    role,       \* "router" or "endDevice"
    addr,       \* the address each other device has,
    held,       \* and the pairs of address and device there have been
    addressMap, \* pairs of address and device, in the order of their addresses' arrival
    neighbors,  \* the node's neighbors: address, device or None, whether it is a child
    asking,     \* what each device wants to know, None if nothing
    air,        \* the requests under way
    phase,      \* "listening", "received", "answering" or "halted"
    request,    \* the request being handled,
    src,        \* its sender's extended address, None if none was found
    answer,     \* the answer being transmitted
    answers,    \* the answers under way
    moves, asked, joins, losses    \* counters for the bounds

world == <<addr, held, moves>>
tables == <<addressMap, neighbors>>
node == <<phase, request, src, answer>>
link == <<air, answers, losses>>
vars == <<role, world, tables, asking, node, link, asked, joins>>

Unicast == "own"
Destination == {Unicast, "everyone", "idle"}
Broadcast(r) == r.question.dst # Unicast

\* A frame comes from its source straight away or over another device; a broadcast
\* may go further or has made its last hop.
Way == {"direct", "relayed", "last"}
Ways(q) == IF q.dst = Unicast THEN {"direct", "relayed"} ELSE {"relayed", "last"}

\* Who asks what from where; a frame also says whether it names its source's
\* extended address, and which way it comes.
Question == UNION {Questions[d] : d \in Device}
Notice == Question \cup Announcements
Request == [asker : Device, question : Notice, from : Address]
Frame == [request : Request, named : BOOLEAN, way : Way]
Neighbor == [nwk : Address, ext : Device \cup {None}, child : BOOLEAN]

\* Addresses are asked for of devices, and everything else of addresses.
ASSUME QuestionAssumption ==
    \A q \in Notice :
        /\ q.start \in Nat \cup {None}
        /\ IF q.kind = "nwkAddr" THEN q.about \in Device \cup {Self}
           ELSE q.about \in Address \cup {SelfAddress, Everyone, None}

-----------------------------------------------------------------------------
(* The lookups of the NWK context.  Two neighbors may have one address; which *)
(* of them is found depends on the order they came in.                        *)

\* Faulty variant: a full map takes one more.
LearnedAnyway(m, a, d) ==
    IF \E i \in DOMAIN m : m[i][1] = a
    THEN [i \in DOMAIN m |-> IF m[i][1] = a THEN <<a, d>> ELSE m[i]]
    ELSE Append(m, <<a, d>>)
\* Faulty variant: in a full map the address takes the last place, and finds its device.
LearnedOver(m, a, d) ==
    IF \E i \in DOMAIN m : m[i][1] = a
    THEN [i \in DOMAIN m |-> IF m[i][1] = a THEN <<a, d>> ELSE m[i]]
    ELSE IF Len(m) < MapCapacity THEN Append(m, <<a, d>>)
    ELSE [m EXCEPT ![Len(m)] = <<a, m[Len(m)][2]>>]

\* A known address gets its new device in its old place; a full map takes no more.
Learned(m, a, d) ==
    IF \E i \in DOMAIN m : m[i][1] = a
    THEN [i \in DOMAIN m |-> IF m[i][1] = a THEN <<a, d>> ELSE m[i]]
    ELSE IF Len(m) < MapCapacity THEN Append(m, <<a, d>>) ELSE m

\* The results of find_ext_addr, {None} when there is none.
FoundDevices(m, nbs, a) ==
    LET mapped == {i \in DOMAIN m : m[i][1] = a}
        near == {nb \in nbs : nb.nwk = a}
    IN  IF a = SelfAddress THEN {Self}
        ELSE IF mapped # {} THEN {m[i][2] : i \in mapped}
        ELSE IF near # {} THEN {nb.ext : nb \in near}
        ELSE {None}

\* The results of find_nwk_addr: of several addresses the one that came first.
FoundAddresses(m, nbs, d) ==
    LET mapped == {i \in DOMAIN m : m[i][2] = d}
        near == {nb \in nbs : nb.ext = d}
    IN  IF d = Self THEN {SelfAddress}
        ELSE IF mapped # {} THEN {m[i][1] : i \in {j \in mapped : \A k \in mapped : j <= k}}
        ELSE IF near # {} THEN {nb.nwk : nb \in near}
        ELSE {None}

-----------------------------------------------------------------------------
(* Answers.  Those of the address requests say how many children there are    *)
(* from a start index on; the list of them is not written.                    *)

Children == {nb \in neighbors : nb.child}
Associated(start) ==
    IF Cardinality(Children) > start THEN Cardinality(Children) - start ELSE 0

Answer(status, nwk, ieee, list) ==
    [status |-> status, nwk |-> nwk, ieee |-> ieee, list |-> list]
NoAnswer == Answer("none", None, None, {})

\* An extended request is answered with the node's own addresses.
Extended(q, nwk, ieee) == Answer("success", SelfAddress, Self, {Associated(q.start)})

\* Only a broadcast request is told that nothing was found.
NoMatches(q, a) == IF q.dst # Unicast THEN a ELSE NoAnswer

NwkAddrAnswers(q) ==
    {IF a = None THEN NoMatches(q, Answer("notFound", None, q.about, {}))
     ELSE IF q.start = None THEN Answer("success", a, q.about, {})
     ELSE Extended(q, a, q.about) : a \in FoundAddresses(addressMap, neighbors, q.about)}

\* The address beside the device found is the node's own.
IeeeAddrAnswers(q) ==
    {IF d = None THEN NoMatches(q, Answer("notFound", SelfAddress, None, {}))
     ELSE IF q.start = None THEN Answer("success", SelfAddress, d, {})
     ELSE Extended(q, SelfAddress, d) : d \in FoundDevices(addressMap, neighbors, q.about)}

\* The descriptors of neighbors are not kept.
Status(a, own) ==
    IF a = SelfAddress THEN own
    ELSE IF \E nb \in neighbors : nb.nwk = a THEN "noDescriptor" ELSE "notFound"

\* The node descriptor and the power descriptor are always the same.
DescriptorAnswer(q) == Answer(Status(q.about, "success"), q.about, None, {})

EndpointsAnswer(q) ==
    LET status == Status(q.about, "success")
    IN  Answer(status, q.about, None, IF status = "success" THEN Endpoint ELSE {})

\* Endpoints are numbered from 1 to 240: None stands for a number beyond.
SimpleAnswer(q) ==
    LET status == Status(q.about, IF q.endpoint \in Endpoint THEN "success" ELSE "invalid")
    IN  IF q.endpoint = None THEN Answer("invalid", q.about, None, {})
        ELSE Answer(status, q.about, None, IF status = "success" THEN {q.endpoint} ELSE {})

Matches(e, q) ==
    /\ q.profile \in {Description[e].profile, AnyProfile}
    /\ \/ q.ins \cap Description[e].ins # {}
       \/ q.outs \cap Description[e].outs # {}

Matching(q) == {e \in Endpoint : Matches(e, q)}

\* Children's descriptions are never filled in, so that none of them matches.
MatchAnswer(q) ==
    LET own == q.about \in {SelfAddress, Everyone}
        child == \E nb \in Children : nb.nwk = q.about
    IN  IF own
        THEN IF q.about = Everyone /\ Matching(q) = {} THEN NoAnswer
             ELSE Answer("success", q.about, None, Matching(q))
        ELSE IF role = "router"
        THEN Answer(IF child THEN "noDescriptor" ELSE "notFound", q.about, None, {})
        ELSE IF q.dst # Unicast THEN NoAnswer
        ELSE Answer("invalidRequest", q.about, None, {})

\* Announcements are not answered; nor are questions for the children of parents,
\* as no neighbor counts as kept alive, and for servers, as the node is none.
AnswersTo(q) ==
    IF q.kind = "nwkAddr" THEN NwkAddrAnswers(q)
    ELSE IF q.kind = "ieeeAddr" THEN IeeeAddrAnswers(q)
    ELSE IF q.kind = "descriptor" THEN {DescriptorAnswer(q)}
    ELSE IF q.kind = "endpoints" THEN {EndpointsAnswer(q)}
    ELSE IF q.kind = "simple" THEN {SimpleAnswer(q)}
    ELSE IF q.kind = "match" THEN {MatchAnswer(q)}
    ELSE {NoAnswer}

\* Nothing is sent in more than one frame.
Fits(q, a) == ~(q.kind = "simple" /\ a.list \cap Oversized # {})

Outcome == {"none", "success", "notFound", "noDescriptor", "invalid", "invalidRequest"}
Content == [status : Outcome, nwk : Address \cup {SelfAddress, None, Everyone},
            ieee : Device \cup {Self, None}, list : SUBSET (Endpoint \cup Nat)]
Reply == [to : Address \cup {SelfAddress}, request : Request, content : Content]

-----------------------------------------------------------------------------
TypeOK ==
    /\ role \in {"router", "endDevice"}
    /\ addr \in [Device -> Address] /\ held \subseteq Address \X Device
    /\ IsMap(addressMap)
    /\ neighbors \subseteq Neighbor /\ IsFiniteSet(neighbors)
    /\ role = "endDevice" => neighbors = {}
    /\ asking \in [Device -> Question \cup {None}]
    /\ air \subseteq Frame /\ answers \subseteq Reply
    /\ phase \in {"listening", "received", "answering", "halted"}
    /\ IF phase = "received" THEN request \in Request /\ src \in Device \cup {None}
       ELSE request = None /\ src = None
    /\ IF phase = "answering" THEN answer \in Reply ELSE answer = None
    /\ phase = "halted" => role = "router"
    /\ moves \in 0..MaxMoves /\ asked \in 0..MaxQuestions
    /\ joins \in 0..MaxJoins /\ losses \in 0..MaxLosses

Init ==
    /\ role \in {"router", "endDevice"}
    /\ addr = Home
    /\ addressMap \in Histories /\ neighbors = {}
    /\ held = {<<addr[d], d>> : d \in Device} \cup {addressMap[i] : i \in DOMAIN addressMap}
    /\ asking = [d \in Device |-> None]
    /\ air = {} /\ answers = {}
    /\ phase = "listening" /\ request = None /\ src = None /\ answer = None
    /\ moves = 0 /\ asked = 0 /\ joins = 0 /\ losses = 0

-----------------------------------------------------------------------------
(* The other devices and the link. *)

Sent(d, q, a, named, way) ==
    [request |-> [asker |-> d, question |-> q, from |-> a], named |-> named, way |-> way]

\* A device that gets another address announces it.
Move(d, a, q, named, way) ==
    /\ \A c \in Device : addr[c] # a
    /\ moves < MaxMoves
    /\ moves' = moves + 1
    /\ addr' = [addr EXCEPT ![d] = a]
    /\ held' = held \cup {<<a, d>>}
    /\ way \in Ways(q)
    /\ air' = air \cup {Sent(d, q, a, named, way)}
    /\ UNCHANGED <<role, tables, asking, node, answers, losses, asked, joins>>

Ask(d, q) ==
    /\ asking[d] = None /\ q \in Questions[d]
    /\ asked < MaxQuestions
    /\ asking' = [asking EXCEPT ![d] = q]
    /\ asked' = asked + 1
    /\ UNCHANGED <<role, world, tables, node, link, joins>>

\* A device repeats what it asked as long as it is not answered.
Send(d, named, way) ==
    /\ asking[d] # None
    /\ \A f \in air : f.request.asker # d
    /\ way \in Ways(asking[d])
    /\ air' = air \cup {Sent(d, asking[d], addr[d], named, way)}
    /\ UNCHANGED <<role, world, tables, asking, node, answers, losses, asked, joins>>

\* A question that is always answered, sooner or later, whoever asks it.
Answerable(q) ==
    /\ q.dst = Unicast
    /\ \/ q.kind \in {"descriptor", "endpoints"}
       \/ q.kind = "simple" /\ (q.about = SelfAddress => q.endpoint \notin Oversized)
       \/ q.kind = "match" /\ (q.about = Everyone => Matching(q) # {})
       \/ q.kind = "nwkAddr" /\ q.about = Self
       \/ q.kind = "ieeeAddr" /\ q.about = SelfAddress

GiveUp(d) ==
    /\ asking[d] # None
    /\ ~Answerable(asking[d])
    /\ asking' = [asking EXCEPT ![d] = None]
    /\ UNCHANGED <<role, world, tables, node, link, asked, joins>>

\* Whoever has the address now hears an answer, and takes it if it is to what it asked.
Deliver(r) ==
    /\ r \in answers
    /\ answers' = answers \ {r}
    /\ asking' = [d \in Device |->
                    IF addr[d] = r.to /\ d = r.request.asker /\ asking[d] = r.request.question
                    THEN None ELSE asking[d]]
    /\ UNCHANGED <<role, world, tables, node, air, losses, asked, joins>>

Lose ==
    /\ losses < MaxLosses
    /\ losses' = losses + 1
    /\ \/ \E f \in air : air' = air \ {f} /\ UNCHANGED answers
       \/ \E r \in answers : answers' = answers \ {r} /\ UNCHANGED air
    /\ UNCHANGED <<role, world, tables, asking, node, asked, joins>>

\* What the rest of the node does to the neighbor table: NeighborTable has the
\* handlers.  Only a router keeps other neighbors than its parent.
Join(d, ext, child) ==
    /\ role = "router" /\ phase = "listening"
    /\ joins < MaxJoins
    /\ ext \in {d, None} /\ (child => ext = d)
    /\ neighbors' = {nb \in neighbors : nb.ext = None \/ nb.ext # ext}
                        \cup {[nwk |-> addr[d], ext |-> ext, child |-> child]}
    /\ joins' = joins + 1
    /\ UNCHANGED <<role, world, addressMap, asking, node, link, asked>>

Forget(nb) ==
    /\ nb \in neighbors
    /\ neighbors' = neighbors \ {nb}
    /\ UNCHANGED <<role, world, addressMap, asking, node, link, asked, joins>>

-----------------------------------------------------------------------------
(* Receiving a request. *)

\* The frame is taken from the air and its source is learned, whatever follows.
Learn(f) ==
    /\ phase = "listening"
    /\ f \in air
    /\ air' = air \ {f}
    /\ addressMap' = IF f.named THEN Learned(addressMap, f.request.from, f.request.asker)
                   ELSE addressMap
    /\ UNCHANGED <<role, world, asking, answers, losses, asked, joins>>

\* A router passes nothing on for an end device that is no child of its own.
Barred(f) ==
    /\ role = "router"
    /\ f.request.asker \in Initiators
    /\ \A nb \in Children : nb.nwk # f.request.from

\* A router halts at a broadcast that it is to relay (see Routing).
Relayed(f) == role = "router" /\ Broadcast(f.request) /\ f.way # "last"

\* Only routers are among those that are idle with their receivers on.
ForNode(f) == role = "router" \/ f.request.question.dst # "idle"

Drop(f) ==
    /\ Learn(f)
    /\ Barred(f) \/ ~ForNode(f)
    /\ UNCHANGED <<neighbors, phase, request, src, answer>>

\* A child that speaks through another parent loses one entry.
Gone(f) == {nb \in Children : f.way = "relayed" /\ nb.nwk = f.request.from}

Examined(f) ==
    IF Gone(f) = {} THEN {neighbors} ELSE {neighbors \ {nb} : nb \in Gone(f)}

Halt(f) ==
    /\ Learn(f)
    /\ ~Barred(f) /\ Relayed(f)
    /\ neighbors' \in Examined(f)
    /\ phase' = "halted"
    /\ UNCHANGED <<request, src, answer>>

\* The request is acknowledged, its sender looked up, and the handler waits for
\* the radio.
Receive(f) ==
    /\ Learn(f)
    /\ ~Barred(f) /\ ForNode(f) /\ ~Relayed(f)
    /\ neighbors' \in Examined(f)
    /\ src' \in FoundDevices(addressMap', neighbors', f.request.from)
    /\ phase' = "received" /\ request' = f.request
    /\ UNCHANGED answer

Hear(f) == Drop(f) \/ Halt(f) \/ Receive(f)

-----------------------------------------------------------------------------
(* Handling it. *)

\* Faulty variant: a sender without an extended address is not answered.
DestinationsKnown ==
    IF src = None THEN {None} ELSE FoundAddresses(addressMap, neighbors, src)

\* The sender's address is looked up again; a sender without an extended address
\* is answered where the request came from.
Destinations ==
    IF src = None THEN {request.from}
    ELSE FoundAddresses(addressMap, neighbors, src)

\* A broadcast announcement of a child of one's own is ignored.
Announced ==
    LET child == \E nb \in Children : nb.ext = request.asker
    IN  IF child /\ Broadcast(request) THEN addressMap
        ELSE Learned(addressMap, request.from, request.asker)

Handle ==
    /\ phase = "received"
    /\ addressMap' = IF request.question \in Announcements THEN Announced ELSE addressMap
    /\ \E a \in AnswersTo(request.question), to \in Destinations :
        IF a = NoAnswer \/ to = None \/ ~Fits(request.question, a)
        THEN phase' = "listening" /\ answer' = None
        ELSE /\ phase' = "answering"
             /\ answer' = [to |-> to, request |-> request, content |-> a]
    /\ request' = None /\ src' = None
    /\ UNCHANGED <<role, world, neighbors, asking, link, asked, joins>>

\* Back to listening, with nothing left of the request.
Listen == phase' = "listening" /\ request' = None /\ src' = None /\ answer' = None

Transmit ==
    /\ phase = "answering"
    /\ Cardinality(answers) < MaxAnswers
    /\ answers' = answers \cup {answer}
    /\ Listen
    /\ UNCHANGED <<role, world, tables, asking, air, losses, asked, joins>>

\* The second of listen() is over, or the answer cannot be sent.
Cut ==
    /\ phase \in {"received", "answering"}
    /\ losses < MaxLosses
    /\ losses' = losses + 1
    /\ Listen
    /\ UNCHANGED <<role, world, tables, asking, air, answers, asked, joins>>

-----------------------------------------------------------------------------
Next ==
    \/ \E d \in Device, a \in Address, q \in Announcements, named \in BOOLEAN, way \in Way :
            Move(d, a, q, named, way)
    \/ \E d \in Device, q \in Question : Ask(d, q)
    \/ \E d \in Device, named \in BOOLEAN, way \in Way : Send(d, named, way)
    \/ \E d \in Device : GiveUp(d)
    \/ \E r \in answers : Deliver(r)
    \/ Lose
    \/ \E d \in Device, ext \in Device \cup {None}, child \in BOOLEAN : Join(d, ext, child)
    \/ \E nb \in neighbors : Forget(nb)
    \/ \E f \in air : Drop(f) \/ Halt(f) \/ Receive(f)
    \/ Handle \/ Transmit \/ Cut

Spec == Init /\ [][Next]_vars

FairSpec ==
    /\ Spec
    /\ WF_vars(Handle) /\ WF_vars(Transmit)
    /\ \A d \in Device :
        /\ WF_vars(\E named \in BOOLEAN, way \in Way : Send(d, named, way))
        /\ SF_vars(\E f \in air : f.request.asker = d /\ Hear(f))
        /\ WF_vars(\E r \in answers : r.request.asker = d /\ Deliver(r))

-----------------------------------------------------------------------------
(* Properties. *)

Given == answers \cup {r \in {answer} : phase = "answering"}
Pairs == held \cup {<<SelfAddress, Self>>}

\* The address of a device, or the device at an address, that an answer gives was so
\* at some time, and an extended answer gives both of the node itself, however stale
\* the tables are that handle_nwk_addr_request and handle_ieee_addr_request look into.
AddressesHeld ==
    \A r \in Given :
        LET q == r.request.question
            a == r.content
        IN  q.kind \in {"nwkAddr", "ieeeAddr"} /\ a.status = "success" =>
                IF q.start # None THEN a.nwk = SelfAddress /\ a.ieee = Self
                ELSE IF q.kind = "nwkAddr" THEN a.ieee = q.about /\ <<a.nwk, q.about>> \in Pairs
                ELSE <<q.about, a.ieee>> \in Pairs

Moved(d) == \E a, b \in Address : a # b /\ {<<a, d>>, <<b, d>>} \subseteq held
Shared(a, d) == \E c \in Device : c # d /\ <<a, c>> \in held

\* handle_data_frame turns the source of a request into an extended address, and
\* aps_data_request turns that into an address again: an answer goes where it was
\* asked from or to another address that the one who asked has had, unless another
\* device has had the address it was asked from.
AnsweredWhereAsked ==
    \A r \in Given :
        \/ r.to = r.request.from
        \/ <<r.to, r.request.asker>> \in held
        \/ Shared(r.request.from, r.request.asker)

\* Who keeps asking what the handlers of the device object always answer gets the
\* answer in the end, whatever gets lost or cut off by the timeout of listen_task,
\* unless it has moved, has an address that was another's, or is an end device that
\* handle_end_device_frame of a router drops, or the router halts at a broadcast.
Served ==
    \A d \in Device :
        asking[d] # None /\ Answerable(asking[d]) ~>
            \/ asking[d] = None
            \/ Moved(d) \/ Shared(addr[d], d)
            \/ role = "router" /\ d \in Initiators
            \/ phase = "halted"
=============================================================================
