---------------------------- MODULE Inquiry_proofs ----------------------------
(***************************************************************************)
(* Proofs about Inquiry: type correctness, and that what the node finds in *)
(* its tables was so at some time, from which it follows which addresses   *)
(* its answers give and where they go.                                     *)
(***************************************************************************)
EXTENDS Inquiry, FiniteSetTheorems, TLAPS

\* What is known of devices and of who asks was so at some time.
MapHeld == \A i \in DOMAIN addressMap : addressMap[i] \in held

NeighborsHeld == \A nb \in neighbors : nb.ext # None => <<nb.nwk, nb.ext>> \in held

SenderHeld(r) == <<r.from, r.asker>> \in held

RequestsHeld ==
    /\ \A f \in air : SenderHeld(f.request)
    /\ phase = "received" => /\ SenderHeld(request)
                             /\ src # None => <<request.from, src>> \in held
    /\ \A r \in Given : SenderHeld(r.request)

WorldHeld == \A d \in Device : <<addr[d], d>> \in held

Inv == /\ TypeOK /\ WorldHeld /\ MapHeld /\ NeighborsHeld /\ RequestsHeld
       /\ AddressesHeld /\ AnsweredWhereAsked

-----------------------------------------------------------------------------
(* The tables. *)

\* Learning keeps the map a map and adds one pair at most.
LEMMA LearnedIsMap ==
    ASSUME NEW m, IsMap(m), NEW a \in Address, NEW d \in Device
    PROVE  /\ IsMap(Learned(m, a, d))
           /\ \A i \in DOMAIN Learned(m, a, d) :
                \/ Learned(m, a, d)[i] = <<a, d>>
                \/ \E j \in DOMAIN m : Learned(m, a, d)[i] = m[j]
<1>1. MapCapacity \in Nat
    BY InquiryAssumption
<1>2. /\ m \in Seq(Address \X Device) /\ Len(m) \in Nat /\ DOMAIN m = 1..Len(m)
      /\ \A i \in DOMAIN m : m[i] \in Address \X Device
    BY DEF IsMap
<1>3. CASE \E i \in DOMAIN m : m[i][1] = a
    <2> DEFINE l == [i \in DOMAIN m |-> IF m[i][1] = a THEN <<a, d>> ELSE m[i]]
    <2>1. Learned(m, a, d) = l
        BY <1>3 DEF Learned
    <2>2. l \in Seq(Address \X Device) /\ Len(l) = Len(m) /\ DOMAIN l = DOMAIN m
        BY <1>2
    <2>3. \A i \in DOMAIN m : l[i][1] = m[i][1] /\ (l[i] = <<a, d>> \/ l[i] = m[i])
        BY <1>2
    <2> QED
        BY <2>1, <2>2, <2>3 DEF IsMap
<1>4. CASE (\A i \in DOMAIN m : m[i][1] # a) /\ Len(m) < MapCapacity
    <2> DEFINE l == Append(m, <<a, d>>)
    <2>1. Learned(m, a, d) = l
        BY <1>4 DEF Learned
    <2>2. /\ l \in Seq(Address \X Device) /\ Len(l) = Len(m) + 1
          /\ DOMAIN l = 1..(Len(m) + 1)
          /\ \A i \in DOMAIN m : l[i] = m[i]
          /\ l[Len(m) + 1] = <<a, d>>
        BY <1>2
    <2>3. \A i \in DOMAIN l : i \in DOMAIN m \/ i = Len(m) + 1
        BY <1>2, <2>2
    <2>4. \A i, j \in DOMAIN l : l[i][1] = l[j][1] => i = j
        BY <1>4, <2>2, <2>3 DEF IsMap
    <2>5. Len(l) <= MapCapacity
        BY <1>1, <1>2, <1>4, <2>2
    <2> QED
        BY <2>1, <2>2, <2>3, <2>4, <2>5 DEF IsMap
<1>5. CASE (\A i \in DOMAIN m : m[i][1] # a) /\ ~(Len(m) < MapCapacity)
    BY <1>5 DEF Learned
<1> QED
    BY <1>3, <1>4, <1>5

\* The device found at an address is the node itself or is in a table.
LEMMA FoundDeviceIsKnown ==
    ASSUME NEW m, IsMap(m), NEW nbs, nbs \subseteq Neighbor, NEW a,
           NEW x \in FoundDevices(m, nbs, a)
    PROVE  \/ x = None
           \/ a = SelfAddress /\ x = Self
           \/ /\ x \in Device /\ a # SelfAddress
              /\ \/ \E i \in DOMAIN m : m[i] = <<a, x>>
                 \/ \E nb \in nbs : nb.nwk = a /\ nb.ext = x
<1>1. \A i \in DOMAIN m : m[i] \in Address \X Device
    BY DEF IsMap
<1>2. \A nb \in nbs : nb.ext \in Device \cup {None}
    BY DEF Neighbor
<1> DEFINE mapped == {i \in DOMAIN m : m[i][1] = a}
           near == {nb \in nbs : nb.nwk = a}
<1>3. CASE a = SelfAddress
    BY <1>3 DEF FoundDevices
<1>4. CASE a # SelfAddress /\ mapped # {}
    <2>1. PICK i \in mapped : x = m[i][2]
        BY <1>4 DEF FoundDevices
    <2> QED
        BY <1>1, <1>4, <2>1
<1>5. CASE a # SelfAddress /\ mapped = {} /\ near # {}
    <2>1. PICK nb \in near : x = nb.ext
        BY <1>5 DEF FoundDevices
    <2> QED
        BY <1>2, <1>5, <2>1
<1>6. CASE a # SelfAddress /\ mapped = {} /\ near = {}
    BY <1>6 DEF FoundDevices
<1> QED
    BY <1>3, <1>4, <1>5, <1>6

\* The address found for a device is the node's own or is in a table.
LEMMA FoundAddressIsKnown ==
    ASSUME NEW m, IsMap(m), NEW nbs, nbs \subseteq Neighbor, NEW d,
           NEW x \in FoundAddresses(m, nbs, d)
    PROVE  \/ x = None
           \/ d = Self /\ x = SelfAddress
           \/ /\ x \in Address /\ d # Self
              /\ \/ \E i \in DOMAIN m : m[i] = <<x, d>>
                 \/ \E nb \in nbs : nb.nwk = x /\ nb.ext = d
<1>1. \A i \in DOMAIN m : m[i] \in Address \X Device
    BY DEF IsMap
<1>2. \A nb \in nbs : nb.nwk \in Address
    BY DEF Neighbor
<1> DEFINE mapped == {i \in DOMAIN m : m[i][2] = d}
           near == {nb \in nbs : nb.ext = d}
<1>3. CASE d = Self
    BY <1>3 DEF FoundAddresses
<1>4. CASE d # Self /\ mapped # {}
    <2>1. PICK i \in mapped : x = m[i][1]
        BY <1>4 DEF FoundAddresses
    <2> QED
        BY <1>1, <1>4, <2>1
<1>5. CASE d # Self /\ mapped = {} /\ near # {}
    <2>1. PICK nb \in near : x = nb.nwk
        BY <1>5 DEF FoundAddresses
    <2> QED
        BY <1>2, <1>5, <2>1
<1>6. CASE d # Self /\ mapped = {} /\ near = {}
    BY <1>6 DEF FoundAddresses
<1> QED
    BY <1>3, <1>4, <1>5, <1>6

-----------------------------------------------------------------------------
(* The answers. *)

\* What AddressesHeld says of one answer.
Truthful(q, a) ==
    q.kind \in {"nwkAddr", "ieeeAddr"} /\ a.status = "success" =>
        IF q.start # None THEN a.nwk = SelfAddress /\ a.ieee = Self
        ELSE IF q.kind = "nwkAddr" THEN a.ieee = q.about /\ <<a.nwk, q.about>> \in Pairs
        ELSE <<q.about, a.ieee>> \in Pairs

\* No answer is content of its own.
LEMMA NoAnswerIsOne == NoAnswer \in Content /\ NoAnswer.status = "none"
BY DEF NoAnswer, Answer, Content, Outcome

\* An answer with a list of children is content and names the node.
LEMMA ExtendedIsOne ==
    ASSUME IsFiniteSet(neighbors), NEW q \in Notice, q.start # None, NEW nwk, NEW ieee
    PROVE  /\ Extended(q, nwk, ieee) \in Content
           /\ Extended(q, nwk, ieee).nwk = SelfAddress
           /\ Extended(q, nwk, ieee).ieee = Self
<1>1. q.start \in Nat
    BY QuestionAssumption
<1>2. IsFiniteSet(Children)
    BY FS_Subset DEF Children
<1>3. Cardinality(Children) \in Nat
    BY <1>2, FS_CardinalityType
<1>4. Associated(q.start) \in Nat
    BY <1>1, <1>3 DEF Associated
<1> QED
    BY <1>4 DEF Extended, Answer, Content, Outcome

\* Whatever is answered is content, and is true of some time.
LEMMA AnswerIsOne ==
    ASSUME TypeOK, MapHeld, NeighborsHeld, NEW q \in Notice, NEW a \in AnswersTo(q)
    PROVE  a \in Content /\ Truthful(q, a)
<1> USE DEF Truthful
<1>1. /\ IsMap(addressMap) /\ neighbors \subseteq Neighbor /\ IsFiniteSet(neighbors)
    BY DEF TypeOK
<1>2. CASE q.kind = "nwkAddr"
    <2>1. q.about \in Device \cup {Self}
        BY <1>2, QuestionAssumption
    <2>2. PICK x \in FoundAddresses(addressMap, neighbors, q.about) :
            a = IF x = None
                THEN NoMatches(q, Answer("notFound", None, q.about, {}))
                ELSE IF q.start = None THEN Answer("success", x, q.about, {})
                ELSE Extended(q, x, q.about)
        BY <1>2 DEF AnswersTo, NwkAddrAnswers
    <2>3. CASE x = None
        <3>1. a = Answer("notFound", None, q.about, {}) \/ a = NoAnswer
            BY <2>2, <2>3 DEF NoMatches
        <3> QED
            BY <2>1, <3>1, NoAnswerIsOne DEF Answer, Content, Outcome
    <2>4. CASE x # None /\ q.start = None
        <3>1. a = Answer("success", x, q.about, {})
            BY <2>2, <2>4
        <3>2. x \in Address \cup {SelfAddress} /\ <<x, q.about>> \in Pairs
            BY <1>1, <2>1, <2>4, FoundAddressIsKnown, InquiryAssumption
            DEF MapHeld, NeighborsHeld, Pairs
        <3> QED
            BY <1>2, <2>1, <2>4, <3>1, <3>2 DEF Answer, Content, Outcome
    <2>5. CASE x # None /\ q.start # None
        BY <1>1, <2>2, <2>5, ExtendedIsOne
    <2> QED
        BY <2>3, <2>4, <2>5
<1>3. CASE q.kind = "ieeeAddr"
    <2>1. PICK x \in FoundDevices(addressMap, neighbors, q.about) :
            a = IF x = None
                THEN NoMatches(q, Answer("notFound", SelfAddress, None, {}))
                ELSE IF q.start = None THEN Answer("success", SelfAddress, x, {})
                ELSE Extended(q, SelfAddress, x)
        BY <1>3 DEF AnswersTo, IeeeAddrAnswers
    <2>2. CASE x = None
        <3>1. a = Answer("notFound", SelfAddress, None, {}) \/ a = NoAnswer
            BY <2>1, <2>2 DEF NoMatches
        <3> QED
            BY <3>1, NoAnswerIsOne DEF Answer, Content, Outcome
    <2>3. CASE x # None /\ q.start = None
        <3>1. a = Answer("success", SelfAddress, x, {})
            BY <2>1, <2>3
        <3>2. x \in Device \cup {Self} /\ <<q.about, x>> \in Pairs
            BY <1>1, <2>3, FoundDeviceIsKnown DEF MapHeld, NeighborsHeld, Pairs
        <3> QED
            BY <1>3, <2>3, <3>1, <3>2 DEF Answer, Content, Outcome
    <2>4. CASE x # None /\ q.start # None
        BY <1>1, <2>1, <2>4, ExtendedIsOne
    <2> QED
        BY <2>2, <2>3, <2>4
<1>4. CASE q.kind \notin {"nwkAddr", "ieeeAddr"}
    <2>1. q.about \in Address \cup {SelfAddress, Everyone, None}
        BY <1>4, QuestionAssumption
    <2>2. DescriptorAnswer(q) \in Content
        BY <2>1 DEF DescriptorAnswer, Answer, Content, Outcome, Status
    <2>3. EndpointsAnswer(q) \in Content
        BY <2>1 DEF EndpointsAnswer, Answer, Content, Outcome, Status
    <2>4. SimpleAnswer(q) \in Content
        <3>1. Status(q.about, IF q.endpoint \in Endpoint THEN "success" ELSE "invalid")
                = "success" => q.endpoint \in Endpoint
            BY DEF Status
        <3>2. Status(q.about, IF q.endpoint \in Endpoint THEN "success" ELSE "invalid")
                \in Outcome
            BY DEF Status, Outcome
        <3> QED
            BY <2>1, <3>1, <3>2 DEF SimpleAnswer, Answer, Content, Outcome
    <2>5. MatchAnswer(q) \in Content
        BY <2>1, NoAnswerIsOne DEF MatchAnswer, Matching, Answer, Content, Outcome
    <2> QED
        BY <1>4, <2>2, <2>3, <2>4, <2>5, NoAnswerIsOne DEF AnswersTo
<1> QED
    BY <1>2, <1>3, <1>4

-----------------------------------------------------------------------------
(* Type correctness. *)

\* What a device sends is a frame from its address.
LEMMA SentIsOne ==
    ASSUME NEW d \in Device, NEW q \in Notice, NEW a \in Address,
           NEW named \in BOOLEAN, NEW way \in Way
    PROVE  /\ Sent(d, q, a, named, way) \in Frame
           /\ Sent(d, q, a, named, way).request.asker = d
           /\ Sent(d, q, a, named, way).request.from = a
BY DEF Sent, Frame, Request

\* The initial states satisfy the invariant.
LEMMA InitInv == Init => Inv
<1> SUFFICES ASSUME Init
             PROVE  Inv
    OBVIOUS
<1>1. TypeOK
    <2>1. IsMap(addressMap)
        BY InquiryAssumption DEF Init
    <2>2. \A i \in DOMAIN addressMap : addressMap[i] \in Address \X Device
        BY <2>1 DEF IsMap
    <2>3. addr \in [Device -> Address] /\ held \subseteq Address \X Device
        BY <2>2, InquiryAssumption DEF Init
    <2>4. neighbors \subseteq Neighbor /\ IsFiniteSet(neighbors) /\ neighbors = {}
        BY FS_EmptySet DEF Init
    <2>5. asking \in [Device -> Question \cup {None}]
        BY DEF Init
    <2> QED
        BY <2>1, <2>3, <2>4, <2>5, InquiryAssumption DEF Init, TypeOK
<1>2. WorldHeld /\ MapHeld /\ NeighborsHeld
    BY DEF Init, WorldHeld, MapHeld, NeighborsHeld
<1>3. Given = {}
    BY DEF Init, Given
<1>4. RequestsHeld /\ AddressesHeld /\ AnsweredWhereAsked
    BY <1>3 DEF Init, RequestsHeld, AddressesHeld, AnsweredWhereAsked
<1> QED
    BY <1>1, <1>2, <1>4 DEF Inv

\* Learning from a frame keeps the map true.
LEMMA LearnKeeps ==
    ASSUME Inv, NEW f \in air, Learn(f)
    PROVE  /\ IsMap(addressMap') /\ MapHeld'
           /\ f.request \in Request /\ SenderHeld(f.request)
           /\ air' \subseteq Frame /\ \A g \in air' : SenderHeld(g.request)
<1>1. /\ IsMap(addressMap) /\ f \in Frame /\ f.request \in Request
      /\ f.request.from \in Address /\ f.request.asker \in Device
      /\ air \subseteq Frame
    BY DEF Inv, TypeOK, Frame, Request
<1>2. SenderHeld(f.request) /\ \A g \in air : SenderHeld(g.request)
    BY DEF Inv, RequestsHeld
<1>3. air' \subseteq air /\ held' = held
    BY DEF Learn, world
<1>4. CASE f.named
    <2>1. addressMap' = Learned(addressMap, f.request.from, f.request.asker)
        BY <1>4 DEF Learn
    <2>2. IsMap(addressMap')
        BY <1>1, <2>1, LearnedIsMap
    <2>3. MapHeld'
        BY <1>1, <1>2, <1>3, <2>1, LearnedIsMap DEF Inv, MapHeld, SenderHeld
    <2> QED
        BY <1>1, <1>2, <1>3, <2>2, <2>3
<1>5. CASE ~f.named
    <2>1. addressMap' = addressMap
        BY <1>5 DEF Learn
    <2>2. MapHeld'
        BY <1>3, <2>1 DEF Inv, MapHeld
    <2> QED
        BY <1>1, <1>2, <1>3, <2>1, <2>2
<1> QED
    BY <1>4, <1>5

\* Moving keeps the types.
LEMMA MoveKeepsType ==
    ASSUME TypeOK, NEW d \in Device, NEW a \in Address, NEW q \in Announcements,
           NEW named \in BOOLEAN, NEW way \in Way, Move(d, a, q, named, way)
    PROVE  TypeOK'
<1>1. q \in Notice
    BY DEF Notice
<1>2. Sent(d, q, a, named, way) \in Frame
    BY <1>1, SentIsOne
<1>3. addr' \in [Device -> Address] /\ held' \subseteq Address \X Device
    BY DEF TypeOK, Move
<1>4. air' \subseteq Frame /\ moves' \in 0..MaxMoves
    BY <1>2, InquiryAssumption DEF TypeOK, Move
<1> QED
    BY <1>3, <1>4 DEF TypeOK, Move, tables, node

\* Sending keeps the types.
LEMMA SendKeepsType ==
    ASSUME TypeOK, NEW d \in Device, NEW named \in BOOLEAN, NEW way \in Way,
           Send(d, named, way)
    PROVE  TypeOK'
<1>1. asking[d] \in Notice
    BY DEF TypeOK, Send, Notice
<1>2. Sent(d, asking[d], addr[d], named, way) \in Frame
    BY <1>1, SentIsOne DEF TypeOK
<1>3. air' \subseteq Frame
    BY <1>2 DEF TypeOK, Send
<1> QED
    BY <1>3 DEF TypeOK, Send, world, tables, node

\* The steps of the devices and of the air keep the types.
LEMMA OthersKeepType ==
    ASSUME TypeOK,
           \/ \E d \in Device, q \in Question : Ask(d, q)
           \/ \E d \in Device : GiveUp(d)
           \/ \E r \in answers : Deliver(r)
           \/ Lose
    PROVE  TypeOK'
<1>1. ASSUME NEW d \in Device, NEW q \in Question, Ask(d, q)
      PROVE  TypeOK'
    <2>1. asking' \in [Device -> Question \cup {None}] /\ asked' \in 0..MaxQuestions
        BY <1>1, InquiryAssumption DEF TypeOK, Ask
    <2> QED
        BY <1>1, <2>1 DEF TypeOK, Ask, world, tables, node, link
<1>2. ASSUME NEW d \in Device, GiveUp(d)
      PROVE  TypeOK'
    <2>1. asking' \in [Device -> Question \cup {None}]
        BY <1>2 DEF TypeOK, GiveUp
    <2> QED
        BY <1>2, <2>1 DEF TypeOK, GiveUp, world, tables, node, link
<1>3. ASSUME NEW r \in answers, Deliver(r)
      PROVE  TypeOK'
    <2>1. asking' \in [Device -> Question \cup {None}]
        BY <1>3 DEF TypeOK, Deliver
    <2>2. answers' \subseteq Reply
        BY <1>3 DEF TypeOK, Deliver
    <2> QED
        BY <1>3, <2>1, <2>2 DEF TypeOK, Deliver, world, tables, node
<1>4. ASSUME Lose
      PROVE  TypeOK'
    <2>1. air' \subseteq Frame /\ answers' \subseteq Reply
        BY <1>4 DEF TypeOK, Lose
    <2>2. losses' \in 0..MaxLosses
        BY <1>4, InquiryAssumption DEF TypeOK, Lose
    <2> QED
        BY <1>4, <2>1, <2>2 DEF TypeOK, Lose, world, tables, node
<1> QED
    BY <1>1, <1>2, <1>3, <1>4

\* Changes of the neighbor table keep the types.
LEMMA NeighborsKeepType ==
    ASSUME TypeOK,
           \/ \E d \in Device, ext \in Device \cup {None}, child \in BOOLEAN :
                Join(d, ext, child)
           \/ \E nb \in neighbors : Forget(nb)
    PROVE  TypeOK'
<1>1. ASSUME NEW d \in Device, NEW ext \in Device \cup {None}, NEW child \in BOOLEAN,
             Join(d, ext, child)
      PROVE  TypeOK'
    <2> DEFINE kept == {nb \in neighbors : nb.ext = None \/ nb.ext # ext}
               new == [nwk |-> addr[d], ext |-> ext, child |-> child]
    <2>1. neighbors' = kept \cup {new}
        BY <1>1 DEF Join
    <2>2. new \in Neighbor /\ kept \subseteq Neighbor
        BY DEF TypeOK, Neighbor
    <2>3. IsFiniteSet(kept)
        BY FS_Subset DEF TypeOK
    <2>4. IsFiniteSet(kept \cup {new})
        BY <2>3, FS_AddElement
    <2>5. joins' \in 0..MaxJoins
        BY <1>1, InquiryAssumption DEF TypeOK, Join
    <2>6. role' = "router"
        BY <1>1 DEF Join
    <2> QED
        BY <1>1, <2>1, <2>2, <2>4, <2>5, <2>6 DEF TypeOK, Join, world, node, link
<1>2. ASSUME NEW nb \in neighbors, Forget(nb)
      PROVE  TypeOK'
    <2>1. IsFiniteSet(neighbors') /\ neighbors' \subseteq neighbors
        BY <1>2, FS_Subset DEF TypeOK, Forget
    <2> QED
        BY <1>2, <2>1 DEF TypeOK, Forget, world, node, link
<1> QED
    BY <1>1, <1>2

\* Hearing a frame keeps the types.
LEMMA HearKeepsType ==
    ASSUME Inv, NEW f \in air, Hear(f)
    PROVE  TypeOK'
<1>1. TypeOK
    BY DEF Inv
<1>2. Learn(f)
    BY DEF Hear, Drop, Halt, Receive
<1>3. IsMap(addressMap') /\ air' \subseteq Frame /\ f.request \in Request
    BY <1>2, LearnKeeps
<1>4. /\ role' = role /\ addr' = addr /\ held' = held /\ moves' = moves
      /\ asking' = asking /\ answers' = answers /\ losses' = losses
      /\ asked' = asked /\ joins' = joins /\ phase = "listening"
    BY <1>2 DEF Learn, world
<1>5. \A nbs \in Examined(f) : nbs \subseteq neighbors
    BY DEF Examined
<1>6. ASSUME neighbors' \subseteq neighbors
      PROVE  /\ neighbors' \subseteq Neighbor /\ IsFiniteSet(neighbors')
             /\ role' = "endDevice" => neighbors' = {}
    BY <1>1, <1>4, <1>6, FS_Subset DEF TypeOK
<1>7. CASE Drop(f)
    BY <1>1, <1>3, <1>4, <1>7 DEF TypeOK, Drop
<1>8. CASE Halt(f)
    <2>1. neighbors' \subseteq neighbors
        BY <1>5, <1>8 DEF Halt
    <2>2. phase' = "halted" /\ role = "router" /\ UNCHANGED <<request, src, answer>>
        BY <1>8 DEF Halt, Relayed
    <2> QED
        BY <1>1, <1>3, <1>4, <1>6, <2>1, <2>2 DEF TypeOK
<1>9. CASE Receive(f)
    <2>1. neighbors' \subseteq neighbors
        BY <1>5, <1>9 DEF Receive
    <2>2. phase' = "received" /\ request' = f.request /\ answer' = answer
        BY <1>9 DEF Receive
    <2>3. f.request.from \in Address
        BY <1>3 DEF Request
    <2>4. src' \in Device \cup {None}
        BY <1>3, <1>6, <1>9, <2>1, <2>3, FoundDeviceIsKnown, InquiryAssumption DEF Receive
    <2> QED
        BY <1>1, <1>3, <1>4, <1>6, <2>1, <2>2, <2>4 DEF TypeOK
<1> QED
    BY <1>7, <1>8, <1>9 DEF Hear

\* Where an answer may go.
LEMMA DestinationIsKnown ==
    ASSUME Inv, phase = "received", NEW to \in Destinations, to # None
    PROVE  /\ to \in Address
           /\ \/ to = request.from
              \/ <<to, request.asker>> \in held
              \/ Shared(request.from, request.asker)
<1>1. /\ IsMap(addressMap) /\ neighbors \subseteq Neighbor
      /\ request \in Request /\ src \in Device \cup {None}
    BY DEF Inv, TypeOK
<1>2. CASE src = None
    BY <1>1, <1>2 DEF Destinations, Request
<1>3. CASE src # None
    <2>1. to \in FoundAddresses(addressMap, neighbors, src)
        BY <1>3 DEF Destinations
    <2>2. src \in Device /\ src # Self
        BY <1>1, <1>3, InquiryAssumption
    <2>3. to \in Address /\ <<to, src>> \in held
        BY <1>1, <1>3, <2>1, <2>2, FoundAddressIsKnown DEF Inv, MapHeld, NeighborsHeld
    <2>4. <<request.from, src>> \in held
        BY <1>3 DEF Inv, RequestsHeld
    <2>5. src # request.asker => Shared(request.from, request.asker)
        BY <2>2, <2>4 DEF Shared
    <2> QED
        BY <2>3, <2>5
<1> QED
    BY <1>2, <1>3

\* Handling a request keeps the map true.
LEMMA HandleKeepsMap ==
    ASSUME Inv, Handle
    PROVE  IsMap(addressMap') /\ MapHeld'
<1>1. /\ IsMap(addressMap) /\ request \in Request /\ MapHeld
      /\ request.from \in Address /\ request.asker \in Device
    BY DEF Inv, TypeOK, Handle, Request
<1>2. <<request.from, request.asker>> \in held /\ held' = held
    BY DEF Inv, RequestsHeld, SenderHeld, Handle, world
<1>3. CASE addressMap' = addressMap
    BY <1>1, <1>2, <1>3 DEF MapHeld
<1>4. CASE addressMap' = Learned(addressMap, request.from, request.asker)
    BY <1>1, <1>2, <1>4, LearnedIsMap DEF MapHeld
<1> QED
    BY <1>3, <1>4 DEF Handle, Announced

\* What the node answers is true of some time and goes where it may.
LEMMA HandleAnswers ==
    ASSUME Inv, Handle, phase' = "answering"
    PROVE  /\ answer' \in Reply /\ answer'.request = request
           /\ Truthful(request.question, answer'.content)
           /\ \/ answer'.to = request.from
              \/ <<answer'.to, request.asker>> \in held
              \/ Shared(request.from, request.asker)
<1>1. PICK a \in AnswersTo(request.question), to \in Destinations :
        to # None /\ answer' = [to |-> to, request |-> request, content |-> a]
    BY DEF Handle
<1>2. request \in Request /\ request.question \in Notice /\ phase = "received"
    BY DEF Inv, TypeOK, Handle, Request
<1>3. a \in Content /\ Truthful(request.question, a)
    BY <1>2, AnswerIsOne DEF Inv
<1>4. /\ to \in Address
      /\ \/ to = request.from
         \/ <<to, request.asker>> \in held
         \/ Shared(request.from, request.asker)
    BY <1>1, <1>2, DestinationIsKnown
<1> QED
    BY <1>1, <1>2, <1>3, <1>4 DEF Reply

\* Handling a request keeps the types.
LEMMA HandleKeepsType ==
    ASSUME Inv, Handle
    PROVE  TypeOK'
<1>1. TypeOK /\ IsMap(addressMap')
    BY HandleKeepsMap DEF Inv
<1>2. \/ phase' = "listening" /\ answer' = None
      \/ phase' = "answering" /\ answer' \in Reply
    BY HandleAnswers DEF Handle
<1>3. request' = None /\ src' = None
    BY DEF Handle
<1> QED
    BY <1>1, <1>2, <1>3 DEF TypeOK, Handle, world, link

\* Sending the answer, or its end, keeps the types.
LEMMA LeaveKeepsType ==
    ASSUME TypeOK, Transmit \/ Cut
    PROVE  TypeOK'
<1>1. CASE Transmit
    <2>1. answers' \subseteq Reply
        BY <1>1 DEF TypeOK, Transmit
    <2> QED
        BY <1>1, <2>1 DEF TypeOK, Transmit, Listen, world, tables
<1>2. CASE Cut
    <2>1. losses' \in 0..MaxLosses
        BY <1>2, InquiryAssumption DEF TypeOK, Cut
    <2> QED
        BY <1>2, <2>1 DEF TypeOK, Cut, Listen, world, tables
<1> QED
    BY <1>1, <1>2

-----------------------------------------------------------------------------
(* What was so remains so. *)

\* Only new answers need a look.
LEMMA GivenKeeps ==
    ASSUME RequestsHeld, AddressesHeld, AnsweredWhereAsked, held \subseteq held',
           Given' \subseteq Given
    PROVE  /\ \A r \in Given' : SenderHeld(r.request)'
           /\ AddressesHeld' /\ AnsweredWhereAsked'
<1>1. \A r \in Given' : SenderHeld(r.request)'
    BY DEF RequestsHeld, SenderHeld
<1>2. AddressesHeld'
    <2>1. Pairs \subseteq Pairs'
        BY DEF Pairs
    <2> QED
        BY <2>1 DEF AddressesHeld
<1>3. AnsweredWhereAsked'
    BY DEF AnsweredWhereAsked, Shared
<1> QED
    BY <1>1, <1>2, <1>3

\* Steps that do not touch the node.
LEMMA WorldKeeps ==
    ASSUME Inv, held \subseteq held', WorldHeld', UNCHANGED <<addressMap, node>>,
           NeighborsHeld', \A f \in air' : SenderHeld(f.request)', answers' \subseteq answers,
           TypeOK'
    PROVE  Inv'
<1>1. Given' \subseteq Given
    BY DEF Given, node
<1>2. MapHeld'
    BY DEF Inv, MapHeld
<1>3. /\ \A r \in Given' : SenderHeld(r.request)'
      /\ AddressesHeld' /\ AnsweredWhereAsked'
    BY <1>1, GivenKeeps DEF Inv
<1>4. RequestsHeld'
    BY <1>3 DEF Inv, RequestsHeld, SenderHeld, node
<1> QED
    BY <1>2, <1>3, <1>4 DEF Inv

\* The steps of the devices, the air and the neighbor table keep the
\* invariant.
LEMMA OthersKeepInv ==
    ASSUME Inv,
           \/ \E d \in Device, a \in Address, q \in Announcements, named \in BOOLEAN, way \in Way :
                Move(d, a, q, named, way)
           \/ \E d \in Device, q \in Question : Ask(d, q)
           \/ \E d \in Device, named \in BOOLEAN, way \in Way : Send(d, named, way)
           \/ \E d \in Device : GiveUp(d)
           \/ \E r \in answers : Deliver(r)
           \/ Lose
           \/ \E d \in Device, ext \in Device \cup {None}, child \in BOOLEAN : Join(d, ext, child)
           \/ \E nb \in neighbors : Forget(nb)
    PROVE  Inv'
<1>1. /\ TypeOK /\ WorldHeld /\ NeighborsHeld
      /\ \A f \in air : SenderHeld(f.request)
    BY DEF Inv, RequestsHeld
<1>2. ASSUME NEW d \in Device, NEW a \in Address, NEW q \in Announcements,
             NEW named \in BOOLEAN, NEW way \in Way, Move(d, a, q, named, way)
      PROVE  Inv'
    <2>1. TypeOK'
        BY <1>1, <1>2, MoveKeepsType
    <2>2. held' = held \cup {<<a, d>>} /\ UNCHANGED <<addressMap, neighbors, node, answers>>
        BY <1>2 DEF Move, tables
    <2>3. WorldHeld'
        BY <1>1, <1>2, <2>2 DEF TypeOK, WorldHeld, Move
    <2>4. Sent(d, q, a, named, way).request.asker = d
          /\ Sent(d, q, a, named, way).request.from = a
        BY SentIsOne DEF Notice
    <2>5. \A f \in air' : SenderHeld(f.request)'
        BY <1>1, <1>2, <2>2, <2>4 DEF Move, SenderHeld
    <2>6. NeighborsHeld'
        BY <1>1, <2>2 DEF NeighborsHeld
    <2> QED
        BY <2>1, <2>2, <2>3, <2>5, <2>6, WorldKeeps
<1>3. ASSUME NEW d \in Device, NEW named \in BOOLEAN, NEW way \in Way, Send(d, named, way)
      PROVE  Inv'
    <2>1. TypeOK'
        BY <1>1, <1>3, SendKeepsType
    <2>2. UNCHANGED <<addr, held, addressMap, neighbors, node, answers>>
        BY <1>3 DEF Send, world, tables
    <2>3. asking[d] \in Notice /\ addr[d] \in Address
        BY <1>1, <1>3 DEF TypeOK, Send, Notice
    <2>4. Sent(d, asking[d], addr[d], named, way).request.asker = d
          /\ Sent(d, asking[d], addr[d], named, way).request.from = addr[d]
        BY <2>3, SentIsOne
    <2>5. \A f \in air' : SenderHeld(f.request)'
        BY <1>1, <1>3, <2>2, <2>4 DEF Send, SenderHeld, WorldHeld
    <2>6. WorldHeld' /\ NeighborsHeld'
        BY <1>1, <2>2 DEF WorldHeld, NeighborsHeld
    <2> QED
        BY <2>1, <2>2, <2>5, <2>6, WorldKeeps
<1>4. ASSUME \/ \E d \in Device, q \in Question : Ask(d, q)
             \/ \E d \in Device : GiveUp(d)
             \/ \E r \in answers : Deliver(r)
             \/ Lose
      PROVE  Inv'
    <2>1. TypeOK'
        BY <1>1, <1>4, OthersKeepType
    <2>2. /\ UNCHANGED <<addr, held, addressMap, neighbors, node>>
          /\ answers' \subseteq answers /\ air' \subseteq air
        BY <1>4 DEF Ask, GiveUp, Deliver, Lose, world, tables, link
    <2>3. WorldHeld' /\ NeighborsHeld' /\ \A f \in air' : SenderHeld(f.request)'
        BY <1>1, <2>2 DEF WorldHeld, NeighborsHeld, SenderHeld
    <2> QED
        BY <2>1, <2>2, <2>3, WorldKeeps
<1>5. ASSUME NEW d \in Device, NEW ext \in Device \cup {None}, NEW child \in BOOLEAN,
             Join(d, ext, child)
      PROVE  Inv'
    <2>1. TypeOK'
        BY <1>1, <1>5, NeighborsKeepType
    <2>2. UNCHANGED <<addr, held, addressMap, node, answers, air>>
        BY <1>5 DEF Join, world, link
    <2>3. \A nb \in neighbors' :
            \/ nb \in neighbors
            \/ nb.nwk = addr[d] /\ nb.ext \in {d, None}
        <3>1. ext \in {d, None}
            BY <1>5 DEF Join
        <3>2. \A nb \in neighbors' :
                \/ nb \in neighbors
                \/ nb = [nwk |-> addr[d], ext |-> ext, child |-> child]
            BY <1>5 DEF Join
        <3> QED
            BY <3>1, <3>2
    <2>4. NeighborsHeld'
        BY <1>1, <2>2, <2>3 DEF NeighborsHeld, WorldHeld
    <2>5. WorldHeld' /\ \A f \in air' : SenderHeld(f.request)'
        BY <1>1, <2>2 DEF WorldHeld, SenderHeld
    <2> QED
        BY <2>1, <2>2, <2>4, <2>5, WorldKeeps
<1>6. ASSUME NEW nb \in neighbors, Forget(nb)
      PROVE  Inv'
    <2>1. TypeOK'
        BY <1>1, <1>6, NeighborsKeepType
    <2>2. UNCHANGED <<addr, held, addressMap, node, answers, air>>
        BY <1>6 DEF Forget, world, link
    <2>3. neighbors' \subseteq neighbors
        BY <1>6 DEF Forget
    <2>4. WorldHeld' /\ NeighborsHeld' /\ \A f \in air' : SenderHeld(f.request)'
        BY <1>1, <2>2, <2>3 DEF WorldHeld, NeighborsHeld, SenderHeld
    <2> QED
        BY <2>1, <2>2, <2>4, WorldKeeps
<1> QED
    BY <1>2, <1>3, <1>4, <1>5, <1>6

\* So does hearing a frame.
LEMMA HearKeepsInv ==
    ASSUME Inv, NEW f \in air, Hear(f)
    PROVE  Inv'
<1>1. TypeOK /\ TypeOK' /\ WorldHeld /\ NeighborsHeld /\ RequestsHeld
    BY HearKeepsType DEF Inv
<1>2. Learn(f)
    BY DEF Hear, Drop, Halt, Receive
<1>3. /\ IsMap(addressMap') /\ MapHeld' /\ f.request \in Request /\ SenderHeld(f.request)
      /\ \A g \in air' : SenderHeld(g.request)
    BY <1>2, LearnKeeps
<1>4. addr' = addr /\ held' = held /\ answers' = answers /\ phase = "listening"
    BY <1>2 DEF Learn, world
<1>5. neighbors' \subseteq neighbors
    BY DEF Hear, Drop, Halt, Receive, Examined
<1>6. WorldHeld' /\ NeighborsHeld'
    BY <1>1, <1>4, <1>5 DEF WorldHeld, NeighborsHeld
<1>7. phase' # "answering"
    BY <1>4 DEF Hear, Drop, Halt, Receive
<1>8. Given' \subseteq Given
    BY <1>4, <1>7 DEF Given
<1>9. /\ \A r \in Given' : SenderHeld(r.request)'
      /\ AddressesHeld' /\ AnsweredWhereAsked'
    BY <1>4, <1>8, GivenKeeps DEF Inv
<1>10. phase' = "received" => /\ SenderHeld(request)'
                              /\ src' # None => <<request'.from, src'>> \in held'
    <2>1. SUFFICES ASSUME phase' = "received"
                   PROVE  /\ SenderHeld(request)'
                          /\ src' # None => <<request'.from, src'>> \in held'
        OBVIOUS
    <2>2. Receive(f)
        BY <1>4, <2>1 DEF Hear, Drop, Halt
    <2>3. request' = f.request /\ src' \in FoundDevices(addressMap', neighbors', f.request.from)
        BY <2>2 DEF Receive
    <2>4. f.request.from \in Address /\ f.request.from # SelfAddress
        BY <1>3, InquiryAssumption DEF Request
    <2>5. neighbors' \subseteq Neighbor
        BY <1>1 DEF TypeOK
    <2>6. src' # None => <<f.request.from, src'>> \in held
        BY <1>3, <1>4, <1>6, <2>3, <2>4, <2>5, FoundDeviceIsKnown DEF MapHeld, NeighborsHeld
    <2> QED
        BY <1>3, <1>4, <2>3, <2>6 DEF SenderHeld
<1>11. RequestsHeld'
    BY <1>3, <1>4, <1>9, <1>10 DEF RequestsHeld, SenderHeld
<1> QED
    BY <1>1, <1>3, <1>6, <1>9, <1>11 DEF Inv

\* So does handling a request.
LEMMA HandleKeepsInv ==
    ASSUME Inv, Handle
    PROVE  Inv'
<1>1. TypeOK /\ TypeOK' /\ MapHeld'
    BY HandleKeepsType, HandleKeepsMap DEF Inv
<1>2. /\ UNCHANGED <<addr, held, neighbors, air, answers>>
      /\ phase = "received" /\ phase' \in {"listening", "answering"}
    BY DEF Handle, world, link
<1>3. WorldHeld' /\ NeighborsHeld'
    BY <1>2 DEF Inv, WorldHeld, NeighborsHeld
<1>4. SenderHeld(request) /\ \A f \in air : SenderHeld(f.request)
    BY <1>2 DEF Inv, RequestsHeld
<1>5. Given = answers /\ \A r \in Given : SenderHeld(r.request)
    BY <1>2 DEF Inv, RequestsHeld, Given
<1>6. \A r \in Given' : r \in Given \/ (phase' = "answering" /\ r = answer')
    BY <1>2 DEF Given
<1>7. phase' = "answering" =>
        /\ answer'.request = request
        /\ Truthful(request.question, answer'.content)
        /\ \/ answer'.to = request.from
           \/ <<answer'.to, request.asker>> \in held
           \/ Shared(request.from, request.asker)
    BY HandleAnswers
<1>8. RequestsHeld'
    BY <1>2, <1>4, <1>5, <1>6, <1>7 DEF RequestsHeld, SenderHeld
<1>9. AddressesHeld'
    <2>1. \A r \in Given : Truthful(r.request.question, r.content)
        BY DEF Inv, AddressesHeld, Truthful
    <2>2. \A r \in Given' : Truthful(r.request.question, r.content)
        BY <1>6, <1>7, <2>1
    <2>3. Pairs' = Pairs
        BY <1>2 DEF Pairs
    <2> QED
        BY <2>2, <2>3 DEF AddressesHeld, Truthful
<1>10. AnsweredWhereAsked'
    <2>1. \A r \in Given' :
            \/ r.to = r.request.from
            \/ <<r.to, r.request.asker>> \in held
            \/ Shared(r.request.from, r.request.asker)
        BY <1>6, <1>7 DEF Inv, AnsweredWhereAsked
    <2> QED
        BY <1>2, <2>1 DEF AnsweredWhereAsked, Shared
<1> QED
    BY <1>1, <1>3, <1>8, <1>9, <1>10 DEF Inv

\* So does sending the answer, or its end.
LEMMA LeaveKeepsInv ==
    ASSUME Inv, Transmit \/ Cut
    PROVE  Inv'
<1>1. TypeOK'
    BY LeaveKeepsType DEF Inv
<1>2. UNCHANGED <<addr, held, addressMap, neighbors, air>> /\ phase' = "listening"
    BY DEF Transmit, Cut, Listen, world, tables
<1>3. Given' \subseteq Given
    BY <1>2 DEF Transmit, Cut, Given
<1>4. /\ \A r \in Given' : SenderHeld(r.request)'
      /\ AddressesHeld' /\ AnsweredWhereAsked'
    BY <1>2, <1>3, GivenKeeps DEF Inv
<1>5. WorldHeld' /\ MapHeld' /\ NeighborsHeld'
    BY <1>2 DEF Inv, WorldHeld, MapHeld, NeighborsHeld
<1>6. RequestsHeld'
    BY <1>2, <1>4 DEF Inv, RequestsHeld, SenderHeld
<1> QED
    BY <1>1, <1>4, <1>5, <1>6 DEF Inv

\* So does nothing.
LEMMA StutterKeepsInv ==
    ASSUME Inv, UNCHANGED vars
    PROVE  Inv'
<1>1. UNCHANGED <<role, addr, held, moves, addressMap, neighbors, asking, phase, request, src,
                  answer, air, answers, losses, asked, joins>>
    BY DEF vars, world, tables, node, link
<1>2. Given' = Given
    BY <1>1 DEF Given
<1>3. TypeOK'
    BY <1>1 DEF Inv, TypeOK
<1>4. WorldHeld' /\ MapHeld' /\ NeighborsHeld' /\ RequestsHeld'
    BY <1>1, <1>2 DEF Inv, WorldHeld, MapHeld, NeighborsHeld, RequestsHeld, SenderHeld
<1>5. AddressesHeld' /\ AnsweredWhereAsked'
    BY <1>1, <1>2, GivenKeeps DEF Inv
<1> QED
    BY <1>3, <1>4, <1>5 DEF Inv

-----------------------------------------------------------------------------
(* The theorems. *)

\* The invariant holds in every state: every pair of address and device that the
\* tables hold was so at some time.
THEOREM TablesHeld == Spec => []Inv
<1>1. Inv /\ [Next]_vars => Inv'
    <2> SUFFICES ASSUME Inv, [Next]_vars
                 PROVE  Inv'
        OBVIOUS
    <2>1. CASE UNCHANGED vars
        BY <2>1, StutterKeepsInv
    <2>2. CASE \E f \in air : Hear(f)
        BY <2>2, HearKeepsInv
    <2>3. CASE Handle
        BY <2>3, HandleKeepsInv
    <2>4. CASE Transmit \/ Cut
        BY <2>4, LeaveKeepsInv
    <2> QED
        BY <2>1, <2>2, <2>3, <2>4, OthersKeepInv DEF Next, Hear
<1> QED
    BY <1>1, InitInv, PTL DEF Spec

\* The tables, the requests and the answers of the node are always of their types:
\* the address map has one device for an address and is never overfull.
THEOREM TypeCorrect == Spec => []TypeOK
<1>1. Inv => TypeOK
    BY DEF Inv
<1> QED
    BY <1>1, TablesHeld, PTL

\* The handlers of address requests give no address and no device that was not so.
THEOREM GivenWereHeld == Spec => []AddressesHeld
<1>1. Inv => AddressesHeld
    BY DEF Inv
<1> QED
    BY <1>1, TablesHeld, PTL

\* An answer goes where it was asked from or where the one who asked has been,
\* unless the address it was asked from has been another's.
THEOREM AnswersGoBack == Spec => []AnsweredWhereAsked
<1>1. Inv => AnsweredWhereAsked
    BY DEF Inv
<1> QED
    BY <1>1, TablesHeld, PTL

=============================================================================
