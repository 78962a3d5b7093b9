---------------------------- MODULE Routing_proofs ----------------------------
(***************************************************************************)
(* Proofs about Routing, for any network, any traffic and any number of    *)
(* route requests.                                                         *)
(***************************************************************************)
EXTENDS Routing, TLAPS

\* A route of a router that runs: it is active and has a next hop, or there is
\* none at all, discoveries included.
Good(rt) ==
    /\ rt.status # "underway"
    /\ rt.status = "none" => rt.found = {}
    /\ rt.status = "active" => rt.next # Everyone

RoutesGood == \A r \in running : Good(route[r])

\* Identifiers of frames are given out in turn.
Numbered ==
    /\ \A c \in data : c.frame.id <= sent
    /\ \A w \in received : w[1].id <= sent

IInv ==
    /\ TypeOK
    /\ RoutesGood
    /\ Numbered
    /\ OneCopy

-----------------------------------------------------------------------------
\* Routers, end devices and addresses outside are nodes.
LEMMA RoutersAreNodes == Routers \subseteq Nodes /\ Foreign \subseteq Nodes /\ EndDevices \subseteq Nodes
BY DEF Nodes

\* What Copies puts on the air.
LEMMA CopiesType ==
    ASSUME NEW n \in Nodes, NEW frame \in Frame, NEW radius \in 0..MaxRadius,
           NEW hop \in Nodes \cup {Everyone}
    PROVE  Copies(n, frame, radius, hop) \subseteq Data
BY DEF Copies, Data

\* A decremented radius is a radius again.
LEMMA DecrementedType ==
    ASSUME NEW radius \in 0..MaxRadius
    PROVE  Decremented(radius) \in 0..MaxRadius
<1>1. MaxRadius \in Nat \ {0} /\ radius + MaxRadius \in Nat
    BY ConstantsAssumption
<1> QED
    BY <1>1 DEF Decremented

\* A route of a router, and what a frame for d makes of it.
LEMMA RouteAfterType ==
    ASSUME NEW rt \in Route, NEW d \in Nodes, NEW entry \in Entry
    PROVE  /\ RouteAfter(entry, rt, d) \in Route
           /\ Good(rt) => Good(RouteAfter(entry, rt, d))
<1>1. CASE entry = "child"
    <2> DEFINE new == [rt EXCEPT !.next = d,
                                 !.status = IF rt.status = "none" THEN "active" ELSE rt.status]
    <2>1. new \in Route
        BY DEF Route
    <2>2. Good(rt) => Good(new)
        BY ConstantsAssumption DEF Route, Good
    <2> QED
        BY <1>1, <2>1, <2>2 DEF RouteAfter
<1>2. CASE entry # "child"
    BY <1>2 DEF RouteAfter
<1> QED
    BY <1>1, <1>2

\* Cleaning keeps a good route good.
LEMMA CleanedType ==
    ASSUME NEW old \in Route, NEW rt \in Cleaned(old)
    PROVE  /\ rt \in Route
           /\ Good(old) => Good(rt)
<1>1. PICK left \in SUBSET old.found :
        rt = IF old.status = "active" \/ left # {} THEN [old EXCEPT !.found = left] ELSE NoRoute
    BY DEF Cleaned
<1>2. CASE rt = NoRoute
    BY <1>2 DEF NoRoute, Route, Good
<1>3. CASE rt = [old EXCEPT !.found = left] /\ (old.status = "active" \/ left # {})
    <2>1. rt \in Route
        BY <1>3 DEF Route
    <2>2. rt.status = old.status /\ rt.next = old.next /\ rt.found = left
        BY <1>3 DEF Route
    <2> QED
        BY <1>3, <2>1, <2>2 DEF Good
<1> QED
    BY <1>1, <1>2, <1>3

\* What is on the air after a request.
LEMMA AiredSubset ==
    ASSUME NEW left, NEW copies, NEW air \in Aired(left, copies)
    PROVE  air \subseteq left \cup copies
BY DEF Aired

\* A route request goes out as requests.
LEMMA AsksType ==
    ASSUME TypeOK, NEW n \in Nodes, NEW id \in RequestIds, NEW origin \in Nodes,
           NEW target \in Nodes \cup {Everyone}
    PROVE  Asks(n, id, origin, target) \subseteq Request
BY DEF Asks, Request, TypeOK

\* A route request is answered with replies.
LEMMA ReplyToType ==
    ASSUME NEW q \in Request
    PROVE  ReplyTo(q) \subseteq Reply
BY RoutersAreNodes DEF ReplyTo, Reply, Request

-----------------------------------------------------------------------------
\* The frame of a router that runs goes to at most one node.
LEMMA PassedOne ==
    ASSUME TypeOK, RoutesGood, NEW r \in running, NEW frame \in Frame, NEW entry \in Entry,
           NEW radius \in 0..MaxRadius, frame.dst \in Nodes
    PROVE  /\ Passed(r, frame, radius, entry) \subseteq Data
           /\ \A c \in Passed(r, frame, radius, entry) : c.frame = frame
           /\ \A c, other \in Passed(r, frame, radius, entry) : other = c
<1>1. r \in Routers /\ r \in Nodes /\ route[r] \in Route /\ Good(route[r])
    BY RoutersAreNodes DEF TypeOK, RoutesGood
<1> DEFINE hops == Hops(entry, route[r], frame.dst)
<1>2. /\ hops \subseteq Nodes
      /\ \A g, h \in hops : g = h
    BY <1>1 DEF Hops, Good, Route
<1>3. \A hop \in hops :
        Copies(r, frame, radius, hop)
            = [frame : {frame}, radius : {radius}, from : {r}, to : {hop}]
    BY <1>2, ConstantsAssumption DEF Copies
<1>4. Passed(r, frame, radius, entry) = UNION {Copies(r, frame, radius, hop) : hop \in hops}
    BY DEF Passed
<1>5. ASSUME NEW c \in Passed(r, frame, radius, entry)
      PROVE  \E hop \in hops : c \in [frame : {frame}, radius : {radius}, from : {r}, to : {hop}]
    <2>1. PICK hop \in hops : c \in Copies(r, frame, radius, hop)
        <3> HIDE DEF hops
        <3> QED
            BY <1>4, <1>5
    <2> QED
        BY <1>3, <2>1
<1>6. ASSUME NEW c \in Passed(r, frame, radius, entry)
      PROVE  c \in Data /\ c.frame = frame
    <2>1. PICK hop \in hops : c \in [frame : {frame}, radius : {radius}, from : {r}, to : {hop}]
        BY <1>5, <1>6
    <2> QED
        BY <2>1, <1>1, <1>2 DEF Data
<1>7. ASSUME NEW c \in Passed(r, frame, radius, entry),
             NEW other \in Passed(r, frame, radius, entry)
      PROVE  other = c
    <2>1. PICK g \in hops : c \in [frame : {frame}, radius : {radius}, from : {r}, to : {g}]
        BY <1>5, <1>7
    <2>2. PICK h \in hops : other \in [frame : {frame}, radius : {radius}, from : {r}, to : {h}]
        BY <1>5, <1>7
    <2>3. g = h
        BY <1>2, <2>1, <2>2
    <2> QED
        BY <2>1, <2>2, <2>3
<1> QED
    BY <1>6, <1>7

\* One copy more of a frame that is not on the air, and one copy less.
LEMMA OneCopyMore ==
    ASSUME OneCopy, NEW frame, NEW new,
           \A c \in new : c.frame = frame,
           \A c, other \in new : other = c,
           \A c \in data : c.frame # frame,
           \A n \in Nodes : <<frame, n>> \notin received,
           data' = data \cup new, received' = received
    PROVE  OneCopy'
BY DEF OneCopy

\* Taking copies off the air leaves at most one.
LEMMA OneCopyLess ==
    ASSUME OneCopy, data' \subseteq data, received' = received
    PROVE  OneCopy'
BY DEF OneCopy

\* A router changes its route.
LEMMA RouteChanged ==
    ASSUME TypeOK, RoutesGood, NEW r \in Routers, NEW rt \in Route,
           r \in running => Good(rt) \/ r \notin running',
           route' = [route EXCEPT ![r] = rt], running' \subseteq running
    PROVE  route' \in [Routers -> Route] /\ RoutesGood'
BY DEF TypeOK, RoutesGood, Good

-----------------------------------------------------------------------------
\* The initial states satisfy the invariant.
THEOREM Initial == Init => IInv
<1> SUFFICES ASSUME Init PROVE IInv
    OBVIOUS
<1>1. TypeOK
    <2>1. NoRoute \in Route
        BY DEF NoRoute, Route
    <2>2. route \in [Routers -> Route]
        BY <2>1 DEF Init
    <2>3. sent \in 0..MaxFrames /\ asked \in 0..MaxAsked /\ cuts \in 0..MaxCuts /\ moves \in 0..MaxMoves
        BY ConstantsAssumption DEF Init
    <2> QED
        BY <2>2, <2>3 DEF Init, TypeOK
<1>2. RoutesGood
    BY DEF Init, RoutesGood, Good, NoRoute
<1>3. Numbered /\ OneCopy
    BY DEF Init, Numbered, OneCopy
<1> QED
    BY <1>1, <1>2, <1>3 DEF IInv

-----------------------------------------------------------------------------
\* One lemma for each kind of step.

\* Sending a unicast frame keeps the invariant.
LEMMA SendUnicastStep ==
    ASSUME IInv, NEW r \in Nodes, NEW d \in Nodes \cup {Everyone}, NEW radius \in 0..MaxRadius,
           SendUnicast(r, d, radius)
    PROVE  IInv'
<1> DEFINE frame == [id |-> sent + 1, src |-> r, dst |-> d]
           new == Passed(r, frame, radius, table[r][d])
<1>1. r \in running /\ r \in Routers /\ d \in Nodes /\ sent' = sent + 1
      /\ sent \in 0..MaxFrames /\ sent < MaxFrames
    BY DEF SendUnicast, IInv, TypeOK
<1>2. frame \in Frame /\ sent' \in 0..MaxFrames
    BY <1>1, ConstantsAssumption DEF Frame
<1>3. table[r][d] \in Entry
    BY <1>1 DEF IInv, TypeOK
<1>4. /\ new \subseteq Data
      /\ \A c \in new : c.frame = frame
      /\ \A c, other \in new : other = c
    BY <1>1, <1>2, <1>3, PassedOne DEF IInv
<1>5. data' = data \cup new
    BY <1>1 DEF SendUnicast
<1> DEFINE rt == RouteAfter(table[r][d], route[r], d)
<1>6. route' = [route EXCEPT ![r] = rt] /\ running' = running
    BY DEF SendUnicast
<1>7. rt \in Route /\ Good(rt)
    BY <1>1, <1>3, RouteAfterType DEF IInv, TypeOK, RoutesGood
<1>8. route' \in [Routers -> Route] /\ RoutesGood'
    <2> HIDE DEF rt
    <2> QED
        BY <1>1, <1>6, <1>7, RouteChanged DEF IInv
<1>9. TypeOK'
    BY <1>2, <1>4, <1>5, <1>8 DEF IInv, TypeOK, SendUnicast, tables, control
<1>10. received' = received
    BY DEF SendUnicast
<1>11. Numbered'
    <2>1. frame.id = sent'
        BY <1>1
    <2>2. \A c \in data' : c.frame.id <= sent'
        <3>1. \A c \in data : c.frame.id \in 1..MaxFrames
            BY DEF IInv, TypeOK, Data, Frame
        <3> QED
            BY <1>1, <1>2, <1>4, <1>5, <2>1, <3>1 DEF IInv, Numbered
    <2>3. \A w \in received' : w[1].id <= sent'
        <3>1. \A w \in received : w[1].id \in 1..MaxFrames
            BY DEF IInv, TypeOK, Frame
        <3> QED
            BY <1>1, <1>10, <3>1 DEF IInv, Numbered
    <2> QED
        BY <2>2, <2>3 DEF Numbered
<1>12. OneCopy'
    <2>1. \A c \in data : c.frame # frame
        BY <1>1 DEF IInv, Numbered, TypeOK, Data, Frame
    <2>2. \A n \in Nodes : <<frame, n>> \notin received
        BY <1>1 DEF IInv, Numbered
    <2> HIDE DEF frame, new
    <2> QED
        BY <1>4, <1>5, <1>10, <2>1, <2>2, OneCopyMore DEF IInv
<1> QED
    BY <1>8, <1>9, <1>11, <1>12 DEF IInv

\* So does sending any frame.
LEMMA SendFrameStep ==
    ASSUME IInv, NEW n \in Nodes, NEW d \in Nodes \cup {Everyone}, NEW radius \in 0..MaxRadius,
           SendFrame(n, d, radius)
    PROVE  IInv'
<1> DEFINE frame == [id |-> sent + 1, src |-> n, dst |-> d]
<1>1. sent' = sent + 1 /\ sent \in 0..MaxFrames /\ sent < MaxFrames
      /\ running' = running /\ route' = route /\ received' = received
    BY DEF SendFrame, IInv, TypeOK
<1>2. frame \in Frame /\ sent' \in 0..MaxFrames
    BY <1>1, ConstantsAssumption DEF Frame
<1>3. PICK hop \in IF n \in EndDevices THEN {parent[n]}
                   ELSE IF d = Everyone THEN {Everyone} ELSE Routers :
        data' = data \cup Copies(n, frame, radius, hop)
    BY <1>1 DEF SendFrame
<1> DEFINE new == Copies(n, frame, radius, hop)
<1>4. hop \in Nodes \cup {Everyone}
    BY <1>3, RoutersAreNodes DEF IInv, TypeOK
<1>5. d # Everyone => hop \in Nodes /\ hop # Everyone
    BY <1>3, RoutersAreNodes, ConstantsAssumption DEF IInv, TypeOK
<1>6. new \subseteq Data
    BY <1>2, <1>4, CopiesType
<1>7. /\ \A c \in new : c.frame = frame
      /\ d # Everyone => \A c, other \in new : other = c
    <2>1. \A c \in new : c.frame = frame
        BY DEF Copies
    <2>2. ASSUME d # Everyone PROVE \A c, other \in new : other = c
        <3>1. new = [frame : {frame}, radius : {radius}, from : {n}, to : {hop}]
            BY <1>5, <2>2 DEF Copies
        <3>2. \A c \in [frame : {frame}, radius : {radius}, from : {n}, to : {hop}] :
                c = [frame |-> frame, radius |-> radius, from |-> n, to |-> hop]
            OBVIOUS
        <3> HIDE DEF frame, new
        <3> QED
            BY <3>1, <3>2
    <2> QED
        BY <2>1, <2>2
<1>8. TypeOK'
    BY <1>1, <1>2, <1>3, <1>6 DEF IInv, TypeOK, SendFrame, tables, control
<1>9. frame.id = sent'
    BY <1>1
<1>10. Numbered'
    <2>1. \A c \in data : c.frame.id \in 1..MaxFrames
        BY DEF IInv, TypeOK, Data, Frame
    <2>2. \A w \in received : w[1].id \in 1..MaxFrames
        BY DEF IInv, TypeOK, Frame
    <2>3. \A c \in data' : c.frame.id <= sent'
        BY <1>1, <1>2, <1>3, <1>7, <1>9, <2>1 DEF IInv, Numbered
    <2>4. \A w \in received' : w[1].id <= sent'
        BY <1>1, <2>2 DEF IInv, Numbered
    <2> QED
        BY <2>3, <2>4 DEF Numbered
<1>11. OneCopy'
    <2>1. \A c \in data : c.frame # frame
        BY <1>1 DEF IInv, Numbered, TypeOK, Data, Frame
    <2>2. \A m \in Nodes : <<frame, m>> \notin received
        BY <1>1 DEF IInv, Numbered
    <2>3. CASE d = Everyone
        <3>1. frame.dst = Everyone
            BY <2>3
        <3>2. data' = data \cup new
            BY <1>3
        <3>3. \A c \in new : c.frame = frame
            BY <1>7
        <3> HIDE DEF new, frame
        <3> QED
            BY <1>1, <2>1, <3>1, <3>2, <3>3 DEF IInv, OneCopy
    <2>4. CASE d # Everyone
        <3>1. data' = data \cup new
            BY <1>3
        <3>2. (\A c \in new : c.frame = frame) /\ (\A c, other \in new : other = c)
            BY <1>7, <2>4
        <3> HIDE DEF new, frame
        <3> QED
            BY <1>1, <2>1, <2>2, <3>1, <3>2, OneCopyMore DEF IInv
    <2> QED
        BY <2>3, <2>4
<1>12. RoutesGood'
    BY <1>1 DEF IInv, RoutesGood, Good
<1> QED
    BY <1>8, <1>10, <1>11, <1>12 DEF IInv

\* A copy that is heard, indicated, lost, or stops a router.
LEMMA Examination ==
    ASSUME TypeOK, NEW c \in data, c.to \in Routers
    PROVE  Examined(c) \in [Routers -> [Nodes -> Entry]]
BY DEF Examined, TypeOK, Data, Frame, Entry

\* So does every step that takes a copy off the air.
LEMMA GoneStep ==
    ASSUME IInv, NEW c \in data, Hear(c) \/ Indicate(c) \/ HaltOnBroadcast(c) \/ Lose(c)
    PROVE  IInv'
<1>1. /\ data' = data \ {c}
      /\ received' = received \/ received' = received \cup {<<c.frame, c.to>>}
      /\ route' = route /\ running' \subseteq running /\ sent' = sent
      /\ UNCHANGED <<parent, moves, control>>
    BY DEF Hear, Indicate, HaltOnBroadcast, Lose, tables
<1>2. table' \in [Routers -> [Nodes -> Entry]]
    <2>1. CASE table' = table
        BY <2>1 DEF IInv, TypeOK
    <2>2. CASE table' = Examined(c) /\ c.to \in running
        BY <2>2, Examination DEF IInv, TypeOK
    <2> QED
        BY <2>1, <2>2 DEF Hear, Indicate, HaltOnBroadcast, Lose, tables
<1>3. c.frame \in Frame /\ c.to \in Nodes /\ c.frame.id <= sent
    BY DEF IInv, TypeOK, Data, Numbered
<1>4. TypeOK'
    BY <1>1, <1>2, <1>3 DEF IInv, TypeOK, control
<1>5. RoutesGood'
    BY <1>1 DEF IInv, RoutesGood, Good
<1>6. Numbered'
    BY <1>1, <1>3 DEF IInv, Numbered
<1>7. OneCopy'
    <2>1. ASSUME NEW other \in data', other.frame.dst # Everyone
          PROVE  other \in data /\ other.frame # c.frame
        BY <1>1, <2>1 DEF IInv, OneCopy
    <2> QED
        BY <1>1, <2>1 DEF IInv, OneCopy
<1> QED
    BY <1>4, <1>5, <1>6, <1>7 DEF IInv

\* So does passing a copy on.
LEMMA RelayStep ==
    ASSUME IInv, NEW c \in data, Relay(c)
    PROVE  IInv'
<1> DEFINE r == c.to
           d == c.frame.dst
           radius == Decremented(c.radius)
           entry == table'[r][d]
           new == Relayed(radius, Passed(r, c.frame, radius, entry))
           rt == IF radius > 0 THEN RouteAfter(entry, route[r], d) ELSE route[r]
<1>1. /\ r \in running /\ r \in Routers /\ r \in Nodes /\ d \in Nodes
      /\ c.frame \in Frame /\ c.radius \in 0..MaxRadius /\ c.frame.id <= sent
      /\ d # Everyone
    BY RoutersAreNodes DEF Relay, IInv, TypeOK, Data, Frame, Numbered
<1>2. radius \in 0..MaxRadius
    BY <1>1, DecrementedType
<1>3. table' \in [Routers -> [Nodes -> Entry]] /\ entry \in Entry
    <2>1. table' \in [Routers -> [Nodes -> Entry]]
        BY <1>1, Examination DEF Relay, IInv
    <2> QED
        BY <1>1, <2>1
<1>4. /\ new \subseteq Data
      /\ \A m \in new : m.frame = c.frame
      /\ \A m, other \in new : other = m
    <2> HIDE DEF r, d, radius, entry
    <2>1. /\ Passed(r, c.frame, radius, entry) \subseteq Data
          /\ \A m \in Passed(r, c.frame, radius, entry) : m.frame = c.frame
          /\ \A m, other \in Passed(r, c.frame, radius, entry) : other = m
        BY <1>1, <1>2, <1>3, PassedOne DEF IInv, d
    <2> QED
        BY <2>1 DEF Relayed
<1>5. /\ data' = (data \ {c}) \cup new
      /\ received' = received /\ running' = running /\ sent' = sent
      /\ UNCHANGED <<parent, moves, control>>
    BY DEF Relay
<1>6. route' = [route EXCEPT ![r] = rt] \/ route' = route
    BY DEF Relay
<1>7. rt \in Route /\ Good(rt)
    <2> HIDE DEF entry, d, radius, r
    <2>1. route[r] \in Route /\ Good(route[r])
        BY <1>1 DEF IInv, TypeOK, RoutesGood
    <2> QED
        BY <1>1, <1>3, <2>1, RouteAfterType DEF rt
<1>8. route' \in [Routers -> Route] /\ RoutesGood'
    <2> HIDE DEF rt, r
    <2>1. CASE route' = [route EXCEPT ![r] = rt]
        BY <1>1, <1>5, <1>7, <2>1, RouteChanged DEF IInv
    <2>2. CASE route' = route
        BY <1>5, <2>2 DEF IInv, TypeOK, RoutesGood, Good
    <2> QED
        BY <1>6, <2>1, <2>2
<1>9. TypeOK'
    <2> HIDE DEF new
    <2> QED
        BY <1>3, <1>4, <1>5, <1>8 DEF IInv, TypeOK, control
<1>10. Numbered'
    <2> HIDE DEF new
    <2> QED
        BY <1>1, <1>4, <1>5 DEF IInv, Numbered
<1>11. OneCopy'
    <2> HIDE DEF new
    <2>1. \A other \in data \ {c} : other.frame # c.frame
        BY <1>1 DEF IInv, OneCopy
    <2>2. \A n \in Nodes : <<c.frame, n>> \notin received
        BY <1>1 DEF IInv, OneCopy
    <2>3. ASSUME NEW m \in data', m.frame.dst # Everyone
          PROVE  /\ \A other \in data' : other.frame = m.frame => other = m
                 /\ \A n \in Nodes : <<m.frame, n>> \notin received'
        <3>1. CASE m \in new
            BY <1>4, <1>5, <2>1, <2>2, <3>1
        <3>2. CASE m \in data \ {c}
            BY <1>4, <1>5, <2>1, <2>3, <3>2 DEF IInv, OneCopy
        <3> QED
            BY <1>5, <2>3, <3>1, <3>2
    <2> QED
        BY <2>3 DEF OneCopy
<1> QED
    BY <1>8, <1>9, <1>10, <1>11 DEF IInv

\* A request is sent or heard.
LEMMA AskStep ==
    ASSUME IInv,
           \/ \E f \in Foreign, id \in RequestIds, t \in Targets : ForeignAsks(f, id, t)
           \/ \E r \in Routers, id \in RequestIds, t \in Targets : Discover(r, id, t)
           \/ \E q \in requests : ForeignHears(q)
    PROVE  IInv'
<1>1. /\ UNCHANGED <<tables, data, received, sent>>
      /\ running' \subseteq running
    BY DEF ForeignAsks, Discover, ForeignHears, tables
<1>2. requests' \subseteq Request
    <2>1. CASE \E f \in Foreign, id \in RequestIds, t \in Targets : ForeignAsks(f, id, t)
        <3>1. PICK f \in Foreign, id \in RequestIds, t \in Targets : ForeignAsks(f, id, t)
            BY <2>1
        <3>2. Asks(f, id, f, t) \subseteq Request
            BY RoutersAreNodes, ConstantsAssumption, AsksType DEF IInv
        <3> QED
            BY <3>1, <3>2, AiredSubset DEF ForeignAsks, IInv, TypeOK
    <2>2. CASE \E r \in Routers, id \in RequestIds, t \in Targets : Discover(r, id, t)
        <3>1. PICK r \in Routers, id \in RequestIds, t \in Targets : Discover(r, id, t)
            BY <2>2
        <3>2. Asks(r, id, r, t) \subseteq Request
            BY RoutersAreNodes, ConstantsAssumption, AsksType DEF IInv
        <3> QED
            BY <3>1, <3>2, AiredSubset DEF Discover, IInv, TypeOK
    <2>3. CASE \E q \in requests : ForeignHears(q)
        <3>1. PICK q \in requests : ForeignHears(q)
            BY <2>3
        <3>2. q \in Request /\ q.to \in Nodes
            BY RoutersAreNodes DEF IInv, TypeOK, Request
        <3>3. Asks(q.to, q.id, q.origin, q.target) \subseteq Request
            BY <3>2, AsksType DEF IInv, Request
        <3> QED
            BY <3>1, <3>3, AiredSubset DEF ForeignHears, IInv, TypeOK
    <2> QED
        BY <2>1, <2>2, <2>3
<1>3. replies' \subseteq Reply
    <2>1. \A q \in requests : ReplyTo(q) \subseteq Reply
        BY ReplyToType DEF IInv, TypeOK
    <2> QED
        BY <2>1 DEF ForeignAsks, Discover, ForeignHears, IInv, TypeOK
<1>4. asked' \in 0..MaxAsked /\ cuts' = cuts
    <2>1. asked \in 0..MaxAsked /\ MaxAsked \in Nat
        BY ConstantsAssumption DEF IInv, TypeOK
    <2>2. asked' = asked \/ (asked < MaxAsked /\ asked' = asked + 1)
        BY DEF ForeignAsks, Discover, ForeignHears
    <2>3. cuts' = cuts
        BY DEF ForeignAsks, Discover, ForeignHears
    <2> QED
        BY <2>1, <2>2, <2>3
<1>5. route' \in [Routers -> Route] /\ RoutesGood'
    <2>1. CASE route' = route
        BY <1>1, <2>1 DEF IInv, TypeOK, RoutesGood, Good
    <2>2. CASE \E r \in Routers, id \in RequestIds, t \in Targets : Discover(r, id, t)
        <3>1. PICK r \in Routers, id \in RequestIds, t \in Targets : Discover(r, id, t)
            BY <2>2
        <3> DEFINE rt == Begun(route[r], <<id, r>>)
        <3>2. route' = [route EXCEPT ![r] = rt] /\ r \notin running'
            BY <3>1 DEF Discover
        <3>3. rt \in Route
            <4>1. <<id, r>> \in RequestIds \X Nodes /\ route[r] \in Route
                BY RoutersAreNodes DEF IInv, TypeOK
            <4> QED
                BY <4>1 DEF Begun, Route
        <3> HIDE DEF rt
        <3> QED
            BY <1>1, <3>2, <3>3, RouteChanged DEF IInv
    <2> QED
        BY <2>1, <2>2 DEF ForeignAsks, ForeignHears
<1>6. TypeOK'
    BY <1>1, <1>2, <1>3, <1>4, <1>5 DEF IInv, TypeOK, tables
<1>7. Numbered' /\ OneCopy'
    BY <1>1 DEF IInv, Numbered, OneCopy
<1> QED
    BY <1>5, <1>6, <1>7 DEF IInv

\* The route that a request leaves behind.
LEMMA LearnedType ==
    ASSUME IInv, NEW q \in requests, Heeded(q), NEW rt \in Learned(q)
    PROVE  rt \in Route /\ Good(rt) /\ rt.status = "active" /\ q.to \in Routers
<1>1. q.to \in running /\ q.to \in Routers /\ q.from \in Nodes
    BY DEF Heeded, IInv, TypeOK, Request
<1>2. PICK clean \in Cleaned(route[q.to]) : rt = Reversed(clean, q)
    BY DEF Learned
<1>3. clean \in Route
    BY <1>1, CleanedType DEF IInv, TypeOK
<1>4. rt \in Route /\ rt.status = "active" /\ rt.next = q.from
    BY <1>1, <1>2, <1>3 DEF Reversed, Route
<1> QED
    BY <1>1, <1>4, ConstantsAssumption DEF Good

\* So does ignoring a route request.
LEMMA IgnoreStep ==
    ASSUME IInv, NEW q \in requests, IgnoreRequest(q)
    PROVE  IInv'
<1>1. UNCHANGED <<tables, running, data, received, sent, replies, asked, cuts>>
      /\ requests' \subseteq requests
    BY DEF IgnoreRequest
<1>2. route' \in [Routers -> Route] /\ RoutesGood'
    <2>1. CASE route' = route
        BY <1>1, <2>1 DEF IInv, TypeOK, RoutesGood, Good
    <2>2. CASE Heeded(q) /\ \E rt \in Learned(q) : route' = [route EXCEPT ![q.to] = rt]
        BY <1>1, <2>2, LearnedType, RouteChanged DEF IInv
    <2> QED
        BY <2>1, <2>2 DEF IgnoreRequest
<1>3. TypeOK'
    BY <1>1, <1>2 DEF IInv, TypeOK, tables
<1>4. Numbered' /\ OneCopy'
    BY <1>1 DEF IInv, Numbered, OneCopy
<1> QED
    BY <1>2, <1>3, <1>4 DEF IInv

\* So does handling one.
LEMMA HandleRequestStep ==
    ASSUME IInv, NEW q \in requests, HandleRequest(q)
    PROVE  IInv'
<1>1. /\ UNCHANGED <<tables, data, received, sent, asked>>
      /\ running' \subseteq running /\ Heeded(q)
    BY DEF HandleRequest
<1>2. q \in Request /\ q.to \in Nodes
    BY RoutersAreNodes DEF IInv, TypeOK, Request
<1>3. requests' \subseteq Request
    <2>1. SentOn(q) \subseteq Request
        BY <1>2, AsksType DEF IInv, Request, SentOn
    <2>2. PICK relayed \in BOOLEAN :
            requests' \in Aired(requests \ {q}, IF relayed THEN SentOn(q) ELSE {})
        BY DEF HandleRequest
    <2> QED
        BY <2>1, <2>2, AiredSubset DEF IInv, TypeOK
<1>4. replies' \subseteq Reply
    <2>1. Answer(q) \subseteq Reply
        BY <1>2, ReplyToType DEF Answer
    <2> QED
        BY <2>1 DEF HandleRequest, IInv, TypeOK
<1>5. cuts' \in 0..MaxCuts
    <2>1. cuts \in 0..MaxCuts /\ MaxCuts \in Nat
        BY ConstantsAssumption DEF IInv, TypeOK
    <2> QED
        BY <2>1 DEF HandleRequest
<1>6. route' \in [Routers -> Route] /\ RoutesGood'
    <2>1. PICK rt \in Learned(q) :
            route' = [route EXCEPT ![q.to] = [rt EXCEPT !.found = @ \cup Discovery(q)]]
        BY DEF HandleRequest
    <2>2. rt \in Route /\ Good(rt) /\ q.to \in Routers
        BY <1>1, LearnedType
    <2>3. rt.status = "active"
        BY <1>1, LearnedType
    <2> DEFINE new == [rt EXCEPT !.found = @ \cup Discovery(q)]
    <2>4. Discovery(q) \subseteq RequestIds \X Nodes
        BY <1>2 DEF Discovery, Request
    <2>5. new \in Route /\ Good(new)
        BY <2>2, <2>3, <2>4 DEF Route, Good
    <2> HIDE DEF new
    <2> QED
        BY <1>1, <2>1, <2>2, <2>5, RouteChanged DEF IInv, new
<1>7. TypeOK'
    BY <1>1, <1>3, <1>4, <1>5, <1>6 DEF IInv, TypeOK, tables
<1>8. Numbered' /\ OneCopy'
    BY <1>1 DEF IInv, Numbered, OneCopy
<1> QED
    BY <1>6, <1>7, <1>8 DEF IInv

\* So does handling a route reply.
LEMMA HandleReplyStep ==
    ASSUME IInv, NEW p \in replies, HandleReply(p)
    PROVE  IInv'
<1>1. /\ UNCHANGED <<tables, running, data, received, sent, requests, asked, cuts>>
      /\ replies' \subseteq replies /\ p.to \in running
    BY DEF HandleReply
<1>2. p.to \in Routers /\ route[p.to] \in Route /\ Good(route[p.to])
    BY <1>1 DEF IInv, TypeOK, RoutesGood
<1>3. PICK rt \in Cleaned(route[p.to]) :
        route' = [route EXCEPT
            ![p.to] = IF <<p.id, p.origin>> \notin rt.found THEN rt
                      ELSE [rt EXCEPT
                        !.status = IF p.origin = p.to THEN "active" ELSE @,
                        !.next = IF BetterPath THEN p.from ELSE @]]
    BY DEF HandleReply
<1>4. rt \in Route /\ Good(rt)
    BY <1>2, CleanedType
<1> DEFINE new == IF <<p.id, p.origin>> \notin rt.found THEN rt
                  ELSE [rt EXCEPT !.status = IF p.origin = p.to THEN "active" ELSE @,
                                  !.next = IF BetterPath THEN p.from ELSE @]
<1>5. new \in Route /\ Good(new)
    <2>1. CASE <<p.id, p.origin>> \notin rt.found
        BY <1>4, <2>1
    <2>2. CASE <<p.id, p.origin>> \in rt.found
        <3>1. rt.status = "active"
            BY <1>4, <2>2 DEF Good, Route
        <3>2. new = [rt EXCEPT !.status = "active", !.next = rt.next]
            BY <2>2, <3>1 DEF BetterPath
        <3>3. /\ new \in Route
              /\ new.status = "active" /\ new.next = rt.next /\ new.found = rt.found
            BY <1>4, <3>2 DEF Route
        <3> QED
            BY <1>4, <3>1, <3>3 DEF Good
    <2> QED
        BY <2>1, <2>2
<1>6. route' \in [Routers -> Route] /\ RoutesGood'
    <2>1. route' = [route EXCEPT ![p.to] = new]
        BY <1>3
    <2> HIDE DEF new
    <2> QED
        BY <1>1, <1>2, <1>5, <2>1, RouteChanged DEF IInv
<1>7. TypeOK'
    BY <1>1, <1>6 DEF IInv, TypeOK, tables
<1>8. Numbered' /\ OneCopy'
    BY <1>1 DEF IInv, Numbered, OneCopy
<1> QED
    BY <1>6, <1>7, <1>8 DEF IInv

\* The tables change, or nothing does.
LEMMA TableStep ==
    ASSUME IInv,
           \/ \E r \in Routers, n \in EndDevices : Forget(r, n)
           \/ \E e \in EndDevices, r \in Routers : Move(e, r)
           \/ UNCHANGED vars
    PROVE  IInv'
<1>1. UNCHANGED <<control, route, running, data, received, sent>>
    BY DEF Forget, Move, vars, control
<1>2. moves' \in 0..MaxMoves
    <2>1. moves \in 0..MaxMoves /\ MaxMoves \in Nat
        BY ConstantsAssumption DEF IInv, TypeOK
    <2> QED
        BY <2>1 DEF Forget, Move, vars
<1>3. table' \in [Routers -> [Nodes -> Entry]] /\ parent' \in [EndDevices -> Routers]
    BY RoutersAreNodes DEF IInv, TypeOK, Forget, Move, vars, Entry
<1>4. TypeOK'
    BY <1>1, <1>2, <1>3 DEF IInv, TypeOK, control
<1>5. RoutesGood' /\ Numbered' /\ OneCopy'
    BY <1>1 DEF IInv, RoutesGood, Good, Numbered, OneCopy
<1> QED
    BY <1>4, <1>5 DEF IInv

-----------------------------------------------------------------------------
\* The inductive invariant: types, routes of running routers without a
\* discovery of their own, frames numbered in turn, one copy of each.
THEOREM Invariance == Spec => []IInv
<1>1. IInv /\ [Next]_vars => IInv'
    <2> SUFFICES ASSUME IInv, [Next]_vars PROVE IInv'
        OBVIOUS
    <2>1. ASSUME NEW t \in Traffic, SendUnicast(t[1], t[2], t[3]) \/ SendFrame(t[1], t[2], t[3])
          PROVE  IInv'
        <3>1. t[1] \in Nodes /\ t[2] \in Nodes \cup {Everyone} /\ t[3] \in 0..MaxRadius
            BY ConstantsAssumption
        <3> QED
            BY <2>1, <3>1, SendUnicastStep, SendFrameStep
    <2>2. ASSUME NEW c \in data, Arrive(c) PROVE IInv'
        BY <2>2, GoneStep, RelayStep DEF Arrive
    <2>3. ASSUME NEW q \in requests, IgnoreRequest(q) \/ HandleRequest(q) PROVE IInv'
        BY <2>3, IgnoreStep, HandleRequestStep
    <2> QED
        BY <2>1, <2>2, <2>3, AskStep, HandleReplyStep, TableStep DEF Next
<1> QED
    BY <1>1, Initial, PTL DEF Spec

\* Every variable of routing keeps its type.
THEOREM TypeCorrect == Spec => []TypeOK
<1>1. IInv => TypeOK
    BY DEF IInv
<1> QED
    BY <1>1, Invariance, PTL

\* A unicast frame is never on the air twice, nor after it is indicated
\* (relay_unicast_frame, route_unicast_frame).
THEOREM NeverMultiplies == Spec => []OneCopy
<1>1. IInv => OneCopy
    BY DEF IInv
<1> QED
    BY <1>1, Invariance, PTL

\* The active route of a router that runs has a next hop
\* (handle_route_request_command, handle_route_reply_command).
THEOREM RouteHasHop == Spec => []ActiveHasHop
<1>1. IInv => ActiveHasHop
    BY DEF IInv, RoutesGood, Good, ActiveHasHop
<1> QED
    BY <1>1, Invariance, PTL

-----------------------------------------------------------------------------
\* Routing implements Delivery.

\* What the mapping makes of a copy, and of a state.
Place(c) == [frame |-> c.frame, at |-> c.to, hops |-> HopsLeft(c.radius)]
Way == {Place(c) : c \in Unicast}
Delivered == {w \in received : w[1].dst # Everyone}

\* Copies of different frames are in different places, and a frame has one copy.
LEMMA PlacesApart ==
    ASSUME IInv, NEW c \in data, NEW other \in Unicast, Place(c) = Place(other)
    PROVE  c = other
<1>1. c.frame = other.frame
    BY DEF Place
<1> QED
    BY <1>1 DEF IInv, OneCopy, Unicast

\* A copy that leaves the air leaves its place, and no other is left.
LEMMA WayLess ==
    ASSUME IInv, NEW c \in Unicast, data' = data \ {c}
    PROVE  Way' = Way \ {Place(c)}
<1>1. Unicast' = Unicast \ {c}
    BY DEF Unicast
<1>2. \A other \in Unicast : Place(other) = Place(c) => other = c
    BY PlacesApart DEF Unicast
<1> QED
    BY <1>1, <1>2 DEF Way, Place, HopsLeft

\* The frame is where it was if the copies on the air are the same.
LEMMA WaySame ==
    ASSUME UNCHANGED data
    PROVE  Way' = Way
BY DEF Way, Unicast, Place, HopsLeft

\* A radius leaves at least one hop; what is decremented and still not zero
\* leaves one hop less.
LEMMA HopFewer ==
    ASSUME NEW radius \in 0..MaxRadius
    PROVE  /\ HopsLeft(radius) \in 1..(MaxRadius + 1)
           /\ Decremented(radius) > 0 =>
                /\ HopsLeft(radius) > 1
                /\ HopsLeft(Decremented(radius)) = HopsLeft(radius) - 1
<1>1. MaxRadius \in Nat \ {0}
    BY ConstantsAssumption
<1>2. CASE radius = 0
    <2>1. Decremented(radius) = MaxRadius
        BY <1>1, <1>2 DEF Decremented
    <2> QED
        BY <1>1, <1>2, <2>1 DEF HopsLeft
<1>3. CASE radius # 0
    <2>1. radius + MaxRadius = 1 * (MaxRadius + 1) + (radius - 1)
        BY <1>1
    <2>2. radius - 1 \in 0..MaxRadius
        BY <1>1, <1>3
    <2>3. Decremented(radius) = radius - 1
        BY <1>1, <2>1, <2>2 DEF Decremented
    <2> QED
        BY <1>1, <1>3, <2>3 DEF HopsLeft
<1> QED
    BY <1>2, <1>3

\* A frame is sent to one node, to nobody, or as a broadcast.
LEMMA SendImplements ==
    ASSUME IInv, NEW n \in Nodes, NEW d \in Nodes \cup {Everyone}, NEW radius \in 0..MaxRadius,
           SendUnicast(n, d, radius) \/ SendFrame(n, d, radius)
    PROVE  D!Send
<1> DEFINE frame == [id |-> sent + 1, src |-> n, dst |-> d]
<1>1. sent' = sent + 1 /\ received' = received /\ sent < MaxFrames /\ sent \in 0..MaxFrames
    BY DEF SendUnicast, SendFrame, IInv, TypeOK
<1>2. frame \in Frame /\ frame.id = sent' /\ frame.dst = d
    BY <1>1, ConstantsAssumption DEF Frame
<1>3. PICK new : /\ data' = data \cup new
                 /\ new \subseteq Data
                 /\ \A c \in new : c.frame = frame
                 /\ d # Everyone => \A c, other \in new : other = c
    <2>1. CASE SendUnicast(n, d, radius)
        <3>1. n \in running /\ d \in Nodes /\ table[n][d] \in Entry
            BY <2>1 DEF SendUnicast, IInv, TypeOK
        <3> QED
            BY <1>1, <1>2, <2>1, <3>1, PassedOne DEF SendUnicast, IInv
    <2>2. CASE SendFrame(n, d, radius)
        <3>1. PICK hop \in IF n \in EndDevices THEN {parent[n]}
                           ELSE IF d = Everyone THEN {Everyone} ELSE Routers :
                data' = data \cup Copies(n, frame, radius, hop)
            BY <1>1, <2>2 DEF SendFrame
        <3>2. hop \in Nodes \cup {Everyone} /\ (d # Everyone => hop # Everyone)
            BY <3>1, RoutersAreNodes, ConstantsAssumption DEF IInv, TypeOK
        <3>3. Copies(n, frame, radius, hop) \subseteq Data
            BY <1>2, <3>2, CopiesType
        <3>4. \A c \in Copies(n, frame, radius, hop) : c.frame = frame
            BY DEF Copies
        <3>5. ASSUME d # Everyone
              PROVE  \A c, other \in Copies(n, frame, radius, hop) : other = c
            <4>1. Copies(n, frame, radius, hop)
                    = [frame : {frame}, radius : {radius}, from : {n}, to : {hop}]
                BY <3>2, <3>5 DEF Copies
            <4>2. \A c \in [frame : {frame}, radius : {radius}, from : {n}, to : {hop}] :
                    c = [frame |-> frame, radius |-> radius, from |-> n, to |-> hop]
                OBVIOUS
            <4> HIDE DEF frame
            <4> QED
                BY <4>1, <4>2
        <3> HIDE DEF frame
        <3> QED
            BY <3>1, <3>3, <3>4, <3>5
    <2> QED
        BY <2>1, <2>2
<1> HIDE DEF frame
<1>4. Delivered' = Delivered
    BY <1>1 DEF Delivered
<1>5. CASE d = Everyone \/ new = {}
    <2>1. Unicast' = Unicast
        BY <1>2, <1>3, <1>5 DEF Unicast
    <2>2. Way' = Way
        BY <2>1 DEF Way, Place, HopsLeft
    <2> QED
        BY <1>1, <1>4, <2>2 DEF D!Send, Way, Place, Delivered
<1>6. CASE d # Everyone /\ new # {}
    <2>1. PICK c \in new : new = {c}
        BY <1>3, <1>6
    <2>2. c \in Data /\ c.frame = frame
        BY <1>3
    <2>3. Unicast' = Unicast \cup {c}
        BY <1>2, <1>3, <1>6, <2>1, <2>2 DEF Unicast
    <2>4. Way' = Way \cup {Place(c)}
        BY <2>3 DEF Way, Place, HopsLeft
    <2>5. c.to \in Nodes /\ HopsLeft(c.radius) \in 1..(MaxRadius + 1)
        BY <2>2, HopFewer DEF Data
    <2>6. frame \in {f \in Frame : f.dst # Everyone}
        BY <1>2, <1>6
    <2> QED
        BY <1>1, <1>2, <1>4, <2>2, <2>4, <2>5, <2>6 DEF D!Send, Way, Place, Delivered
<1> QED
    BY <1>5, <1>6

\* A copy is heard, indicated or lost, or stops a router.
LEMMA GoneImplements ==
    ASSUME IInv, NEW c \in data, Hear(c) \/ Indicate(c) \/ HaltOnBroadcast(c) \/ Lose(c)
    PROVE  [D!Next]_(D!vars)
<1>1. /\ data' = data \ {c} /\ sent' = sent
      /\ \/ received' = received
         \/ received' = received \cup {<<c.frame, c.to>>} /\ c.frame.dst \in {c.to, Everyone}
    BY DEF Hear, Indicate, HaltOnBroadcast, Lose
<1>2. CASE c.frame.dst = Everyone
    <2>1. Unicast' = Unicast
        BY <1>1, <1>2 DEF Unicast
    <2>2. Way' = Way
        BY <2>1 DEF Way, Place, HopsLeft
    <2>3. Delivered' = Delivered
        BY <1>1, <1>2 DEF Delivered
    <2> QED
        BY <1>1, <2>2, <2>3 DEF D!vars, Way, Place, Delivered
<1>3. CASE c.frame.dst # Everyone
    <2>1. c \in Unicast
        BY <1>3 DEF Unicast
    <2>2. Place(c) \in Way /\ Way' = Way \ {Place(c)}
        BY <1>1, <2>1, WayLess DEF Way
    <2>3. CASE received' = received
        <3>1. Delivered' = Delivered
            BY <2>3 DEF Delivered
        <3>2. D!Lose(Place(c))
            BY <1>1, <2>2, <3>1 DEF D!Lose, Way, Place, Delivered
        <3> QED
            BY <2>2, <3>2 DEF D!Next, Way, Place
    <2>4. CASE received' = received \cup {<<c.frame, c.to>>} /\ c.frame.dst = c.to
        <3>1. Delivered' = Delivered \cup {<<c.frame, c.to>>}
            BY <1>3, <2>4 DEF Delivered
        <3>2. \A n \in Nodes : <<c.frame, n>> \notin Delivered
            BY <1>3 DEF IInv, OneCopy, Delivered
        <3>3. Place(c).frame = c.frame /\ Place(c).at = c.to
            BY DEF Place
        <3>4. D!Deliver(Place(c))
            BY <1>1, <2>2, <2>4, <3>1, <3>2, <3>3 DEF D!Deliver, Way, Place, Delivered
        <3> QED
            BY <2>2, <3>4 DEF D!Next, Way, Place
    <2> QED
        BY <1>1, <1>3, <2>3, <2>4
<1> QED
    BY <1>2, <1>3

\* A router passes a frame on, or has nowhere to pass it.
LEMMA RelayImplements ==
    ASSUME IInv, NEW c \in data, Relay(c)
    PROVE  D!Next
<1> DEFINE r == c.to
           radius == Decremented(c.radius)
           entry == table'[r][c.frame.dst]
           new == Relayed(radius, Passed(r, c.frame, radius, entry))
<1>1. /\ r \in running /\ r \in Routers /\ c.frame.dst \in Nodes /\ c.frame.dst # Everyone
      /\ c.frame.dst # r
      /\ c.frame \in Frame /\ c.radius \in 0..MaxRadius /\ c.to \in Nodes
    BY DEF Relay, IInv, TypeOK, Data, Frame
<1>2. radius \in 0..MaxRadius
    BY <1>1, DecrementedType
<1>3. entry \in Entry
    <2>1. table' \in [Routers -> [Nodes -> Entry]]
        BY <1>1, Examination DEF Relay, IInv
    <2> QED
        BY <1>1, <2>1
<1>4. data' = (data \ {c}) \cup new /\ received' = received /\ sent' = sent
    BY DEF Relay
<1>5. /\ new # {} => radius > 0
      /\ new \subseteq Data
      /\ \A m \in new : m.frame = c.frame /\ m.radius = radius
      /\ \A m, other \in new : other = m
    <2> HIDE DEF r, radius, entry
    <2>1. /\ Passed(r, c.frame, radius, entry) \subseteq Data
          /\ \A m \in Passed(r, c.frame, radius, entry) : m.frame = c.frame
          /\ \A m, other \in Passed(r, c.frame, radius, entry) : other = m
        BY <1>1, <1>2, <1>3, PassedOne DEF IInv
    <2>2. \A m \in Passed(r, c.frame, radius, entry) : m.radius = radius
        BY DEF Passed, Copies
    <2> QED
        BY <2>1, <2>2 DEF Relayed
<1> HIDE DEF new, radius
<1>6. c \in Unicast /\ Place(c) \in Way
    BY <1>1 DEF Unicast, Way
<1>7. \A other \in Unicast : Place(other) = Place(c) => other = c
    BY <1>6, PlacesApart DEF Unicast
<1>8. Delivered' = Delivered
    BY <1>4 DEF Delivered
<1>9. CASE new = {}
    <2>1. Way' = Way \ {Place(c)}
        BY <1>4, <1>6, <1>9, WayLess
    <2>2. D!Lose(Place(c))
        BY <1>4, <1>8, <2>1 DEF D!Lose, Way, Place, Delivered
    <2> QED
        BY <1>6, <2>2 DEF D!Next, Way, Place
<1>10. CASE new # {}
    <2>1. PICK m \in new : new = {m}
        BY <1>5, <1>10
    <2>2. m.frame = c.frame /\ m.radius = radius /\ m \in Data /\ radius > 0
        BY <1>5, <1>10
    <2>3. Unicast' = (Unicast \ {c}) \cup {m}
        BY <1>1, <1>4, <2>1, <2>2 DEF Unicast
    <2>4. Way' = (Way \ {Place(c)}) \cup {Place(m)}
        BY <1>6, <1>7, <2>3 DEF Way, Place, HopsLeft
    <2>5. HopsLeft(c.radius) > 1 /\ HopsLeft(m.radius) = HopsLeft(c.radius) - 1
        BY <1>1, <2>2, HopFewer DEF radius
    <2>6. m.to \in Nodes
        BY <2>2 DEF Data
    <2>7. Place(m) = [frame |-> Place(c).frame, at |-> m.to, hops |-> Place(c).hops - 1]
        BY <2>2, <2>5 DEF Place
    <2>8. Place(c).at # Place(c).frame.dst /\ Place(c).hops > 1
        BY <1>1, <2>5 DEF Place
    <2>9. D!Forward(Place(c))
        BY <1>4, <1>8, <2>4, <2>6, <2>7, <2>8 DEF D!Forward, Way, Place, Delivered
    <2> QED
        BY <1>6, <2>9 DEF D!Next, Way, Place
<1> QED
    BY <1>9, <1>10

\* Routing implements the abstract specification of delivery, for any network,
\* any traffic, and whatever route requests and replies make of the routes
\* (route_unicast_frame, relay_unicast_frame, process_incoming_indication).
THEOREM Implementation == Spec => ImplementsDelivery
<1>1. Init => D!Init
    BY DEF Init, D!Init, Unicast
<1>2. IInv /\ [Next]_vars => [D!Next]_(D!vars)
    <2> SUFFICES ASSUME IInv, [Next]_vars PROVE [D!Next]_(D!vars)
        OBVIOUS
    <2>1. ASSUME NEW t \in Traffic, SendUnicast(t[1], t[2], t[3]) \/ SendFrame(t[1], t[2], t[3])
          PROVE  D!Next
        <3>1. t[1] \in Nodes /\ t[2] \in Nodes \cup {Everyone} /\ t[3] \in 0..MaxRadius
            BY ConstantsAssumption
        <3>2. D!Send
            BY <2>1, <3>1, SendImplements
        <3> QED
            BY <3>2 DEF D!Next
    <2>2. ASSUME NEW c \in data, Arrive(c) PROVE [D!Next]_(D!vars)
        BY <2>2, GoneImplements, RelayImplements DEF Arrive
    <2>3. CASE UNCHANGED <<data, received, sent>>
        <3>1. Way' = Way /\ Delivered' = Delivered
            BY <2>3, WaySame DEF Delivered
        <3> QED
            BY <2>3, <3>1 DEF D!vars, Way, Place, Delivered
    <2>4. \/ \E t \in Traffic : SendUnicast(t[1], t[2], t[3]) \/ SendFrame(t[1], t[2], t[3])
          \/ \E c \in data : Arrive(c)
          \/ UNCHANGED <<data, received, sent>>
        BY DEF Next, vars, ForeignAsks, Discover, ForeignHears, IgnoreRequest, HandleRequest,
               HandleReply, Forget, Move
    <2> QED
        BY <2>1, <2>2, <2>3, <2>4
<1> QED
    BY <1>1, <1>2, Invariance, PTL DEF Spec, ImplementsDelivery, D!Spec
=============================================================================
