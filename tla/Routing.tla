-------------------------------- MODULE Routing --------------------------------
(***************************************************************************)
(* How routers pass data frames on, and how they learn where to.           *)
(*                                                                         *)
(* Each router knows its neighbors and has one route, which all            *)
(* destinations share (RouteEntryKey::new ignores the address).  A route   *)
(* request that arrives makes the route lead back to the neighbor it came  *)
(* from, is answered if it asks for the router or one of its children, and *)
(* is sent on as a request of the router's own; send_route_request_command *)
(* ends in a todo!(), so that the router halts after it, unless the        *)
(* listener is cancelled first.                                            *)
(*                                                                         *)
(* The profile is ZigbeePro, the default: addresses are drawn, links count *)
(* as symmetric and there is no tree routing.  Frames carry the network    *)
(* key.  Any copy of a frame may be lost.                                  *)
(***************************************************************************)
EXTENDS Integers, FiniteSets

CONSTANTS
    Routers,    \* routers that run this code
    Foreign,    \* routers that run other code
    EndDevices,
    Everyone,   \* NwkAddress::BROADCAST_ALL, also NwkAddress::default()
    MaxRadius,  \* the largest radius, 255; MaxRadius + 1 wraps to 0
    Traffic,    \* what is sent: <<source, destination, radius>>
    Targets,    \* what route requests ask for
    Capacity,   \* discoveries that one route holds: 4
    RequestIds, \* route request identifiers
    MaxFrames,  \* bound: data frames that are sent
    MaxAsked,   \* bound: route requests that are started
    MaxCuts,    \* bound: cancellations while a route request is handled
    MaxMoves,   \* bound: changes of parent, and entries that expire
    MaxAir,     \* bound: copies of route requests on the air
    Known       \* what a router's table may say of another router at first

Nodes == Routers \cup Foreign \cup EndDevices

ASSUME ConstantsAssumption ==
    /\ Everyone \notin Nodes
    /\ Routers \cap Foreign = {}
    /\ EndDevices \cap (Routers \cup Foreign) = {}
    /\ MaxRadius \in Nat \ {0}
    /\ Traffic \subseteq Nodes \X (Nodes \cup {Everyone}) \X (0..MaxRadius)
    /\ Targets \subseteq Nodes \cup {Everyone}
    /\ Capacity \in Nat \ {0}
    /\ MaxFrames \in Nat
    /\ MaxAsked \in Nat
    /\ MaxCuts \in Nat
    /\ MaxMoves \in Nat
    /\ MaxAir \in Nat
    /\ Known \in [Routers \cup Foreign -> SUBSET {"none", "router", "silent"}]

VARIABLES
    table,    \* what each router's neighbor table says of each node
    route,    \* each router's route
    parent,   \* the router each end device sends to
    running,  \* the routers that have not halted
    data,     \* copies of data frames on the air
    requests, \* copies of route requests on the air
    replies,  \* route replies on the air, to routers that run this code
    received, \* history: the data frames that nodes indicated, with the node
    sent, asked, cuts, moves \* counts, for the bounds

tables == <<table, parent, moves>>
control == <<requests, replies, asked, cuts>>
vars == <<table, route, parent, running, data, requests, replies, received,
          sent, asked, cuts, moves>>

-----------------------------------------------------------------------------
\* An end device child, a router whose outgoing cost is known or not.
Entry == {"none", "child", "router", "silent"}

\* A discovery is known by the identifier and the originator of its request.
Route == [status : {"none", "underway", "active"},
          next   : Nodes \cup {Everyone},
          found  : SUBSET (RequestIds \X Nodes)]

NoRoute == [status |-> "none", next |-> Everyone, found |-> {}]

Frame == [id : 1..MaxFrames, src : Nodes, dst : Nodes \cup {Everyone}]
Data == [frame : Frame, radius : 0..MaxRadius, from : Nodes, to : Nodes]
Request == [id : RequestIds, origin : Nodes, target : Nodes \cup {Everyone},
            from : Nodes, to : Routers \cup Foreign]
Reply == [id : RequestIds, origin : Nodes, from : Nodes, to : Routers]

TypeOK ==
    /\ table \in [Routers -> [Nodes -> Entry]]
    /\ route \in [Routers -> Route]
    /\ parent \in [EndDevices -> Routers]
    /\ running \subseteq Routers
    /\ data \subseteq Data
    /\ requests \subseteq Request
    /\ replies \subseteq Reply
    /\ received \subseteq Frame \X Nodes
    /\ sent \in 0..MaxFrames
    /\ asked \in 0..MaxAsked
    /\ cuts \in 0..MaxCuts
    /\ moves \in 0..MaxMoves

-----------------------------------------------------------------------------
\* Frames and hops.

\* Faulty variants of Decremented: the radius stays, or has room for 256.
DecrementedNot(radius) == radius

DecrementedWide(radius) == radius + MaxRadius

\* process_incoming_indication: the radius is unsigned, and overflow is not
\* checked in the release build.
Decremented(radius) == (radius + MaxRadius) % (MaxRadius + 1)

\* A MAC frame to the broadcast address reaches whoever hears it.
Copies(r, frame, radius, hop) ==
    [frame : {frame}, radius : {radius}, from : {r},
     to : IF hop = Everyone THEN Nodes \ {r} ELSE {hop}]

\* Faulty variant of Hops: a known neighbor does not end the search.
HopsBoth(entry, rt, d) ==
    (IF entry # "none" THEN {d} ELSE {})
    \cup (IF rt.status = "active" THEN {rt.next} ELSE {})

\* try_unicast_direct_relay, then try_unicast_route_table: the next hop to d
\* for a router with this entry for d and this route, if there is one.
Hops(entry, rt, d) ==
    IF entry # "none" THEN {d}
    ELSE IF rt.status = "active" THEN {rt.next} ELSE {}

\* A frame for a child makes the child the next hop of the route.
RouteAfter(entry, rt, d) ==
    IF entry = "child"
    THEN [rt EXCEPT !.next = d,
                    !.status = IF rt.status = "none" THEN "active" ELSE rt.status]
    ELSE rt

Passed(r, frame, radius, entry) ==
    UNION {Copies(r, frame, radius, hop) : hop \in Hops(entry, route[r], frame.dst)}

-----------------------------------------------------------------------------
Init ==
    /\ parent \in [EndDevices -> Routers]
    /\ table \in {t \in [Routers -> [Nodes -> Entry]] :
                    \A r \in Routers :
                        /\ t[r][r] = "none"
                        /\ \A e \in EndDevices :
                            t[r][e] = IF parent[e] = r THEN "child" ELSE "none"
                        /\ \A n \in (Routers \cup Foreign) \ {r} : t[r][n] \in Known[n]}
    /\ route = [r \in Routers |-> NoRoute]
    /\ running = Routers
    /\ data = {}
    /\ requests = {}
    /\ replies = {}
    /\ received = {}
    /\ sent = 0
    /\ asked = 0
    /\ cuts = 0
    /\ moves = 0

-----------------------------------------------------------------------------
\* Sending.

\* route_unicast_frame: without a next hop the request fails.
SendUnicast(r, d, radius) ==
    /\ sent < MaxFrames
    /\ r \in running
    /\ d \notin {r, Everyone}
    /\ sent' = sent + 1
    /\ data' = data \cup Passed(r, [id |-> sent', src |-> r, dst |-> d], radius, table[r][d])
    /\ route' = [route EXCEPT ![r] = RouteAfter(table[r][d], @, d)]
    /\ UNCHANGED <<tables, control, running, received>>

\* A broadcast goes to whoever hears it, an end device's frame to its parent;
\* the frames of a router of another make go anywhere.
SendFrame(n, d, radius) ==
    /\ sent < MaxFrames
    /\ \/ n \in running /\ d = Everyone
       \/ n \in EndDevices \cup Foreign /\ d # n
    /\ sent' = sent + 1
    /\ \E hop \in IF n \in EndDevices THEN {parent[n]}
                  ELSE IF d = Everyone THEN {Everyone} ELSE Routers :
        data' = data \cup Copies(n, [id |-> sent', src |-> n, dst |-> d], radius, hop)
    /\ UNCHANGED <<tables, control, route, running, received>>

-----------------------------------------------------------------------------
\* handle_data_indication, data frames.

\* examine_end_devices_that_have_changed_router_parents.
Examined(c) ==
    LET from == table[c.to][c.frame.src] IN
    IF Decremented(c.radius) > 0 /\ from = "child" /\ c.from # c.frame.src
    THEN [table EXCEPT ![c.to][c.frame.src] = "none"]
    ELSE table

\* An end device, or a router of another make, hears the frame.
Hear(c) ==
    /\ c \in data
    /\ c.to \notin Routers
    /\ data' = data \ {c}
    /\ received' = IF c.frame.dst \in {c.to, Everyone}
                   THEN received \cup {<<c.frame, c.to>>} ELSE received
    /\ UNCHANGED <<tables, control, route, running, sent>>

\* A frame for this router, or a broadcast that goes no further.
Indicate(c) ==
    /\ c \in data
    /\ c.to \in running
    /\ \/ c.frame.dst = c.to
       \/ c.frame.dst = Everyone /\ Decremented(c.radius) = 0
    /\ table' = Examined(c)
    /\ data' = data \ {c}
    /\ received' = received \cup {<<c.frame, c.to>>}
    /\ UNCHANGED <<parent, moves, control, route, running, sent>>

\* A broadcast to be relayed: the draw of the jitter from the empty range
\* 0..MAX_BROADCAST_JITTER panics.
HaltOnBroadcast(c) ==
    /\ c \in data
    /\ c.to \in running
    /\ c.frame.dst = Everyone
    /\ Decremented(c.radius) > 0
    /\ table' = Examined(c)
    /\ data' = data \ {c}
    /\ running' = running \ {c.to}
    /\ UNCHANGED <<parent, moves, control, route, received, sent>>

\* Faulty variant of Relayed: a frame is relayed whatever its radius.
RelayedAlways(radius, copies) == copies

Relayed(radius, copies) == IF radius > 0 THEN copies ELSE {}

\* relay_unicast_frame: what has no next hop, or no radius left, is dropped.
Relay(c) ==
    LET r == c.to
        d == c.frame.dst
        radius == Decremented(c.radius) IN
    /\ c \in data
    /\ r \in running
    /\ d \notin {r, Everyone}
    /\ table' = Examined(c)
    /\ data' = (data \ {c})
                \cup Relayed(radius, Passed(r, c.frame, radius, table'[r][d]))
    /\ route' = IF radius > 0 THEN [route EXCEPT ![r] = RouteAfter(table'[r][d], @, d)]
                ELSE route
    /\ UNCHANGED <<parent, moves, control, running, received, sent>>

-----------------------------------------------------------------------------
\* Route discovery.

\* The originator of a request is the source of its NWK header.  Whoever runs may
\* hear it.
Asks(n, id, origin, target) ==
    [id : {id}, origin : {origin}, target : {target}, from : {n},
     to : (running \cup Foreign) \ {n}]

\* What may be on the air after a request: every copy may be lost.
Aired(left, copies) ==
    {left \cup heard : heard \in {h \in SUBSET copies : Cardinality(left \cup h) <= MaxAir}}

\* RouteTable::cleanup keeps an active route; any discovery may have expired.
Cleaned(rt) ==
    {IF rt.status = "active" \/ left # {} THEN [rt EXCEPT !.found = left] ELSE NoRoute :
        left \in SUBSET rt.found}

\* A router of another make starts a discovery, of a route or of many to one.
ForeignAsks(f, id, target) ==
    /\ asked < MaxAsked
    /\ target # f
    /\ asked' = asked + 1
    /\ requests' \in Aired(requests, Asks(f, id, f, target))
    /\ UNCHANGED <<tables, route, running, data, received, sent, replies, cuts>>

\* A route whose discovery begins keeps its status if it is active.
Begun(rt, discovery) ==
    [rt EXCEPT !.status = IF rt.status = "active" THEN "active" ELSE "underway",
               !.found = rt.found \cup {discovery}]

\* initiate_unicast_discovery: the identifier is never advanced, and the call
\* does not survive its own request, whether it was heard or failed.
Discover(r, id, target) ==
    /\ asked < MaxAsked
    /\ r \in running
    /\ target # r
    /\ asked' = asked + 1
    /\ Cardinality(route[r].found \cup {<<id, r>>}) <= Capacity
    /\ route' = [route EXCEPT ![r] = Begun(@, <<id, r>>)]
    /\ requests' \in Aired(requests, Asks(r, id, r, target))
    /\ running' = running \ {r}
    /\ UNCHANGED <<tables, data, received, sent, replies, cuts>>

\* send_route_reply_cmd: to the neighbor the request came from.
ReplyTo(q) ==
    [id : {q.id}, origin : {q.origin}, from : {q.to}, to : {q.from} \cap Routers]

\* A router of another make relays a request with its originator, or answers
\* the neighbor it came from, on behalf of any node.
ForeignHears(q) ==
    /\ q \in requests
    /\ q.to \in Foreign
    /\ \/ requests' \in Aired(requests \ {q}, Asks(q.to, q.id, q.origin, q.target))
          /\ q.origin # q.to
          /\ UNCHANGED replies
       \/ requests' = requests \ {q}
          /\ replies' = replies \cup ReplyTo(q)
    /\ UNCHANGED <<tables, route, running, data, received, sent, asked, cuts>>

\* The request is for this router or an end device child of its own.
Matches(q) == q.target = q.to \/ (q.target # Everyone /\ table[q.to][q.target] = "child")

\* The route back to the originator, through the neighbor the request came from.
Reversed(rt, q) == [rt EXCEPT !.status = "active", !.next = q.from]

\* The discovery of a request that asks for somebody else.
Discovery(q) == IF Matches(q) \/ q.target = Everyone THEN {} ELSE {<<q.id, q.origin>>}

\* A request from a neighbor whose outgoing cost is unknown is dropped.
Heeded(q) == q.to \in running /\ table[q.to][q.from] # "silent"

\* What handle_route_request_command makes of the route, at first.
Learned(q) == {Reversed(rt, q) : rt \in Cleaned(route[q.to])}

Fits(q, rt) == Cardinality(rt.found \cup Discovery(q)) <= Capacity

\* The cost of the link is not known, or there is no room for the discovery.
IgnoreRequest(q) ==
    /\ q.to \in running
    /\ \/ ~Heeded(q) /\ UNCHANGED route
       \/ /\ Heeded(q)
          /\ \E rt \in Learned(q) : ~Fits(q, rt) /\ route' = [route EXCEPT ![q.to] = rt]
    /\ requests' = requests \ {q}
    /\ UNCHANGED <<tables, running, data, received, sent, replies, asked, cuts>>

Answer(q) ==
    IF Matches(q)
    THEN ReplyTo(q)
    ELSE {}

\* relay_route_request_cmd: the header is a new one, whose source is the relay.
SentOn(q) == Asks(q.to, q.id, q.to, q.target)

\* The route is changed at once.  Of the rest - the reply, the jitter, the
\* request - the listener may be cut off anywhere.  A reply that fails ends the
\* handler; the router halts when it is done with the request.
HandleRequest(q) ==
    /\ Heeded(q)
    /\ \E rt \in Learned(q) :
        /\ Fits(q, rt)
        /\ route' = [route EXCEPT ![q.to] = [rt EXCEPT !.found = @ \cup Discovery(q)]]
    /\ \E answered, relayed, halts \in BOOLEAN :
        /\ relayed \/ halts => answered
        /\ replies' = IF answered THEN replies \cup Answer(q) ELSE replies
        /\ requests' \in Aired(requests \ {q}, IF relayed THEN SentOn(q) ELSE {})
        /\ running' = IF halts THEN running \ {q.to} ELSE running
        /\ \/ (halts \/ (Matches(q) /\ ~answered)) /\ UNCHANGED cuts
           \/ ~halts /\ cuts < MaxCuts /\ cuts' = cuts + 1
    /\ UNCHANGED <<tables, data, received, sent, asked>>

\* RouteDiscoveryEntry::new: the cost to beat is 0 from the beginning, and no
\* path costs less.
BetterPath == FALSE

\* handle_route_reply_command.
HandleReply(p) ==
    /\ p \in replies
    /\ p.to \in running
    /\ replies' = replies \ {p}
    /\ \E rt \in Cleaned(route[p.to]) :
        route' = [route EXCEPT
            ![p.to] = IF <<p.id, p.origin>> \notin rt.found THEN rt
                      ELSE [rt EXCEPT
                        !.status = IF p.origin = p.to THEN "active" ELSE @,
                        !.next = IF BetterPath THEN p.from ELSE @]]
    /\ UNCHANGED <<tables, running, data, received, sent, requests, asked, cuts>>

-----------------------------------------------------------------------------
\* What the air and the other handlers do.

Lose(c) ==
    /\ data' = data \ {c}
    /\ UNCHANGED <<tables, control, route, running, received, sent>>

\* The entry of an end device expires.  (Whether a router is in the table is
\* settled at first, by Known.)
Forget(r, n) ==
    /\ moves < MaxMoves
    /\ table[r][n] # "none"
    /\ moves' = moves + 1
    /\ table' = [table EXCEPT ![r][n] = "none"]
    /\ UNCHANGED <<parent, control, route, running, data, received, sent>>

\* An end device joins another router; the one it left is not told.
Move(e, r) ==
    /\ moves < MaxMoves
    /\ r \in running
    /\ moves' = moves + 1
    /\ parent' = [parent EXCEPT ![e] = r]
    /\ table' = [table EXCEPT ![r][e] = "child"]
    /\ UNCHANGED <<control, route, running, data, received, sent>>

\* What becomes of a copy of a data frame.
Arrive(c) == Hear(c) \/ Indicate(c) \/ HaltOnBroadcast(c) \/ Relay(c) \/ Lose(c)

Next ==
    \/ \E t \in Traffic : SendUnicast(t[1], t[2], t[3]) \/ SendFrame(t[1], t[2], t[3])
    \/ \E c \in data : Arrive(c)
    \/ \E f \in Foreign, id \in RequestIds, t \in Targets : ForeignAsks(f, id, t)
    \/ \E r \in Routers, id \in RequestIds, t \in Targets : Discover(r, id, t)
    \/ \E q \in requests : ForeignHears(q) \/ IgnoreRequest(q) \/ HandleRequest(q)
    \/ \E p \in replies : HandleReply(p)
    \/ \E r \in Routers, n \in EndDevices : Forget(r, n)
    \/ \E e \in EndDevices, r \in Routers : Move(e, r)

Spec == Init /\ [][Next]_vars

\* A copy of a data frame does not stay on the air: it is heard or it is lost.
FairSpec ==
    Spec /\ \A i \in 1..MaxFrames : WF_vars(\E c \in data : c.frame.id = i /\ Arrive(c))

-----------------------------------------------------------------------------
\* A unicast frame never multiplies: however often the routes change while it
\* is on its way (or lead in a circle), at most one copy of it is on the air,
\* and none once it is indicated (relay_unicast_frame sends it at most once).
OneCopy ==
    \A c \in data : c.frame.dst # Everyone =>
        /\ \A other \in data : other.frame = c.frame => other = c
        /\ \A n \in Nodes : <<c.frame, n>> \notin received

\* The hops that a radius leaves: 0 starts again from the largest.
HopsLeft(radius) == IF radius = 0 THEN MaxRadius + 1 ELSE radius

Unicast == {c \in data : c.frame.dst # Everyone}

D == INSTANCE Delivery WITH
    Frame <- {f \in Frame : f.dst # Everyone},
    Node <- Nodes,
    MaxHops <- MaxRadius + 1,
    way <- {[frame |-> c.frame, at |-> c.to, hops |-> HopsLeft(c.radius)] : c \in Unicast},
    delivered <- {w \in received : w[1].dst # Everyone},
    issued <- sent

\* Every step is one of the abstract specification of delivery: a unicast frame
\* is in one place, loses one of its hops whenever it is passed on, and is
\* indicated once, by its addressee (route_unicast_frame, relay_unicast_frame,
\* process_incoming_indication).
ImplementsDelivery == D!Spec

\* A router that runs has a next hop whenever its route is active.  A discovery
\* makes a route without one (next_hop_addr: Default::default()), and a reply
\* then activates it and never betters a cost of 0: what saves the router is
\* that the request of a neighbor has set the route it shares before.
ActiveHasHop ==
    \A r \in running : route[r].status = "active" => route[r].next # Everyone

\* Routes lead in a circle once two routers have heard each other's request: a
\* frame goes round until its radius is used up, and then it is gone, the one
\* that was sent with radius 0 too, which starts again from the largest.
DataDiesOut ==
    \A i \in 1..MaxFrames :
        (\E c \in data : c.frame.id = i) ~> ~(\E c \in data : c.frame.id = i)

\* reception.rs:811 says a router "shall retransmit a previously broadcast frame
\* at most nwkMaxBroadcastRetries times": it goes on after it.
BroadcastSurvived ==
    [][\A c \in data : c.frame.dst = Everyone /\ c.to \in running /\ c \notin data'
                       => c.to \in running']_vars
=============================================================================
