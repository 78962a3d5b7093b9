---------------------------- MODULE NeighborTable ----------------------------
(***************************************************************************)
(* The neighbor table of a router: the children and neighbors it knows,    *)
(* how devices enter it (association, rejoin, direct join), what keeps an  *)
(* entry alive (link status, end device timeout request) and what removes  *)
(* it (leave, a frame relayed by another parent, expiry).                  *)
(*                                                                         *)
(* Two tasks of the executor share the table through a mutex: listen_task  *)
(* handles one received frame at a time and waits for the radio between    *)
(* the change of the table and the end of the answer, and                  *)
(* link_status_task drops expired entries each time it reports the links.  *)
(* listen_task is cancelled once a second wherever it waits.               *)
(*                                                                         *)
(* An expiration Instant is kept as the ticks that are left until it, so   *)
(* time needs no bound: "expiration > now" is "left > 0".  The table is a  *)
(* set: the code's Vec is searched by key and sorted before it is sent,    *)
(* and "find" returns one of the matching entries.                         *)
(*                                                                         *)
(* In the default build (feature "alloc") zb_types::Vec is a growable Vec  *)
(* and its push cannot fail: the branches that refuse a device because the *)
(* table is full are dead code, and have no counterpart here.              *)
(***************************************************************************)
EXTENDS Naturals, FiniteSets

CONSTANTS
    Device,         \* extended addresses of the devices around
    NoDevice,       \* ext_addr = None: a neighbor known from its beacon only
    Address,        \* unicast network addresses
    NoAddress,      \* no network address
    SelfAddress,    \* the router's own network address
    MapCapacity,    \* entries of the AddressMap
    DefaultTimeout, \* ticks of NWK_END_DEVICE_TIMEOUT_DEFAULT
    Timeouts,       \* ticks of the timeouts an end device may ask for
    RouterAge       \* ticks of NWK_LINK_STATUS_PERIOD * NWK_ROUTER_AGE_LIMIT

ASSUME ConstantsAssumption ==
    /\ NoDevice \notin Device
    /\ NoAddress \notin Address
    /\ SelfAddress \in Address
    /\ MapCapacity \in Nat
    /\ DefaultTimeout \in Nat \ {0}
    /\ Timeouts \subseteq Nat \ {0}
    /\ RouterAge \in Nat \ {0}

VARIABLES
    table,      \* NeighborTable.neighbors, shared by the two tasks
    addrMap,    \* AddressMap: the device last heard under an address
    reply       \* the answer listen_task is sending, if it waits for one

vars == <<table, addrMap, reply>>

DeviceType == {"EndDevice", "Router", "Coordinator"}

\* "claimed" is a history field: the device chose the address itself, in a
\* rejoin request; otherwise the router drew it or heard it in a beacon.
Entry == [dev : Device \cup {NoDevice}, nwk : Address, type : DeviceType,
          left : Nat, claimed : BOOLEAN]

NoReply == [to |-> NoDevice, addr |-> NoAddress, left |-> 0]

\* An answer under way.  "left" is a history field: what was left of the
\* entry's time when it was answered.
Reply == [to : Device \cup {NoDevice}, addr : Address \cup {NoAddress}, left : Nat]

\* src: NWK source; ieee: NWK extended source, if present; mac: MAC source,
\* NoAddress for an extended one; hops: radius > 0 once decremented.
FrameFrom(sources, devices) ==
    [src : sources, ieee : devices, mac : Address \cup {NoAddress}, hops : BOOLEAN]

Frame == FrameFrom(Address, Device \cup {NoDevice})

-----------------------------------------------------------------------------
\* The table's own operations.

NewNeighbor(d, a, type, claimed) ==
    [dev |-> d, nwk |-> a, type |-> type, left |-> DefaultTimeout,
     claimed |-> claimed]

\* Faulty variants of Cleanup: entries dropped a tick early, or never.
CleanupEarly(t) == {nb \in t : nb.left > 1}
CleanupNever(t) == {nb \in t : nb.left >= 0}

Cleanup(t) == {nb \in t : nb.left > 0}

OfDevice(t, d) == {nb \in t : nb.dev = d}

OfDeviceAndType(t, d, type) == {nb \in t : nb.dev = d /\ nb.type = type}

\* Faulty variant of Without: an entry of another type is left in place.
WithoutNothing(t, d) == t

Without(t, d) == {nb \in t : nb.dev # d}

\* Faulty variants of FreeAddresses: the table is not asked, or the draw may
\* give up with no address.
FreeAddressesOfMap(m, t) == {a \in Address \ {SelfAddress} : m[a] = NoDevice}
FreeAddressesOrNone(m, t) == FreeAddressesOfMap(m, t) \cup {NoAddress}

\* Addresses assign_child_address may draw from, with map m and table t: it
\* draws again while the address is in use.  (The code also skips addresses of
\* its route, route record and broadcast tables.)
FreeAddresses(m, t) ==
    {a \in Address \ {SelfAddress} :
        m[a] = NoDevice /\ \A nb \in t : nb.nwk # a}

\* The neighbors a freshly joined router starts with: routers known from
\* their beacons, already expired when they were recorded.
Discovered(t) ==
    \E S \in SUBSET (Address \ {SelfAddress}) :
        t = {[dev |-> NoDevice, nwk |-> a, type |-> "Router", left |-> 0,
              claimed |-> FALSE] : a \in S}

Init ==
    /\ Discovered(table)
    /\ addrMap = [a \in Address |-> NoDevice]
    /\ reply = NoReply

-----------------------------------------------------------------------------
\* What every received frame does before its command is looked at.

Listening == reply = NoReply

\* AddressMap::insert: a full map takes no new address.
Insert(m, a, d) ==
    IF m[a] # NoDevice \/ Cardinality({b \in Address : m[b] # NoDevice}) < MapCapacity
    THEN [m EXCEPT ![a] = d]
    ELSE m

\* The map learns the extended source of every frame that decrypts, whether
\* or not the frame is then accepted.
Learn(f) == IF f.ieee = NoDevice THEN addrMap ELSE Insert(addrMap, f.src, f.ieee)

\* Faulty variant of Moved: any end device, whoever sent the frame.
MovedAnyone(f) ==
    {nb \in table : f.hops /\ f.mac # f.src /\ nb.type = "EndDevice"}

\* The end device entries a frame relayed by another parent speaks of.
Moved(f) ==
    {nb \in table : /\ f.hops
                    /\ f.mac # f.src
                    /\ nb.nwk = f.src
                    /\ nb.type = "EndDevice"}

\* The table once the end device that changed its parent, if any, is removed.
Examined(f) ==
    IF Moved(f) = {} THEN {table} ELSE {table \ {nb} : nb \in Moved(f)}

\* A frame that fails the security check, or that claims to come from an end
\* device which is no child, is dropped after the map has learned from it.
DropFrame(f) ==
    /\ Listening
    /\ addrMap' = Learn(f)
    /\ UNCHANGED <<table, reply>>

\* A data frame, or a command that leaves the table alone.
OtherFrame(f) ==
    /\ Listening
    /\ addrMap' = Learn(f)
    /\ table' \in Examined(f)
    /\ UNCHANGED reply

\* A device announces the address a it uses: the map takes the pair, unless d is
\* an end device of the table and the announcement was broadcast.  (The removal
\* of that end device is guarded by a group address as the source of the frame,
\* which no frame has.)
DeviceAnnce(f, broadcast, a, d) ==
    /\ Listening
    /\ table' \in Examined(f)
    /\ IF broadcast /\ OfDeviceAndType(table', d, "EndDevice") # {}
       THEN addrMap' = Learn(f)
       ELSE addrMap' = Insert(Learn(f), a, d)
    /\ UNCHANGED reply

\* A network key for this node names its sender, the trust center d.
TransportKey(f, d) ==
    /\ Listening
    /\ table' \in Examined(f)
    /\ addrMap' = Insert(Learn(f), f.src, d)
    /\ UNCHANGED reply

-----------------------------------------------------------------------------
\* The commands that change the table.

LeaveCommand(f) ==
    /\ Listening
    /\ f.mac # NoAddress
    /\ addrMap' = Learn(f)
    /\ \E t \in Examined(f) :
        table' = {nb \in t : nb.nwk # f.src}
    /\ UNCHANGED reply

LinkStatusCommand(f) ==
    /\ Listening
    /\ f.mac # NoAddress
    /\ addrMap' = Learn(f)
    /\ \E t \in Examined(f) :
        \/ /\ \A nb \in t : nb.nwk # f.mac
           /\ table' = t
        \/ \E nb \in t :
           /\ nb.nwk = f.mac
           /\ table' = (t \ {nb}) \cup {[nb EXCEPT !.left = RouterAge]}
    /\ UNCHANGED reply

\* The timeout response that follows a match waits for the radio, but what
\* it says is fixed: it needs no reply of its own.
EndDeviceTimeoutRequest(f, timeout) ==
    /\ Listening
    /\ f.mac # NoAddress
    /\ f.ieee # NoDevice
    /\ addrMap' = Learn(f)
    /\ \E t \in Examined(f) :
        \E nb \in t :
            /\ nb.nwk = f.mac
            /\ nb.type = "EndDevice"
            /\ table' = (t \ {nb}) \cup {[nb EXCEPT !.left = timeout]}
    /\ UNCHANGED reply

\* is_address_conflict as it is evaluated after the map has learned the frame.
Conflict(f, t) ==
    LET known == Learn(f)[f.src] IN
    \/ f.src = SelfAddress
    \/ /\ known # NoDevice
       /\ known # f.ieee
    \/ /\ known = NoDevice
       /\ \E nb \in t : nb.nwk = f.src /\ nb.dev = f.ieee

\* A device that is in the table t keeps its entry under the address addr; any
\* other device is entered anew.
Readmit(d, type, t, addr, own) ==
    LET live == Cleanup(t)
        rest == Without(live, d)
        new  == NewNeighbor(d, addr, type, own)
    IN
    \/ \E nb \in OfDeviceAndType(live, d, type) :
        /\ table' = (live \ {nb}) \cup {[nb EXCEPT !.nwk = addr, !.claimed = own]}
        /\ reply' = [to |-> d, addr |-> addr, left |-> nb.left]
    \/ /\ OfDeviceAndType(live, d, type) = {}
       /\ table' = rest \cup {new}
       /\ reply' = [to |-> d, addr |-> addr, left |-> new.left]

\* The device keeps the address it sent from unless that one is in conflict.
RejoinRequest(f, type) ==
    /\ Listening
    /\ f.mac # NoAddress
    /\ f.ieee # NoDevice
    /\ addrMap' = Learn(f)
    /\ \E t \in Examined(f) :
        \/ /\ ~Conflict(f, t)
           /\ Readmit(f.ieee, type, t, f.src, TRUE)
        \/ /\ Conflict(f, t)
           /\ \E drawn \in FreeAddresses(Learn(f), t) :
                Readmit(f.ieee, type, t, drawn, FALSE)

\* handle_associate_indication: a known device is told its old address.
Associate(d, type, drawn) ==
    LET live == Cleanup(table)
        rest == Without(live, d)
        new  == NewNeighbor(d, drawn, type, FALSE)
    IN
    /\ Listening
    /\ \/ \E nb \in OfDeviceAndType(live, d, type) :
            /\ table' = live
            /\ reply' = [to |-> d, addr |-> nb.nwk, left |-> nb.left]
       \/ /\ OfDeviceAndType(live, d, type) = {}
          /\ table' = rest \cup {new}
          /\ reply' = [to |-> d, addr |-> drawn, left |-> new.left]
    /\ UNCHANGED addrMap

\* NLME-DIRECT-JOIN: the check comes before the cleanup.
DirectJoin(d, type, drawn) ==
    /\ Listening
    /\ OfDevice(table, d) = {}
    /\ table' = Cleanup(table) \cup {NewNeighbor(d, drawn, type, FALSE)}
    /\ UNCHANGED <<addrMap, reply>>

\* The answer was sent, could not be sent, or listen_task was cancelled while
\* it waited for the radio: the table keeps what the handler wrote.
ReplyDone ==
    /\ ~Listening
    /\ reply' = NoReply
    /\ UNCHANGED <<table, addrMap>>

\* The router is told to leave: the NWK context is dropped, and the table is
\* that of the next network it joins.
LeaveSelf ==
    /\ Listening
    /\ Discovered(table')
    /\ addrMap' = [a \in Address |-> NoDevice]
    /\ UNCHANGED reply

-----------------------------------------------------------------------------
\* The other task, and time.

\* make_link_status_commands: runs whatever listen_task waits for.
LinkStatusTask ==
    /\ table' = Cleanup(table)
    /\ UNCHANGED <<addrMap, reply>>

Elapse(n) == IF n > 0 THEN n - 1 ELSE 0

Tick ==
    /\ table' = {[nb EXCEPT !.left = Elapse(nb.left)] : nb \in table}
    /\ reply' = [reply EXCEPT !.left = Elapse(@)]
    /\ UNCHANGED addrMap

-----------------------------------------------------------------------------
ReceiveFrame ==
    \E f \in Frame :
        \/ DropFrame(f)
        \/ OtherFrame(f)
        \/ LeaveCommand(f)
        \/ LinkStatusCommand(f)
        \/ \E timeout \in Timeouts : EndDeviceTimeoutRequest(f, timeout)
        \/ \E type \in {"EndDevice", "Router"} : RejoinRequest(f, type)
        \/ \E broadcast \in BOOLEAN, a \in Address, d \in Device :
            DeviceAnnce(f, broadcast, a, d)
        \/ \E d \in Device : TransportKey(f, d)

Join ==
    \E d \in Device, drawn \in FreeAddresses(addrMap, table) :
        \/ \E type \in {"EndDevice", "Router"} : Associate(d, type, drawn)
        \/ \E type \in {"EndDevice", "Coordinator"} : DirectJoin(d, type, drawn)

Next ==
    \/ ReceiveFrame
    \/ Join
    \/ ReplyDone
    \/ LeaveSelf
    \/ LinkStatusTask
    \/ Tick

\* The executor polls link_status_task at every expiry of its ticker.
Spec == Init /\ [][Next]_vars /\ WF_vars(LinkStatusTask)

-----------------------------------------------------------------------------
\* Correctness.

\* Every variable has its type (nib.rs:93-141, 183-187).
TypeOK ==
    /\ table \subseteq Entry
    /\ addrMap \in [Address -> Device \cup {NoDevice}]
    /\ reply \in Reply

\* A device has at most one entry, however it came in and whatever type it
\* gave each time (reception.rs:208, rejoin_request.rs:82, nlme.rs:606).
OneEntryPerDevice ==
    \A nb1, nb2 \in table : nb1.dev = nb2.dev /\ nb1.dev # NoDevice => nb1 = nb2

\* Two entries share a network address only if one of the devices chose it
\* itself in a rejoin request: an address the router draws is never one it
\* already knows (routing.rs:219-247).
DrawnAddressesDistinct ==
    \A nb1, nb2 \in table :
        nb1.nwk = nb2.nwk => nb1 = nb2 \/ nb1.claimed \/ nb2.claimed

\* While an answer "Success(addr)" is on its way, the table backs it: the
\* device has an entry under that very address unless the entry's own time
\* ran out, although the other task cleans the table meanwhile
\* (reception.rs:230-247, rejoin_request.rs:94-110, link_status.rs:166).
ReplyBacked ==
    reply.addr # NoAddress =>
        \/ \E nb \in table : nb.dev = reply.to /\ nb.nwk = reply.addr
        \/ reply.left = 0

\* What NoEviction speaks of: a device loses its place, or its address, before
\* its time ran out.
Lost(nb) ==
    /\ nb.dev # NoDevice
    /\ nb.left > 0
    /\ ~\E other \in table' : other.dev = nb.dev /\ other.nwk = nb.nwk

\* The steps that may cost it that: frames that carry its own network or
\* extended address, a join as another type, and the router's own leave.
OwnDoing(nb) ==
    \/ LeaveSelf
    \/ \E f \in FrameFrom({nb.nwk}, Device \cup {NoDevice}) :
        \/ OtherFrame(f)
        \/ LeaveCommand(f)
        \/ LinkStatusCommand(f)
        \/ \E timeout \in Timeouts : EndDeviceTimeoutRequest(f, timeout)
        \/ \E type \in DeviceType : RejoinRequest(f, type)
        \/ \E broadcast \in BOOLEAN, a \in Address, d \in Device :
            DeviceAnnce(f, broadcast, a, d)
        \/ \E d \in Device : TransportKey(f, d)
    \/ \E f \in FrameFrom(Address, {nb.dev}), type \in DeviceType : RejoinRequest(f, type)
    \/ \E type \in DeviceType \ {nb.type}, drawn \in Address :
        Associate(nb.dev, type, drawn)

NoEvictionStep == \A nb \in table : Lost(nb) => OwnDoing(nb)

\* A device whose time has not run out loses its place, or its address, only
\* through a frame that carries its own network or extended address, or by
\* joining again as another type: nobody is evicted for somebody else
\* (reception.rs:461-517, 208; leave.rs:46-77).
NoEviction == [][NoEvictionStep]_vars

\* An entry whose time ran out is eventually dropped or refreshed, even if no
\* frame ever arrives again (link_status.rs:141-199, 214-257).
ExpiredIsDropped ==
    \A d \in Device :
        (\E nb \in table : nb.dev = d /\ nb.left = 0)
            ~> ~(\E nb \in table : nb.dev = d /\ nb.left = 0)
=============================================================================
