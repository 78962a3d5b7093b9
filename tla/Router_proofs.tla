--------------------------- MODULE Router_proofs ---------------------------
(***************************************************************************)
(* The safety invariants of NeighborTable hold for every set of devices    *)
(* and addresses and every timeout.                                        *)
(*                                                                         *)
(* All that the actions do to the table is one of five things: drop        *)
(* entries, refresh one, give one a new address, enter one, let time pass. *)
(* One lemma per operation shows that it keeps TableOK; the theorems then  *)
(* only have to say which of the five an action performs.                  *)
(*                                                                         *)
(* The second part is about LinkStatus, which sends that table around: for *)
(* tables of any length and commands of any size above one entry.          *)
(*                                                                         *)
(* The third part is about Transmit, which puts the frames of both tasks   *)
(* on the air: for any counter limit, and whatever the radio does with     *)
(* frames that overlap.                                                    *)
(***************************************************************************)
EXTENDS NeighborTable, LinkStatus, Transmit, TLAPS

\* What the invariants say of the table t alone.
TableOK(t) ==
    /\ t \subseteq Entry
    /\ \A nb1, nb2 \in t : nb1.dev = nb2.dev /\ nb1.dev # NoDevice => nb1 = nb2
    /\ \A nb1, nb2 \in t :
        nb1.nwk = nb2.nwk => nb1 = nb2 \/ nb1.claimed \/ nb2.claimed

\* ReplyBacked is not inductive: nothing in it relates the time of the entry
\* to the time of the answer.
ReplyTimed ==
    reply.addr # NoAddress =>
        \/ \E nb \in table :
            /\ nb.dev = reply.to
            /\ nb.nwk = reply.addr
            /\ nb.left >= reply.left
        \/ reply.left = 0

IInv ==
    /\ TableOK(table)
    /\ addrMap \in [Address -> Device \cup {NoDevice}]
    /\ reply \in Reply
    /\ ReplyTimed

-----------------------------------------------------------------------------
\* The five operations.

\* A part of a sound table is sound.
LEMMA ShrinkOK ==
    ASSUME NEW t, TableOK(t), NEW s \in SUBSET t
    PROVE  TableOK(s)
  BY DEF TableOK

\* An entry may be given any time.
LEMMA RefreshOK ==
    ASSUME NEW t, TableOK(t), NEW nb \in t, NEW n \in Nat
    PROVE  TableOK((t \ {nb}) \cup {[nb EXCEPT !.left = n]})
  <1> DEFINE new == [nb EXCEPT !.left = n]
             s   == (t \ {nb}) \cup {new}
  <1>1. nb \in Entry
    BY DEF TableOK
  <1>2. /\ new \in Entry
        /\ new.dev = nb.dev /\ new.nwk = nb.nwk /\ new.claimed = nb.claimed
    BY <1>1 DEF Entry
  <1>3. s \subseteq Entry
    BY <1>2 DEF TableOK
  <1> HIDE DEF new
  <1>4. \A nb1, nb2 \in s : nb1.dev = nb2.dev /\ nb1.dev # NoDevice => nb1 = nb2
    BY <1>2 DEF TableOK
  <1>5. \A nb1, nb2 \in s :
            nb1.nwk = nb2.nwk => nb1 = nb2 \/ nb1.claimed \/ nb2.claimed
    BY <1>2 DEF TableOK
  <1> QED
    BY <1>3, <1>4, <1>5 DEF TableOK, new

\* An entry may take an address that its device chose, or that no entry has.
LEMMA ReaddressOK ==
    ASSUME NEW t, TableOK(t), NEW nb \in t, NEW a \in Address, NEW own \in BOOLEAN,
           own \/ \A x \in t : x.nwk # a
    PROVE  TableOK((t \ {nb}) \cup {[nb EXCEPT !.nwk = a, !.claimed = own]})
  <1> DEFINE new == [nb EXCEPT !.nwk = a, !.claimed = own]
             s   == (t \ {nb}) \cup {new}
  <1>1. nb \in Entry
    BY DEF TableOK
  <1>2. /\ new \in Entry
        /\ new.dev = nb.dev /\ new.nwk = a /\ new.claimed = own
    BY <1>1 DEF Entry
  <1>3. s \subseteq Entry
    BY <1>2 DEF TableOK
  <1> HIDE DEF new
  <1>4. \A nb1, nb2 \in s : nb1.dev = nb2.dev /\ nb1.dev # NoDevice => nb1 = nb2
    BY <1>2 DEF TableOK
  <1>5. \A nb1, nb2 \in s :
            nb1.nwk = nb2.nwk => nb1 = nb2 \/ nb1.claimed \/ nb2.claimed
    BY <1>2 DEF TableOK
  <1> QED
    BY <1>3, <1>4, <1>5 DEF TableOK, new

\* A device without an entry may be entered.
LEMMA EnterOK ==
    ASSUME NEW t, TableOK(t), NEW d \in Device, OfDevice(t, d) = {},
           NEW a \in Address, NEW type \in DeviceType, NEW own \in BOOLEAN,
           own \/ \A x \in t : x.nwk # a
    PROVE  TableOK(t \cup {NewNeighbor(d, a, type, own)})
  <1> DEFINE new == NewNeighbor(d, a, type, own)
             s   == t \cup {new}
  <1>1. /\ new \in Entry
        /\ new.dev = d /\ new.nwk = a /\ new.claimed = own
    BY ConstantsAssumption DEF Entry, NewNeighbor
  <1> HIDE DEF new
  <1>2. s \subseteq Entry
    BY <1>1 DEF TableOK
  <1>3. \A x \in t : x.dev # d
    BY DEF OfDevice
  <1>4. \A nb1, nb2 \in s : nb1.dev = nb2.dev /\ nb1.dev # NoDevice => nb1 = nb2
    BY <1>1, <1>3 DEF TableOK
  <1>5. \A nb1, nb2 \in s :
            nb1.nwk = nb2.nwk => nb1 = nb2 \/ nb1.claimed \/ nb2.claimed
    BY <1>1 DEF TableOK
  <1> QED
    BY <1>2, <1>4, <1>5 DEF TableOK, new

\* Time may pass.
LEMMA ElapseOK ==
    ASSUME NEW t, TableOK(t)
    PROVE  TableOK({[nb EXCEPT !.left = Elapse(nb.left)] : nb \in t})
  <1> DEFINE s == {[nb EXCEPT !.left = Elapse(nb.left)] : nb \in t}
             f == [nb \in t |-> [nb EXCEPT !.left = Elapse(nb.left)]]
  <1>1. \A nb \in t :
            /\ f[nb] \in Entry
            /\ f[nb].dev = nb.dev /\ f[nb].nwk = nb.nwk /\ f[nb].claimed = nb.claimed
    BY DEF TableOK, Entry, Elapse
  <1>2. s = {f[nb] : nb \in t}
    OBVIOUS
  <1> HIDE DEF f
  <1>3. s \subseteq Entry
    BY <1>1, <1>2
  <1> HIDE DEF s
  <1>4. \A nb1, nb2 \in s : nb1.dev = nb2.dev /\ nb1.dev # NoDevice => nb1 = nb2
    BY <1>1, <1>2 DEF TableOK
  <1>5. \A nb1, nb2 \in s :
            nb1.nwk = nb2.nwk => nb1 = nb2 \/ nb1.claimed \/ nb2.claimed
    BY <1>1, <1>2 DEF TableOK
  <1> QED
    BY <1>3, <1>4, <1>5 DEF TableOK, s

\* A router starts with a sound table.
LEMMA DiscoveredOK ==
    ASSUME NEW t, Discovered(t)
    PROVE  TableOK(t)
  <1>1. PICK S \in SUBSET (Address \ {SelfAddress}) :
            t = {[dev |-> NoDevice, nwk |-> a, type |-> "Router", left |-> 0,
                  claimed |-> FALSE] : a \in S}
    BY DEF Discovered
  <1>2. \A nb \in t : \E a \in Address :
            nb = [dev |-> NoDevice, nwk |-> a, type |-> "Router", left |-> 0,
                  claimed |-> FALSE]
    BY <1>1
  <1>3. \A nb \in t : nb \in Entry /\ nb.dev = NoDevice
    <2> SUFFICES ASSUME NEW nb \in t
                 PROVE  nb \in Entry /\ nb.dev = NoDevice
      OBVIOUS
    <2>1. PICK a \in Address :
            nb = [dev |-> NoDevice, nwk |-> a, type |-> "Router", left |-> 0,
                  claimed |-> FALSE]
      BY <1>2
    <2> QED
      BY <2>1, Zenon DEF Entry, DeviceType
  <1>4. \A nb1, nb2 \in t : nb1.nwk = nb2.nwk => nb1 = nb2
    <2> SUFFICES ASSUME NEW nb1 \in t, NEW nb2 \in t, nb1.nwk = nb2.nwk
                 PROVE  nb1 = nb2
      OBVIOUS
    <2>1. PICK a \in Address :
            nb1 = [dev |-> NoDevice, nwk |-> a, type |-> "Router", left |-> 0,
                   claimed |-> FALSE]
      BY <1>2
    <2>2. PICK b \in Address :
            nb2 = [dev |-> NoDevice, nwk |-> b, type |-> "Router", left |-> 0,
                   claimed |-> FALSE]
      BY <1>2
    <2>3. nb1.nwk = a /\ nb2.nwk = b
      BY <2>1, <2>2
    <2> QED
      BY <2>1, <2>2, <2>3
  <1> QED
    BY <1>3, <1>4 DEF TableOK

-----------------------------------------------------------------------------
\* What the operators the handlers share return.

\* Looking for an end device that moved only ever removes entries.
LEMMA ExaminedShrinks ==
    ASSUME TableOK(table), NEW f, NEW t \in Examined(f)
    PROVE  TableOK(t)
  <1>1. t \in SUBSET table
    BY DEF Examined, Moved
  <1> QED
    BY <1>1, ShrinkOK

\* The address map stays a map, whatever it is told.
LEMMA InsertType ==
    ASSUME NEW m \in [Address -> Device \cup {NoDevice}],
           NEW a \in Address, NEW d \in Device \cup {NoDevice}
    PROVE  Insert(m, a, d) \in [Address -> Device \cup {NoDevice}]
  BY DEF Insert

\* It stays one whichever frame it learns from.
LEMMA LearnType ==
    ASSUME addrMap \in [Address -> Device \cup {NoDevice}], NEW f \in Frame
    PROVE  Learn(f) \in [Address -> Device \cup {NoDevice}]
  BY InsertType DEF Learn, Frame, FrameFrom

\* What is left of a sound table after the cleanup and without one device is
\* sound, and the device has no entry in it.
LEMMA RestOK ==
    ASSUME NEW t, TableOK(t), NEW d
    PROVE  /\ TableOK(Cleanup(t))
           /\ TableOK(Without(Cleanup(t), d))
           /\ OfDevice(Without(Cleanup(t), d), d) = {}
           /\ Without(Cleanup(t), d) \subseteq t
  <1>1. Cleanup(t) \in SUBSET t /\ Without(Cleanup(t), d) \in SUBSET t
    BY DEF Cleanup, Without
  <1>2. OfDevice(Without(Cleanup(t), d), d) = {}
    BY DEF Without, OfDevice
  <1> QED
    BY <1>1, <1>2, ShrinkOK

\* A free address is one that no entry has.
LEMMA FreeIsUnused ==
    ASSUME NEW m, NEW t, NEW a \in FreeAddresses(m, t)
    PROVE  a \in Address /\ \A nb \in t : nb.nwk # a
  BY DEF FreeAddresses

\* A device is readmitted under an address it chose, or that no entry has: the
\* table stays sound and backs the answer.
LEMMA ReadmitOK ==
    ASSUME NEW d \in Device, NEW type \in {"EndDevice", "Router"},
           NEW t, TableOK(t), NEW addr \in Address, NEW own \in BOOLEAN,
           own \/ \A nb \in t : nb.nwk # addr,
           Readmit(d, type, t, addr, own)
    PROVE  TableOK(table') /\ reply' \in Reply /\ ReplyTimed'
  <1> DEFINE live == Cleanup(t)
             rest == Without(live, d)
             new  == NewNeighbor(d, addr, type, own)
  <1>1. /\ TableOK(live) /\ TableOK(rest)
        /\ OfDevice(rest, d) = {}
        /\ live \subseteq t /\ rest \subseteq t
    <2>1. live \subseteq t
      BY DEF Cleanup
    <2> QED
      BY <2>1, RestOK
  <1>2. type \in DeviceType
    BY DEF DeviceType
  <1>3. CASE \E nb \in OfDeviceAndType(live, d, type) :
                /\ table' = (live \ {nb}) \cup {[nb EXCEPT !.nwk = addr, !.claimed = own]}
                /\ reply' = [to |-> d, addr |-> addr, left |-> nb.left]
    <2>1. PICK nb \in OfDeviceAndType(live, d, type) :
                /\ table' = (live \ {nb}) \cup {[nb EXCEPT !.nwk = addr, !.claimed = own]}
                /\ reply' = [to |-> d, addr |-> addr, left |-> nb.left]
      BY <1>3
    <2> DEFINE old == [nb EXCEPT !.nwk = addr, !.claimed = own]
    <2> HIDE DEF live
    <2>2. nb \in live /\ nb.dev = d /\ nb \in Entry
      BY <1>1 DEF OfDeviceAndType, TableOK
    <2>3. own \/ \A x \in live : x.nwk # addr
      BY <1>1
    <2>4. TableOK(table')
      BY <1>1, <2>1, <2>2, <2>3, ReaddressOK
    <2>5. nb.left \in Nat
      BY <2>2 DEF Entry
    <2>6. old.dev = d /\ old.nwk = addr /\ old.left = nb.left
      BY <2>2 DEF Entry
    <2>7. old \in table'
      BY <2>1
    <2> HIDE DEF old
    <2>8. reply'.to = d /\ reply'.addr = addr /\ reply'.left = nb.left
      BY <2>1
    <2>9. ReplyTimed'
      BY <2>5, <2>6, <2>7, <2>8 DEF ReplyTimed
    <2>10. reply' \in Reply
      BY <2>1, <2>5 DEF Reply
    <2> QED
      BY <2>4, <2>9, <2>10
  <1>4. CASE /\ table' = rest \cup {new}
             /\ reply' = [to |-> d, addr |-> addr, left |-> new.left]
    <2> HIDE DEF rest
    <2>1. own \/ \A x \in rest : x.nwk # addr
      BY <1>1
    <2>2. TableOK(table')
      BY <1>1, <1>2, <1>4, <2>1, EnterOK
    <2>3. new.dev = d /\ new.nwk = addr /\ new.left = DefaultTimeout
      BY DEF NewNeighbor
    <2>4. new \in table'
      BY <1>4
    <2> HIDE DEF new
    <2>5. ReplyTimed'
      BY <1>4, <2>3, <2>4, ConstantsAssumption DEF ReplyTimed
    <2>6. reply' \in Reply
      BY <1>4, <2>3, ConstantsAssumption DEF Reply
    <2> QED
      BY <2>2, <2>5, <2>6
  <1> QED
    BY <1>3, <1>4 DEF Readmit

-----------------------------------------------------------------------------
\* The invariant holds at the start.
LEMMA InitIInv == Init => IInv
  <1> SUFFICES ASSUME Init PROVE IInv
    OBVIOUS
  <1>1. TableOK(table)
    BY DiscoveredOK DEF Init
  <1>2. addrMap \in [Address -> Device \cup {NoDevice}]
    BY DEF Init
  <1>3. reply \in Reply /\ ReplyTimed
    BY DEF Init, Reply, NoReply, ReplyTimed
  <1> QED
    BY <1>1, <1>2, <1>3 DEF IInv

\* No received frame breaks it.
LEMMA ReceiveIInv ==
    ASSUME IInv, NEW f \in Frame
    PROVE  /\ DropFrame(f) => IInv'
           /\ OtherFrame(f) => IInv'
           /\ LeaveCommand(f) => IInv'
           /\ LinkStatusCommand(f) => IInv'
           /\ \A timeout \in Timeouts : EndDeviceTimeoutRequest(f, timeout) => IInv'
           /\ \A type \in {"EndDevice", "Router"} : RejoinRequest(f, type) => IInv'
           /\ \A broadcast \in BOOLEAN, a \in Address, d \in Device :
                DeviceAnnce(f, broadcast, a, d) => IInv'
           /\ \A d \in Device : TransportKey(f, d) => IInv'
  <1>1. Learn(f) \in [Address -> Device \cup {NoDevice}]
    BY LearnType DEF IInv
  <1>2. \A t \in Examined(f) : TableOK(t)
    BY ExaminedShrinks DEF IInv
  <1>3. reply = NoReply /\ reply' = reply => reply' \in Reply /\ ReplyTimed'
    BY DEF IInv, ReplyTimed, NoReply
  <1>4. DropFrame(f) => IInv'
    BY <1>1, <1>3 DEF DropFrame, Listening, IInv
  <1>5. OtherFrame(f) => IInv'
    BY <1>1, <1>2, <1>3 DEF OtherFrame, Listening, IInv
  <1>6. ASSUME LeaveCommand(f) PROVE IInv'
    <2>1. PICK t \in Examined(f) : table' = {nb \in t : nb.nwk # f.src}
      BY <1>6 DEF LeaveCommand
    <2>2. TableOK(table')
      BY <1>2, <2>1, ShrinkOK
    <2> QED
      BY <1>1, <1>3, <1>6, <2>2 DEF LeaveCommand, Listening, IInv
  <1>7. ASSUME LinkStatusCommand(f) PROVE IInv'
    <2>1. PICK t \in Examined(f) :
            \/ table' = t
            \/ \E nb \in t : table' = (t \ {nb}) \cup {[nb EXCEPT !.left = RouterAge]}
      BY <1>7 DEF LinkStatusCommand
    <2>2. TableOK(table')
      BY <1>2, <2>1, RefreshOK, ConstantsAssumption
    <2> QED
      BY <1>1, <1>3, <1>7, <2>2 DEF LinkStatusCommand, Listening, IInv
  <1>8. ASSUME NEW timeout \in Timeouts, EndDeviceTimeoutRequest(f, timeout)
        PROVE  IInv'
    <2>1. PICK t \in Examined(f) :
            \E nb \in t : table' = (t \ {nb}) \cup {[nb EXCEPT !.left = timeout]}
      BY <1>8 DEF EndDeviceTimeoutRequest
    <2>2. TableOK(table')
      BY <1>2, <2>1, RefreshOK, ConstantsAssumption
    <2> QED
      BY <1>1, <1>3, <1>8, <2>2 DEF EndDeviceTimeoutRequest, Listening, IInv
  <1>9. ASSUME NEW type \in {"EndDevice", "Router"}, RejoinRequest(f, type)
        PROVE  IInv'
    <2>1. f.ieee \in Device /\ f.src \in Address
      BY <1>9 DEF RejoinRequest, Frame, FrameFrom
    <2>2. PICK t \in Examined(f) :
            \/ Readmit(f.ieee, type, t, f.src, TRUE)
            \/ \E drawn \in FreeAddresses(Learn(f), t) :
                Readmit(f.ieee, type, t, drawn, FALSE)
      BY <1>9 DEF RejoinRequest
    <2>3. \A drawn \in FreeAddresses(Learn(f), t) :
            drawn \in Address /\ \A nb \in t : nb.nwk # drawn
      BY FreeIsUnused
    <2>4. TableOK(table') /\ reply' \in Reply /\ ReplyTimed'
      BY <1>2, <2>1, <2>2, <2>3, ReadmitOK
    <2> QED
      BY <1>1, <1>9, <2>4 DEF RejoinRequest, IInv
  <1>10. ASSUME NEW broadcast \in BOOLEAN, NEW a \in Address, NEW d \in Device,
                DeviceAnnce(f, broadcast, a, d)
         PROVE  IInv'
    <2>1. Insert(Learn(f), a, d) \in [Address -> Device \cup {NoDevice}]
      BY <1>1, InsertType
    <2>2. addrMap' \in [Address -> Device \cup {NoDevice}]
      BY <1>1, <1>10, <2>1 DEF DeviceAnnce
    <2> QED
      BY <1>2, <1>3, <1>10, <2>2 DEF DeviceAnnce, Listening, IInv
  <1>11. ASSUME NEW d \in Device, TransportKey(f, d)
         PROVE  IInv'
    <2>1. f.src \in Address
      BY DEF Frame, FrameFrom
    <2>2. addrMap' \in [Address -> Device \cup {NoDevice}]
      BY <1>1, <1>11, <2>1, InsertType DEF TransportKey
    <2> QED
      BY <1>2, <1>3, <1>11, <2>2 DEF TransportKey, Listening, IInv
  <1> QED
    BY <1>4, <1>5, <1>6, <1>7, <1>8, <1>9, <1>10, <1>11

\* No association and no direct join breaks it.
LEMMA JoinIInv ==
    ASSUME IInv, NEW d \in Device, NEW drawn \in FreeAddresses(addrMap, table)
    PROVE  /\ \A type \in {"EndDevice", "Router"} : Associate(d, type, drawn) => IInv'
           /\ \A type \in {"EndDevice", "Coordinator"} : DirectJoin(d, type, drawn) => IInv'
  <1> DEFINE live == Cleanup(table)
             rest == Without(live, d)
  <1>1. drawn \in Address /\ \A nb \in table : nb.nwk # drawn
    BY FreeIsUnused
  <1>2. /\ TableOK(live) /\ TableOK(rest)
        /\ OfDevice(rest, d) = {}
        /\ live \subseteq table /\ rest \subseteq table
    <2>1. live \subseteq table
      BY DEF Cleanup
    <2> QED
      BY <2>1, RestOK DEF IInv
  <1>3. ASSUME NEW type \in {"EndDevice", "Router"}, Associate(d, type, drawn)
        PROVE  IInv'
    <2> DEFINE new == NewNeighbor(d, drawn, type, FALSE)
    <2>1. type \in DeviceType
      BY DEF DeviceType
    <2>2. addrMap' \in [Address -> Device \cup {NoDevice}]
      BY <1>3 DEF Associate, IInv
    <2>3. CASE \E nb \in OfDeviceAndType(live, d, type) :
                /\ table' = live
                /\ reply' = [to |-> d, addr |-> nb.nwk, left |-> nb.left]
      <3>1. PICK nb \in OfDeviceAndType(live, d, type) :
                /\ table' = live
                /\ reply' = [to |-> d, addr |-> nb.nwk, left |-> nb.left]
        BY <2>3
      <3> HIDE DEF live
      <3>2. nb \in live /\ nb.dev = d /\ nb \in Entry
        BY <1>2 DEF OfDeviceAndType, TableOK
      <3>3. ReplyTimed' /\ reply' \in Reply
        BY <3>1, <3>2 DEF ReplyTimed, Reply, Entry
      <3> QED
        BY <1>2, <2>2, <3>1, <3>3 DEF IInv
    <2>4. CASE /\ table' = rest \cup {new}
               /\ reply' = [to |-> d, addr |-> drawn, left |-> new.left]
      <3> HIDE DEF live, rest
      <3>1. TableOK(table')
        BY <1>1, <1>2, <2>1, <2>4, EnterOK
      <3>2. /\ new \in table' /\ new.dev = d /\ new.nwk = drawn
            /\ new.left = DefaultTimeout
        BY <2>4 DEF NewNeighbor
      <3> HIDE DEF new
      <3>3. ReplyTimed'
        BY <2>4, <3>2, ConstantsAssumption DEF ReplyTimed
      <3>4. reply' \in Reply
        BY <1>1, <2>4, <3>2, ConstantsAssumption DEF Reply
      <3> QED
        BY <2>2, <3>1, <3>3, <3>4 DEF IInv
    <2> QED
      BY <1>3, <2>3, <2>4 DEF Associate
  <1>4. ASSUME NEW type \in {"EndDevice", "Coordinator"}, DirectJoin(d, type, drawn)
        PROVE  IInv'
    <2>1. OfDevice(live, d) = {} /\ type \in DeviceType
      BY <1>4 DEF DirectJoin, OfDevice, Cleanup, DeviceType
    <2>2. TableOK(table')
      <3> HIDE DEF live
      <3>1. table' = live \cup {NewNeighbor(d, drawn, type, FALSE)}
        BY <1>4 DEF DirectJoin, live
      <3>2. \A nb \in live : nb.nwk # drawn
        BY <1>1, <1>2
      <3> QED
        BY <1>1, <1>2, <2>1, <3>1, <3>2, EnterOK
    <2>3. reply = NoReply /\ reply' = reply
      BY <1>4 DEF DirectJoin, Listening
    <2> QED
      BY <1>4, <2>2, <2>3 DEF DirectJoin, IInv, ReplyTimed, NoReply
  <1> QED
    BY <1>3, <1>4

\* Every step keeps the invariant.
LEMMA NextIInv == IInv /\ [Next]_vars => IInv'
  <1> SUFFICES ASSUME IInv, [Next]_vars PROVE IInv'
    OBVIOUS
  <1>1. CASE ReceiveFrame
    BY <1>1, ReceiveIInv DEF ReceiveFrame
  <1>2. CASE Join
    BY <1>2, JoinIInv DEF Join
  <1>3. CASE ReplyDone
    BY <1>3 DEF ReplyDone, IInv, ReplyTimed, Reply, NoReply
  <1>4. CASE LeaveSelf
    <2>1. TableOK(table')
      BY <1>4, DiscoveredOK DEF LeaveSelf
    <2>2. addrMap' \in [Address -> Device \cup {NoDevice}]
      BY <1>4 DEF LeaveSelf
    <2> QED
      BY <1>4, <2>1, <2>2 DEF LeaveSelf, Listening, IInv, ReplyTimed, NoReply
  <1>5. CASE LinkStatusTask
    <2>1. TableOK(table')
      BY <1>5, RestOK DEF LinkStatusTask, IInv
    <2>2. reply' = reply /\ reply \in Reply
      BY <1>5 DEF LinkStatusTask, IInv
    <2>3. \A nb \in table : nb.left \in Nat
      BY DEF IInv, TableOK, Entry
    <2>4. ReplyTimed'
      BY <1>5, <2>2, <2>3 DEF LinkStatusTask, IInv, ReplyTimed, Cleanup, Reply
    <2> QED
      BY <1>5, <2>1, <2>2, <2>4 DEF LinkStatusTask, IInv
  <1>6. CASE Tick
    <2>1. TableOK(table')
      BY <1>6, ElapseOK DEF Tick, IInv
    <2>2. /\ reply' \in Reply
          /\ reply'.addr = reply.addr /\ reply'.to = reply.to
          /\ reply'.left = Elapse(reply.left)
      BY <1>6 DEF Tick, IInv, Reply, Elapse
    <2>3. ReplyTimed'
      <3>1. CASE reply.addr = NoAddress \/ reply.left = 0
        BY <2>2, <3>1 DEF ReplyTimed, Elapse
      <3>2. CASE reply.addr # NoAddress /\ reply.left # 0
        <4>1. PICK nb \in table :
                nb.dev = reply.to /\ nb.nwk = reply.addr /\ nb.left >= reply.left
          BY <3>2 DEF IInv, ReplyTimed
        <4>2. nb \in Entry /\ reply \in Reply
          BY DEF IInv, TableOK
        <4> DEFINE new == [nb EXCEPT !.left = Elapse(nb.left)]
        <4>3. /\ new \in table'
              /\ new.dev = nb.dev /\ new.nwk = nb.nwk /\ new.left = Elapse(nb.left)
          BY <1>6, <4>2 DEF Tick, Entry
        <4>4. Elapse(nb.left) >= Elapse(reply.left)
          BY <4>1, <4>2 DEF Elapse, Entry, Reply
        <4> HIDE DEF new
        <4> QED
          BY <2>2, <4>1, <4>3, <4>4 DEF ReplyTimed
      <3> QED
        BY <3>1, <3>2
    <2> QED
      BY <1>6, <2>1, <2>2, <2>3 DEF Tick, IInv
  <1>7. CASE UNCHANGED vars
    BY <1>7 DEF vars, IInv, ReplyTimed
  <1> QED
    BY <1>1, <1>2, <1>3, <1>4, <1>5, <1>6, <1>7 DEF Next

\* The invariant holds in every reachable state.
THEOREM Invariance == Spec => []IInv
  BY InitIInv, NextIInv, PTL DEF Spec

-----------------------------------------------------------------------------
\* Every variable keeps its type, for all devices, addresses and timeouts.
THEOREM TypeCorrect == Spec => []TypeOK
  <1>1. IInv => TypeOK
    BY DEF IInv, TableOK, TypeOK
  <1> QED
    BY <1>1, Invariance, PTL

\* No device ever has two entries (reception.rs:208, rejoin_request.rs:82,
\* nlme.rs:606).
THEOREM EntriesUnique == Spec => []OneEntryPerDevice
  <1>1. IInv => OneEntryPerDevice
    BY DEF IInv, TableOK, OneEntryPerDevice
  <1> QED
    BY <1>1, Invariance, PTL

\* The router never draws an address it already knows (routing.rs:219-247).
THEOREM AddressesDistinct == Spec => []DrawnAddressesDistinct
  <1>1. IInv => DrawnAddressesDistinct
    BY DEF IInv, TableOK, DrawnAddressesDistinct
  <1> QED
    BY <1>1, Invariance, PTL

\* An address that is being promised is an address that is held, however the
\* two tasks interleave (reception.rs:230-247, link_status.rs:166).
THEOREM AnswersBacked == Spec => []ReplyBacked
  <1>1. IInv => ReplyBacked
    BY DEF IInv, ReplyTimed, ReplyBacked
  <1> QED
    BY <1>1, Invariance, PTL
-----------------------------------------------------------------------------
\* Nobody is evicted for somebody else.

\* A frame leaves the entries of other addresses alone.
LEMMA ExaminedKeeps ==
    ASSUME NEW f, NEW t \in Examined(f), NEW nb \in table, nb.nwk # f.src
    PROVE  nb \in t
  BY DEF Examined, Moved

\* The table s is the table t with one entry given the time n.
Refreshed(t, s, n) == \E nb \in t : s = (t \ {nb}) \cup {[nb EXCEPT !.left = n]}

\* Giving an entry another time keeps everybody's place and address.
LEMMA RefreshKeeps ==
    ASSUME NEW t, t \subseteq Entry, NEW x \in t, NEW n, NEW s, Refreshed(t, s, n)
    PROVE  \E y \in s : y.dev = x.dev /\ y.nwk = x.nwk
  <1>1. PICK nb \in t : s = (t \ {nb}) \cup {[nb EXCEPT !.left = n]}
    BY DEF Refreshed
  <1> DEFINE new == [nb EXCEPT !.left = n]
  <1>2. new \in s /\ \A y \in t : y # nb => y \in s
    BY <1>1
  <1>3. new.dev = nb.dev /\ new.nwk = nb.nwk
    BY DEF Entry
  <1> HIDE DEF new
  <1> QED
    BY <1>2, <1>3

\* Readmitting a device keeps the live entries of all others.
LEMMA ReadmitKeeps ==
    ASSUME NEW d, NEW type, NEW t, NEW addr, NEW own,
           Readmit(d, type, t, addr, own),
           NEW nb \in t, nb.left > 0, nb.dev # d
    PROVE  nb \in table'
  <1>1. nb \in Cleanup(t) /\ nb \in Without(Cleanup(t), d)
    BY DEF Cleanup, Without
  <1>2. \A x \in OfDeviceAndType(Cleanup(t), d, type) : x # nb
    BY DEF OfDeviceAndType
  <1> QED
    BY <1>1, <1>2 DEF Readmit

\* A received frame costs nobody a place but the one it comes from.
LEMMA ReceiveEvictsOwn ==
    ASSUME TypeOK, NEW nb \in table, Lost(nb), ReceiveFrame
    PROVE  OwnDoing(nb)
  <1>1. nb \in Entry /\ nb.nwk \in Address /\ nb.dev \in Device /\ nb \notin table'
    BY DEF TypeOK, Entry, Lost
  <1>2. PICK f \in Frame :
          \/ DropFrame(f)
          \/ OtherFrame(f)
          \/ LeaveCommand(f)
          \/ LinkStatusCommand(f)
          \/ \E timeout \in Timeouts : EndDeviceTimeoutRequest(f, timeout)
          \/ \E type \in {"EndDevice", "Router"} : RejoinRequest(f, type)
          \/ \E broadcast \in BOOLEAN, a \in Address, d \in Device :
              DeviceAnnce(f, broadcast, a, d)
          \/ \E d \in Device : TransportKey(f, d)
    BY DEF ReceiveFrame
  <1>3. ~DropFrame(f)
    BY <1>1 DEF DropFrame
  <1>4. CASE f.src = nb.nwk
    <2>1. f \in FrameFrom({nb.nwk}, Device \cup {NoDevice})
      BY <1>4 DEF Frame, FrameFrom
    <2>2. {"EndDevice", "Router"} \subseteq DeviceType
      BY DEF DeviceType
    <2> QED
      BY <1>2, <1>3, <2>1, <2>2 DEF OwnDoing
  <1>5. CASE f.src # nb.nwk
    <2>1. \A t \in Examined(f) : nb \in t /\ t \subseteq Entry
      BY <1>5, ExaminedKeeps DEF Examined, TypeOK
    <2>2. /\ ~OtherFrame(f)
          /\ ~\E broadcast \in BOOLEAN, a \in Address, d \in Device :
                DeviceAnnce(f, broadcast, a, d)
          /\ ~\E d \in Device : TransportKey(f, d)
      BY <1>1, <2>1 DEF OtherFrame, DeviceAnnce, TransportKey
    <2>3. ~LeaveCommand(f)
      BY <1>1, <1>5, <2>1 DEF LeaveCommand
    <2>4. ~LinkStatusCommand(f)
      <3> SUFFICES ASSUME LinkStatusCommand(f) PROVE FALSE
        OBVIOUS
      <3>1. PICK t \in Examined(f) :
              \/ table' = t
              \/ \E x \in t : table' = (t \ {x}) \cup {[x EXCEPT !.left = RouterAge]}
        BY DEF LinkStatusCommand
      <3>2. Refreshed(t, table', RouterAge)
        BY <1>1, <2>1, <3>1 DEF Refreshed
      <3>3. nb \in t /\ t \subseteq Entry
        BY <2>1
      <3>4. \E y \in table' : y.dev = nb.dev /\ y.nwk = nb.nwk
        BY <3>2, <3>3, RefreshKeeps
      <3> QED
        BY <3>4 DEF Lost
    <2>5. ~\E timeout \in Timeouts : EndDeviceTimeoutRequest(f, timeout)
      <3> SUFFICES ASSUME NEW timeout \in Timeouts, EndDeviceTimeoutRequest(f, timeout)
                   PROVE  FALSE
        OBVIOUS
      <3>1. PICK t \in Examined(f) :
              \E x \in t : table' = (t \ {x}) \cup {[x EXCEPT !.left = timeout]}
        BY DEF EndDeviceTimeoutRequest
      <3>2. Refreshed(t, table', timeout)
        BY <1>1, <2>1, <3>1 DEF Refreshed
      <3>3. nb \in t /\ t \subseteq Entry
        BY <2>1
      <3>4. \E y \in table' : y.dev = nb.dev /\ y.nwk = nb.nwk
        BY <3>2, <3>3, RefreshKeeps
      <3> QED
        BY <3>4 DEF Lost
    <2>6. PICK type \in {"EndDevice", "Router"} : RejoinRequest(f, type)
      BY <1>2, <1>3, <2>2, <2>3, <2>4, <2>5
    <2>7. f.ieee = nb.dev
      <3> SUFFICES ASSUME f.ieee # nb.dev PROVE FALSE
        OBVIOUS
      <3>1. PICK t \in Examined(f) : \E addr, own : Readmit(f.ieee, type, t, addr, own)
        BY <2>6 DEF RejoinRequest
      <3> QED
        BY <1>1, <2>1, <3>1, ReadmitKeeps DEF Lost
    <2>8. f \in FrameFrom(Address, {nb.dev}) /\ type \in DeviceType
      BY <2>7 DEF Frame, FrameFrom, DeviceType
    <2> QED
      BY <2>6, <2>8 DEF OwnDoing
  <1> QED
    BY <1>4, <1>5

\* Somebody who joins costs nobody else a place.
LEMMA JoinEvictsOwn ==
    ASSUME TypeOK, NEW nb \in table, Lost(nb), Join
    PROVE  OwnDoing(nb)
  <1>1. nb \notin table' /\ nb \in Cleanup(table)
    BY DEF Lost, Cleanup
  <1>2. PICK d \in Device, drawn \in FreeAddresses(addrMap, table) :
          \/ \E type \in {"EndDevice", "Router"} : Associate(d, type, drawn)
          \/ \E type \in {"EndDevice", "Coordinator"} : DirectJoin(d, type, drawn)
    BY DEF Join
  <1>3. ~\E type \in {"EndDevice", "Coordinator"} : DirectJoin(d, type, drawn)
    BY <1>1 DEF DirectJoin
  <1>4. PICK type \in {"EndDevice", "Router"} : Associate(d, type, drawn)
    BY <1>2, <1>3
  <1>5. nb \notin Without(Cleanup(table), d) /\ OfDeviceAndType(Cleanup(table), d, type) = {}
    BY <1>1, <1>4 DEF Associate
  <1>6. nb.dev = d /\ nb.type # type
    BY <1>1, <1>5 DEF Without, OfDeviceAndType
  <1>7. type \in DeviceType \ {nb.type} /\ drawn \in Address
    BY <1>6, FreeIsUnused DEF DeviceType
  <1> QED
    BY <1>4, <1>6, <1>7 DEF OwnDoing

\* A device loses its place or its address before its time only through a frame
\* that carries its own address, a join as another type or the router's own
\* leave (reception.rs:461-517, 208; leave.rs:46-77).
THEOREM NobodyEvicted == Spec => NoEviction
  <1>1. ASSUME TypeOK, [Next]_vars, NEW nb \in table, Lost(nb)
        PROVE  OwnDoing(nb)
    <2>1. nb \in Entry /\ nb \notin table' /\ nb \in Cleanup(table)
      BY <1>1 DEF TypeOK, Lost, Cleanup
    <2>2. CASE ReceiveFrame
      BY <1>1, <2>2, ReceiveEvictsOwn
    <2>3. CASE Join
      BY <1>1, <2>3, JoinEvictsOwn
    <2>4. CASE ReplyDone \/ LinkStatusTask \/ UNCHANGED vars
      BY <2>1, <2>4 DEF ReplyDone, LinkStatusTask, vars
    <2>5. CASE LeaveSelf
      BY <2>5 DEF OwnDoing
    <2>6. CASE Tick
      <3> DEFINE later == [nb EXCEPT !.left = Elapse(nb.left)]
      <3>1. later \in table'
        BY <2>6 DEF Tick
      <3>2. later.dev = nb.dev /\ later.nwk = nb.nwk
        BY <2>1 DEF Entry
      <3> QED
        BY <1>1, <3>1, <3>2 DEF Lost
    <2> QED
      BY <1>1, <2>2, <2>3, <2>4, <2>5, <2>6 DEF Next
  <1>2. TypeOK /\ [Next]_vars => [NoEvictionStep]_vars
    BY <1>1 DEF NoEvictionStep
  <1> QED
    BY <1>2, TypeCorrect, PTL DEF Spec, NoEviction
-----------------------------------------------------------------------------
(* Link status. *)


\* What the receiver heard, it heard from a command already sent, and its entry
\* holds what that command lists.
HeardOK ==
    heard = "listed" =>
        /\ \E i \in Nat : i < next /\ Lists(i)
        /\ ListedCostKept

LinkInv == LinkTypeOK /\ HeardOK

-----------------------------------------------------------------------------
\* Commands.

\* Successive commands are at least one entry apart, and overlap in one.
LEMMA StrideType == Stride \in Nat \ {0} /\ FrameEntries = Stride + 1
BY LinkConstants DEF Stride

\* A report of n entries has at least one command.
LEMMA FrameCountType ==
    ASSUME NEW n \in Nat
    PROVE  (IF n <= FrameEntries THEN 1 ELSE ((n - FrameEntries) \div Stride) + 1)
             \in Nat \ {0}
<1>1. CASE n <= FrameEntries
    BY <1>1
<1>2. CASE ~(n <= FrameEntries)
    <2>1. n - FrameEntries \in Nat
        BY <1>2, LinkConstants
    <2>2. (n - FrameEntries) \div Stride \in Nat
        BY <2>1, StrideType
    <2> QED
        BY <1>2, <2>2
<1> QED
    BY <1>1, <1>2

\* The report under way has at least one command.
LEMMA FramesType == len \in Nat => Frames \in Nat \ {0}
BY FrameCountType DEF Frames

\* Every entry of a command stands before the first entry of each command sent
\* later, or is that entry.
LEMMA WindowsInOrder ==
    ASSUME NEW i \in Nat, NEW j \in Nat, i < j, links \in Seq(Link)
    PROVE  /\ i * Stride \in Nat
           /\ j * Stride \in Nat
           /\ \A p \in Window(i) : p <= Start(j)
<1>1. i * Stride \in Nat /\ j * Stride \in Nat
    BY StrideType
<1>2. PICK k \in Nat : j = (i + 1) + k
    <2>1. j - (i + 1) \in Nat /\ j = (i + 1) + (j - (i + 1))
        OBVIOUS
    <2> QED
        BY <2>1
<1>3. j * Stride = i * Stride + Stride + k * Stride /\ k * Stride \in Nat
    BY <1>2, StrideType, Z3
<1>4. \A p \in Window(i) : p <= i * Stride + FrameEntries
    BY <1>1, LinkConstants DEF Window, Start, End
<1>5. \A p \in Window(i) : p <= Start(j)
    BY <1>1, <1>3, <1>4, StrideType, LinkConstants DEF Start, Window, End
<1> QED
    BY <1>1, <1>5

\* A command lists entries of the table, the first and the last among them.
LEMMA WindowInTable ==
    ASSUME NEW i \in Nat, links \in Seq(Link)
    PROVE  /\ i * Stride \in Nat
           /\ Window(i) \subseteq 1..Len(links)
           /\ Window(i) # {} => Start(i) \in Window(i) /\ End(i) \in Window(i)
<1>1. i * Stride \in Nat /\ FrameEntries \in Nat
    BY StrideType, LinkConstants
<1> QED
    BY <1>1 DEF Window, Start, End

-----------------------------------------------------------------------------
\* A command that does not list the receiver does not concern it either, once
\* an earlier command of the report listed it.
LEMMA OnlyListedOnce ==
    ASSUME LinkTypeOK, NEW i \in Nat, i < next, next \in Nat, Lists(i), Concerns(next)
    PROVE  Lists(next)
<1>1. links \in Seq(Link) /\ Sorted(links)
    BY DEF LinkTypeOK
<1>2. PICK p \in Window(i) : links[p].addr = Receiver
    BY DEF Lists
<1>3. Start(next) \in Window(next) /\ Start(next) \in 1..Len(links)
    BY <1>1, WindowInTable DEF Concerns
<1>4. p \in 1..Len(links) /\ p <= Start(next)
    BY <1>1, WindowInTable, WindowsInOrder
<1>5. links[p].addr <= links[Start(next)].addr
    BY <1>1, <1>3, <1>4 DEF Sorted
<1>6. ~(Receiver < links[Start(next)].addr)
    BY DEF Concerns
<1>7. links[Start(next)].addr \in Nat /\ Receiver \in Nat
    <2>1. links[Start(next)] \in Link
        BY <1>1, <1>3
    <2> QED
        BY <2>1, LinkConstants DEF Link
<1>8. links[Start(next)].addr = Receiver
    BY <1>2, <1>5, <1>6, <1>7
<1> QED
    BY <1>3, <1>8 DEF Lists

\* Only the cost of an entry of the command is told to a receiver it lists.
LEMMA ToldIsListed ==
    ASSUME links \in Seq(Link), NEW i \in Nat, Lists(i), NEW c, Told(i, c)
    PROVE  /\ \E p \in 1..Len(links) : links[p].addr = Receiver /\ c = links[p].cost
           /\ c \in Cost
<1>1. PICK p \in Window(i) : links[p].addr = Receiver /\ c = links[p].cost
    BY DEF Told
<1>2. p \in 1..Len(links)
    BY WindowInTable
<1>3. links[p] \in Link
    BY <1>2
<1> QED
    BY <1>1, <1>2, <1>3 DEF Link

\* What a command tells the receiver is a cost.
LEMMA ToldType ==
    ASSUME links \in Seq(Link), NEW i \in Nat, NEW c, Told(i, c)
    PROVE  c \in Cost
<1>1. CASE Lists(i)
    BY <1>1, ToldIsListed
<1>2. CASE ~Lists(i)
    BY <1>2, LinkConstants DEF Told, Lists, Unlisted
<1> QED
    BY <1>1, <1>2

-----------------------------------------------------------------------------
\* The invariant is inductive.

\* The initial states satisfy the invariant.
LEMMA LinkInitInvariant == LinkInit => LinkInv
<1> SUFFICES ASSUME LinkInit PROVE LinkInv
    OBVIOUS
<1>1. Frames = 1
    BY LinkConstants DEF LinkInit, Frames
<1>2. links \in Seq(Link) /\ Sorted(links)
    BY DEF LinkInit, Sorted
<1>3. LinkTypeOK
    BY <1>1, <1>2 DEF LinkInit, LinkTypeOK
<1> QED
    BY <1>3 DEF LinkInit, LinkInv, HeardOK

\* Every step preserves the invariant.
LEMMA LinkNextInvariant == LinkInv /\ [LinkNext]_linkVars => LinkInv'
<1> SUFFICES ASSUME LinkInv, [LinkNext]_linkVars PROVE LinkInv'
    OBVIOUS
<1> USE DEF LinkInv
<1>t. /\ links \in Seq(Link) /\ Sorted(links)
      /\ Frames \in Nat \ {0} /\ next \in Nat /\ len \in Nat
    BY FramesType DEF LinkTypeOK
<1>1. CASE Report
    <2>1. links' \in Seq(Link) /\ Sorted(links')
        BY <1>1, LinkConstants DEF Report
    <2>2. len' \in Nat
        BY <1>1, <2>1, LinkConstants DEF Report
    <2>3. Frames' \in Nat \ {0}
        BY <2>2, FrameCountType DEF Frames, Stride
    <2>4. LinkTypeOK'
        BY <1>1, <2>1, <2>2, <2>3 DEF Report, LinkTypeOK, Sorted
    <2> QED
        BY <1>1, <2>4 DEF Report, HeardOK
<1>2. CASE Deliver
    <2>1. UNCHANGED <<links, len>> /\ next' = next + 1 /\ next < Frames
        BY <1>2 DEF Deliver
    <2>2. Frames' = Frames /\ Sorted(links')
        BY <1>t, <2>1 DEF Frames, Sorted
    <2>3. \A i \in Nat : Lists(i)' = Lists(i)
        BY <2>1 DEF Lists, Window, Start, End
    <2>4. CASE UNCHANGED <<outgoing, heard>>
        <3>1. LinkTypeOK'
            BY <1>t, <2>1, <2>2, <2>4 DEF LinkTypeOK
        <3>2. HeardOK'
            BY <1>t, <2>1, <2>3, <2>4 DEF HeardOK, ListedCostKept
        <3> QED
            BY <3>1, <3>2
    <2>5. CASE Concerns(next) /\ Lists(next)
        <3>1. Told(next, outgoing') \/ UNCHANGED <<outgoing, heard>>
            BY <1>2 DEF Deliver
        <3>2. CASE Told(next, outgoing')
            <4>1. /\ \E p \in 1..Len(links) :
                        links[p].addr = Receiver /\ outgoing' = links[p].cost
                  /\ outgoing' \in Cost
                BY <1>t, <2>5, <3>2, ToldIsListed
            <4>2. heard' = "listed" \/ UNCHANGED <<outgoing, heard>>
                BY <1>2, <2>5 DEF Deliver
            <4>3. LinkTypeOK'
                BY <1>t, <2>1, <2>2, <2>4, <4>1, <4>2, LinkConstants DEF LinkTypeOK
            <4>4. HeardOK'
                BY <1>t, <2>1, <2>3, <2>5, <4>1 DEF HeardOK, ListedCostKept
            <4> QED
                BY <4>3, <4>4
        <3> QED
            BY <2>4, <3>1, <3>2
    <2>6. CASE Concerns(next) /\ ~Lists(next)
        <3>1. heard # "listed"
            BY <1>t, <2>6, OnlyListedOnce DEF HeardOK
        <3>2. \/ UNCHANGED <<outgoing, heard>>
              \/ Told(next, outgoing') /\ heard' = "unlisted"
            BY <1>2, <2>6, <3>1 DEF Deliver
        <3>3. CASE Told(next, outgoing') /\ heard' = "unlisted"
            <4>1. outgoing' \in Cost
                BY <1>t, <3>3, ToldType
            <4>2. LinkTypeOK'
                BY <1>t, <2>1, <2>2, <3>3, <4>1, LinkConstants DEF LinkTypeOK
            <4> QED
                BY <3>3, <4>2 DEF HeardOK
        <3> QED
            BY <2>4, <3>2, <3>3
    <2>7. CASE ~Concerns(next)
        BY <1>2, <2>4, <2>7 DEF Deliver
    <2> QED
        BY <2>5, <2>6, <2>7
<1>3. CASE Lose
    <2>1. /\ UNCHANGED <<links, len, outgoing, heard>>
          /\ next' = next + 1 /\ next < Frames
        BY <1>3 DEF Lose
    <2>2. Frames' = Frames /\ Sorted(links')
        BY <1>t, <2>1 DEF Frames, Sorted
    <2>3. \A i \in Nat : Lists(i)' = Lists(i)
        BY <2>1 DEF Lists, Window, Start, End
    <2>4. LinkTypeOK'
        BY <1>t, <2>1, <2>2 DEF LinkTypeOK
    <2>5. HeardOK'
        BY <1>t, <2>1, <2>3 DEF HeardOK, ListedCostKept
    <2> QED
        BY <2>4, <2>5
<1>4. CASE ForgetReporter \/ EnterReporter
    <2>1. /\ UNCHANGED <<links, len, next>> /\ heard' = "nothing"
          /\ outgoing' \in Cost \cup {NoEntry}
        BY <1>4, LinkConstants DEF ForgetReporter, EnterReporter
    <2>2. Frames' = Frames /\ Sorted(links')
        BY <1>t, <2>1 DEF Frames, Sorted
    <2>3. LinkTypeOK'
        BY <1>t, <2>1, <2>2 DEF LinkTypeOK
    <2> QED
        BY <2>1, <2>3 DEF HeardOK
<1>5. CASE UNCHANGED linkVars
    <2>1. Frames' = Frames /\ Sorted(links')
        BY <1>t, <1>5 DEF linkVars, Frames, Sorted
    <2>2. LinkTypeOK'
        BY <1>5, <2>1 DEF linkVars, LinkTypeOK
    <2>3. HeardOK'
        BY <1>5 DEF linkVars, HeardOK, ListedCostKept, Lists, Window, Start, End
    <2> QED
        BY <2>2, <2>3
<1> QED
    BY <1>1, <1>2, <1>3, <1>4, <1>5 DEF LinkNext

\* The strengthened invariant holds in every reachable state.
THEOREM LinkInvariance == LinkSpec => []LinkInv
<1> QED
    BY LinkInitInvariant, LinkNextInvariant, PTL DEF LinkSpec

\* Every variable keeps its type.
THEOREM LinkTypeCorrect == LinkSpec => []LinkTypeOK
<1>1. LinkInv => LinkTypeOK
    BY DEF LinkInv
<1> QED
    BY <1>1, LinkInvariance, PTL

\* The cost a receiver was told is not overwritten by the rest of the report,
\* whatever is lost of it.
THEOREM CostKept == LinkSpec => []ListedCostKept
<1>1. LinkInv => ListedCostKept
    BY DEF LinkInv, HeardOK, ListedCostKept
<1> QED
    BY <1>1, LinkInvariance, PTL

\* Successive commands that are not empty share an entry.
LEMMA SharedEntry == LinkTypeOK => Chained
<1> SUFFICES ASSUME LinkTypeOK, NEW i \in 0..Frames, Window(i + 1) # {}
             PROVE  End(i) = Start(i + 1)
    BY DEF Chained
<1>1. links \in Seq(Link) /\ i \in Nat /\ i + 1 \in Nat /\ Len(links) \in Nat
    BY FramesType DEF LinkTypeOK
<1>2. i * Stride \in Nat /\ Start(i + 1) \in 1..Len(links)
    BY <1>1, WindowInTable
<1>3. (i + 1) * Stride = i * Stride + Stride
    BY <1>1, StrideType, Z3
<1> QED
    BY <1>1, <1>2, <1>3, StrideType DEF Start, End

\* The continuation of a report starts where the command before it ended.
THEOREM ReportsChained == LinkSpec => []Chained
<1> QED
    BY SharedEntry, LinkTypeCorrect, PTL

-----------------------------------------------------------------------------
(* Transmit. *)

\* Every counter on the air is one already given out.
AiredOK == \A c \in aired : c < counter

\* The frame the periodic task holds through its jitter is not on the air, and
\* its counter is given out.
HeldOK == pc["periodic"] = "jitter" => held < counter /\ held \notin aired

\* Two futures that wait at the same time have overlapped.
BothOverlap ==
    \A f, g \in Future :
        f # g /\ pc[f] = "waiting" /\ pc[g] = "waiting" => overlapped[f]

TransmitInv ==
    /\ TransmitTypeOK
    /\ AiredOK
    /\ HeldOK
    /\ BothOverlap
    /\ StuckOnlyByOverlap

-----------------------------------------------------------------------------
\* What handing a frame to the radio does to everything but the counters.

\* A frame the radio took is still to be completed.
LEMMA ArmedType ==
    ASSUME TransmitTypeOK, NEW armed \in Armed
    PROVE  /\ armed.radio \in 0..MaxPending /\ armed.radio > 0
           /\ armed.signal \in BOOLEAN
<1>1. radio \in 0..MaxPending /\ MaxPending \in Nat \ {0}
    BY CounterAssumption DEF TransmitTypeOK
<1>2. Busy \subseteq {r \in 0..MaxPending : r > 0}
    BY <1>1 DEF Busy
<1>3. CASE armed \in [radio : Busy, signal : {FALSE}]
    BY <1>2, <1>3
<1>4. CASE radio > 0 /\ armed = [radio |-> radio, signal |-> TRUE]
    BY <1>1, <1>4
<1> QED
    BY <1>3, <1>4 DEF Armed

\* Handing a frame to the radio keeps the types and airs no other counter.
LEMMA HandOverType ==
    ASSUME TransmitTypeOK, NEW f \in Future, NEW counters, HandOver(f, counters)
    PROVE  /\ signal' \in BOOLEAN
           /\ radio' \in 0..MaxPending
           /\ overlapped' \in [Future -> BOOLEAN]
           /\ aired' \subseteq aired \cup counters
           /\ pc' = [pc EXCEPT ![f] = "idle"] \/ pc' = [pc EXCEPT ![f] = "waiting"]
<1>1. /\ signal' \in BOOLEAN
      /\ radio' \in 0..MaxPending
      /\ aired' \subseteq aired \cup counters
      /\ pc' = [pc EXCEPT ![f] = "idle"] \/ pc' = [pc EXCEPT ![f] = "waiting"]
    <2>1. CASE pc' = [pc EXCEPT ![f] = "idle"] /\ signal' = FALSE
               /\ radio' \in {0, radio} /\ UNCHANGED aired
        <3>1. radio' \in 0..MaxPending
            BY <2>1, CounterAssumption DEF TransmitTypeOK
        <3> QED
            BY <2>1, <3>1
    <2>2. CASE /\ pc' = [pc EXCEPT ![f] = "waiting"]
               /\ \E armed \in Armed : radio' = armed.radio /\ signal' = armed.signal
               /\ aired' = aired \cup counters
        BY <2>2, ArmedType
    <2> QED
        BY <2>1, <2>2 DEF HandOver
<1>2. overlapped' \in [Future -> BOOLEAN]
    BY DEF HandOver, TransmitTypeOK
<1> QED
    BY <1>1, <1>2

\* A future that goes to wait alone is owed a completion; one that already
\* waits is overlapped from now on.
LEMMA HandOverWaits ==
    ASSUME TransmitTypeOK, NEW f \in Future, NEW counters, HandOver(f, counters)
    PROVE  BothOverlap' /\ StuckOnlyByOverlap'
<1>1. pc \in [Future -> {"idle", "jitter", "waiting"}]
    BY DEF TransmitTypeOK
<1>2. \A g \in Future : g # f => pc'[g] = pc[g]
    BY <1>1, HandOverType
<1>3. \A g \in Future : g # f /\ pc[g] = "waiting" => overlapped'[g]
    BY DEF HandOver
<1>4. (\E h \in Future \ {f} : pc[h] = "waiting") => overlapped'[f]
    BY DEF HandOver
<1>5. BothOverlap'
    BY <1>2, <1>3, <1>4 DEF BothOverlap
<1>6. pc'[f] = "waiting" => radio' > 0
    <2>1. pc'[f] = "waiting" => pc' # [pc EXCEPT ![f] = "idle"]
        BY <1>1
    <2> QED
        BY <2>1, ArmedType DEF HandOver
<1>7. radio' > 0 => radio' # 0
    BY HandOverType, CounterAssumption
<1>8. StuckOnlyByOverlap'
    BY <1>2, <1>3, <1>6, <1>7 DEF StuckOnlyByOverlap
<1> QED
    BY <1>5, <1>8

-----------------------------------------------------------------------------
\* The invariant is inductive.

\* The initial states satisfy the invariant.
LEMMA TransmitInitInvariant == TransmitInit => TransmitInv
<1> SUFFICES ASSUME TransmitInit PROVE TransmitInv
    OBVIOUS
<1>1. \A f \in Future : pc[f] = "idle"
    BY DEF TransmitInit
<1>2. "listen" \in Future /\ "periodic" \in Future
    BY DEF Future
<1>3. TransmitTypeOK
    <2>1. counter \in 0..MaxCounter /\ radio \in 0..MaxPending /\ held \in Nat
        BY CounterAssumption DEF TransmitInit
    <2>2. overlapped \in [Future -> BOOLEAN]
        BY DEF TransmitInit
    <2>3. pc \in [Future -> {"idle", "jitter", "waiting"}] /\ pc["listen"] # "jitter"
        BY <1>1, <1>2 DEF TransmitInit
    <2>4. cancelable \in BOOLEAN /\ signal \in BOOLEAN /\ panicked \in BOOLEAN
        BY DEF TransmitInit
    <2>5. aired \subseteq Nat
        BY DEF TransmitInit
    <2> QED
        BY <2>1, <2>2, <2>3, <2>4, <2>5 DEF TransmitTypeOK
<1>4. AiredOK /\ HeldOK /\ BothOverlap /\ StuckOnlyByOverlap
    BY <1>1, <1>2 DEF TransmitInit, AiredOK, HeldOK, BothOverlap, StuckOnlyByOverlap
<1> QED
    BY <1>3, <1>4 DEF TransmitInv

\* Every step preserves the invariant.
LEMMA TransmitNextInvariant == TransmitInv /\ [TransmitNext]_transmitVars => TransmitInv'
<1> SUFFICES ASSUME TransmitInv, [TransmitNext]_transmitVars PROVE TransmitInv'
    OBVIOUS
<1> USE CounterAssumption
<1>t. TransmitTypeOK /\ AiredOK /\ HeldOK /\ BothOverlap /\ StuckOnlyByOverlap
    BY DEF TransmitInv
<1>c. counter \in Nat /\ aired \subseteq Nat /\ held \in Nat
    BY <1>t DEF TransmitTypeOK
<1>f. "listen" \in Future /\ "periodic" \in Future /\ "listen" # "periodic"
    BY DEF Future
<1>p. pc \in [Future -> {"idle", "jitter", "waiting"}]
    BY <1>t DEF TransmitTypeOK
<1>1. CASE Answer
    <2>1. /\ HandOver("listen", {counter}) /\ counter' = counter + 1
          /\ counter # MaxCounter /\ cancelable' \in BOOLEAN
          /\ UNCHANGED <<held, panicked>>
        BY <1>1 DEF Answer, CounterLeft, NextCounter
    <2>2. /\ signal' \in BOOLEAN /\ radio' \in 0..MaxPending
          /\ overlapped' \in [Future -> BOOLEAN]
          /\ aired' \subseteq aired \cup {counter}
          /\ \/ pc' = [pc EXCEPT !["listen"] = "idle"]
             \/ pc' = [pc EXCEPT !["listen"] = "waiting"]
        BY <1>t, <1>f, <2>1, HandOverType
    <2>3. TransmitTypeOK'
        BY <1>t, <1>f, <2>1, <2>2 DEF TransmitTypeOK
    <2>4. AiredOK'
        BY <1>t, <1>c, <2>1, <2>2 DEF AiredOK
    <2>5. HeldOK'
        <3>1. pc'["periodic"] = pc["periodic"]
            BY <1>p, <1>f, <2>2
        <3> QED
            BY <1>t, <1>c, <2>1, <2>2, <3>1 DEF HeldOK
    <2>6. BothOverlap' /\ StuckOnlyByOverlap'
        BY <1>t, <1>f, <2>1, HandOverWaits
    <2> QED
        BY <2>3, <2>4, <2>5, <2>6 DEF TransmitInv
<1>2. CASE AnswerInClear
    <2>1. /\ HandOver("listen", {}) /\ cancelable' = TRUE
          /\ UNCHANGED <<counter, held, panicked>>
        BY <1>2 DEF AnswerInClear
    <2>2. /\ signal' \in BOOLEAN /\ radio' \in 0..MaxPending
          /\ overlapped' \in [Future -> BOOLEAN]
          /\ aired' \subseteq aired
          /\ \/ pc' = [pc EXCEPT !["listen"] = "idle"]
             \/ pc' = [pc EXCEPT !["listen"] = "waiting"]
        BY <1>t, <1>f, <2>1, HandOverType
    <2>3. TransmitTypeOK'
        BY <1>t, <1>f, <2>1, <2>2 DEF TransmitTypeOK
    <2>4. AiredOK'
        BY <1>t, <2>1, <2>2 DEF AiredOK
    <2>5. HeldOK'
        <3>1. pc'["periodic"] = pc["periodic"]
            BY <1>p, <1>f, <2>2
        <3> QED
            BY <1>t, <2>1, <2>2, <3>1 DEF HeldOK
    <2>6. BothOverlap' /\ StuckOnlyByOverlap'
        BY <1>t, <1>f, <2>1, HandOverWaits
    <2> QED
        BY <2>3, <2>4, <2>5, <2>6 DEF TransmitInv
<1>3. CASE Prepare
    <2>1. /\ counter' = counter + 1 /\ counter # MaxCounter /\ held' = counter
          /\ pc' = [pc EXCEPT !["periodic"] = "jitter"]
          /\ UNCHANGED <<cancelable, signal, radio, panicked, aired, overlapped>>
        BY <1>3 DEF Prepare, CounterLeft, NextCounter
    <2>2. TransmitTypeOK'
        BY <1>t, <1>f, <2>1 DEF TransmitTypeOK
    <2>3. AiredOK' /\ HeldOK'
        BY <1>t, <1>c, <2>1 DEF AiredOK, HeldOK
    <2>4. BothOverlap' /\ StuckOnlyByOverlap'
        BY <1>t, <1>p, <1>f, <2>1 DEF BothOverlap, StuckOnlyByOverlap
    <2> QED
        BY <2>2, <2>3, <2>4 DEF TransmitInv
<1>4. CASE Exhausted
    BY <1>t, <1>4 DEF Exhausted, TransmitInv, TransmitTypeOK, AiredOK, HeldOK, BothOverlap,
                      StuckOnlyByOverlap
<1>5. CASE Send
    <2>1. /\ HandOver("periodic", {held}) /\ pc["periodic"] = "jitter"
          /\ UNCHANGED <<counter, held, cancelable, panicked>>
        BY <1>5 DEF Send
    <2>2. /\ signal' \in BOOLEAN /\ radio' \in 0..MaxPending
          /\ overlapped' \in [Future -> BOOLEAN]
          /\ aired' \subseteq aired \cup {held}
          /\ \/ pc' = [pc EXCEPT !["periodic"] = "idle"]
             \/ pc' = [pc EXCEPT !["periodic"] = "waiting"]
        BY <1>t, <1>f, <2>1, HandOverType
    <2>3. TransmitTypeOK'
        BY <1>t, <1>f, <2>1, <2>2 DEF TransmitTypeOK
    <2>4. AiredOK'
        BY <1>t, <2>1, <2>2 DEF AiredOK, HeldOK
    <2>5. HeldOK'
        BY <1>p, <1>f, <2>2 DEF HeldOK
    <2>6. BothOverlap' /\ StuckOnlyByOverlap'
        BY <1>t, <1>f, <2>1, HandOverWaits
    <2> QED
        BY <2>3, <2>4, <2>5, <2>6 DEF TransmitInv
<1>6. CASE TxDone
    <2>1. /\ radio > 0 /\ radio' = radio - 1 /\ signal' = TRUE
          /\ UNCHANGED <<counter, pc, held, cancelable, panicked, aired, overlapped>>
        BY <1>6 DEF TxDone
    <2>2. TransmitTypeOK'
        BY <1>t, <2>1 DEF TransmitTypeOK
    <2>3. AiredOK' /\ HeldOK' /\ BothOverlap' /\ StuckOnlyByOverlap'
        BY <1>t, <2>1 DEF AiredOK, HeldOK, BothOverlap, StuckOnlyByOverlap
    <2> QED
        BY <2>2, <2>3 DEF TransmitInv
<1>7. ASSUME NEW f \in Future, Woken(f) PROVE TransmitInv'
    <2>1. /\ pc[f] = "waiting" /\ pc' = [pc EXCEPT ![f] = "idle"] /\ signal' = FALSE
          /\ UNCHANGED <<counter, held, cancelable, radio, panicked, aired, overlapped>>
        BY <1>7 DEF Woken
    <2>2. TransmitTypeOK'
        BY <1>t, <1>f, <2>1 DEF TransmitTypeOK
    <2>3. \A g \in Future : pc'[g] = "waiting" => g # f /\ pc[g] = "waiting"
        BY <1>p, <2>1
    <2>4. AiredOK' /\ HeldOK'
        BY <1>t, <1>p, <1>f, <2>1 DEF AiredOK, HeldOK
    <2>5. \A g \in Future : pc'[g] = "waiting" => overlapped'[g]
        BY <1>t, <2>1, <2>3 DEF BothOverlap
    <2>6. BothOverlap' /\ StuckOnlyByOverlap'
        BY <2>5 DEF BothOverlap, StuckOnlyByOverlap
    <2> QED
        BY <2>2, <2>4, <2>6 DEF TransmitInv
<1>8. CASE Cancel
    <2>1. /\ pc' = [pc EXCEPT !["listen"] = "idle"]
          /\ UNCHANGED <<counter, held, cancelable, signal, radio, panicked, aired,
                         overlapped>>
        BY <1>8 DEF Cancel
    <2>2. TransmitTypeOK'
        BY <1>t, <1>f, <2>1 DEF TransmitTypeOK
    <2>3. AiredOK' /\ HeldOK' /\ BothOverlap' /\ StuckOnlyByOverlap'
        BY <1>t, <1>p, <1>f, <2>1 DEF AiredOK, HeldOK, BothOverlap, StuckOnlyByOverlap
    <2> QED
        BY <2>2, <2>3 DEF TransmitInv
<1>9. CASE Reinstall
    <2>1. /\ counter' = 0 /\ aired' = {} /\ pc' = [pc EXCEPT !["periodic"] = "idle"]
          /\ UNCHANGED <<held, cancelable, signal, radio, panicked, overlapped>>
        BY <1>9 DEF Reinstall
    <2>2. TransmitTypeOK'
        BY <1>t, <1>f, <2>1 DEF TransmitTypeOK
    <2>3. AiredOK' /\ HeldOK' /\ BothOverlap' /\ StuckOnlyByOverlap'
        BY <1>t, <1>p, <1>f, <2>1 DEF AiredOK, HeldOK, BothOverlap, StuckOnlyByOverlap
    <2> QED
        BY <2>2, <2>3 DEF TransmitInv
<1>10. CASE UNCHANGED transmitVars
    BY <1>t, <1>10 DEF transmitVars, TransmitInv, TransmitTypeOK, AiredOK, HeldOK, BothOverlap,
                       StuckOnlyByOverlap
<1> QED
    BY <1>1, <1>2, <1>3, <1>4, <1>5, <1>6, <1>7, <1>8, <1>9, <1>10 DEF TransmitNext

\* The strengthened invariant holds in every reachable state.
THEOREM TransmitInvariance == TransmitSpec => []TransmitInv
<1> QED
    BY TransmitInitInvariant, TransmitNextInvariant, PTL DEF TransmitSpec

\* Every variable keeps its type; the counter stops at its limit.
THEOREM TransmitTypeCorrect == TransmitSpec => []TransmitTypeOK
<1>1. TransmitInv => TransmitTypeOK
    BY DEF TransmitInv
<1> QED
    BY <1>1, TransmitInvariance, PTL

\* No counter goes on the air twice under one installation of the key.
THEOREM NoCounterReused == TransmitSpec => []CountersFresh
<1>1. TransmitInv => CountersFresh
    <2> SUFFICES ASSUME TransmitInv PROVE CountersFresh
        OBVIOUS
    <2>1. counter \in Nat /\ held \in Nat /\ aired \subseteq Nat
        BY CounterAssumption DEF TransmitInv, TransmitTypeOK
    <2> QED
        BY <2>1 DEF TransmitInv, AiredOK, HeldOK, CountersFresh
<1> QED
    BY <1>1, TransmitInvariance, PTL

\* A completion is lost to its waiter only where two transmissions overlapped.
THEOREM LostOnlyByOverlap == TransmitSpec => []StuckOnlyByOverlap
<1>1. TransmitInv => StuckOnlyByOverlap
    BY DEF TransmitInv
<1> QED
    BY <1>1, TransmitInvariance, PTL
=============================================================================
