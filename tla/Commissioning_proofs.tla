-------------------------- MODULE Commissioning_proofs --------------------------
(***************************************************************************)
(* Proofs about Commissioning: type correctness, that a node on a          *)
(* centralized network holds a verified link key, that such a key is the   *)
(* one the trust center verified, and that it implements Membership.       *)
(***************************************************************************)
EXTENDS Commissioning, TLAPS

\* Network keys on their way name the kind of network there is.
AirOK ==
    \A f \in air : f.msg.kind = "NwkKey" => f.msg.topology = topology

\* Once it has the network key, the node knows what kind of network it is on.
ParamsOK ==
    phase \notin Unjoined \cup {"NwkKey"} => params = topology

\* From the last step of try_authenticate on, the key is verified.
SettledOK ==
    phase \in {"PermitJoin", "Joined", "Leaving"} /\ topology = "Centralized"
        => link.attr = "Verified"

\* While the node associates, the scan has left it a network to try.
NetsOK == phase = "Associate" => nets > 0

IInv == TypeOK /\ AirOK /\ ParamsOK /\ SettledOK /\ NetsOK

-----------------------------------------------------------------------------
\* What a message put on the air leaves there: frames it found, and itself.
LEMMA PutOK ==
    ASSUME NEW m \in Message, NEW frames \in SUBSET Frame, Put(m, frames)
    PROVE  /\ air' \subseteq Frame
           /\ \A f \in air' : f \in frames \/ f.msg = m
<1>1. [msg |-> m, late |-> FALSE] \in Frame
    BY DEF Frame
<1>2. [msg |-> m, late |-> FALSE].msg = m
    OBVIOUS
<1>3. PICK others \in SUBSET frames :
        air' = others \cup {[msg |-> m, late |-> FALSE]}
    BY DEF Put
<1>4. air' \subseteq Frame
    BY <1>1, <1>3
<1>5. \A f \in air' : f \in frames \/ f.msg = m
    BY <1>2, <1>3
<1> QED
    BY <1>4, <1>5

\* A frame received stays on the air or goes, and adds nothing.
LEMMA ReceiveOK ==
    ASSUME NEW f, Receive(f)
    PROVE  air' \subseteq air
BY DEF Receive

\* The frames of the attempt before this one are those that were on the air.
LEMMA LateOK ==
    ASSUME air \subseteq Frame
    PROVE  /\ Late \subseteq Frame
           /\ \A f \in Late : \E g \in air : f.msg = g.msg
<1>1. ASSUME NEW g \in air
      PROVE  /\ [g EXCEPT !.late = TRUE] \in Frame
             /\ [g EXCEPT !.late = TRUE].msg = g.msg
    BY DEF Frame
<1> QED
    BY <1>1 DEF Late, Frame

\* An attempt that failed leaves the node scanning or asleep.
LEMMA NextAttemptOK ==
    ASSUME NextAttempt(channels)
    PROVE  /\ phase' \in {"Scan", "Sleep"}
           /\ channels' \in {"Primary", "Secondary"}
BY DEF NextAttempt

\* The node drops its keys to what a new Aps starts with.
LEMMA ForgetOK ==
    ASSUME ForgetNetwork
    PROVE  /\ authorized' \in BOOLEAN
           /\ params' \in {"Centralized", "Distributed"}
           /\ link' \in Link
BY DEF ForgetNetwork, DefaultLink, Link, GlobalKey
-----------------------------------------------------------------------------
\* The initial states satisfy the invariant.
LEMMA InitIInv == Init => IInv
<1> SUFFICES ASSUME Init PROVE IInv
    OBVIOUS
<1> USE ConstantsAssumption DEF Init
<1>1. TypeOK
  <2>1. /\ phase \in Phase
        /\ link \in Link
      BY DEF Phase, Unjoined, DefaultLink, Link
  <2>2. /\ nets \in 0..MaxNets
        /\ tries \in 0..(MaxRetries - 1)
      OBVIOUS
  <2>3. tc \in [handedOut : TcKey \cup {NoKey}, verified : TcKey \cup {NoKey}]
      OBVIOUS
  <2> QED
      BY <2>1, <2>2, <2>3 DEF TypeOK
<1>2. AirOK /\ ParamsOK /\ SettledOK /\ NetsOK
    BY DEF AirOK, ParamsOK, SettledOK, NetsOK, Unjoined
<1> QED
    BY <1>1, <1>2 DEF IInv

\* A step that leaves the air as it is, or takes frames from it, keeps the
\* network keys on the air right.
LEMMA AirShrinks ==
    ASSUME AirOK, air' \subseteq air, UNCHANGED topology
    PROVE  AirOK'
BY DEF AirOK

\* So does one that sends a frame that carries no network key.
LEMMA AirGrows ==
    ASSUME TypeOK, AirOK, NEW m \in Message, Send(m), m.kind # "NwkKey",
           UNCHANGED topology
    PROVE  air' \subseteq Frame /\ AirOK'
<1>1. /\ air' \subseteq Frame
      /\ \A f \in air' : f \in air \/ f.msg = m
    BY PutOK DEF Send, TypeOK
<1> QED
    BY <1>1 DEF AirOK

\* Every step of steering keeps the invariant.
LEMMA SteeringIInv ==
    ASSUME IInv,
           \/ ScanFindsNothing \/ ScanFindsNetworks \/ Associated
           \/ NotAssociated \/ Sleep
    PROVE  IInv'
<1> USE ConstantsAssumption DEF IInv
<1>1. CASE ScanFindsNothing
    BY <1>1, NextAttemptOK, AirShrinks
       DEF ScanFindsNothing, TypeOK, ParamsOK, SettledOK, NetsOK, Phase, Unjoined
<1>2. CASE ScanFindsNetworks
    BY <1>2, AirShrinks
       DEF ScanFindsNetworks, TypeOK, ParamsOK, SettledOK, NetsOK, Phase, Unjoined
<1>3. CASE Associated
  <2> DEFINE m == [kind |-> "NwkKey", under |-> GlobalKey, topology |-> topology]
  <2>1. m \in Message
      BY DEF Message, TypeOK
  <2>2. m.topology = topology
      OBVIOUS
  <2>3. Late \subseteq Frame /\ \A f \in Late : \E g \in air : f.msg = g.msg
      BY LateOK DEF TypeOK
  <2>4. Put(m, Late)
      BY <1>3 DEF Associated
  <2>5. air' \subseteq Frame /\ \A f \in air' : f \in Late \/ f.msg = m
    <3> HIDE DEF m
    <3> QED
      BY <2>1, <2>3, <2>4, PutOK
  <2>6. AirOK'
    <3> HIDE DEF m
    <3> QED
      BY <1>3, <2>2, <2>3, <2>5 DEF AirOK, Associated
  <2>7. TypeOK'
      BY <1>3, <2>5 DEF Associated, TypeOK, Phase, Waiting
  <2>8. ParamsOK' /\ SettledOK' /\ NetsOK'
      BY <1>3 DEF Associated, ParamsOK, SettledOK, NetsOK
  <2> QED
      BY <2>6, <2>7, <2>8
<1>4. CASE NotAssociated
  <2>1. AirOK'
      BY <1>4, AirShrinks DEF NotAssociated
  <2>2. TypeOK'
    <3>1. /\ tries' \in 0..(MaxRetries - 1)
          /\ nets' \in 0..MaxNets
      BY <1>4 DEF NotAssociated, LastTry, TypeOK, NetsOK
    <3> QED
      BY <1>4, <3>1, NextAttemptOK DEF NotAssociated, TypeOK, Phase, Unjoined
  <2>3. ParamsOK' /\ SettledOK'
      BY <1>4, NextAttemptOK DEF NotAssociated, ParamsOK, SettledOK, Unjoined
  <2>4. NetsOK'
      BY <1>4, NextAttemptOK DEF NotAssociated, LastTry, TypeOK, NetsOK
  <2> QED
      BY <2>1, <2>2, <2>3, <2>4
<1>5. CASE Sleep
    BY <1>5 DEF Sleep, TypeOK, AirOK, ParamsOK, SettledOK, NetsOK, Phase, Unjoined
<1> QED
    BY <1>1, <1>2, <1>3, <1>4, <1>5
\* Every step of try_authenticate keeps the invariant.
LEMMA AuthenticateIInv ==
    ASSUME IInv,
           \/ ReceiveNwkKey \/ NwkKeyTimeout \/ Announce \/ AnnounceFailed
           \/ RequestKey \/ ReceiveLinkKey \/ VerifyKey \/ ReceiveConfirm
           \/ LinkKeyFailed \/ LeaveAfterFailure \/ PermitJoin
    PROVE  IInv'
<1> USE DEF IInv
<1>1. CASE ReceiveNwkKey
  <2>1. PICK f \in air :
          f.msg.kind = "NwkKey" /\ Receive(f) /\ params' = f.msg.topology
      BY <1>1 DEF ReceiveNwkKey
  <2>2. air' \subseteq air
      BY <2>1, ReceiveOK
  <2>3. AirOK' /\ params' = topology
      BY <1>1, <2>1, <2>2, AirShrinks DEF AirOK, ReceiveNwkKey
  <2>4. TypeOK'
      BY <1>1, <2>2, <2>3 DEF ReceiveNwkKey, TypeOK, Phase, Sending
  <2> QED
      BY <1>1, <2>3, <2>4 DEF ReceiveNwkKey, ParamsOK, SettledOK, NetsOK
<1>2. CASE NwkKeyTimeout \/ AnnounceFailed \/ LeaveAfterFailure
  <2>1. /\ NextAttempt(channels)
        /\ ForgetNetwork
        /\ UNCHANGED <<nets, tries, topology, tc, air>>
      BY <1>2 DEF NwkKeyTimeout, AnnounceFailed, LeaveAfterFailure
  <2>2. TypeOK'
      BY <2>1, NextAttemptOK, ForgetOK DEF TypeOK, Phase, Unjoined
  <2> QED
      BY <2>1, <2>2, NextAttemptOK, AirShrinks
         DEF ParamsOK, SettledOK, NetsOK, Unjoined
<1>3. CASE Announce
    BY <1>3, AirShrinks
       DEF Announce, TypeOK, ParamsOK, SettledOK, NetsOK, Phase, Sending, Unjoined
<1>4. CASE RequestKey
  <2> DEFINE m == [kind |-> "Request", under |-> link.key]
  <2>1. m \in Message /\ m.kind # "NwkKey"
      BY DEF Message, TypeOK, Link
  <2>2. Send(m)
      BY <1>4 DEF RequestKey
  <2>3. air' \subseteq Frame /\ AirOK'
    <3> HIDE DEF m
    <3> QED
      BY <1>4, <2>1, <2>2, AirGrows DEF RequestKey
  <2> QED
      BY <1>4, <2>3
         DEF RequestKey, TypeOK, ParamsOK, SettledOK, NetsOK, Phase, Waiting, Unjoined
<1>5. CASE ReceiveLinkKey
  <2>1. PICK f \in air :
          /\ f.msg.kind = "LinkKey"
          /\ Receive(f)
          /\ link' = [key |-> f.msg.key, attr |-> "Unverified"]
      BY <1>5 DEF ReceiveLinkKey
  <2>2. air' \subseteq air
      BY <2>1, ReceiveOK
  <2>3. f.msg.key \in TcKey
      BY <2>1 DEF TypeOK, Frame, Message
  <2>4. link' \in Link
      BY <2>1, <2>3 DEF Link
  <2>5. TypeOK' /\ AirOK'
      BY <1>5, <2>2, <2>4, AirShrinks DEF ReceiveLinkKey, TypeOK, Phase, Sending
  <2> QED
      BY <1>5, <2>5 DEF ReceiveLinkKey, ParamsOK, SettledOK, NetsOK, Unjoined
<1>6. CASE VerifyKey
  <2> DEFINE m == [kind |-> "Verify", key |-> link.key]
  <2>1. m \in Message /\ m.kind # "NwkKey"
      BY DEF Message, TypeOK, Link
  <2>2. Send(m)
      BY <1>6 DEF VerifyKey
  <2>3. air' \subseteq Frame /\ AirOK'
    <3> HIDE DEF m
    <3> QED
      BY <1>6, <2>1, <2>2, AirGrows DEF VerifyKey
  <2> QED
      BY <1>6, <2>3
         DEF VerifyKey, TypeOK, ParamsOK, SettledOK, NetsOK, Phase, Waiting, Unjoined
<1>7. CASE ReceiveConfirm
  <2>1. PICK f \in air : Receive(f)
      BY <1>7 DEF ReceiveConfirm
  <2>2. air' \subseteq air
      BY <2>1, ReceiveOK
  <2>3. link' \in Link /\ link'.attr = "Verified"
    <3>1. link' = [link EXCEPT !.attr = "Verified"]
        BY <1>7 DEF ReceiveConfirm
    <3> QED
        BY <3>1 DEF TypeOK, Link
  <2>4. \/ phase = "Confirm" /\ phase' = "PermitJoin"
        \/ UNCHANGED phase
      BY <1>7 DEF ReceiveConfirm
  <2>5. TypeOK' /\ AirOK'
      BY <1>7, <2>2, <2>3, <2>4, AirShrinks DEF ReceiveConfirm, TypeOK, Phase, Sending
  <2> QED
      BY <1>7, <2>3, <2>4, <2>5
         DEF ReceiveConfirm, ParamsOK, SettledOK, NetsOK, Unjoined
<1>8. CASE LinkKeyFailed
    BY <1>8, AirShrinks
       DEF LinkKeyFailed, TypeOK, ParamsOK, SettledOK, NetsOK, Phase, Sending, Unjoined
<1>9. CASE PermitJoin
    BY <1>9, AirShrinks
       DEF PermitJoin, TypeOK, ParamsOK, SettledOK, NetsOK, Phase, OnNetwork, Unjoined
<1> QED
    BY <1>1, <1>2, <1>3, <1>4, <1>5, <1>6, <1>7, <1>8, <1>9
\* Nothing that happens on the network, or to its trust center, breaks the
\* invariant either.
LEMMA NetworkIInv ==
    ASSUME IInv, Leave \/ TcHandOut \/ TcConfirm
    PROVE  IInv'
<1> USE DEF IInv
<1>1. CASE LeaveRequested
    BY <1>1, AirShrinks
       DEF LeaveRequested, TypeOK, ParamsOK, SettledOK, NetsOK, Phase, OnNetwork, Unjoined
<1>2. CASE LeaveSelf
  <2>1. TypeOK'
      BY <1>2, ForgetOK DEF LeaveSelf, TypeOK, Phase, Unjoined
  <2> QED
      BY <1>2, <2>1, AirShrinks DEF LeaveSelf, ParamsOK, SettledOK, NetsOK, Unjoined
<1>3. CASE LeaveCancelled
    BY <1>3, AirShrinks
       DEF LeaveCancelled, TypeOK, ParamsOK, SettledOK, NetsOK, Phase, OnNetwork, Unjoined
<1>4. CASE TcHandOut
  <2>1. PICK f \in air, key \in UnusedKeys :
          /\ tc' = [tc EXCEPT !.handedOut = key]
          /\ Answer(f, [kind |-> "LinkKey", under |-> GlobalKey, key |-> key])
      BY <1>4 DEF TcHandOut
  <2>2. key \in TcKey
      BY DEF UnusedKeys
  <2> DEFINE m == [kind |-> "LinkKey", under |-> GlobalKey, key |-> key]
  <2>3. m \in Message /\ m.kind # "NwkKey"
      BY <2>2 DEF Message
  <2>4. Send(m)
      BY <2>1 DEF Answer, Send
  <2>5. air' \subseteq Frame /\ AirOK'
    <3> HIDE DEF m
    <3> QED
      BY <1>4, <2>3, <2>4, AirGrows DEF TcHandOut
  <2>6. TypeOK'
      BY <1>4, <2>1, <2>2, <2>5 DEF TcHandOut, TypeOK
  <2> QED
      BY <1>4, <2>5, <2>6 DEF TcHandOut, ParamsOK, SettledOK, NetsOK
<1>5. CASE TcConfirm
  <2>1. PICK f \in air :
          /\ f.msg.kind = "Verify"
          /\ f.msg.key = tc.handedOut
          /\ tc' = [tc EXCEPT !.verified = f.msg.key]
          /\ Answer(f, [kind |-> "Confirm", under |-> f.msg.key])
      BY <1>5 DEF TcConfirm
  <2>2. f.msg.key \in TcKey
    <3>1. f.msg.key \in {GlobalKey} \cup TcKey
        BY <2>1 DEF TypeOK, Frame, Message
    <3>2. f.msg.key \in TcKey \cup {NoKey}
        BY <2>1 DEF TypeOK
    <3>3. GlobalKey \notin TcKey \cup {NoKey}
        BY ConstantsAssumption DEF GlobalKey, TcKey, NoKey
    <3> QED
        BY <3>1, <3>2, <3>3
  <2> DEFINE m == [kind |-> "Confirm", under |-> f.msg.key]
  <2>3. m \in Message /\ m.kind # "NwkKey"
      BY <2>2 DEF Message
  <2>4. Send(m)
      BY <2>1 DEF Answer, Send
  <2>5. air' \subseteq Frame /\ AirOK'
    <3> HIDE DEF m
    <3> QED
      BY <1>5, <2>3, <2>4, AirGrows DEF TcConfirm
  <2>6. TypeOK'
      BY <1>5, <2>1, <2>2, <2>5 DEF TcConfirm, TypeOK
  <2> QED
      BY <1>5, <2>5, <2>6 DEF TcConfirm, ParamsOK, SettledOK, NetsOK
<1> QED
    BY <1>1, <1>2, <1>3, <1>4, <1>5 DEF Leave

\* Every step preserves the invariant.
LEMMA NextIInv == IInv /\ [Next]_vars => IInv'
<1>1. ASSUME IInv, Next PROVE IInv'
    BY <1>1, SteeringIInv, AuthenticateIInv, NetworkIInv DEF Next, Succeed, Fail
<1>2. ASSUME IInv, UNCHANGED vars PROVE IInv'
    BY <1>2 DEF IInv, TypeOK, AirOK, ParamsOK, SettledOK, NetsOK, vars
<1> QED
    BY <1>1, <1>2

-----------------------------------------------------------------------------
\* The invariant holds in every state the node reaches, however its frames
\* are lost, repeated or late (zdo/mod.rs:361-640).
THEOREM Invariance == Spec => []IInv
BY InitIInv, NextIInv, PTL DEF Spec

\* Every variable has its type, whatever the bounds (zdo/mod.rs:361-640,
\* aps/ctx.rs:150-214).
THEOREM TypeCorrect == Spec => []TypeOK
<1>1. IInv => TypeOK
    BY DEF IInv
<1> QED
    BY Invariance, <1>1, PTL

\* A node that considers itself on a centralized network holds a verified key:
\* no way through try_authenticate skips a step (zdo/mod.rs:502-538).
THEOREM JoinedVerified == Spec => []JoinedIsVerified
<1>1. IInv => JoinedIsVerified
    BY DEF IInv, SettledOK, JoinedIsVerified, OnNetwork
<1> QED
    BY Invariance, <1>1, PTL

-----------------------------------------------------------------------------
\* The account of the keys: which of them may still be confirmed.

Confirmed(k) == \E f \in air : f.msg.kind = "Confirm" /\ f.msg.under = k

ToVerify(k) == \E f \in air : f.msg.kind = "Verify" /\ f.msg.key = k

\* The trust center verified k, and nothing on its way can make it verify another.
Settled(k) == tc.verified = k /\ (ToVerify(tc.handedOut) => tc.handedOut = k)

\* The phases of an attempt in which its own key has not been put to the test.
PreVerify == {"NwkKey", "Announce", "RequestKey", "LinkKey", "VerifyKey"}

HeldOK == link.attr = "Verified" => Settled(link.key)

\* The key the node has is confirmed only if it is settled.
ConfirmedOK == Confirmed(link.key) => Settled(link.key)

\* So is any key that this attempt or the next one may still take.
ComingOK ==
    \A f \in air :
        f.msg.kind = "LinkKey" /\ (phase \in PreVerify \/ ~f.late)
            /\ Confirmed(f.msg.key) => Settled(f.msg.key)

\* A key handed out in this attempt is put to the test by the node only.
NewOK ==
    phase \in PreVerify =>
        \A f \in air :
            f.msg.kind = "LinkKey" /\ ~f.late
                => ~Confirmed(f.msg.key) /\ ~ToVerify(f.msg.key)

KeysOK == HeldOK /\ ConfirmedOK /\ ComingOK /\ NewOK

\* Without the network key the node knows nothing of the network.
AwayOK ==
    IF phase \in Unjoined \cup {"NwkKey"}
    THEN ~authorized /\ params = "Distributed"
    ELSE authorized

\* The link key is the default one until the trust center's has arrived.
EarlyOK ==
    phase \in Unjoined \cup {"NwkKey", "Announce", "RequestKey", "LinkKey"}
        => link = DefaultLink

AllInv == IInv /\ KeysOK /\ AwayOK /\ EarlyOK

\* A step that adds neither a link key nor a request to verify one nor a
\* confirmation leaves what is settled settled, and the account right.
LEMMA QuietKeys ==
    ASSUME KeysOK, UNCHANGED <<tc, link>>,
           \A f \in air' : f \in air \/ f.msg.kind \in {"NwkKey", "Request"},
           phase' \in PreVerify => phase \in PreVerify
    PROVE  KeysOK'
<1>1. \A k : (Confirmed(k)' => Confirmed(k)) /\ (ToVerify(k)' => ToVerify(k))
    BY DEF Confirmed, ToVerify
<1>2. \A k : Settled(k) => Settled(k)'
    BY <1>1 DEF Settled
<1>3. HeldOK' /\ ConfirmedOK'
    BY <1>1, <1>2 DEF KeysOK, HeldOK, ConfirmedOK
<1>4. \A f \in air' : f.msg.kind = "LinkKey" => f \in air
    OBVIOUS
<1>5. ComingOK'
  <2> SUFFICES ASSUME NEW f \in air', f.msg.kind = "LinkKey",
                      phase' \in PreVerify \/ ~f.late, Confirmed(f.msg.key)'
               PROVE  Settled(f.msg.key)'
      BY DEF ComingOK
  <2>1. f \in air /\ Confirmed(f.msg.key)
      BY <1>1, <1>4
  <2>2. Settled(f.msg.key)
      BY <2>1 DEF KeysOK, ComingOK
  <2> QED
      BY <1>2, <2>2
<1>6. NewOK'
    BY <1>1, <1>4 DEF KeysOK, NewOK
<1> QED
    BY <1>3, <1>5, <1>6 DEF KeysOK

\* No confirmation comes under the global key.
LEMMA NeverGlobal ==
    ASSUME TypeOK
    PROVE  ~Confirmed(GlobalKey)
<1>1. \A f \in air : f.msg.kind = "Confirm" => f.msg.under \in TcKey
    BY DEF TypeOK, Frame, Message
<1>2. GlobalKey \notin TcKey
    BY DEF GlobalKey, TcKey
<1> QED
    BY <1>1, <1>2 DEF Confirmed

\* Forgetting the network keeps the account right: the node waits for nothing.
LEMMA ForgetKeys ==
    ASSUME TypeOK, KeysOK, ForgetNetwork, UNCHANGED <<tc, air>>, phase' \notin PreVerify
    PROVE  KeysOK'
<1>1. link'.key = GlobalKey /\ link'.attr = "Provisional"
    BY DEF ForgetNetwork, DefaultLink
<1>2. \A k : (Confirmed(k)' <=> Confirmed(k)) /\ (Settled(k)' <=> Settled(k))
    BY DEF Confirmed, ToVerify, Settled
<1>3. ConfirmedOK' /\ HeldOK'
    BY <1>1, <1>2, NeverGlobal DEF ConfirmedOK, HeldOK
<1>4. ComingOK'
  <2> SUFFICES ASSUME NEW f \in air', f.msg.kind = "LinkKey",
                      phase' \in PreVerify \/ ~f.late, Confirmed(f.msg.key)'
               PROVE  Settled(f.msg.key)'
      BY DEF ComingOK
  <2>1. f \in air /\ ~f.late /\ Confirmed(f.msg.key)
      BY <1>2
  <2>2. Settled(f.msg.key)
      BY <2>1 DEF KeysOK, ComingOK
  <2> QED
      BY <1>2, <2>2
<1> QED
    BY <1>3, <1>4 DEF KeysOK, NewOK

\* A key the trust center draws is one nobody speaks of.
LEMMA UnusedOK ==
    ASSUME NEW k \in UnusedKeys
    PROVE  k \in TcKey /\ ~Confirmed(k) /\ ~ToVerify(k)
BY DEF UnusedKeys, Confirmed, ToVerify


\* The frames of the attempt before this one, and this one's network key, are
\* all there is when an association succeeds.
LEMMA AssociatedKeys ==
    ASSUME TypeOK, KeysOK, Associated
    PROVE  KeysOK'
<1> DEFINE m == [kind |-> "NwkKey", under |-> GlobalKey, topology |-> topology]
<1>1. \A f \in air' : f.msg.kind = "NwkKey" \/ \E g \in air : ~g.late /\ f.late /\ f.msg = g.msg
  <2>1. PICK others \in SUBSET Late : air' = others \cup {[msg |-> m, late |-> FALSE]}
      BY DEF Associated, Put
  <2>2. [msg |-> m, late |-> FALSE].msg.kind = "NwkKey"
      OBVIOUS
  <2>3. ASSUME NEW f \in Late
        PROVE  \E g \in air : ~g.late /\ f.late /\ f.msg = g.msg
    <3>1. PICK g \in air : ~g.late /\ f = [g EXCEPT !.late = TRUE]
        BY DEF Late
    <3>2. f.late /\ f.msg = g.msg
        BY <3>1 DEF TypeOK, Frame
    <3> QED
        BY <3>1, <3>2
  <2>4. ASSUME NEW f \in air'
        PROVE  f \in Late \/ f.msg.kind = "NwkKey"
      BY <2>1, <2>2
  <2> QED
      BY <2>3, <2>4
<1>2. UNCHANGED <<tc, link>> /\ phase' = "NwkKey"
    BY DEF Associated
<1> HIDE DEF m
<1>3. \A k : (Confirmed(k)' => Confirmed(k)) /\ (ToVerify(k)' => ToVerify(k))
    BY <1>1 DEF Confirmed, ToVerify
<1>4. \A k : Settled(k) => Settled(k)'
    BY <1>2, <1>3 DEF Settled
<1>5. HeldOK' /\ ConfirmedOK'
    BY <1>2, <1>3, <1>4 DEF KeysOK, HeldOK, ConfirmedOK
<1>6. ComingOK'
  <2> SUFFICES ASSUME NEW g \in air', g.msg.kind = "LinkKey",
                      phase' \in PreVerify \/ ~g.late, Confirmed(g.msg.key)'
               PROVE  Settled(g.msg.key)'
      BY DEF ComingOK
  <2>1. PICK f \in air : ~f.late /\ g.msg = f.msg
      BY <1>1
  <2>2. Settled(g.msg.key)
      BY <1>3, <2>1 DEF KeysOK, ComingOK
  <2> QED
      BY <1>4, <2>2
<1>7. NewOK'
    BY <1>1 DEF NewOK
<1> QED
    BY <1>5, <1>6, <1>7 DEF KeysOK

\* The key the node takes was not confirmed before it asks for that, unless it
\* is the settled one.
LEMMA ReceiveLinkKeyKeys ==
    ASSUME KeysOK, ReceiveLinkKey
    PROVE  KeysOK'
<1>1. PICK f \in air :
        /\ f.msg.kind = "LinkKey"
        /\ Receive(f)
        /\ link' = [key |-> f.msg.key, attr |-> "Unverified"]
    BY DEF ReceiveLinkKey
<1>2. air' \subseteq air
    BY <1>1, ReceiveOK
<1>3. tc' = tc /\ phase \in PreVerify
    BY DEF ReceiveLinkKey, PreVerify
<1>4. \A k : (Confirmed(k)' => Confirmed(k)) /\ (ToVerify(k)' => ToVerify(k))
    BY <1>2 DEF Confirmed, ToVerify
<1>5. \A k : Settled(k) => Settled(k)'
    BY <1>3, <1>4 DEF Settled
<1>6. HeldOK'
    BY <1>1 DEF HeldOK
<1>7. ConfirmedOK'
  <2>1. link'.key = f.msg.key
      BY <1>1
  <2>2. Confirmed(f.msg.key) => Settled(f.msg.key)
      BY <1>1, <1>3 DEF KeysOK, ComingOK
  <2> QED
      BY <1>4, <1>5, <2>1, <2>2 DEF ConfirmedOK
<1>8. ComingOK'
  <2> SUFFICES ASSUME NEW g \in air', g.msg.kind = "LinkKey",
                      phase' \in PreVerify \/ ~g.late, Confirmed(g.msg.key)'
               PROVE  Settled(g.msg.key)'
      BY DEF ComingOK
  <2>1. Settled(g.msg.key)
      BY <1>2, <1>3, <1>4 DEF KeysOK, ComingOK
  <2> QED
      BY <1>5, <2>1
<1>9. NewOK'
    BY <1>2, <1>3, <1>4 DEF KeysOK, NewOK
<1> QED
    BY <1>6, <1>7, <1>8, <1>9 DEF KeysOK

\* The node puts its own key to the test: no key it may still take has been
\* confirmed in this attempt.
LEMMA VerifyKeyKeys ==
    ASSUME KeysOK, VerifyKey
    PROVE  KeysOK'
<1> DEFINE m == [kind |-> "Verify", key |-> link.key]
<1>1. PICK others \in SUBSET air : air' = others \cup {[msg |-> m, late |-> FALSE]}
    BY DEF VerifyKey, Send, Put
<1>2. \A f \in air' : f \in air \/ (f.msg.kind = "Verify" /\ f.msg.key = link.key)
    BY <1>1
<1>3. UNCHANGED <<tc, link>> /\ phase \in PreVerify /\ phase' \notin PreVerify
    BY DEF VerifyKey, PreVerify
<1> HIDE DEF m
<1>4. \A k : /\ Confirmed(k)' => Confirmed(k)
             /\ ToVerify(k)' => ToVerify(k) \/ k = link.key
    BY <1>2 DEF Confirmed, ToVerify
<1>5. Settled(link.key) => Settled(link.key)'
    BY <1>3, <1>4 DEF Settled
<1>6. HeldOK' /\ ConfirmedOK'
    BY <1>3, <1>4, <1>5 DEF KeysOK, HeldOK, ConfirmedOK
<1>7. ComingOK'
  <2> SUFFICES ASSUME NEW g \in air', g.msg.kind = "LinkKey",
                      phase' \in PreVerify \/ ~g.late, Confirmed(g.msg.key)'
               PROVE  Settled(g.msg.key)'
      BY DEF ComingOK
  <2>1. g \in air /\ ~g.late
      BY <1>2, <1>3
  <2> QED
      BY <1>3, <1>4, <2>1 DEF KeysOK, NewOK
<1>8. NewOK'
    BY <1>3 DEF NewOK
<1> QED
    BY <1>6, <1>7, <1>8 DEF KeysOK

\* Only a settled key is taken for verified.
LEMMA ReceiveConfirmKeys ==
    ASSUME TypeOK, KeysOK, ReceiveConfirm
    PROVE  KeysOK' /\ Confirmed(link.key) /\ Settled(link.key)
<1>1. PICK f \in air : f.msg.kind = "Confirm" /\ Receive(f) /\ Decrypts(f.msg)
    BY DEF ReceiveConfirm
<1>2. Confirmed(link.key)
    BY <1>1 DEF Confirmed, Decrypts
<1>3. Settled(link.key)
    BY <1>2 DEF KeysOK, ConfirmedOK
<1>4. tc' = tc /\ link'.key = link.key
    BY DEF ReceiveConfirm, TypeOK, Link
<1>5. air' \subseteq air
    BY <1>1, ReceiveOK
<1>6. phase' \in PreVerify => phase \in PreVerify
    BY DEF ReceiveConfirm, PreVerify
<1>7. \A k : (Confirmed(k)' => Confirmed(k)) /\ (ToVerify(k)' => ToVerify(k))
    BY <1>5 DEF Confirmed, ToVerify
<1>8. \A k : Settled(k) => Settled(k)'
    BY <1>4, <1>7 DEF Settled
<1>9. HeldOK' /\ ConfirmedOK'
    BY <1>3, <1>4, <1>8 DEF HeldOK, ConfirmedOK
<1>10. ComingOK'
  <2> SUFFICES ASSUME NEW g \in air', g.msg.kind = "LinkKey",
                      phase' \in PreVerify \/ ~g.late, Confirmed(g.msg.key)'
               PROVE  Settled(g.msg.key)'
      BY DEF ComingOK
  <2>1. Settled(g.msg.key)
      BY <1>5, <1>6, <1>7 DEF KeysOK, ComingOK
  <2> QED
      BY <1>8, <2>1
<1>11. NewOK'
    BY <1>5, <1>6, <1>7 DEF KeysOK, NewOK
<1> QED
    BY <1>2, <1>3, <1>9, <1>10, <1>11 DEF KeysOK


\* A new key is one that nobody can have confirmed or asked to verify.
LEMMA TcHandOutKeys ==
    ASSUME TypeOK, KeysOK, TcHandOut
    PROVE  KeysOK'
<1>1. PICK f \in air, key \in UnusedKeys :
        /\ tc' = [tc EXCEPT !.handedOut = key]
        /\ Answer(f, [kind |-> "LinkKey", under |-> GlobalKey, key |-> key])
    BY DEF TcHandOut
<1> DEFINE m == [kind |-> "LinkKey", under |-> GlobalKey, key |-> key]
<1>2. PICK others \in SUBSET air : air' = others \cup {[msg |-> m, late |-> FALSE]}
    BY <1>1 DEF Answer, Put
<1>3. \A g \in air' : g \in air \/ (g.msg.kind = "LinkKey" /\ g.msg.key = key)
    BY <1>2
<1> HIDE DEF m
<1>4. ~Confirmed(key) /\ ~ToVerify(key)
    BY UnusedOK
<1>5. UNCHANGED <<phase, link>>
    BY DEF TcHandOut
<1>6. \A k : (Confirmed(k)' => Confirmed(k)) /\ (ToVerify(k)' => ToVerify(k))
    BY <1>3 DEF Confirmed, ToVerify
<1>7. \A k : Settled(k) => Settled(k)'
  <2>1. tc'.verified = tc.verified /\ tc'.handedOut = key
      BY <1>1 DEF TypeOK
  <2>2. \A g \in air' : g.msg.kind = "Verify" => g.msg.key # key
      BY <1>3, <1>4 DEF ToVerify
  <2> QED
      BY <2>1, <2>2 DEF Settled, ToVerify
<1>8. HeldOK' /\ ConfirmedOK'
    BY <1>5, <1>6, <1>7 DEF KeysOK, HeldOK, ConfirmedOK
<1>9. ComingOK'
  <2> SUFFICES ASSUME NEW g \in air', g.msg.kind = "LinkKey",
                      phase' \in PreVerify \/ ~g.late, Confirmed(g.msg.key)'
               PROVE  Settled(g.msg.key)'
      BY DEF ComingOK
  <2>1. g.msg.key # key
      BY <1>4, <1>6
  <2>2. Settled(g.msg.key)
      BY <1>3, <1>5, <1>6, <2>1 DEF KeysOK, ComingOK
  <2> QED
      BY <1>7, <2>2
<1>10. NewOK'
  <2> SUFFICES ASSUME phase' \in PreVerify, NEW g \in air', g.msg.kind = "LinkKey", ~g.late
               PROVE  ~Confirmed(g.msg.key)' /\ ~ToVerify(g.msg.key)'
      BY DEF NewOK
  <2>1. CASE g.msg.key = key
      BY <1>4, <1>6, <2>1
  <2>2. CASE g.msg.key # key
      BY <1>3, <1>5, <1>6, <2>2 DEF KeysOK, NewOK
  <2> QED
      BY <2>1, <2>2
<1> QED
    BY <1>8, <1>9, <1>10 DEF KeysOK

\* The key the trust center verifies is the settled one, if there is one.
LEMMA TcConfirmKeys ==
    ASSUME TypeOK, KeysOK, TcConfirm
    PROVE  /\ KeysOK'
           /\ link.attr = "Verified" => link.key = tc'.verified
<1>1. PICK f \in air :
        /\ f.msg.kind = "Verify"
        /\ f.msg.key = tc.handedOut
        /\ tc' = [tc EXCEPT !.verified = f.msg.key]
        /\ Answer(f, [kind |-> "Confirm", under |-> f.msg.key])
    BY DEF TcConfirm
<1> PICK h : h = tc.handedOut
    OBVIOUS
<1> DEFINE m == [kind |-> "Confirm", under |-> f.msg.key]
<1>2. PICK others \in SUBSET air : air' = others \cup {[msg |-> m, late |-> FALSE]}
    BY <1>1 DEF Answer, Put
<1>3. \A g \in air' : g \in air \/ (g.msg.kind = "Confirm" /\ g.msg.under = h)
    BY <1>1, <1>2
<1> HIDE DEF m
<1>4. ToVerify(h) /\ tc'.verified = h /\ tc'.handedOut = h
    BY <1>1 DEF ToVerify, TypeOK
<1>5. UNCHANGED <<phase, link>>
    BY DEF TcConfirm
<1>6. \A k : /\ Confirmed(k)' => Confirmed(k) \/ k = h
             /\ ToVerify(k)' => ToVerify(k)
    BY <1>3 DEF Confirmed, ToVerify
<1>7. \A k : Settled(k) => k = h
    BY <1>4 DEF Settled
<1>8. Settled(h)'
    BY <1>4 DEF Settled
<1>9. HeldOK' /\ ConfirmedOK'
    BY <1>5, <1>6, <1>7, <1>8 DEF KeysOK, HeldOK, ConfirmedOK
<1>10. ComingOK'
  <2> SUFFICES ASSUME NEW g \in air', g.msg.kind = "LinkKey",
                      phase' \in PreVerify \/ ~g.late, Confirmed(g.msg.key)'
               PROVE  Settled(g.msg.key)'
      BY DEF ComingOK
  <2>1. g \in air
      BY <1>3
  <2>2. Confirmed(g.msg.key) => Settled(g.msg.key)
      BY <1>5, <2>1 DEF KeysOK, ComingOK
  <2>3. g.msg.key = h
      BY <1>6, <1>7, <2>2
  <2> QED
      BY <1>8, <2>3
<1>11. NewOK'
  <2> SUFFICES ASSUME phase' \in PreVerify, NEW g \in air', g.msg.kind = "LinkKey", ~g.late
               PROVE  ~Confirmed(g.msg.key)' /\ ~ToVerify(g.msg.key)'
      BY DEF NewOK
  <2>1. ~Confirmed(g.msg.key) /\ ~ToVerify(g.msg.key)
      BY <1>3, <1>5 DEF KeysOK, NewOK
  <2>2. g.msg.key # h
      BY <1>4, <2>1
  <2> QED
      BY <1>6, <2>1, <2>2
<1>12. link.attr = "Verified" => link.key = tc'.verified
    BY <1>4, <1>7 DEF KeysOK, HeldOK
<1> QED
    BY <1>9, <1>10, <1>11, <1>12 DEF KeysOK


-----------------------------------------------------------------------------
\* Every step keeps the account of the keys.
LEMMA NextKeys ==
    ASSUME AllInv, Next
    PROVE  KeysOK'
<1> USE DEF AllInv, IInv
<1>1. CASE ScanFindsNothing \/ ScanFindsNetworks \/ NotAssociated \/ Sleep
  <2>1. /\ UNCHANGED <<tc, link>>
        /\ air' \subseteq air
        /\ phase' \notin PreVerify
      BY <1>1, NextAttemptOK
         DEF ScanFindsNothing, ScanFindsNetworks, NotAssociated, Sleep, PreVerify
  <2> QED
      BY <2>1, QuietKeys
<1>2. CASE Associated
    BY <1>2, AssociatedKeys
<1>3. CASE ReceiveNwkKey
  <2>1. UNCHANGED <<tc, link>> /\ air' \subseteq air /\ phase \in PreVerify
      BY <1>3, ReceiveOK DEF ReceiveNwkKey, PreVerify
  <2> QED
      BY <2>1, QuietKeys
<1>4. CASE NwkKeyTimeout \/ AnnounceFailed \/ LeaveAfterFailure \/ LeaveSelf
  <2>1. ForgetNetwork /\ UNCHANGED <<tc, air>> /\ phase' \in {"Scan", "Sleep"}
      BY <1>4, NextAttemptOK
         DEF NwkKeyTimeout, AnnounceFailed, LeaveAfterFailure, LeaveSelf
  <2>2. phase' \notin PreVerify
      BY <2>1 DEF PreVerify
  <2> QED
      BY <2>1, <2>2, ForgetKeys
<1>5. CASE Announce \/ LinkKeyFailed \/ PermitJoin \/ LeaveRequested \/ LeaveCancelled
  <2>1. /\ UNCHANGED <<tc, link, air>>
        /\ phase' \in PreVerify => phase \in PreVerify
      BY <1>5
         DEF Announce, LinkKeyFailed, PermitJoin, LeaveRequested, LeaveCancelled, PreVerify
  <2> QED
      BY <2>1, QuietKeys
<1>6. CASE RequestKey
  <2> DEFINE m == [kind |-> "Request", under |-> link.key]
  <2>1. UNCHANGED <<tc, link>> /\ phase \in PreVerify
      BY <1>6 DEF RequestKey, PreVerify
  <2>2. m \in Message /\ m.kind = "Request"
      BY DEF Message, TypeOK, Link
  <2>3. Put(m, air)
      BY <1>6 DEF RequestKey, Send
  <2>4. \A f \in air' : f \in air \/ f.msg.kind \in {"NwkKey", "Request"}
    <3> HIDE DEF m
    <3> QED
      BY <2>2, <2>3, PutOK DEF TypeOK
  <2> QED
      BY <2>1, <2>4, QuietKeys
<1>7. CASE ReceiveLinkKey
    BY <1>7, ReceiveLinkKeyKeys
<1>8. CASE VerifyKey
    BY <1>8, VerifyKeyKeys
<1>9. CASE ReceiveConfirm
    BY <1>9, ReceiveConfirmKeys
<1>10. CASE TcHandOut
    BY <1>10, TcHandOutKeys
<1>11. CASE TcConfirm
    BY <1>11, TcConfirmKeys
<1> QED
    BY <1>1, <1>2, <1>3, <1>4, <1>5, <1>6, <1>7, <1>8, <1>9, <1>10, <1>11
       DEF Next, Succeed, Fail, Leave

\* A confirmation reaches only a node that has the trust center's key.
LEMMA ConfirmIsLate ==
    ASSUME TypeOK, AwayOK, EarlyOK, ReceiveConfirm
    PROVE  phase \in {"Confirm", "Joined"}
<1>1. phase \in Waiting \cup {"Joined"} /\ params = "Centralized"
    BY DEF ReceiveConfirm, Waiting
<1>2. phase # "NwkKey"
    BY <1>1 DEF AwayOK
<1>3. phase # "LinkKey"
  <2>1. PICK f \in air : f.msg.kind = "Confirm" /\ Decrypts(f.msg)
      BY DEF ReceiveConfirm
  <2>2. Confirmed(link.key)
      BY <2>1 DEF Confirmed, Decrypts
  <2>3. link # DefaultLink
      BY <2>2, NeverGlobal DEF DefaultLink
  <2> QED
      BY <2>3 DEF EarlyOK
<1> QED
    BY <1>1, <1>2, <1>3 DEF Waiting

\* Every step keeps what the node knows in each phase.
LEMMA NextPhases ==
    ASSUME AllInv, Next
    PROVE  AwayOK' /\ EarlyOK'
<1> USE DEF AllInv, IInv
<1>1. CASE ScanFindsNothing \/ ScanFindsNetworks \/ NotAssociated \/ Sleep \/ Associated
  <2>1. /\ UNCHANGED <<authorized, params, link>>
        /\ phase \in Unjoined
        /\ phase' \in Unjoined \cup {"NwkKey"}
      BY <1>1, NextAttemptOK
         DEF ScanFindsNothing, ScanFindsNetworks, NotAssociated, Sleep, Associated, Unjoined
  <2> QED
      BY <2>1 DEF AwayOK, EarlyOK
<1>2. CASE NwkKeyTimeout \/ AnnounceFailed \/ LeaveAfterFailure \/ LeaveSelf
  <2>1. ForgetNetwork /\ phase' \in {"Scan", "Sleep"}
      BY <1>2, NextAttemptOK
         DEF NwkKeyTimeout, AnnounceFailed, LeaveAfterFailure, LeaveSelf
  <2> QED
      BY <2>1 DEF ForgetNetwork, AwayOK, EarlyOK, Unjoined
<1>3. CASE ReceiveNwkKey
    BY <1>3 DEF ReceiveNwkKey, AwayOK, EarlyOK, Unjoined
<1>4. CASE Announce \/ RequestKey
    BY <1>4 DEF Announce, RequestKey, AwayOK, EarlyOK, Unjoined
<1>5. CASE ReceiveLinkKey \/ VerifyKey \/ LinkKeyFailed \/ PermitJoin
           \/ LeaveRequested \/ LeaveCancelled
    BY <1>5 DEF ReceiveLinkKey, VerifyKey, LinkKeyFailed, PermitJoin,
                LeaveRequested, LeaveCancelled, AwayOK, EarlyOK, Unjoined
<1>6. CASE ReceiveConfirm
  <2>1. phase \in {"Confirm", "Joined"} /\ phase' \in {"PermitJoin", "Joined"}
      BY <1>6, ConfirmIsLate DEF ReceiveConfirm
  <2> QED
      BY <1>6, <2>1 DEF ReceiveConfirm, AwayOK, EarlyOK, Unjoined
<1>7. CASE TcHandOut \/ TcConfirm
    BY <1>7 DEF TcHandOut, TcConfirm, AwayOK, EarlyOK
<1> QED
    BY <1>1, <1>2, <1>3, <1>4, <1>5, <1>6, <1>7 DEF Next, Succeed, Fail, Leave

\* The invariant with its account of the keys holds in every reachable state,
\* whatever is lost, repeated or answered late.
THEOREM KeyInvariance == Spec => []AllInv
<1>1. Init => AllInv
  <2> SUFFICES ASSUME Init PROVE AllInv
      OBVIOUS
  <2>1. IInv
      BY InitIInv
  <2>2. KeysOK
      BY DEF Init, DefaultLink, KeysOK, HeldOK, ConfirmedOK, ComingOK, NewOK, Confirmed
  <2>3. AwayOK /\ EarlyOK
      BY DEF Init, AwayOK, EarlyOK, Unjoined
  <2> QED
      BY <2>1, <2>2, <2>3 DEF AllInv
<1>2. AllInv /\ [Next]_vars => AllInv'
  <2> SUFFICES ASSUME AllInv, [Next]_vars PROVE AllInv'
      OBVIOUS
  <2>1. IInv'
      BY NextIInv DEF AllInv
  <2>2. CASE Next
      BY <2>1, <2>2, NextKeys, NextPhases DEF AllInv
  <2>3. CASE UNCHANGED vars
    <3>1. KeysOK'
        BY <2>3, QuietKeys DEF AllInv, vars
    <3>2. AwayOK' /\ EarlyOK'
        BY <2>3 DEF AllInv, AwayOK, EarlyOK, vars
    <3> QED
        BY <2>1, <3>1, <3>2 DEF AllInv
  <2> QED
      BY <2>2, <2>3
<1> QED
    BY <1>1, <1>2, PTL DEF Spec

\* A key held for verified is the one the trust center verified last
\* (zdo/mod.rs:585-639, security/sap/service.rs:439-486).
THEOREM KeyAgreed == Spec => []VerifiedIsAgreed
<1>1. AllInv => VerifiedIsAgreed
    BY DEF AllInv, KeysOK, HeldOK, Settled, VerifiedIsAgreed
<1> QED
    BY KeyInvariance, <1>1, PTL


-----------------------------------------------------------------------------
\* Commissioning implements Membership.

\* What the mapping makes of a state.
Standing ==
    IF phase \in OnNetwork THEN "Member" ELSE IF authorized THEN "Admitted" ELSE "Out"

Held == IF link.attr = "Verified" THEN link.key ELSE NoKey

\* A key that is handed out is not the absence of one.
LEMMA KeyIsNone == NoKey \notin TcKey \cup {GlobalKey}
BY ConstantsAssumption DEF NoKey, TcKey, GlobalKey

\* Every step of commissioning is one of Membership, or changes nothing there.
LEMMA StepImplements ==
    ASSUME AllInv, AllInv', Next
    PROVE  [Promise!Next]_(Promise!vars)
<1> USE DEF AllInv, IInv
<1> DEFINE Same == Standing' = Standing /\ Held' = Held /\ UNCHANGED <<topology, tc>>
<1>1. Same => UNCHANGED Promise!vars
    BY DEF Promise!vars, Standing, Held
<1>2. CASE ScanFindsNothing \/ ScanFindsNetworks \/ NotAssociated \/ Sleep \/ Associated
  <2>1. /\ UNCHANGED <<authorized, link, topology, tc>>
        /\ phase \notin OnNetwork /\ phase' \notin OnNetwork
      BY <1>2, NextAttemptOK
         DEF ScanFindsNothing, ScanFindsNetworks, NotAssociated, Sleep, Associated, OnNetwork
  <2> QED
      BY <1>1, <2>1 DEF Standing, Held
<1>3. CASE ReceiveNwkKey
  <2>1. /\ Standing = "Out" /\ Standing' = "Admitted" /\ Held' = Held
        /\ UNCHANGED <<topology, tc>>
      BY <1>3 DEF ReceiveNwkKey, Standing, Held, OnNetwork
  <2>2. Promise!Admit
      BY <2>1 DEF Promise!Admit, Standing, Held
  <2> QED
      BY <2>2 DEF Promise!Next
<1>4. CASE NwkKeyTimeout
  <2>1. link = DefaultLink /\ ~authorized
      BY <1>4 DEF NwkKeyTimeout, EarlyOK, AwayOK
  <2>2. Same
      BY <1>4, <2>1, NextAttemptOK
         DEF NwkKeyTimeout, ForgetNetwork, Standing, Held, OnNetwork
  <2> QED
      BY <1>1, <2>2
<1>5. CASE AnnounceFailed \/ LeaveAfterFailure \/ LeaveSelf
  <2>1. /\ authorized /\ ForgetNetwork /\ phase' \in {"Scan", "Sleep"}
        /\ UNCHANGED <<topology, tc>>
      BY <1>5, NextAttemptOK
         DEF AnnounceFailed, LeaveAfterFailure, LeaveSelf, AwayOK, Unjoined
  <2>2. Standing # "Out" /\ Standing' = "Out" /\ Held' = NoKey
      BY <2>1 DEF Standing, Held, ForgetNetwork, DefaultLink, OnNetwork
  <2>3. Promise!Quit
      BY <2>1, <2>2 DEF Promise!Quit, Standing, Held
  <2> QED
      BY <2>3 DEF Promise!Next
<1>6. CASE Announce \/ RequestKey \/ VerifyKey \/ LinkKeyFailed
           \/ LeaveRequested \/ LeaveCancelled
  <2>1. Same
      BY <1>6 DEF Announce, RequestKey, VerifyKey, LinkKeyFailed, LeaveRequested,
                  LeaveCancelled, Standing, Held, OnNetwork
  <2> QED
      BY <1>1, <2>1
<1>7. CASE ReceiveLinkKey
  <2>1. link = DefaultLink
      BY <1>7 DEF ReceiveLinkKey, EarlyOK
  <2>2. link'.attr = "Unverified"
      BY <1>7 DEF ReceiveLinkKey
  <2>3. Same
      BY <1>7, <2>1, <2>2
         DEF ReceiveLinkKey, Standing, Held, DefaultLink, OnNetwork
  <2> QED
      BY <1>1, <2>3
<1>8. CASE ReceiveConfirm
  <2>1. Confirmed(link.key) /\ Settled(link.key)
      BY <1>8, ReceiveConfirmKeys
  <2>2. link'.key = link.key /\ link'.attr = "Verified" /\ tc.verified = link.key
      BY <1>8, <2>1 DEF ReceiveConfirm, TypeOK, Link, Settled
  <2>3. tc.verified # NoKey
      BY <2>2, KeyIsNone DEF TypeOK, Link
  <2>4. params = topology /\ topology = "Centralized" /\ authorized
        /\ UNCHANGED <<authorized, topology, tc>>
    <3>1. phase \in {"Confirm", "Joined"}
        BY <1>8, ConfirmIsLate
    <3> QED
        BY <1>8, <3>1 DEF ReceiveConfirm, ParamsOK, AwayOK, Unjoined
  <2>5. CASE phase = "Confirm"
    <3>1. phase' = "PermitJoin"
        BY <1>8, <2>5 DEF ReceiveConfirm
    <3>2. Standing = "Admitted" /\ Standing' = "Admitted" /\ Held' = tc.verified
        BY <2>2, <2>4, <2>5, <3>1 DEF Standing, Held, OnNetwork
    <3>3. Promise!Hold
        BY <2>3, <2>4, <3>2 DEF Promise!Hold, Standing, Held
    <3> QED
        BY <3>3 DEF Promise!Next
  <2>6. CASE phase = "Joined"
    <3>1. phase' = phase
        BY <1>8, <2>6 DEF ReceiveConfirm
    <3>2. link.attr = "Verified"
        BY <2>4, <2>6 DEF SettledOK
    <3>3. Same
        BY <2>2, <2>4, <3>1, <3>2 DEF Standing, Held
    <3> QED
        BY <1>1, <3>3
  <2> QED
      BY <1>8, <2>5, <2>6, ConfirmIsLate
<1>9. CASE PermitJoin
  <2>1. Standing = "Admitted" /\ Standing' = "Member"
      BY <1>9 DEF PermitJoin, Standing, AwayOK, OnNetwork, Unjoined
  <2>2. Held' = Held /\ UNCHANGED <<topology, tc>>
      BY <1>9 DEF PermitJoin, Held
  <2>3. topology = "Centralized" => Held # NoKey
      BY <1>9, KeyIsNone DEF PermitJoin, SettledOK, Held, TypeOK, Link
  <2>4. Promise!Enter
      BY <2>1, <2>2, <2>3 DEF Promise!Enter, Standing, Held
  <2> QED
      BY <2>4 DEF Promise!Next
<1>10. CASE TcHandOut
  <2>1. tc'.verified = tc.verified
      BY <1>10 DEF TcHandOut, TypeOK
  <2>2. UNCHANGED <<phase, authorized, link, topology>>
      BY <1>10 DEF TcHandOut
  <2>3. UNCHANGED Promise!vars
      BY <2>1, <2>2 DEF Promise!vars
  <2> QED
      BY <2>3
<1>11. CASE TcConfirm
  <2>1. UNCHANGED <<phase, authorized, link, topology>>
      BY <1>11 DEF TcConfirm
  <2>2. link.attr = "Verified" => link.key = tc'.verified
      BY <1>11, TcConfirmKeys
  <2>3. tc'.verified \in TcKey
    <3>1. PICK f \in air :
            /\ f.msg.kind = "Verify"
            /\ f.msg.key = tc.handedOut
            /\ tc' = [tc EXCEPT !.verified = f.msg.key]
        BY <1>11 DEF TcConfirm
    <3>2. f.msg.key \in {GlobalKey} \cup TcKey /\ tc.handedOut \in TcKey \cup {NoKey}
        BY <3>1 DEF TypeOK, Frame, Message
    <3>3. GlobalKey \notin TcKey
        BY DEF GlobalKey, TcKey
    <3>4. tc'.verified = f.msg.key
        BY <3>1 DEF TypeOK
    <3> QED
        BY <3>1, <3>2, <3>3, <3>4, KeyIsNone
  <2>4. Promise!Agree
      BY <2>1, <2>2, <2>3 DEF Promise!Agree
  <2> QED
      BY <2>4 DEF Promise!Next
<1> QED
    BY <1>2, <1>3, <1>4, <1>5, <1>6, <1>7, <1>8, <1>9, <1>10, <1>11
       DEF Next, Succeed, Fail, Leave

\* Commissioning, with all its frames, retries and timeouts, implements the
\* abstract specification of membership (zdo/mod.rs:361-640, 792-831,
\* security/sap/service.rs:331-486).
THEOREM Implementation == Spec => ImplementsMembership
<1>1. Init => Promise!Init
  <2> SUFFICES ASSUME Init PROVE Promise!Init
      OBVIOUS
  <2>1. topology \in {"Centralized", "Distributed"}
      BY ConstantsAssumption DEF Init
  <2> QED
      BY <2>1 DEF Init, Promise!Init, OnNetwork, DefaultLink
<1>2. AllInv /\ AllInv' /\ [Next]_vars => [Promise!Next]_(Promise!vars)
  <2> SUFFICES ASSUME AllInv, AllInv', [Next]_vars
               PROVE  [Promise!Next]_(Promise!vars)
      OBVIOUS
  <2>1. CASE Next
      BY <2>1, StepImplements
  <2>2. CASE UNCHANGED vars
      BY <2>2 DEF vars, Promise!vars
  <2> QED
      BY <2>1, <2>2
<1> QED
    BY <1>1, <1>2, KeyInvariance, PTL DEF Spec, ImplementsMembership, Promise!Spec

=============================================================================
