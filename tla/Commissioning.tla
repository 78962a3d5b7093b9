---------------------------- MODULE Commissioning ----------------------------
(***************************************************************************)
(* The life of a node on and off a network: steering over the two channel  *)
(* sets, association, the wait for the network key, the exchange of the    *)
(* trust center link key, and leaving when told to (ZbNode in zdo/mod.rs   *)
(* with the key services of the APS layer).                                *)
(*                                                                         *)
(* The node is one task that waits for one thing at a time; what makes it  *)
(* hard is what arrives meanwhile: frames of an attempt that already timed *)
(* out, requests the trust center answers twice, answers that get lost.    *)
(* The trust center is not part of the code: it hands out a fresh key for  *)
(* each request, and confirms the last one it handed out.                  *)
(***************************************************************************)
EXTENDS Naturals, FiniteSets

CONSTANTS
    MaxNets,     \* networks that one scan reports at most (bound)
    MaxRetries,  \* REC_SAME_NETWORK_RETRY_ATTEMPTS
    MaxAir,      \* frames on their way at any time (bound)
    MaxKey,      \* link keys the trust center draws from (bound)
    Topologies   \* which kinds of network there are

\* Keys are numbers only so that the trust center can draw the least unused
\* one; nothing else compares them.
GlobalKey == 0
TcKey == 1..MaxKey
NoKey == MaxKey + 1

ASSUME ConstantsAssumption ==
    /\ MaxNets \in Nat \ {0}
    /\ MaxRetries \in Nat \ {0}
    /\ MaxAir \in Nat \ {0}
    /\ MaxKey \in Nat \ {0}
    \* A key for each frame, two for the trust center, two for the node.
    /\ MaxKey >= MaxAir + 3
    /\ Topologies \subseteq {"Centralized", "Distributed"}

VARIABLES
    phase,      \* what the node's task is doing
    channels,   \* the channel set it is steering over
    nets,       \* networks of the scan it has still to try
    tries,      \* retry_counter for the first of them
    authorized, \* Aps.is_authorized: it has the network key
    params,     \* Aps.security_network_params
    link,       \* the entry of Aps.device_key_pair_set
    topology,   \* the kind of network around (external)
    tc,         \* the trust center's record of the node (external)
    air         \* frames on their way (external)

vars == <<phase, channels, nets, tries, authorized, params, link, topology, tc, air>>

Unjoined == {"Scan", "Associate", "Sleep"}
\* The phases of try_authenticate, in their order, and what follows it.
Waiting == {"NwkKey", "LinkKey", "Confirm"}
Sending == {"Announce", "RequestKey", "VerifyKey", "Leave", "PermitJoin"}
OnNetwork == {"Joined", "Leaving"}
Phase == Unjoined \cup Waiting \cup Sending \cup OnNetwork

\* The key pair a new Aps starts with.
DefaultLink == [key |-> GlobalKey, attr |-> "Provisional"]

Link == [key : {GlobalKey} \cup TcKey,
         attr : {"Provisional", "Unverified", "Verified"}]

\* What is on its way; "late" once it belongs to the attempt before this one.
Message ==
    [kind : {"NwkKey"}, under : {GlobalKey}, topology : {"Centralized", "Distributed"}]
      \cup [kind : {"Request"}, under : {GlobalKey} \cup TcKey]
      \cup [kind : {"LinkKey"}, under : {GlobalKey} \cup TcKey, key : TcKey]
      \cup [kind : {"Verify"}, key : {GlobalKey} \cup TcKey]
      \cup [kind : {"Confirm"}, under : TcKey]

Frame == [msg : Message, late : BOOLEAN]

Init ==
    /\ phase = "Scan"
    /\ channels = "Primary"
    /\ nets = 0
    /\ tries = 0
    /\ authorized = FALSE
    /\ params = "Distributed"
    /\ link = DefaultLink
    /\ topology \in Topologies
    /\ tc = [handedOut |-> NoKey, verified |-> NoKey]
    /\ air = {}

-----------------------------------------------------------------------------
\* The air: any frame may get lost, one that is received may come again, and
\* all may come late, but not so late as to survive two scans.

Put(m, frames) ==
    \E others \in SUBSET frames :
        /\ Cardinality(others) < MaxAir
        /\ air' = others \cup {[msg |-> m, late |-> FALSE]}

Send(m) == Put(m, air)

Answer(f, m) == f \in air /\ Put(m, air)

Receive(f) == f \in air /\ air' \in {air, air \ {f}}

Late == {[f EXCEPT !.late = TRUE] : f \in {g \in air : ~g.late}}

\* Faulty variant of Decrypts: the key of the sender is not asked.
DecryptsAny(m) == authorized \/ link.key = GlobalKey

\* Until it is authorized the node tries its global key, then the key it has
\* for the sender: of the one entry it has, the key, whatever its attribute.
Decrypts(m) == m.under = link.key /\ (authorized \/ link.key = GlobalKey)

-----------------------------------------------------------------------------
\* Steering: network_steering and try_join_for_channels.

\* What becomes of an attempt that failed: the second channel set is tried
\* after the first one, and then the node sleeps for ten seconds.
NextAttempt(failed) ==
    IF failed = "Primary" THEN phase' = "Scan" /\ channels' = "Secondary"
    ELSE phase' = "Sleep" /\ channels' = "Primary"

ScanFindsNothing ==
    /\ phase = "Scan"
    /\ NextAttempt(channels)
    /\ UNCHANGED <<nets, tries, authorized, params, link, topology, tc, air>>

ScanFindsNetworks ==
    /\ phase = "Scan"
    /\ phase' = "Associate"
    /\ nets' \in 1..MaxNets
    /\ UNCHANGED <<channels, tries, authorized, params, link, topology, tc, air>>

\* The parent accepted the node; the trust center learns of it and sends the
\* network key.
Associated ==
    /\ phase = "Associate"
    /\ phase' = "NwkKey"
    /\ nets' = 0
    /\ tries' = 0
    /\ Put([kind |-> "NwkKey", under |-> GlobalKey, topology |-> topology], Late)
    /\ UNCHANGED <<channels, authorized, params, link, topology, tc>>

\* Faulty variant of LastTry: one try too many.
LastTryOffByOne == tries = MaxRetries

LastTry == tries + 1 = MaxRetries

NotAssociated ==
    /\ phase = "Associate"
    /\ \/ /\ ~LastTry
          /\ tries' = tries + 1
          /\ UNCHANGED <<phase, channels, nets>>
       \/ /\ LastTry
          /\ tries' = 0
          /\ nets' = nets - 1
          /\ IF nets = 1 THEN NextAttempt(channels) ELSE UNCHANGED <<phase, channels>>
    /\ UNCHANGED <<authorized, params, link, topology, tc, air>>

\* No frame outlives the ten seconds.
Sleep ==
    /\ phase = "Sleep"
    /\ phase' = "Scan"
    /\ air' = {}
    /\ UNCHANGED <<channels, nets, tries, authorized, params, link, topology, tc>>

\* Faulty variant of ForgetNetwork: the node stays authorized.
ForgetKeysOnly ==
    /\ UNCHANGED authorized
    /\ params' = "Distributed"
    /\ link' = DefaultLink

\* The node drops its joined context: the next one starts from scratch.
ForgetNetwork ==
    /\ authorized' = FALSE
    /\ params' = "Distributed"
    /\ link' = DefaultLink

-----------------------------------------------------------------------------
\* try_authenticate.

\* The network key comes without network security, which an authorized node
\* no longer accepts; the node is authorized before it waits again.
ReceiveNwkKey ==
    /\ phase = "NwkKey"
    /\ ~authorized
    /\ \E f \in air :
        /\ f.msg.kind = "NwkKey"
        /\ Receive(f)
        /\ Decrypts(f.msg)
        /\ params' = f.msg.topology
    /\ authorized' = TRUE
    /\ phase' = "Announce"
    /\ UNCHANGED <<channels, nets, tries, link, topology, tc>>

NwkKeyTimeout ==
    /\ phase = "NwkKey"
    /\ NextAttempt(channels)
    /\ ForgetNetwork
    /\ UNCHANGED <<nets, tries, topology, tc, air>>

Announce ==
    /\ phase = "Announce"
    /\ phase' = IF params = "Centralized" THEN "RequestKey" ELSE "PermitJoin"
    /\ UNCHANGED <<channels, nets, tries, authorized, params, link, topology, tc, air>>

AnnounceFailed ==
    /\ phase = "Announce"
    /\ NextAttempt(channels)
    /\ ForgetNetwork
    /\ UNCHANGED <<nets, tries, topology, tc, air>>

\* A key that is neither provisional nor verified encrypts nothing.
RequestKey ==
    /\ phase = "RequestKey"
    /\ link.attr \in {"Provisional", "Verified"}
    /\ phase' = "LinkKey"
    /\ Send([kind |-> "Request", under |-> link.key])
    /\ UNCHANGED <<channels, nets, tries, authorized, params, link, topology, tc>>

ReceiveLinkKey ==
    /\ phase = "LinkKey"
    /\ \E f \in air :
        /\ f.msg.kind = "LinkKey"
        /\ Receive(f)
        /\ Decrypts(f.msg)
        /\ link' = [key |-> f.msg.key, attr |-> "Unverified"]
    /\ phase' = "VerifyKey"
    /\ UNCHANGED <<channels, nets, tries, authorized, params, topology, tc>>

VerifyKey ==
    /\ phase = "VerifyKey"
    /\ phase' = "Confirm"
    /\ Send([kind |-> "Verify", key |-> link.key])
    /\ UNCHANGED <<channels, nets, tries, authorized, params, link, topology, tc>>

\* handle_confirm_key_command asks neither for the phase nor for the key's
\* attribute: only the phase that waits for it moves on.
ReceiveConfirm ==
    /\ params = "Centralized"
    /\ \E f \in air :
        /\ f.msg.kind = "Confirm"
        /\ Receive(f)
        /\ Decrypts(f.msg)
    /\ link' = [link EXCEPT !.attr = "Verified"]
    /\ \/ phase = "Confirm" /\ phase' = "PermitJoin"
       \/ phase \in Waiting \cup {"Joined"} /\ phase # "Confirm" /\ UNCHANGED phase
    /\ UNCHANGED <<channels, nets, tries, authorized, params, topology, tc>>

\* Any error of update_trust_center_link_key: nothing came in time, or a
\* command could not be sent.
LinkKeyFailed ==
    /\ phase \in {"RequestKey", "LinkKey", "VerifyKey", "Confirm"}
    /\ phase' = "Leave"
    /\ UNCHANGED <<channels, nets, tries, authorized, params, link, topology, tc, air>>

LeaveAfterFailure ==
    /\ phase = "Leave"
    /\ NextAttempt(channels)
    /\ ForgetNetwork
    /\ UNCHANGED <<nets, tries, topology, tc, air>>

\* Whether the request was sent makes no difference.
PermitJoin ==
    /\ phase = "PermitJoin"
    /\ phase' = "Joined"
    /\ UNCHANGED <<channels, nets, tries, authorized, params, link, topology, tc, air>>

-----------------------------------------------------------------------------
\* On the network: listen_task.

\* The node is told to leave, and says so to the others.
LeaveRequested ==
    /\ phase = "Joined"
    /\ phase' = "Leaving"
    /\ UNCHANGED <<channels, nets, tries, authorized, params, link, topology, tc, air>>

LeaveSelf ==
    /\ phase = "Leaving"
    /\ phase' = "Scan"
    /\ channels' = "Primary"
    /\ ForgetNetwork
    /\ UNCHANGED <<nets, tries, topology, tc, air>>

\* The timeout of one second cancels the handler while it is sending.
LeaveCancelled ==
    /\ phase = "Leaving"
    /\ phase' = "Joined"
    /\ UNCHANGED <<channels, nets, tries, authorized, params, link, topology, tc, air>>

-----------------------------------------------------------------------------
\* The trust center.

\* Keys nobody knows of, so that a new key is never taken for an old one.
UnusedKeys ==
    TcKey \ ({link.key, tc.handedOut, tc.verified}
               \cup {f.msg.key : f \in {g \in air : g.msg.kind \in {"LinkKey", "Verify"}}}
               \cup {f.msg.under : f \in {g \in air : g.msg.kind = "Confirm"}})

TcHandOut ==
    /\ \E f \in air, key \in UnusedKeys :
        /\ f.msg.kind = "Request"
        /\ f.msg.under = GlobalKey
        /\ \A other \in UnusedKeys : key <= other
        /\ tc' = [tc EXCEPT !.handedOut = key]
        /\ Answer(f, [kind |-> "LinkKey", under |-> GlobalKey, key |-> key])
    /\ UNCHANGED <<phase, channels, nets, tries, authorized, params, link, topology>>

TcConfirm ==
    /\ \E f \in air :
        /\ f.msg.kind = "Verify"
        /\ f.msg.key = tc.handedOut
        /\ tc' = [tc EXCEPT !.verified = f.msg.key]
        /\ Answer(f, [kind |-> "Confirm", under |-> f.msg.key])
    /\ UNCHANGED <<phase, channels, nets, tries, authorized, params, link, topology>>

-----------------------------------------------------------------------------
\* What the surroundings let happen, and what they prevent.
Succeed ==
    \/ ScanFindsNetworks \/ Associated \/ ReceiveNwkKey \/ Announce
    \/ RequestKey \/ ReceiveLinkKey \/ VerifyKey \/ ReceiveConfirm \/ PermitJoin

Fail ==
    \/ ScanFindsNothing \/ NotAssociated \/ NwkKeyTimeout \/ AnnounceFailed
    \/ LinkKeyFailed \/ LeaveAfterFailure \/ Sleep

Leave == LeaveRequested \/ LeaveSelf \/ LeaveCancelled

Next == Succeed \/ Fail \/ Leave \/ TcHandOut \/ TcConfirm

\* The task never stops (the WF lines); and the network is one that works
\* again and again: a scan finds it, a parent lets the node in, a frame gets
\* through and the trust center answers before the node gives up.
InStep == link.key = tc.handedOut

Fairness ==
    /\ WF_vars(PermitJoin)
    /\ WF_vars(Fail)
    /\ WF_vars(LeaveSelf \/ LeaveCancelled)
    /\ SF_vars(ScanFindsNetworks)
    /\ SF_vars(Associated)
    /\ SF_vars(ReceiveNwkKey)
    /\ SF_vars(Announce)
    /\ SF_vars(RequestKey)
    /\ SF_vars(phase = "LinkKey" /\ TcHandOut)
    /\ SF_vars(ReceiveLinkKey /\ InStep')
    /\ SF_vars(InStep /\ VerifyKey)
    /\ SF_vars(phase = "Confirm" /\ TcConfirm)
    /\ SF_vars(phase = "Confirm" /\ ReceiveConfirm)

Spec == Init /\ [][Next]_vars

LiveSpec == Spec /\ Fairness

-----------------------------------------------------------------------------
\* Correctness.

\* Every variable has its type (zdo/mod.rs:361-640, aps/ctx.rs:150-214).
TypeOK ==
    /\ phase \in Phase
    /\ channels \in {"Primary", "Secondary"}
    /\ nets \in 0..MaxNets
    /\ tries \in 0..(MaxRetries - 1)
    /\ authorized \in BOOLEAN
    /\ params \in {"Centralized", "Distributed"}
    /\ link \in Link
    /\ topology \in {"Centralized", "Distributed"}
    /\ tc \in [handedOut : TcKey \cup {NoKey}, verified : TcKey \cup {NoKey}]
    /\ air \subseteq Frame

\* A key the node holds for verified is the one the trust center verified
\* last, whatever was repeated, lost or answered late (zdo/mod.rs:585-639,
\* security/sap/service.rs:439-486).
VerifiedIsAgreed == link.attr = "Verified" => link.key = tc.verified

\* A node that considers itself on a centralized network shares a verified
\* key with its trust center: no attempt ends half-way (zdo/mod.rs:502-538).
JoinedIsVerified ==
    phase \in OnNetwork /\ topology = "Centralized" => link.attr = "Verified"

\* The state commissioning promises something about: of the link key, whether it
\* is held for verified, and of the phases, whether the network lets the node in.
Promise ==
    INSTANCE Membership WITH
        Key <- TcKey,
        standing <- IF phase \in OnNetwork THEN "Member"
                    ELSE IF authorized THEN "Admitted" ELSE "Out",
        held <- IF link.attr = "Verified" THEN link.key ELSE NoKey,
        agreed <- tc.verified

\* Commissioning implements Membership: a verified key stays the agreed one for
\* as long as the node is admitted, no step makes it a member without one on a
\* centralized network, and every way out forgets the network key and the link
\* key together (zdo/mod.rs:452-640, security/sap/service.rs:439-486).
ImplementsMembership == Promise!Spec

\* However often it fails or is told to leave, the node gets onto a network
\* that works again and again (zdo/mod.rs:165-205, 361-448).
EventuallyJoined == []<>(phase = "Joined")
=============================================================================
