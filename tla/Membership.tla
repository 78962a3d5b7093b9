------------------------------- MODULE Membership -------------------------------
(***************************************************************************)
(* What commissioning promises, without its frames, retries and timeouts:  *)
(* a node is out, admitted (it has the network key) or a member, and on a  *)
(* centralized network it becomes a member only with a link key that the   *)
(* trust center verified, and that stays the verified one until it is out. *)
(***************************************************************************)
CONSTANTS
    Key,    \* link keys the trust center hands out
    NoKey   \* no key

VARIABLES
    standing,   \* how far the node is
    topology,   \* the kind of network around
    held,       \* the key the node holds for verified
    agreed      \* the key the trust center verified last

vars == <<standing, topology, held, agreed>>

Init ==
    /\ standing = "Out"
    /\ topology \in {"Centralized", "Distributed"}
    /\ held = NoKey
    /\ agreed = NoKey

\* The node gets the network key.
Admit ==
    /\ standing = "Out"
    /\ standing' = "Admitted"
    /\ UNCHANGED <<topology, held, agreed>>

\* The trust center verifies a key; never another than one the node relies on.
Agree ==
    /\ agreed' \in Key
    /\ held \in {NoKey, agreed'}
    /\ UNCHANGED <<standing, topology, held>>

\* The node learns of it.
Hold ==
    /\ standing = "Admitted"
    /\ topology = "Centralized"
    /\ agreed # NoKey
    /\ held' = agreed
    /\ UNCHANGED <<standing, topology, agreed>>

Enter ==
    /\ standing = "Admitted"
    /\ topology = "Centralized" => held # NoKey
    /\ standing' = "Member"
    /\ UNCHANGED <<topology, held, agreed>>

\* Whatever ends it, nothing of this membership is left in the next one.
Quit ==
    /\ standing # "Out"
    /\ standing' = "Out"
    /\ held' = NoKey
    /\ UNCHANGED <<topology, agreed>>

Next == Admit \/ Agree \/ Hold \/ Enter \/ Quit

Spec == Init /\ [][Next]_vars
=============================================================================
