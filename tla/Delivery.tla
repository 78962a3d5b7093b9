-------------------------------- MODULE Delivery --------------------------------
(***************************************************************************)
(* What routing promises of a frame for one node, whatever the routes do:  *)
(* it is in one place at a time, every router that passes it on takes from *)
(* it one of the hops it has left, and in the end it is delivered, to its  *)
(* addressee and once, or lost.                                            *)
(***************************************************************************)
EXTENDS Naturals

CONSTANTS
    Frame,  \* frames for one node, with a number and a destination
    Node,
    MaxHops \* the hops that a frame may have left

VARIABLES
    way,        \* frames on their way: what, where to, the hops that are left
    delivered,  \* frames that were delivered, with the node
    issued      \* the number given out last

vars == <<way, delivered, issued>>

Init ==
    /\ way = {}
    /\ delivered = {}
    /\ issued = 0

\* A number is given out once, be it to a frame that goes nowhere.
Send ==
    /\ issued' = issued + 1
    /\ \/ UNCHANGED way
       \/ \E f \in Frame, n \in Node, hops \in 1..MaxHops :
            /\ f.id = issued'
            /\ way' = way \cup {[frame |-> f, at |-> n, hops |-> hops]}
    /\ UNCHANGED delivered

\* A node that a frame is not for passes it on.
Forward(p) ==
    /\ p.at # p.frame.dst
    /\ p.hops > 1
    /\ \E n \in Node : way' = (way \ {p}) \cup {[frame |-> p.frame, at |-> n, hops |-> p.hops - 1]}
    /\ UNCHANGED <<delivered, issued>>

Deliver(p) ==
    /\ p.at = p.frame.dst
    /\ \A n \in Node : <<p.frame, n>> \notin delivered
    /\ way' = way \ {p}
    /\ delivered' = delivered \cup {<<p.frame, p.at>>}
    /\ UNCHANGED issued

Lose(p) ==
    /\ way' = way \ {p}
    /\ UNCHANGED <<delivered, issued>>

Next == Send \/ \E p \in way : Forward(p) \/ Deliver(p) \/ Lose(p)

Spec == Init /\ [][Next]_vars
=============================================================================
