----------------------------- MODULE MCLinkStatus -----------------------------
(***************************************************************************)
(* Model-checking instance of LinkStatus: tables of up to MaxLinks entries,*)
(* which share an address now and then, with two costs for the receiver.   *)
(***************************************************************************)
EXTENDS LinkStatus

CONSTANT MaxLinks

\* The links of other neighbors all have cost 1: nothing looks at them.
MCLink == {link \in Link : link.cost \in (IF link.addr = Receiver THEN {1, 2} ELSE {1})}

MCTables ==
    UNION {{s \in [1..n -> MCLink] : Sorted(s)} : n \in 0..MaxLinks}
=============================================================================
