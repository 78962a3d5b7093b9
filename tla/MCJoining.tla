------------------------------- MODULE MCJoining -------------------------------
(***************************************************************************)
(* Model-checking instance of Joining: two networks on two channels, one   *)
(* of them with two parents at the same cost.                              *)
(***************************************************************************)
EXTENDS Joining

CONSTANTS p1, p2, p3, n1, n2, a2

MCNetOf == [p \in Parent |-> IF p = p3 THEN n2 ELSE n1]
MCChannelOf == [n \in Net |-> IF n = n1 THEN 1 ELSE 2]
MCBeacon == [p \in Parent |->
    CASE p = p1 -> [permit |-> TRUE, room |-> TRUE, cost |-> 1]
      [] p = p2 -> [permit |-> TRUE, room |-> TRUE, cost |-> 1]
      [] p = p3 -> [permit |-> TRUE, room |-> TRUE, cost |-> 3]]
MCNetId == [n \in Net |-> IF n = n1 THEN p2 ELSE p3]
MCOverheard == {[kind |-> "beacon", from |-> p1],
                [kind |-> "answer", from |-> p1, addr |-> a2]}
=============================================================================
