------------------------------- MODULE MCRouting -------------------------------
(***************************************************************************)
(* Model-checking instance of Routing: two routers, one of another make    *)
(* and an end device.                                                      *)
(***************************************************************************)
EXTENDS Routing

CONSTANTS r1, r2, f, e

\* The routers know each other, but the cost of the link to r2 may be unknown;
\* the one of another make is in no table.
MCKnown == [n \in Routers \cup Foreign |->
              CASE n = r1 -> {"router"} [] n = r2 -> {"router", "silent"} [] n = f -> {"none"}]

\* Frames to what is out of reach, from all kinds of nodes, a ZCL frame with
\* radius 0, and a broadcast.
MCTraffic == {<<r1, f, 2>>, <<e, f, 0>>, <<f, e, 2>>, <<r1, Everyone, 2>>, <<e, Everyone, 1>>}
=============================================================================
